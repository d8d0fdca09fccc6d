------------------------ MODULE ConstructionControl ------------------------
(***************************************************************************)
(* Construction control of one quantity portion (service.ts): the facts RP *)
(* records for it, the inspections of both kinds it is presented to, their *)
(* issues, photos and decisions.  Every command is a transaction: it locks *)
(* one row, decides on what it reads, and writes and commits.  Commands of *)
(* one inspection and commands of the portion hold different locks.        *)
(***************************************************************************)
EXTENDS Integers, Sequences, FiniteSets

CONSTANTS
  Attempts,        \* server processes handling a request
  Types,           \* kinds of inspection that clients request
  Quantities,      \* quantities clients send, in tenths of the stored grain
  Planned,         \* planned quantity of the portion, in stored grains
  MaxInspections,  \* bound: inspections ever requested
  MaxIssues,       \* bound: issues ever opened
  MaxRequests      \* bound: commands clients send altogether

AllTypes == {"INTERNAL_SC", "CUSTOMER_SC"}

\* What the constants satisfy.
ControlAssumption ==
  /\ Types \subseteq AllTypes
  /\ Quantities \subseteq Nat
  /\ Planned \in Nat \ {0}
  /\ MaxInspections \in Nat
  /\ MaxIssues \in Nat
  /\ MaxRequests \in Nat

\* NUMERIC(20,4) keeps four decimals and rounds ties away from zero.
Stored(quantity) == (quantity + 5) \div 10

VARIABLES
  version,        \* version of the portion's row
  facts,          \* RP_FACT confirmations in the order of their commits
  inspections,    \* inspections of the portion, by id
  issues,         \* issues of all inspections, by id
  confirmations,  \* confirmations by inspections, in the order of commits
  attempts,       \* [Attempts -> Attempt]
  requests        \* commands sent so far; it dates the transactions too

vars == <<version, facts, inspections, issues, confirmations, attempts, requests>>

Active == {"WAITING", "ISSUES_FOUND", "REINSPECTION"}
Decisions == {"ACCEPTED", "REJECTED"}

\* decision outlives status: issueAction writes only the status.
Inspection ==
  [type : AllTypes, status : Active \cup Decisions, decision : Decisions \cup {"NONE"},
   photos : Nat, version : Nat]
Issue ==
  [inspection : 1..MaxInspections, status : {"OPEN", "READY_FOR_VERIFICATION", "CLOSED"},
   version : Nat]

PortionCommands == {"fact", "request"}
InspectionCommands == {"addIssue", "photo", "accept", "reject"}
IssueCommands == {"resolve", "verify"}

\* id: the inspection or issue addressed, PORTION for the portion.  version:
\* what the client saw of that row.  quantity and type: only where asked for.
PORTION == 0
Command ==
  [kind : PortionCommands \cup InspectionCommands \cup IssueCommands,
   id : Nat, version : Nat, quantity : Quantities \cup {0}, type : AllTypes \cup {"none"}]
NewCommand(kind, id, v, quantity, type) ==
  [kind |-> kind, id |-> id, version |-> v, quantity |-> quantity, type |-> type]
Idle == [phase |-> "idle"]
\* checked: the row is locked and every condition was read and found true.
Attempt == [phase : {"begun", "checked"}, cmd : Command, at : 1..MaxRequests] \cup {Idle}

In(t, phase) == attempts[t].phase = phase
Cmd(t) == attempts[t].cmd

\* The row a command locks FOR UPDATE: the portion or one inspection, by id.
LockedRow(cmd) ==
  IF cmd.kind \in PortionCommands THEN PORTION
  ELSE IF cmd.kind \in IssueCommands THEN issues[cmd.id].inspection
  ELSE cmd.id
Holds(t, row) == In(t, "checked") /\ LockedRow(Cmd(t)) = row

\* Mutated form: rows are read without FOR UPDATE.
NobodyWaits(t, row) == TRUE
IsFree(t, row) == \A u \in Attempts \ {t} : ~Holds(u, row)

\* DISTINCT ON ... ORDER BY created_at DESC: created_at is the start of the
\* transaction, which is not the order in which transactions commit.
IsLatest(f) == \A g \in DOMAIN facts : facts[g].at <= facts[f].at
LatestCovers(quantity) ==
  \E f \in DOMAIN facts : IsLatest(f) /\ facts[f].quantity >= quantity

Init ==
  /\ version = 1
  /\ facts = <<>>
  /\ inspections = <<>>
  /\ issues = <<>>
  /\ confirmations = <<>>
  /\ attempts = [t \in Attempts |-> Idle]
  /\ requests = 0

-----------------------------------------------------------------------------
\* Commands as a client can send them: the version is the one it just read.
PortionRequests ==
  {NewCommand("fact", PORTION, version, q, "none") : q \in Quantities}
    \cup {NewCommand("request", PORTION, version, 0, type) : type \in Types}
InspectionRequests ==
  {NewCommand(kind, i, inspections[i].version, 0, "none") :
     kind \in InspectionCommands \ {"accept"}, i \in DOMAIN inspections}
    \cup {NewCommand("accept", i, inspections[i].version, q, "none") :
            i \in DOMAIN inspections, q \in Quantities}
IssueRequests ==
  {NewCommand(kind, x, issues[x].version, 0, "none") :
     kind \in IssueCommands, x \in DOMAIN issues}

Request(t, cmd) ==
  /\ In(t, "idle")
  /\ requests < MaxRequests
  /\ attempts' = [attempts EXCEPT ![t] = [phase |-> "begun", cmd |-> cmd, at |-> requests + 1]]
  /\ requests' = requests + 1
  /\ UNCHANGED <<version, facts, inspections, issues, confirmations>>

\* Mutated form: the inspections of the other kind are forgotten.
FactAllowedByCustomer(cmd) ==
  /\ cmd.version = version
  /\ \A i \in DOMAIN inspections :
       inspections[i].type = "CUSTOMER_SC" => inspections[i].status = "REJECTED"

\* A fact is frozen by an inspection of either kind that is not rejected.
FactAllowed(cmd) ==
  /\ cmd.version = version
  /\ \A i \in DOMAIN inspections : inspections[i].status = "REJECTED"

RequestAllowed(cmd) ==
  /\ cmd.version = version
  /\ LatestCovers(Planned)
  /\ \A i \in DOMAIN inspections :
       inspections[i].type = cmd.type => inspections[i].status = "REJECTED"

IssueAllowed(cmd) ==
  /\ cmd.version = inspections[cmd.id].version
  /\ inspections[cmd.id].status \in Active

\* A photo of a rejected inspection is still taken; it has no version.
PhotoAllowed(cmd) == inspections[cmd.id].status # "ACCEPTED"

IssuesClosed(i) ==
  \A x \in DOMAIN issues : issues[x].inspection = i => issues[x].status = "CLOSED"

PositiveAsStored(type, quantity) == type = "CUSTOMER_SC" => Stored(quantity) > 0

DecisionAllowed(cmd) ==
  /\ cmd.version = inspections[cmd.id].version
  /\ inspections[cmd.id].status \in Active
  /\ cmd.kind = "accept" =>
       /\ IssuesClosed(cmd.id)
       /\ inspections[cmd.id].photos > 0
       /\ PositiveAsStored(inspections[cmd.id].type, cmd.quantity)

\* The inspection's status is not asked for, only the issue's.
IssueActionAllowed(cmd) ==
  /\ cmd.version = issues[cmd.id].version
  /\ issues[cmd.id].status = IF cmd.kind = "resolve" THEN "OPEN" ELSE "READY_FOR_VERIFICATION"

Allowed(cmd) ==
  CASE cmd.kind = "fact" -> FactAllowed(cmd)
    [] cmd.kind = "request" -> RequestAllowed(cmd)
    [] cmd.kind = "addIssue" -> IssueAllowed(cmd)
    [] cmd.kind = "photo" -> PhotoAllowed(cmd)
    [] cmd.kind \in {"accept", "reject"} -> DecisionAllowed(cmd)
    [] cmd.kind \in IssueCommands -> IssueActionAllowed(cmd)

\* The row is locked, and what is decided on is read under that lock only.
LockAndCheck(t) ==
  /\ In(t, "begun")
  /\ IsFree(t, LockedRow(Cmd(t)))
  /\ Allowed(Cmd(t))
  /\ attempts' = [attempts EXCEPT ![t].phase = "checked"]
  /\ UNCHANGED <<version, facts, inspections, issues, confirmations, requests>>

Refuse(t) ==
  /\ In(t, "begun")
  /\ IsFree(t, LockedRow(Cmd(t)))
  /\ ~Allowed(Cmd(t))
  /\ attempts' = [attempts EXCEPT ![t] = Idle]
  /\ UNCHANGED <<version, facts, inspections, issues, confirmations, requests>>

\* The process or its connection ends, or PostgreSQL aborts the transaction.
Abort(t) ==
  /\ ~In(t, "idle")
  /\ attempts' = [attempts EXCEPT ![t] = Idle]
  /\ UNCHANGED <<version, facts, inspections, issues, confirmations, requests>>

-----------------------------------------------------------------------------
Committing(t, kind) ==
  /\ In(t, "checked")
  /\ Cmd(t).kind = kind
  /\ attempts' = [attempts EXCEPT ![t] = Idle]
  /\ requests' = requests

RecordFact(t) ==
  /\ Committing(t, "fact")
  /\ facts' = Append(facts, [quantity |-> Stored(Cmd(t).quantity), at |-> attempts[t].at])
  /\ version' = version + 1
  /\ UNCHANGED <<inspections, issues, confirmations>>

\* portion_inspection_active: one active inspection of a kind.
OtherActive(type, i) ==
  \E j \in DOMAIN inspections \ {i} :
    inspections[j].type = type /\ inspections[j].status \in Active

RequestInspection(t) ==
  /\ Committing(t, "request")
  /\ Len(inspections) < MaxInspections
  /\ ~OtherActive(Cmd(t).type, 0)
  /\ inspections' = Append(inspections,
       [type |-> Cmd(t).type, status |-> "WAITING", decision |-> "NONE", photos |-> 0,
        version |-> 1])
  /\ version' = version + 1
  /\ UNCHANGED <<facts, issues, confirmations>>

\* The unique index refuses what the handlers' own checks let through.
RefusedByIndex(t) ==
  /\ In(t, "checked")
  /\ \/ Cmd(t).kind = "request" /\ OtherActive(Cmd(t).type, 0)
     \/ /\ Cmd(t).kind \in IssueCommands
        /\ LET i == issues[Cmd(t).id].inspection IN OtherActive(inspections[i].type, i)
  /\ attempts' = [attempts EXCEPT ![t] = Idle]
  /\ UNCHANGED <<version, facts, inspections, issues, confirmations, requests>>

AddIssue(t) ==
  /\ Committing(t, "addIssue")
  /\ Len(issues) < MaxIssues
  /\ issues' = Append(issues, [inspection |-> Cmd(t).id, status |-> "OPEN", version |-> 1])
  /\ inspections' = [inspections EXCEPT
       ![Cmd(t).id].status = "ISSUES_FOUND", ![Cmd(t).id].version = @ + 1]
  /\ UNCHANGED <<version, facts, confirmations>>

AddPhoto(t) ==
  /\ Committing(t, "photo")
  /\ inspections' = [inspections EXCEPT ![Cmd(t).id].photos = 1]
  /\ UNCHANGED <<version, facts, issues, confirmations>>

\* Resolving or verifying an issue puts its inspection back to REINSPECTION,
\* whatever was decided about it; the index may refuse that.
ActOnIssue(t, kind, status) ==
  /\ Committing(t, kind)
  /\ LET i == issues[Cmd(t).id].inspection
     IN  /\ ~OtherActive(inspections[i].type, i)
         /\ inspections' = [inspections EXCEPT ![i].status = "REINSPECTION", ![i].version = @ + 1]
  /\ issues' = [issues EXCEPT ![Cmd(t).id].status = status, ![Cmd(t).id].version = @ + 1]
  /\ UNCHANGED <<version, facts, confirmations>>

Decided(t, decision) ==
  inspections' = [inspections EXCEPT
    ![Cmd(t).id].status = decision, ![Cmd(t).id].decision = decision, ![Cmd(t).id].version = @ + 1]

\* The confirmation references the portion, and so waits for its lock.
Accept(t) ==
  /\ Committing(t, "accept")
  /\ IsFree(t, PORTION)
  /\ Decided(t, "ACCEPTED")
  /\ confirmations' = Append(confirmations,
       [inspection |-> Cmd(t).id, type |-> inspections[Cmd(t).id].type,
        quantity |-> Stored(Cmd(t).quantity)])
  /\ UNCHANGED <<version, facts, issues>>

Reject(t) ==
  /\ Committing(t, "reject")
  /\ Decided(t, "REJECTED")
  /\ UNCHANGED <<version, facts, issues, confirmations>>

Next ==
  \E t \in Attempts :
    \/ \E cmd \in PortionRequests \cup InspectionRequests \cup IssueRequests : Request(t, cmd)
    \/ LockAndCheck(t)
    \/ Refuse(t)
    \/ Abort(t)
    \/ RecordFact(t)
    \/ RequestInspection(t)
    \/ RefusedByIndex(t)
    \/ AddIssue(t)
    \/ AddPhoto(t)
    \/ ActOnIssue(t, "resolve", "READY_FOR_VERIFICATION")
    \/ ActOnIssue(t, "verify", "CLOSED")
    \/ Accept(t)
    \/ Reject(t)

Spec == Init /\ [][Next]_vars

-----------------------------------------------------------------------------
Accepted(i) == i \in DOMAIN inspections /\ inspections[i].status = "ACCEPTED"
IssuesOf(i) == {<<x, issues[x]>> : x \in {y \in DOMAIN issues : issues[y].inspection = i}}

\* Every variable keeps its shape: a portion's row, two kinds of inspection;
\* issues and confirmations refer to inspections that exist.
TypeOK ==
  /\ version \in Nat
  /\ facts \in Seq([quantity : Nat, at : 1..MaxRequests])
  /\ inspections \in Seq(Inspection)
  /\ issues \in Seq(Issue)
  /\ \A x \in DOMAIN issues : issues[x].inspection \in DOMAIN inspections
  /\ confirmations \in Seq([inspection : Nat, type : AllTypes, quantity : Nat])
  /\ \A c \in DOMAIN confirmations : confirmations[c].inspection \in DOMAIN inspections
  /\ attempts \in [Attempts -> Attempt]
  /\ requests \in 0..MaxRequests

\* The latest fact by date of transaction, which every guard and reader uses,
\* is the one committed last (service.ts:313-334, fact-resolver.ts).
LatestFactIsLast == facts # <<>> => IsLatest(Len(facts))

\* An inspection that nobody has decided yet covers the planned quantity of
\* the portion (docs/business-rules.md, rule 6; service.ts:350-354).
PresentedInFull ==
  \A i \in DOMAIN inspections : inspections[i].decision = "NONE" => LatestCovers(Planned)

\* An accepted inspection has exactly one confirmation, of its own kind and,
\* for the customer's, above zero; no other has any (service.ts:121-160).
AcceptedIsConfirmedOnce ==
  \A i \in DOMAIN inspections :
    LET own == {c \in DOMAIN confirmations : confirmations[c].inspection = i}
    IN  /\ Accepted(i) => Cardinality(own) = 1
        /\ ~Accepted(i) => own = {}
        /\ \A c \in own :
             /\ confirmations[c].type = inspections[i].type
             /\ confirmations[c].type = "CUSTOMER_SC" => confirmations[c].quantity > 0

\* What holds of a portion's inspections at every moment: the four above.
InspectionsAreSound ==
  TypeOK /\ LatestFactIsLast /\ PresentedInFull /\ AcceptedIsConfirmedOnce

\* Once accepted, an inspection and its issues never change again, although
\* five other commands write to them (service.ts:116-160).
AcceptedIsFinal ==
  \A i \in DOMAIN inspections : Accepted(i) =>
     /\ inspections'[i] = inspections[i]
     /\ IssuesOf(i)' = IssuesOf(i)

\* A fact is recorded only when every inspection of the portion has been
\* rejected at least once (service.ts:292-334).
FactWaitsForDecisions ==
  facts' # facts => \A i \in DOMAIN inspections : inspections[i].decision = "REJECTED"

\* A fresh request finds only rejected inspections of its kind at the moment
\* it commits (service.ts:339-341).
FreshRequestsFollowRejections ==
  Len(inspections') > Len(inspections) =>
     \A i \in DOMAIN inspections :
       inspections[i].type = inspections'[Len(inspections')].type
         => inspections[i].status = "REJECTED"

\* What no command may undo: the three above.
ThePastStands ==
  [][AcceptedIsFinal /\ FactWaitsForDecisions /\ FreshRequestsFollowRejections]_vars

\* An inspection that can still be accepted covers the planned quantity: rule 6
\* of docs/business-rules.md, which the code does not keep.
LiveInspectionIsInFull ==
  \A i \in DOMAIN inspections : inspections[i].status \in Active => LatestCovers(Planned)
=============================================================================
