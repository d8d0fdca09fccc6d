-------------------------- MODULE ExecutiveClosing --------------------------
(***************************************************************************)
(* The legacy route from documents to money (service.ts): executive        *)
(* packages of a work, their documents, the transfer to SDO, the SDO case  *)
(* and its financial closings.  Every command locks one package, document  *)
(* or case; what it reads of other rows it reads without a lock.  Here     *)
(* every work needs an inspection and materials, and a closing is sent     *)
(* with the period of its date.                                            *)
(***************************************************************************)
EXTENDS Integers, Sequences, Totals

CONSTANTS
  Attempts,     \* server processes handling a request
  Packages,     \* executive packages
  WorkOf,       \* [Packages -> work]
  ObjectOf,     \* [Packages -> object of the work]
  Files,        \* attachments of the tenant
  Keys,         \* idempotency keys of closings
  MaxDocuments, \* bound: documents of one package
  MaxValue,     \* bound: value of a case
  MaxRequests,  \* bound: commands clients send altogether
  None          \* no case, no file

VARIABLES
  packages,  \* [Packages -> Package]
  accepted,  \* set of works with an accepted inspection
  materials, \* set of works whose materials have valid documents
  cases,     \* [Packages -> Case or None]
  closings,  \* set of [key, package, amount]
  attempts,  \* [Attempts -> Attempt]
  requests   \* commands sent so far

vars == <<packages, accepted, materials, cases, closings, attempts, requests>>

Works == {WorkOf[p] : p \in Packages}
Document ==
  [type : {"AOSR", "OTHER"}, file : Files \cup {None}, approved : BOOLEAN, version : Nat]
Package ==
  [status : {"DRAFT", "IN_PROGRESS", "READY", "TRANSFERRED_TO_SDO"}, version : Nat,
   documents : Seq(Document)]
Case ==
  [status : {"TRANSFERRED", "CALCULATED", "READY_TO_CLOSE", "CLOSED"}, value : 0..MaxValue,
   version : Nat]
Closing == [key : Keys, package : Packages, amount : 1..MaxValue]
Command ==
  [kind : {"document"}, package : Packages, type : {"AOSR", "OTHER"}, file : Files \cup {None}]
    \cup [kind : {"approve"}, package : Packages, document : Nat, version : Nat]
    \cup [kind : {"ready", "transfer"}, package : Packages, version : Nat]
    \cup [kind : {"calculate"}, package : Packages, value : 0..MaxValue, version : Nat]
    \cup [kind : {"close"}, package : Packages, key : Keys, amount : 1..MaxValue, version : Nat]

\* What the constants satisfy.
ExecutiveAssumption ==
  /\ DOMAIN WorkOf = Packages /\ DOMAIN ObjectOf = Packages
  /\ \A p, q \in Packages : WorkOf[p] = WorkOf[q] => ObjectOf[p] = ObjectOf[q]
  /\ None \notin Files /\ None \notin Case
  /\ MaxDocuments \in Nat /\ MaxValue \in Nat /\ MaxRequests \in Nat

Idle == [phase |-> "idle"]
In(t, phase) == attempts[t].phase = phase
Cmd(t) == attempts[t].cmd

Init ==
  /\ packages = [p \in Packages |-> [status |-> "DRAFT", version |-> 1, documents |-> <<>>]]
  /\ accepted = {} /\ materials \in SUBSET Works
  /\ cases = [p \in Packages |-> None]
  /\ closings = {}
  /\ attempts = [t \in Attempts |-> Idle]
  /\ requests = 0

-----------------------------------------------------------------------------
\* Requests, each with the version its sender has seen.
NewCommand ==
  UNION {
    {[kind |-> "document", package |-> p, type |-> type, file |-> f] :
       p \in {q \in Packages : Len(packages[q].documents) < MaxDocuments},
       type \in {"AOSR", "OTHER"}, f \in Files \cup {None}},
    UNION {{[kind |-> "approve", package |-> p, document |-> d,
             version |-> packages[p].documents[d].version] :
              d \in DOMAIN packages[p].documents} : p \in Packages},
    {[kind |-> kind, package |-> p, version |-> packages[p].version] :
       kind \in {"ready", "transfer"}, p \in Packages},
    {[kind |-> "calculate", package |-> p, value |-> v, version |-> cases[p].version] :
       p \in {q \in Packages : cases[q] # None}, v \in 0..MaxValue},
    {[kind |-> "close", package |-> p, key |-> k, amount |-> a, version |-> cases[p].version] :
       p \in {q \in Packages : cases[q] # None}, k \in Keys, a \in 1..MaxValue}}

\* Rows locked FOR UPDATE until the end of the transaction.
\* Mutated form: the attachment is read without a lock.
RowsWithoutFile(cmd) ==
  CASE cmd.kind \in {"document", "ready", "transfer"} -> {<<"package", cmd.package>>}
    [] cmd.kind = "approve" -> {<<"document", cmd.package, cmd.document>>}
    [] cmd.kind \in {"calculate", "close"} -> {<<"case", cmd.package>>}
Rows(cmd) ==
  CASE cmd.kind = "document" -> {<<"package", cmd.package>>, <<"file", cmd.file>>} \ {<<"file", None>>}
    [] cmd.kind \in {"ready", "transfer"} -> {<<"package", cmd.package>>}
    [] cmd.kind = "approve" -> {<<"document", cmd.package, cmd.document>>}
    [] cmd.kind \in {"calculate", "close"} -> {<<"case", cmd.package>>}
RowsAreFree(t) ==
  \A u \in Attempts \ {t} : In(u, "checked") => Rows(Cmd(t)) \cap Rows(Cmd(u)) = {}

-----------------------------------------------------------------------------
\* ensureAttachmentObjectScope: the first use decides the object of a file.
UsedInPackage(f, p) == \E d \in DOMAIN packages[p].documents : packages[p].documents[d].file = f
FileIsOfObject(f, p) ==
  f # None => \A q \in Packages : UsedInPackage(f, q) => ObjectOf[q] = ObjectOf[p]

\* PtoPackageValidationService over what packageValidation reads.
HasAosr(p) == \E d \in DOMAIN packages[p].documents : packages[p].documents[d].type = "AOSR"
AllApproved(p) == \A d \in DOMAIN packages[p].documents : packages[p].documents[d].approved
Valid(p) ==
  /\ WorkOf[p] \in accepted
  /\ AllApproved(p) /\ HasAosr(p)
  /\ WorkOf[p] \in materials

\* packageAction: a transferred package is never validated again.
ActionAllowed(cmd) ==
  LET p == cmd.package IN
    /\ packages[p].version = cmd.version /\ packages[p].status # "TRANSFERRED_TO_SDO"
    /\ Valid(p)
    /\ cmd.kind = "transfer" =>
         /\ packages[p].status = "READY"
         /\ \A q \in Packages : WorkOf[q] = WorkOf[p] => cases[q] = None

CalculationAllowed(cmd) ==
  /\ cases[cmd.package].version = cmd.version
  /\ cases[cmd.package].status \in {"TRANSFERRED", "CALCULATED"}

ClosingsOf(p) == {c \in closings : c.package = p}
Sum(p) == SumOver([c \in closings |-> c.amount], ClosingsOf(p))

\* The key is looked up before the version: a retry is answered, not refused.
Known(key) == \E c \in closings : c.key = key
Replays(cmd) ==
  \E c \in closings : c = [key |-> cmd.key, package |-> cmd.package, amount |-> cmd.amount]
CloseAllowed(cmd) ==
  /\ ~Known(cmd.key)
  /\ cases[cmd.package].version = cmd.version
  /\ cases[cmd.package].status \in {"CALCULATED", "READY_TO_CLOSE"}
  /\ Sum(cmd.package) + cmd.amount <= cases[cmd.package].value

Approvable(doc, version) == doc.version = version /\ ~doc.approved /\ doc.file # None

Allowed(cmd) ==
  CASE cmd.kind = "document" ->
         packages[cmd.package].status # "TRANSFERRED_TO_SDO" /\ FileIsOfObject(cmd.file, cmd.package)
    [] cmd.kind = "approve" ->
         Approvable(packages[cmd.package].documents[cmd.document], cmd.version)
    [] cmd.kind \in {"ready", "transfer"} -> ActionAllowed(cmd)
    [] cmd.kind = "calculate" -> CalculationAllowed(cmd)
    [] cmd.kind = "close" -> Replays(cmd) \/ CloseAllowed(cmd)

-----------------------------------------------------------------------------
Begin(t) ==
  /\ In(t, "idle") /\ requests < MaxRequests
  /\ \E cmd \in NewCommand : attempts' = [attempts EXCEPT ![t] = [phase |-> "begun", cmd |-> cmd]]
  /\ requests' = requests + 1
  /\ UNCHANGED <<packages, accepted, materials, cases, closings>>

LockAndCheck(t) ==
  /\ In(t, "begun") /\ RowsAreFree(t) /\ Allowed(Cmd(t))
  /\ attempts' = [attempts EXCEPT ![t].phase = "checked"]
  /\ UNCHANGED <<packages, accepted, materials, cases, closings, requests>>

\* A failed guard, a unique index, a crash: the transaction leaves nothing.
Refuse(t) ==
  /\ ~In(t, "idle")
  /\ attempts' = [attempts EXCEPT ![t] = Idle]
  /\ UNCHANGED <<packages, accepted, materials, cases, closings, requests>>

Committing(t, kinds) ==
  /\ In(t, "checked") /\ Cmd(t).kind \in kinds
  /\ attempts' = [attempts EXCEPT ![t] = Idle]
  /\ UNCHANGED <<accepted, materials, requests>>

\* A new document reopens a READY package.
AddDocument(p, doc) ==
  packages' = [packages EXCEPT ![p].documents = Append(@, doc), ![p].version = @ + 1,
                               ![p].status = "IN_PROGRESS"]

CreateDocument(t) ==
  /\ Committing(t, {"document"})
  /\ AddDocument(Cmd(t).package,
       [type |-> Cmd(t).type, file |-> Cmd(t).file, approved |-> FALSE, version |-> 1])
  /\ UNCHANGED <<cases, closings>>

Approved(doc) ==
  [type |-> doc.type, file |-> doc.file, approved |-> TRUE, version |-> doc.version + 1]
ApproveDocument(t) ==
  /\ Committing(t, {"approve"})
  /\ LET cmd == Cmd(t) IN
       packages' = [packages EXCEPT ![cmd.package].documents[cmd.document] = Approved(@)]
  /\ UNCHANGED <<cases, closings>>

MarkReady(t) ==
  /\ Committing(t, {"ready"})
  /\ packages' = [packages EXCEPT ![Cmd(t).package].status = "READY",
                                  ![Cmd(t).package].version = @ + 1]
  /\ UNCHANGED <<cases, closings>>

\* sdo_one_per_work.
CaseIsNew(p) == \A q \in Packages : WorkOf[q] = WorkOf[p] => cases[q] = None

Transfer(t) ==
  /\ Committing(t, {"transfer"})
  /\ LET p == Cmd(t).package IN
       /\ CaseIsNew(p)
       /\ cases' = [cases EXCEPT ![p] = [status |-> "TRANSFERRED", value |-> 0, version |-> 1]]
       /\ packages' = [packages EXCEPT ![p].status = "TRANSFERRED_TO_SDO", ![p].version = @ + 1]
  /\ UNCHANGED closings

CalculateSdo(t) ==
  /\ Committing(t, {"calculate"})
  /\ cases' = [cases EXCEPT ![Cmd(t).package] =
       [status |-> "CALCULATED", value |-> Cmd(t).value, version |-> @.version + 1]]
  /\ UNCHANGED <<packages, closings>>

Replay(t) ==
  /\ Committing(t, {"close"})
  /\ Replays(Cmd(t))
  /\ UNCHANGED <<packages, cases, closings>>

StatusAfter(p, sum) == IF sum = cases[p].value THEN "CLOSED" ELSE "READY_TO_CLOSE"

Close(t) ==
  /\ Committing(t, {"close"})
  /\ LET cmd == Cmd(t)
         p == cmd.package IN
       /\ ~Known(cmd.key)
       /\ closings' = closings \cup {[key |-> cmd.key, package |-> p, amount |-> cmd.amount]}
       /\ cases' = [cases EXCEPT ![p].status = StatusAfter(p, Sum(p) + cmd.amount),
                                 ![p].version = @ + 1]
  /\ UNCHANGED packages

\* Construction control accepts the work; its materials get or lose a valid
\* passport.
AcceptWork(w) ==
  /\ w \notin accepted
  /\ accepted' = accepted \cup {w}
  /\ UNCHANGED <<packages, materials, cases, closings, attempts, requests>>

ChangeMaterials(w) ==
  /\ materials' = IF w \in materials THEN materials \ {w} ELSE materials \cup {w}
  /\ UNCHANGED <<packages, accepted, cases, closings, attempts, requests>>

Next ==
  \/ \E t \in Attempts :
       \/ Begin(t) \/ LockAndCheck(t) \/ Refuse(t)
       \/ CreateDocument(t) \/ ApproveDocument(t) \/ MarkReady(t) \/ Transfer(t)
       \/ CalculateSdo(t) \/ Replay(t) \/ Close(t)
  \/ \E w \in Works : AcceptWork(w) \/ ChangeMaterials(w)

Spec == Init /\ [][Next]_vars

-----------------------------------------------------------------------------
\* Every row holds values of its type, and so does what a server process has
\* in hand.
TypeOK ==
  /\ packages \in [Packages -> Package]
  /\ cases \in [Packages -> Case \cup {None}]
  /\ closings \subseteq Closing
  /\ accepted \subseteq Works /\ materials \subseteq Works
  /\ attempts \in [Attempts -> {Idle} \cup [phase : {"begun", "checked"}, cmd : Command]]
  /\ requests \in Nat

\* A package that is READY or transferred holds an AOSR and approved documents
\* only: no document slips in between the check and the transfer.
SettledPackagesAreApproved ==
  \A p \in Packages : packages[p].status \in {"READY", "TRANSFERRED_TO_SDO"} =>
    HasAosr(p) /\ AllApproved(p)

\* A work goes to SDO once, from one of its packages, and exactly the
\* transferred packages have a case.
OneCasePerWork ==
  /\ \A p, q \in Packages : cases[p] # None /\ cases[q] # None /\ WorkOf[p] = WorkOf[q] => p = q
  /\ \A p \in Packages : cases[p] # None <=> packages[p].status = "TRANSFERRED_TO_SDO"

\* What is closed never exceeds the accepted value, which is fixed from the
\* first closing on, and the status of the case tells how much is closed.
StatusTellsTheClosings ==
  \A p \in Packages : cases[p] # None =>
    /\ Sum(p) <= cases[p].value
    /\ cases[p].status = "READY_TO_CLOSE" <=> Sum(p) \in 1..(cases[p].value - 1)
    /\ cases[p].status = "CLOSED" <=> Sum(p) > 0 /\ Sum(p) = cases[p].value

\* A file shown as evidence of one object is never evidence of another.
FilesStayInTheirObject ==
  \A p, q \in Packages, f \in Files :
    UsedInPackage(f, p) /\ UsedInPackage(f, q) => ObjectOf[p] = ObjectOf[q]

\* Together: what goes through the older route is documented, goes once and is
\* paid for once.
ClosingIsSound ==
  /\ TypeOK
  /\ SettledPackagesAreApproved
  /\ OneCasePerWork
  /\ StatusTellsTheClosings
  /\ FilesStayInTheirObject
=============================================================================
