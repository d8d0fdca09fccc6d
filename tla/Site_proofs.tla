----------------------------- MODULE Site_proofs -----------------------------
(***************************************************************************)
(* Construction control of a portion, and the sources of a work's figures, *)
(* for any number of processes and requests, any quantities and every      *)
(* bound: what a checked command still finds when it commits, although     *)
(* only one row is locked, and the properties of inspections, facts and    *)
(* figures this implies.  The theorems assume ControlAssumption, or        *)
(* Figures!FactAssumption, which say what the constants satisfy.           *)
(***************************************************************************)
EXTENDS Site, FiniteSetTheorems, SequenceTheorems, WellFoundedInduction, TLAPS

-----------------------------------------------------------------------------
(* The inductive invariant *)

Checked(t) == In(t, "checked")

\* What a command addresses exists.
Addressed(cmd) ==
  /\ cmd.kind \in InspectionCommands => cmd.id \in DOMAIN inspections
  /\ cmd.kind \in IssueCommands => cmd.id \in DOMAIN issues
  /\ cmd.kind = "request" => cmd.type \in AllTypes

Shape ==
  /\ TypeOK
  /\ Len(inspections) <= MaxInspections
  /\ \A t \in Attempts : ~In(t, "idle") => Addressed(Cmd(t))

\* The row locks keep checked commands of one row apart.
Exclusive ==
  \A t, u \in Attempts :
    t # u /\ Checked(t) /\ Checked(u) => LockedRow(Cmd(t)) # LockedRow(Cmd(u))

\* What still holds of a command's conditions until it commits.  A command of
\* the portion holds the portion's row alone: an issue may move an inspection
\* under it, but no inspection is accepted and none is forgotten.
VerifiedPortion(cmd) ==
  /\ cmd.kind \in PortionCommands => cmd.version = version
  /\ cmd.kind = "fact" => \A i \in DOMAIN inspections : inspections[i].decision = "REJECTED"
  /\ cmd.kind = "request" =>
       /\ LatestCovers(Planned)
       /\ \A i \in DOMAIN inspections :
            inspections[i].type = cmd.type => inspections[i].status # "ACCEPTED"

VerifiedRow(cmd) ==
  /\ cmd.kind \in {"addIssue", "accept", "reject"} => inspections[cmd.id].status \in Active
  /\ cmd.kind = "photo" => inspections[cmd.id].status # "ACCEPTED"
  /\ cmd.kind = "accept" =>
       IssuesClosed(cmd.id) /\ PositiveAsStored(inspections[cmd.id].type, cmd.quantity)
  /\ cmd.kind \in IssueCommands => issues[cmd.id].status # "CLOSED"

Verified ==
  \A t \in Attempts : Checked(t) => VerifiedPortion(Cmd(t)) /\ VerifiedRow(Cmd(t))

\* A command that saw the portion's current version began after every fact.
FactsInOrder ==
  /\ LatestFactIsLast
  /\ \A f \in DOMAIN facts : facts[f].at <= requests
  /\ \A t \in Attempts : ~In(t, "idle") =>
       /\ attempts[t].at <= requests
       /\ Cmd(t).kind \in PortionCommands =>
            /\ Cmd(t).version <= version
            /\ Cmd(t).version = version =>
                 \A f \in DOMAIN facts : facts[f].at < attempts[t].at

\* A decision outlives the status that came with it; an accepted inspection
\* has no open issue left.
DecisionsHold ==
  \A i \in DOMAIN inspections :
    /\ inspections[i].status = "REJECTED" => inspections[i].decision = "REJECTED"
    /\ inspections[i].status = "ACCEPTED" => IssuesClosed(i)

IInv ==
  /\ Shape
  /\ Exclusive
  /\ Verified
  /\ FactsInOrder
  /\ DecisionsHold
  /\ PresentedInFull
  /\ AcceptedIsConfirmedOnce

-----------------------------------------------------------------------------
(* Attempts and rows *)

LEMMA AttemptShape ==
  ASSUME TypeOK, NEW t \in Attempts
  PROVE  /\ attempts[t].phase \in {"begun", "checked", "idle"}
         /\ attempts[t].phase # "idle" =>
              attempts[t].cmd \in Command /\ attempts[t].at \in 1..MaxRequests
<1>1. attempts[t] \in Attempt
  BY DEF TypeOK
<1> QED
  BY <1>1 DEF Attempt, Idle

LEMMA StoredQuantity ==
  ASSUME ControlAssumption, NEW cmd \in Command
  PROVE  Stored(cmd.quantity) \in Nat
<1>1. cmd.quantity \in Quantities \cup {0}
  BY DEF Command
<1>2. Quantities \cup {0} \subseteq Nat
  BY DEF ControlAssumption
<1>3. \A q \in Nat : Stored(q) \in Nat
  BY DEF Stored
<1> QED
  BY <1>1, <1>2, <1>3

\* A step that ends attempt t.
LEMMA Ended ==
  ASSUME TypeOK, NEW t \in Attempts, attempts' = [attempts EXCEPT ![t] = Idle]
  PROVE  /\ attempts' \in [Attempts -> Attempt]
         /\ attempts'[t].phase = "idle"
         /\ \A u \in Attempts \ {t} : attempts'[u] = attempts[u]
BY DEF Attempt, TypeOK, Idle

LEMMA RowsAreSequences ==
  ASSUME TypeOK
  PROVE  /\ Len(inspections) \in Nat /\ DOMAIN inspections = 1..Len(inspections)
         /\ \A i \in DOMAIN inspections : inspections[i] \in Inspection
         /\ Len(issues) \in Nat /\ DOMAIN issues = 1..Len(issues)
         /\ \A x \in DOMAIN issues : issues[x] \in Issue
         /\ Len(confirmations) \in Nat /\ DOMAIN confirmations = 1..Len(confirmations)
         /\ Len(facts) \in Nat /\ DOMAIN facts = 1..Len(facts)
         /\ \A f \in DOMAIN facts : facts[f].quantity \in Nat /\ facts[f].at \in 1..MaxRequests
<1>1. Len(inspections) \in Nat /\ DOMAIN inspections = 1..Len(inspections)
  BY LenProperties DEF TypeOK
<1>2. \A i \in DOMAIN inspections : inspections[i] \in Inspection
  BY DEF TypeOK
<1>3. Len(issues) \in Nat /\ DOMAIN issues = 1..Len(issues)
  BY LenProperties DEF TypeOK
<1>4. \A x \in DOMAIN issues : issues[x] \in Issue
  BY DEF TypeOK
<1>5. Len(confirmations) \in Nat /\ DOMAIN confirmations = 1..Len(confirmations)
  BY LenProperties DEF TypeOK
<1>6. Len(facts) \in Nat /\ DOMAIN facts = 1..Len(facts)
  BY LenProperties DEF TypeOK
<1>7. \A f \in DOMAIN facts : facts[f] \in [quantity : Nat, at : 1..MaxRequests]
  <2> DEFINE Fact == [quantity : Nat, at : 1..MaxRequests]
  <2>1. facts \in Seq(Fact)
    BY DEF TypeOK
  <2> HIDE DEF Fact
  <2>2. \A f \in DOMAIN facts : facts[f] \in Fact
    BY <1>6, <2>1
  <2> QED
    BY <2>2 DEF Fact
<1> QED
  BY <1>1, <1>2, <1>3, <1>4, <1>5, <1>6, <1>7

LEMMA InspectionRewritten ==
  ASSUME TypeOK, NEW i \in DOMAIN inspections, NEW row \in Inspection,
         inspections' = [inspections EXCEPT ![i] = row]
  PROVE  /\ inspections' \in Seq(Inspection)
         /\ Len(inspections') = Len(inspections)
         /\ inspections'[i] = row
         /\ \A j \in DOMAIN inspections \ {i} : inspections'[j] = inspections[j]
BY RowsAreSequences, ExceptSeq DEF TypeOK

LEMMA IssueRewritten ==
  ASSUME TypeOK, NEW x \in DOMAIN issues, NEW row \in Issue,
         issues' = [issues EXCEPT ![x] = row]
  PROVE  /\ issues' \in Seq(Issue)
         /\ Len(issues') = Len(issues)
         /\ issues'[x] = row
         /\ \A y \in DOMAIN issues \ {x} : issues'[y] = issues[y]
BY RowsAreSequences, ExceptSeq DEF TypeOK

\* The row a command addresses exists; it is the portion's for commands of
\* the portion only.
LEMMA LockedRowExists ==
  ASSUME Shape, NEW t \in Attempts, ~In(t, "idle")
  PROVE  /\ Cmd(t).kind \in PortionCommands \cup InspectionCommands \cup IssueCommands
         /\ Cmd(t).kind \in PortionCommands => LockedRow(Cmd(t)) = PORTION
         /\ Cmd(t).kind \in InspectionCommands => LockedRow(Cmd(t)) = Cmd(t).id
         /\ Cmd(t).kind \in IssueCommands => LockedRow(Cmd(t)) = issues[Cmd(t).id].inspection
         /\ Cmd(t).kind \notin PortionCommands =>
              LockedRow(Cmd(t)) \in DOMAIN inspections /\ LockedRow(Cmd(t)) # PORTION
<1>1. Cmd(t) \in Command /\ Addressed(Cmd(t))
  BY AttemptShape DEF Shape, In, Cmd
<1>2. Cmd(t).kind \in PortionCommands \cup InspectionCommands \cup IssueCommands
  BY <1>1 DEF Command
<1> QED
  BY <1>1, <1>2, RowsAreSequences
  DEF Shape, TypeOK, Addressed, LockedRow, PortionCommands, InspectionCommands, IssueCommands, PORTION

-----------------------------------------------------------------------------
(* What a command of one inspection may do *)

\* It holds the row of inspection i, which is not accepted, and writes that
\* row and issues of it.
RowWritten(t, i) ==
  /\ Checked(t)
  /\ LockedRow(Cmd(t)) = i
  /\ i \in DOMAIN inspections
  /\ inspections[i].status # "ACCEPTED"
  /\ attempts' = [attempts EXCEPT ![t] = Idle]
  /\ version' = version /\ facts' = facts /\ requests' = requests
  /\ inspections' \in Seq(Inspection)
  /\ Len(inspections') = Len(inspections)
  /\ inspections'[i].type = inspections[i].type
  /\ \A j \in DOMAIN inspections \ {i} : inspections'[j] = inspections[j]
  /\ issues' \in Seq(Issue)
  /\ Len(issues) <= Len(issues')
  /\ \A x \in DOMAIN issues :
       /\ issues'[x].inspection = issues[x].inspection
       /\ issues[x].inspection # i => issues'[x] = issues[x]
  /\ \A x \in DOMAIN issues' \ DOMAIN issues : issues'[x].inspection = i

\* It does not accept, and forgets no decision.
NotAccepting(i) ==
  /\ confirmations' = confirmations
  /\ inspections'[i].status # "ACCEPTED"
  /\ inspections'[i].status = "REJECTED" => inspections'[i].decision = "REJECTED"
  /\ inspections[i].decision = "REJECTED" => inspections'[i].decision = "REJECTED"
  /\ inspections'[i].decision = "NONE" => inspections[i].decision = "NONE"

LEMMA RowsSequencesNext ==
  ASSUME Shape, NEW t \in Attempts, NEW i, RowWritten(t, i)
  PROVE  /\ DOMAIN inspections' = DOMAIN inspections
         /\ Len(issues') \in Nat /\ DOMAIN issues' = 1..Len(issues')
         /\ DOMAIN issues \subseteq DOMAIN issues'
         /\ \A x \in DOMAIN issues' : issues'[x].inspection \in DOMAIN inspections
         /\ i # PORTION
<1>1. DOMAIN inspections' = DOMAIN inspections
  BY RowsAreSequences DEF Shape, RowWritten
<1>2. Len(issues') \in Nat /\ DOMAIN issues' = 1..Len(issues')
  BY DEF RowWritten
<1>3. DOMAIN issues \subseteq DOMAIN issues'
  BY <1>2, RowsAreSequences DEF Shape, RowWritten
<1>4. \A x \in DOMAIN issues' : issues'[x].inspection \in DOMAIN inspections
  BY DEF Shape, TypeOK, RowWritten
<1>5. i # PORTION
  BY RowsAreSequences DEF Shape, RowWritten, PORTION
<1> QED
  BY <1>1, <1>2, <1>3, <1>4, <1>5

\* The other attempts do not notice.
LEMMA OthersKeepTheirRows ==
  ASSUME Shape, Exclusive, NEW t \in Attempts, NEW i, RowWritten(t, i),
         NEW u \in Attempts \ {t}, ~In(u, "idle")
  PROVE  /\ attempts'[u] = attempts[u]
         /\ Addressed(Cmd(u))'
         /\ \A cmd : cmd = Cmd(u) => LockedRow(cmd)' = LockedRow(cmd)
         /\ Checked(u) => LockedRow(Cmd(u)) # i
<1>1. attempts'[u] = attempts[u]
  BY Ended DEF Shape, RowWritten
<1>2. Addressed(Cmd(u))
  BY DEF Shape
<1>3. Addressed(Cmd(u))'
  BY <1>1, <1>2, RowsSequencesNext DEF Addressed, Cmd
<1>4. \A cmd : cmd = Cmd(u) => LockedRow(cmd)' = LockedRow(cmd)
  BY <1>2, LockedRowExists
  DEF Addressed, LockedRow, RowWritten, PortionCommands, InspectionCommands, IssueCommands
<1>5. Checked(u) => LockedRow(Cmd(u)) # i
  BY DEF Exclusive, RowWritten
<1> QED
  BY <1>1, <1>3, <1>4, <1>5

LEMMA RowKeepsShape ==
  ASSUME Shape, Exclusive, NEW t \in Attempts, NEW i, RowWritten(t, i),
         confirmations' \in Seq([inspection : Nat, type : AllTypes, quantity : Nat]),
         \A c \in DOMAIN confirmations' : confirmations'[c].inspection \in DOMAIN inspections
  PROVE  Shape'
<1>1. /\ attempts' \in [Attempts -> Attempt]
      /\ attempts'[t].phase = "idle"
      /\ \A u \in Attempts \ {t} : attempts'[u] = attempts[u]
  BY Ended DEF Shape, RowWritten
<1>2. TypeOK'
  BY <1>1, RowsSequencesNext DEF Shape, TypeOK, RowWritten
<1>3. \A u \in Attempts : ~In(u, "idle")' => Addressed(Cmd(u))'
  BY <1>1, OthersKeepTheirRows DEF In
<1> QED
  BY <1>2, <1>3 DEF Shape, RowWritten

LEMMA RowKeepsExclusive ==
  ASSUME Shape, Exclusive, NEW t \in Attempts, NEW i, RowWritten(t, i)
  PROVE  Exclusive'
<1> SUFFICES ASSUME NEW u \in Attempts, NEW v \in Attempts, u # v, Checked(u)', Checked(v)'
             PROVE  LockedRow(Cmd(u))' # LockedRow(Cmd(v))'
  BY DEF Exclusive
<1>1. u # t /\ v # t
  BY Ended DEF Shape, RowWritten, Checked, In
<1>2. /\ attempts'[u] = attempts[u] /\ attempts'[v] = attempts[v]
      /\ Checked(u) /\ Checked(v)
  BY <1>1, Ended DEF Shape, RowWritten, Checked, In
<1>3. LockedRow(Cmd(u))' = LockedRow(Cmd(u)) /\ LockedRow(Cmd(v))' = LockedRow(Cmd(v))
  BY <1>1, <1>2, OthersKeepTheirRows DEF Checked, In, Cmd
<1> QED
  BY <1>2, <1>3 DEF Exclusive

LEMMA RowKeepsFacts ==
  ASSUME Shape, FactsInOrder, NEW t \in Attempts, NEW i, RowWritten(t, i)
  PROVE  FactsInOrder'
BY Ended DEF Shape, FactsInOrder, LatestFactIsLast, IsLatest, RowWritten, In, Cmd

\* What commands of other inspections and issues rely on stays; so does what
\* a command of the portion relies on, unless nobody holds the portion.
LEMMA RowKeepsVerified ==
  ASSUME Shape, Exclusive, Verified, NEW t \in Attempts, NEW i, RowWritten(t, i),
         NotAccepting(i) \/ IsFree(t, PORTION)
  PROVE  Verified'
<1> SUFFICES ASSUME NEW u \in Attempts, Checked(u)'
             PROVE  VerifiedPortion(Cmd(u))' /\ VerifiedRow(Cmd(u))'
  BY DEF Verified
<1>1. /\ u # t /\ attempts'[u] = attempts[u] /\ Checked(u) /\ ~In(u, "idle")
  BY Ended DEF Shape, RowWritten, Checked, In
<1>2. VerifiedPortion(Cmd(u)) /\ VerifiedRow(Cmd(u)) /\ LockedRow(Cmd(u)) # i
  BY <1>1, OthersKeepTheirRows DEF Verified
<1>3. Cmd(u)' = Cmd(u) /\ Addressed(Cmd(u))
  BY <1>1 DEF Shape, Cmd
<1>4. VerifiedPortion(Cmd(u))'
  <2>1. CASE IsFree(t, PORTION)
    <3>1. Cmd(u).kind \notin PortionCommands
      BY <1>1, <2>1, LockedRowExists DEF IsFree, Holds, Checked
    <3> QED
      BY <1>3, <3>1 DEF VerifiedPortion, PortionCommands
  <2>2. CASE NotAccepting(i)
    <3>1. LatestCovers(Planned) => LatestCovers(Planned)'
      BY DEF RowWritten, LatestCovers, IsLatest
    <3>2. \A j \in DOMAIN inspections' :
            /\ j \in DOMAIN inspections
            /\ inspections[j].decision = "REJECTED" => inspections'[j].decision = "REJECTED"
            /\ inspections'[j].status # "ACCEPTED" \/ inspections'[j] = inspections[j]
            /\ inspections'[j].type = inspections[j].type
      BY <2>2, RowsSequencesNext DEF NotAccepting, RowWritten
    <3>3. Cmd(u).kind \in PortionCommands => Cmd(u).version = version'
      BY <1>2 DEF VerifiedPortion, RowWritten
    <3> QED
      BY <1>2, <1>3, <3>1, <3>2, <3>3 DEF VerifiedPortion
  <2> QED
    BY <2>1, <2>2
<1>5. VerifiedRow(Cmd(u))'
  <2>1. Cmd(u).kind \in InspectionCommands => Cmd(u).id \in DOMAIN inspections \ {i}
    BY <1>1, <1>2, <1>3, LockedRowExists DEF Addressed
  <2>2. Cmd(u).kind \in IssueCommands =>
          Cmd(u).id \in DOMAIN issues /\ issues[Cmd(u).id].inspection # i
    BY <1>1, <1>2, <1>3, LockedRowExists DEF Addressed
  <2>3. ASSUME NEW j \in DOMAIN inspections \ {i}, IssuesClosed(j) PROVE IssuesClosed(j)'
    BY <2>3, RowsSequencesNext DEF IssuesClosed, RowWritten
  <2>4. CASE Cmd(u).kind \in InspectionCommands
    <3>1. inspections'[Cmd(u).id] = inspections[Cmd(u).id]
      BY <2>1, <2>4 DEF RowWritten
    <3> QED
      BY <1>2, <1>3, <2>1, <2>3, <2>4, <3>1
      DEF VerifiedRow, PositiveAsStored, InspectionCommands, IssueCommands
  <2>5. CASE Cmd(u).kind \in IssueCommands
    <3>1. issues'[Cmd(u).id] = issues[Cmd(u).id]
      BY <2>2, <2>5 DEF RowWritten
    <3> QED
      BY <1>2, <1>3, <2>5, <3>1 DEF VerifiedRow, IssueCommands
  <2>6. CASE Cmd(u).kind \in PortionCommands
    BY <1>3, <2>6 DEF VerifiedRow, PortionCommands, IssueCommands
  <2> QED
    BY <1>1, <2>4, <2>5, <2>6, LockedRowExists
<1> QED
  BY <1>4, <1>5

\* What is decided of an inspection rests on facts and issues that stay.
LEMMA RowKeepsDecisions ==
  ASSUME Shape, DecisionsHold, PresentedInFull, NEW t \in Attempts, NEW i, RowWritten(t, i),
         inspections'[i].status = "REJECTED" => inspections'[i].decision = "REJECTED",
         inspections'[i].status = "ACCEPTED" => IssuesClosed(i)',
         inspections'[i].decision = "NONE" => inspections[i].decision = "NONE"
  PROVE  DecisionsHold' /\ PresentedInFull'
<1>1. ASSUME NEW j \in DOMAIN inspections \ {i}, IssuesClosed(j) PROVE IssuesClosed(j)'
  BY <1>1, RowsSequencesNext DEF IssuesClosed, RowWritten
<1>2. LatestCovers(Planned) => LatestCovers(Planned)'
  BY DEF RowWritten, LatestCovers, IsLatest
<1>3. ASSUME NEW j \in DOMAIN inspections'
      PROVE  /\ j \in DOMAIN inspections
             /\ j # i => inspections'[j] = inspections[j]
  BY RowsSequencesNext DEF RowWritten
<1>4. DecisionsHold'
  BY <1>1, <1>3 DEF DecisionsHold
<1>5. PresentedInFull'
  BY <1>2, <1>3 DEF PresentedInFull
<1> QED
  BY <1>4, <1>5

\* Steps that confirm nothing and accept nothing.
LEMMA ConfirmationsStay ==
  ASSUME AcceptedIsConfirmedOnce, confirmations' = confirmations,
         \A i \in DOMAIN inspections' :
           \/ /\ i \in DOMAIN inspections
              /\ Accepted(i)' <=> Accepted(i)
              /\ inspections'[i].type = inspections[i].type
           \/ /\ ~Accepted(i)'
              /\ \A c \in DOMAIN confirmations : confirmations[c].inspection # i
  PROVE  AcceptedIsConfirmedOnce'
<1> SUFFICES ASSUME NEW i \in DOMAIN inspections'
             PROVE  LET own == {c \in DOMAIN confirmations : confirmations[c].inspection = i}
                    IN  /\ Accepted(i)' => Cardinality(own) = 1
                        /\ ~Accepted(i)' => own = {}
                        /\ \A c \in own :
                             /\ confirmations[c].type = inspections'[i].type
                             /\ confirmations[c].type = "CUSTOMER_SC"
                                  => confirmations[c].quantity > 0
  BY DEF AcceptedIsConfirmedOnce
<1>1. CASE /\ i \in DOMAIN inspections
           /\ Accepted(i)' <=> Accepted(i)
           /\ inspections'[i].type = inspections[i].type
  BY <1>1 DEF AcceptedIsConfirmedOnce
<1>2. CASE /\ ~Accepted(i)'
           /\ \A c \in DOMAIN confirmations : confirmations[c].inspection # i
  BY <1>2
<1> QED
  BY <1>1, <1>2

\* A command of an inspection that does not accept it.
LEMMA RowStep ==
  ASSUME IInv, NEW t \in Attempts, NEW i, RowWritten(t, i), NotAccepting(i)
  PROVE  IInv'
<1>1. Shape'
  BY RowKeepsShape DEF IInv, NotAccepting, Shape, TypeOK
<1>2. Exclusive' /\ Verified' /\ FactsInOrder'
  BY RowKeepsExclusive, RowKeepsVerified, RowKeepsFacts DEF IInv
<1>3. DecisionsHold' /\ PresentedInFull'
  BY RowKeepsDecisions DEF IInv, NotAccepting
<1>4. AcceptedIsConfirmedOnce'
  <2>1. ASSUME NEW j \in DOMAIN inspections'
        PROVE  /\ j \in DOMAIN inspections
               /\ Accepted(j)' <=> Accepted(j)
               /\ inspections'[j].type = inspections[j].type
    BY RowsSequencesNext DEF IInv, RowWritten, NotAccepting, Accepted
  <2> QED
    BY <2>1, ConfirmationsStay DEF IInv, NotAccepting
<1> QED
  BY <1>1, <1>2, <1>3, <1>4 DEF IInv

-----------------------------------------------------------------------------
(* The commands of an inspection and of an issue *)

LEMMA CommandOfInspection ==
  ASSUME Shape, NEW t \in Attempts, Checked(t)
  PROVE  /\ Cmd(t) \in Command
         /\ Cmd(t).kind \in InspectionCommands =>
              /\ Cmd(t).id \in DOMAIN inspections
              /\ LockedRow(Cmd(t)) = Cmd(t).id
         /\ Cmd(t).kind \in IssueCommands =>
              /\ Cmd(t).id \in DOMAIN issues
              /\ LockedRow(Cmd(t)) = issues[Cmd(t).id].inspection
BY AttemptShape, LockedRowExists DEF Shape, Addressed, Checked, In, Cmd

\* The status moves, and the version with it.
LEMMA StatusMoved ==
  ASSUME TypeOK, NEW i \in DOMAIN inspections, NEW status \in Active \cup Decisions,
         inspections' = [inspections EXCEPT ![i].status = status, ![i].version = @ + 1]
  PROVE  /\ inspections' \in Seq(Inspection)
         /\ Len(inspections') = Len(inspections)
         /\ inspections'[i].status = status
         /\ inspections'[i].type = inspections[i].type
         /\ inspections'[i].decision = inspections[i].decision
         /\ \A j \in DOMAIN inspections \ {i} : inspections'[j] = inspections[j]
<1> DEFINE row == [inspections[i] EXCEPT !.status = status, !.version = inspections[i].version + 1]
<1>1. inspections[i] \in Inspection
  BY DEF TypeOK
<1>2. /\ row \in Inspection /\ row.status = status
      /\ row.type = inspections[i].type /\ row.decision = inspections[i].decision
  BY <1>1 DEF Inspection
<1>3. inspections' = [inspections EXCEPT ![i] = row]
  OBVIOUS
<1> HIDE DEF row
<1> QED
  BY <1>2, <1>3, InspectionRewritten

LEMMA DecisionMade ==
  ASSUME TypeOK, NEW i \in DOMAIN inspections, NEW decision \in Decisions,
         inspections' = [inspections EXCEPT
           ![i].status = decision, ![i].decision = decision, ![i].version = @ + 1]
  PROVE  /\ inspections' \in Seq(Inspection)
         /\ Len(inspections') = Len(inspections)
         /\ inspections'[i].status = decision
         /\ inspections'[i].type = inspections[i].type
         /\ inspections'[i].decision = decision
         /\ \A j \in DOMAIN inspections \ {i} : inspections'[j] = inspections[j]
<1> DEFINE row == [inspections[i] EXCEPT !.status = decision, !.decision = decision,
                                         !.version = inspections[i].version + 1]
<1>1. inspections[i] \in Inspection
  BY DEF TypeOK
<1>2. /\ row \in Inspection /\ row.status = decision
      /\ row.type = inspections[i].type /\ row.decision = decision
  BY <1>1 DEF Inspection
<1>3. inspections' = [inspections EXCEPT ![i] = row]
  OBVIOUS
<1> HIDE DEF row
<1> QED
  BY <1>2, <1>3, InspectionRewritten

\* Commands that leave the issues alone.
LEMMA IssuesStay ==
  ASSUME TypeOK, NEW i, issues' = issues
  PROVE  /\ issues' \in Seq(Issue)
         /\ Len(issues) <= Len(issues')
         /\ \A x \in DOMAIN issues :
              /\ issues'[x].inspection = issues[x].inspection
              /\ issues[x].inspection # i => issues'[x] = issues[x]
         /\ \A x \in DOMAIN issues' \ DOMAIN issues : issues'[x].inspection = i
BY RowsAreSequences DEF TypeOK

LEMMA AddIssueWrites ==
  ASSUME ControlAssumption, IInv, NEW t \in Attempts, AddIssue(t)
  PROVE  RowWritten(t, Cmd(t).id) /\ NotAccepting(Cmd(t).id)
<1> DEFINE i == Cmd(t).id
           issue == [inspection |-> i, status |-> "OPEN", version |-> 1]
<1>1. Checked(t) /\ Cmd(t).kind = "addIssue"
  BY DEF AddIssue, Committing, Checked
<1>2. i \in DOMAIN inspections /\ LockedRow(Cmd(t)) = i
  BY <1>1, CommandOfInspection DEF IInv, InspectionCommands
<1>3. inspections[i].status \in Active
  BY <1>1 DEF IInv, Verified, VerifiedRow
<1>4. issue \in Issue /\ issue.inspection = i
  BY <1>2, RowsAreSequences DEF IInv, Shape, Issue, ControlAssumption
<1>5. /\ issues' = Append(issues, issue)
      /\ inspections' = [inspections EXCEPT ![i].status = "ISSUES_FOUND", ![i].version = @ + 1]
  BY DEF AddIssue
<1> HIDE DEF i, issue
<1>6. /\ inspections' \in Seq(Inspection)
      /\ Len(inspections') = Len(inspections)
      /\ inspections'[i].status = "ISSUES_FOUND"
      /\ inspections'[i].type = inspections[i].type
      /\ inspections'[i].decision = inspections[i].decision
      /\ \A j \in DOMAIN inspections \ {i} : inspections'[j] = inspections[j]
  BY <1>2, <1>5, StatusMoved DEF IInv, Shape, Active
<1>7. /\ issues' \in Seq(Issue)
      /\ Len(issues') = Len(issues) + 1
      /\ \A x \in DOMAIN issues : issues'[x] = issues[x]
      /\ issues'[Len(issues) + 1] = issue
  BY <1>4, <1>5, AppendProperties, RowsAreSequences DEF IInv, Shape, TypeOK
<1>8. \A x \in DOMAIN issues' \ DOMAIN issues : issues'[x].inspection = i
  <2>1. DOMAIN issues' = 1..(Len(issues) + 1) /\ DOMAIN issues = 1..Len(issues)
    BY <1>7, RowsAreSequences, LenProperties DEF IInv, Shape
  <2> QED
    BY <1>4, <1>7, <2>1, RowsAreSequences DEF IInv, Shape
<1>9. /\ attempts' = [attempts EXCEPT ![t] = Idle] /\ requests' = requests
      /\ version' = version /\ facts' = facts /\ confirmations' = confirmations
  BY DEF AddIssue, Committing
<1>10. Len(issues) <= Len(issues')
  BY <1>7, RowsAreSequences DEF IInv, Shape
<1>11. RowWritten(t, i)
  BY <1>1, <1>2, <1>3, <1>6, <1>7, <1>8, <1>9, <1>10 DEF RowWritten, Active
<1>12. NotAccepting(i)
  BY <1>6, <1>9 DEF NotAccepting
<1> QED
  BY <1>11, <1>12 DEF i

LEMMA AddPhotoWrites ==
  ASSUME IInv, NEW t \in Attempts, AddPhoto(t)
  PROVE  RowWritten(t, Cmd(t).id) /\ NotAccepting(Cmd(t).id)
<1> DEFINE i == Cmd(t).id
           row == [inspections[i] EXCEPT !.photos = 1]
<1>1. Checked(t) /\ Cmd(t).kind = "photo"
  BY DEF AddPhoto, Committing, Checked
<1>2. i \in DOMAIN inspections /\ LockedRow(Cmd(t)) = i
  BY <1>1, CommandOfInspection DEF IInv, InspectionCommands
<1>3. inspections[i].status # "ACCEPTED"
  BY <1>1 DEF IInv, Verified, VerifiedRow
<1>4. inspections[i] \in Inspection
  BY <1>2, RowsAreSequences DEF IInv, Shape
<1>5. /\ row \in Inspection /\ row.status = inspections[i].status
      /\ row.type = inspections[i].type /\ row.decision = inspections[i].decision
  BY <1>4 DEF Inspection
<1>6. inspections' = [inspections EXCEPT ![i] = row]
  BY <1>2 DEF AddPhoto
<1>7. /\ attempts' = [attempts EXCEPT ![t] = Idle] /\ requests' = requests
      /\ version' = version /\ facts' = facts /\ confirmations' = confirmations
      /\ issues' = issues
  BY DEF AddPhoto, Committing
<1> HIDE DEF i, row
<1>8. /\ inspections' \in Seq(Inspection)
      /\ Len(inspections') = Len(inspections)
      /\ inspections'[i] = row
      /\ \A j \in DOMAIN inspections \ {i} : inspections'[j] = inspections[j]
  BY <1>2, <1>5, <1>6, InspectionRewritten DEF IInv, Shape
<1>9. RowWritten(t, i)
  BY <1>1, <1>2, <1>3, <1>5, <1>7, <1>8, IssuesStay DEF RowWritten, IInv, Shape
<1>10. NotAccepting(i)
  BY <1>2, <1>3, <1>5, <1>7, <1>8 DEF NotAccepting, IInv, DecisionsHold
<1> QED
  BY <1>9, <1>10 DEF i

LEMMA IssueMoved ==
  ASSUME ControlAssumption, NEW issue \in Issue, NEW status \in {"READY_FOR_VERIFICATION", "CLOSED"}
  PROVE  LET row == [issue EXCEPT !.status = status, !.version = issue.version + 1]
         IN  row \in Issue /\ row.inspection = issue.inspection
<1>1. issue.version + 1 \in Nat
  BY DEF Issue, ControlAssumption
<1> QED
  BY <1>1 DEF Issue

LEMMA ActOnIssueWrites ==
  ASSUME ControlAssumption, IInv, NEW t \in Attempts, NEW kind \in IssueCommands,
         NEW status \in {"READY_FOR_VERIFICATION", "CLOSED"}, ActOnIssue(t, kind, status)
  PROVE  RowWritten(t, LockedRow(Cmd(t))) /\ NotAccepting(LockedRow(Cmd(t)))
<1> DEFINE x == Cmd(t).id
           i == issues[x].inspection
           row == [issues[x] EXCEPT !.status = status, !.version = issues[x].version + 1]
<1>1. Checked(t) /\ Cmd(t).kind \in IssueCommands
  BY DEF ActOnIssue, Committing, Checked
<1>2. x \in DOMAIN issues /\ LockedRow(Cmd(t)) = i
  BY <1>1, CommandOfInspection DEF IInv
<1>3. i \in DOMAIN inspections
  BY <1>2 DEF IInv, Shape, TypeOK
<1>4. inspections[i].status # "ACCEPTED"
  <2>1. issues[x].status # "CLOSED"
    BY <1>1 DEF IInv, Verified, VerifiedRow
  <2>2. ~IssuesClosed(i)
    BY <1>2, <2>1 DEF IssuesClosed
  <2> QED
    BY <1>3, <2>2 DEF IInv, DecisionsHold
<1>5. issues[x] \in Issue
  BY <1>2, RowsAreSequences DEF IInv, Shape
<1>6. row \in Issue /\ row.inspection = i
  BY <1>5, IssueMoved
<1>7. /\ issues' = [issues EXCEPT ![x] = row]
      /\ inspections' = [inspections EXCEPT ![i].status = "REINSPECTION", ![i].version = @ + 1]
  <2>1. issues' = [issues EXCEPT ![x].status = status, ![x].version = @ + 1]
    BY DEF ActOnIssue
  <2>2. inspections' = [inspections EXCEPT ![i].status = "REINSPECTION", ![i].version = @ + 1]
    BY DEF ActOnIssue
  <2> QED
    BY <2>1, <2>2
<1>8. /\ attempts' = [attempts EXCEPT ![t] = Idle] /\ requests' = requests
      /\ version' = version /\ facts' = facts /\ confirmations' = confirmations
  BY DEF ActOnIssue, Committing
<1>9. \A y \in DOMAIN issues : issues[y].inspection # i => y # x
  OBVIOUS
<1> HIDE DEF x, i, row
<1>10. /\ inspections' \in Seq(Inspection)
       /\ Len(inspections') = Len(inspections)
       /\ inspections'[i].status = "REINSPECTION"
       /\ inspections'[i].type = inspections[i].type
       /\ inspections'[i].decision = inspections[i].decision
       /\ \A j \in DOMAIN inspections \ {i} : inspections'[j] = inspections[j]
  BY <1>3, <1>7, StatusMoved DEF IInv, Shape, Active
<1>11. /\ issues' \in Seq(Issue)
       /\ Len(issues') = Len(issues)
       /\ issues'[x] = row
       /\ \A y \in DOMAIN issues \ {x} : issues'[y] = issues[y]
  BY <1>2, <1>6, <1>7, IssueRewritten DEF IInv, Shape
<1>12. /\ Len(issues) <= Len(issues') /\ DOMAIN issues' = DOMAIN issues
  BY <1>11, RowsAreSequences, LenProperties DEF IInv, Shape
<1>13. \A y \in DOMAIN issues : issues'[y].inspection = issues[y].inspection
  BY <1>6, <1>11 DEF i
<1>14. RowWritten(t, i)
  BY <1>1, <1>2, <1>3, <1>4, <1>8, <1>9, <1>10, <1>11, <1>12, <1>13 DEF RowWritten
<1>15. NotAccepting(i)
  BY <1>8, <1>10 DEF NotAccepting
<1> QED
  BY <1>2, <1>14, <1>15

LEMMA RejectWrites ==
  ASSUME IInv, NEW t \in Attempts, Reject(t)
  PROVE  RowWritten(t, Cmd(t).id) /\ NotAccepting(Cmd(t).id)
<1> DEFINE i == Cmd(t).id
<1>1. Checked(t) /\ Cmd(t).kind = "reject"
  BY DEF Reject, Committing, Checked
<1>2. i \in DOMAIN inspections /\ LockedRow(Cmd(t)) = i
  BY <1>1, CommandOfInspection DEF IInv, InspectionCommands
<1>3. inspections[i].status \in Active
  BY <1>1 DEF IInv, Verified, VerifiedRow
<1>4. /\ attempts' = [attempts EXCEPT ![t] = Idle] /\ requests' = requests
      /\ version' = version /\ facts' = facts /\ confirmations' = confirmations
      /\ issues' = issues
  BY DEF Reject, Committing
<1>5. inspections' = [inspections EXCEPT
        ![i].status = "REJECTED", ![i].decision = "REJECTED", ![i].version = @ + 1]
  BY DEF Reject, Decided
<1> HIDE DEF i
<1>6. /\ inspections' \in Seq(Inspection)
      /\ Len(inspections') = Len(inspections)
      /\ inspections'[i].status = "REJECTED"
      /\ inspections'[i].type = inspections[i].type
      /\ inspections'[i].decision = "REJECTED"
      /\ \A j \in DOMAIN inspections \ {i} : inspections'[j] = inspections[j]
  BY <1>2, <1>5, DecisionMade DEF IInv, Shape, Decisions
<1>7. RowWritten(t, i)
  BY <1>1, <1>2, <1>3, <1>4, <1>6, IssuesStay DEF RowWritten, IInv, Shape, Active
<1>8. NotAccepting(i)
  BY <1>4, <1>6 DEF NotAccepting
<1> QED
  BY <1>7, <1>8 DEF i

\* An acceptance: the row, and the one confirmation of it.
LEMMA AcceptWrites ==
  ASSUME ControlAssumption, IInv, NEW t \in Attempts, Accept(t)
  PROVE  LET i == Cmd(t).id
         IN  /\ RowWritten(t, i)
             /\ inspections'[i].status = "ACCEPTED" /\ inspections'[i].decision = "ACCEPTED"
             /\ issues' = issues /\ IssuesClosed(i)
             /\ confirmations' \in Seq([inspection : Nat, type : AllTypes, quantity : Nat])
             /\ Len(confirmations') = Len(confirmations) + 1
             /\ \A c \in DOMAIN confirmations : confirmations'[c] = confirmations[c]
             /\ confirmations'[Len(confirmations) + 1].inspection = i
             /\ confirmations'[Len(confirmations) + 1].type = inspections[i].type
             /\ inspections[i].type = "CUSTOMER_SC"
                  => confirmations'[Len(confirmations) + 1].quantity > 0
<1> DEFINE i == Cmd(t).id
           row == [inspection |-> i, type |-> inspections[i].type,
                   quantity |-> Stored(Cmd(t).quantity)]
           Row == [inspection : Nat, type : AllTypes, quantity : Nat]
<1>1. Checked(t) /\ Cmd(t).kind = "accept"
  BY DEF Accept, Committing, Checked
<1>2. i \in DOMAIN inspections /\ LockedRow(Cmd(t)) = i /\ Cmd(t) \in Command
  BY <1>1, CommandOfInspection DEF IInv, InspectionCommands
<1>3. /\ inspections[i].status \in Active /\ IssuesClosed(i)
      /\ PositiveAsStored(inspections[i].type, Cmd(t).quantity)
  BY <1>1 DEF IInv, Verified, VerifiedRow
<1>4. /\ attempts' = [attempts EXCEPT ![t] = Idle] /\ requests' = requests
      /\ version' = version /\ facts' = facts /\ issues' = issues
  BY DEF Accept, Committing
<1>5. /\ inspections' = [inspections EXCEPT
           ![i].status = "ACCEPTED", ![i].decision = "ACCEPTED", ![i].version = @ + 1]
      /\ confirmations' = Append(confirmations, row)
  BY DEF Accept, Decided
<1>6. row \in Row /\ row.inspection = i /\ row.type = inspections[i].type
  <2>1. inspections[i].type \in AllTypes /\ i \in Nat
    BY <1>2, RowsAreSequences DEF IInv, Shape, Inspection
  <2>2. Stored(Cmd(t).quantity) \in Nat
    BY <1>2, StoredQuantity
  <2> QED
    BY <2>1, <2>2
<1>7. inspections[i].type = "CUSTOMER_SC" => row.quantity > 0
  BY <1>3 DEF PositiveAsStored
<1>8. confirmations \in Seq(Row)
  BY DEF IInv, Shape, TypeOK
<1> HIDE DEF i, row, Row
<1>9. /\ inspections' \in Seq(Inspection)
      /\ Len(inspections') = Len(inspections)
      /\ inspections'[i].status = "ACCEPTED"
      /\ inspections'[i].type = inspections[i].type
      /\ inspections'[i].decision = "ACCEPTED"
      /\ \A j \in DOMAIN inspections \ {i} : inspections'[j] = inspections[j]
  BY <1>2, <1>5, DecisionMade DEF IInv, Shape, Decisions
<1>10. /\ confirmations' \in Seq(Row)
       /\ Len(confirmations') = Len(confirmations) + 1
       /\ \A c \in DOMAIN confirmations : confirmations'[c] = confirmations[c]
       /\ confirmations'[Len(confirmations) + 1] = row
  BY <1>5, <1>6, <1>8, AppendProperties, LenProperties
<1>11. RowWritten(t, i)
  BY <1>1, <1>2, <1>3, <1>4, <1>9, IssuesStay DEF RowWritten, IInv, Shape, Active
<1> QED
  BY <1>3, <1>4, <1>6, <1>7, <1>9, <1>10, <1>11 DEF i, Row

LEMMA AcceptStep ==
  ASSUME ControlAssumption, IInv, NEW t \in Attempts, Accept(t), NEW i, i = Cmd(t).id
  PROVE  IInv'
<1> DEFINE new == Len(confirmations) + 1
<1>1. /\ RowWritten(t, i)
      /\ inspections'[i].status = "ACCEPTED" /\ inspections'[i].decision = "ACCEPTED"
      /\ issues' = issues /\ IssuesClosed(i)
  BY AcceptWrites
<1>2. /\ confirmations' \in Seq([inspection : Nat, type : AllTypes, quantity : Nat])
      /\ Len(confirmations') = new
      /\ \A c \in DOMAIN confirmations : confirmations'[c] = confirmations[c]
      /\ confirmations'[new].inspection = i
      /\ confirmations'[new].type = inspections[i].type
      /\ inspections[i].type = "CUSTOMER_SC" => confirmations'[new].quantity > 0
  BY AcceptWrites
<1>3. IsFree(t, PORTION)
  BY DEF Accept
<1>4. /\ DOMAIN confirmations' = DOMAIN confirmations \cup {new}
      /\ new \notin DOMAIN confirmations
  BY <1>2, RowsAreSequences, LenProperties DEF IInv, Shape
<1> HIDE DEF new
<1>5. i \in DOMAIN inspections /\ inspections[i].status # "ACCEPTED"
  BY <1>1 DEF RowWritten
<1>6. \A c \in DOMAIN confirmations' : confirmations'[c].inspection \in DOMAIN inspections
  BY <1>2, <1>4, <1>5 DEF IInv, Shape, TypeOK
<1>7. Shape'
  BY <1>1, <1>2, <1>6, RowKeepsShape DEF IInv
<1>8. Exclusive' /\ Verified' /\ FactsInOrder'
  BY <1>1, <1>3, RowKeepsExclusive, RowKeepsVerified, RowKeepsFacts DEF IInv
<1>9. DecisionsHold' /\ PresentedInFull'
  <2>1. IssuesClosed(i)'
    BY <1>1 DEF IssuesClosed
  <2> QED
    BY <1>1, <2>1, RowKeepsDecisions DEF IInv
<1>10. AcceptedIsConfirmedOnce'
  <2> SUFFICES ASSUME NEW j \in DOMAIN inspections'
               PROVE  LET own == {c \in DOMAIN confirmations' : confirmations'[c].inspection = j}
                      IN  /\ Accepted(j)' => Cardinality(own) = 1
                          /\ ~Accepted(j)' => own = {}
                          /\ \A c \in own :
                               /\ confirmations'[c].type = inspections'[j].type
                               /\ confirmations'[c].type = "CUSTOMER_SC"
                                    => confirmations'[c].quantity > 0
    BY DEF AcceptedIsConfirmedOnce
  <2> DEFINE Own == {c \in DOMAIN confirmations : confirmations[c].inspection = j}
             OwnNext == {c \in DOMAIN confirmations' : confirmations'[c].inspection = j}
  <2>1. j \in DOMAIN inspections /\ DOMAIN inspections' = DOMAIN inspections
    BY <1>1, RowsSequencesNext DEF IInv
  <2>2. /\ Accepted(j) => Cardinality(Own) = 1
        /\ ~Accepted(j) => Own = {}
        /\ \A c \in Own :
             /\ confirmations[c].type = inspections[j].type
             /\ confirmations[c].type = "CUSTOMER_SC" => confirmations[c].quantity > 0
    BY <2>1 DEF IInv, AcceptedIsConfirmedOnce
  <2>3. inspections'[j].type = inspections[j].type
    BY <1>1, <2>1 DEF RowWritten
  <2>4. CASE j # i
    <3>1. OwnNext = Own
      BY <1>2, <1>4, <2>4
    <3>2. Accepted(j)' <=> Accepted(j)
      BY <1>1, <2>1, <2>4 DEF Accepted, RowWritten
    <3> QED
      BY <1>2, <2>2, <2>3, <3>1, <3>2
  <2>5. CASE j = i
    <3>1. Own = {} /\ Accepted(j)'
      BY <1>1, <1>5, <2>1, <2>2, <2>5 DEF Accepted
    <3>2. OwnNext = {new}
      BY <1>2, <1>4, <2>5, <3>1
    <3>3. Cardinality(OwnNext) = 1
      BY <3>2, FS_Singleton
    <3> QED
      BY <1>2, <2>3, <2>5, <3>1, <3>2, <3>3
  <2> QED
    BY <2>4, <2>5
<1> QED
  BY <1>7, <1>8, <1>9, <1>10 DEF IInv

-----------------------------------------------------------------------------
(* The commands of the portion *)

\* A checked command of the portion is alone: no other has the portion's row.
LEMMA PortionIsHeld ==
  ASSUME Shape, Exclusive, NEW t \in Attempts, Checked(t), Cmd(t).kind \in PortionCommands,
         NEW u \in Attempts \ {t}, Checked(u)
  PROVE  Cmd(u).kind \notin PortionCommands
BY LockedRowExists DEF Exclusive, Checked, In

LEMMA RecordFactStep ==
  ASSUME ControlAssumption, IInv, NEW t \in Attempts, RecordFact(t)
  PROVE  IInv'
<1> DEFINE fact == [quantity |-> Stored(Cmd(t).quantity), at |-> attempts[t].at]
           Fact == [quantity : Nat, at : 1..MaxRequests]
           new == Len(facts) + 1
<1>1. /\ Checked(t) /\ Cmd(t).kind = "fact" /\ Cmd(t) \in Command
      /\ attempts[t].at \in 1..MaxRequests
  BY CommandOfInspection, AttemptShape DEF RecordFact, Committing, Checked, IInv, Shape, In
<1>2. /\ attempts' = [attempts EXCEPT ![t] = Idle] /\ requests' = requests
      /\ version' = version + 1 /\ facts' = Append(facts, fact)
      /\ inspections' = inspections /\ issues' = issues /\ confirmations' = confirmations
  BY DEF RecordFact, Committing
<1>3. /\ attempts' \in [Attempts -> Attempt]
      /\ attempts'[t].phase = "idle"
      /\ \A u \in Attempts \ {t} : attempts'[u] = attempts[u]
  BY <1>2, Ended DEF IInv, Shape
<1>4. fact \in Fact /\ fact.at = attempts[t].at
  <2>1. Stored(Cmd(t).quantity) \in Nat
    BY <1>1, StoredQuantity
  <2> QED
    BY <1>1, <2>1
<1>5. facts \in Seq(Fact) /\ version \in Nat
  BY DEF IInv, Shape, TypeOK
<1>6. \A f \in DOMAIN facts : facts[f].at \in Nat /\ facts[f].at < attempts[t].at
  <2>1. Cmd(t).version = version
    BY <1>1 DEF IInv, Verified, VerifiedPortion, PortionCommands
  <2> QED
    BY <1>1, <2>1, RowsAreSequences
    DEF IInv, Shape, FactsInOrder, Checked, In, PortionCommands
<1> HIDE DEF fact, new
<1>7. /\ facts' \in Seq(Fact)
      /\ Len(facts') = new
      /\ \A f \in DOMAIN facts : facts'[f] = facts[f]
      /\ facts'[new] = fact
  BY <1>2, <1>4, <1>5, AppendProperties, LenProperties DEF new
<1>8. DOMAIN facts' = DOMAIN facts \cup {new} /\ new \in Nat \ {0}
  BY <1>5, <1>7, LenProperties DEF new
<1>9. Shape'
  <2>1. TypeOK'
    BY <1>2, <1>3, <1>5, <1>7 DEF IInv, Shape, TypeOK
  <2>2. \A u \in Attempts : ~In(u, "idle")' => Addressed(Cmd(u))'
    BY <1>2, <1>3 DEF IInv, Shape, In, Addressed, Cmd
  <2> QED
    BY <1>2, <2>1, <2>2 DEF IInv, Shape
<1>10. Exclusive'
  BY <1>2, <1>3 DEF IInv, Exclusive, Checked, In, Cmd, LockedRow
<1>11. Verified'
  <2> SUFFICES ASSUME NEW u \in Attempts, Checked(u)'
               PROVE  VerifiedPortion(Cmd(u))' /\ VerifiedRow(Cmd(u))'
    BY DEF Verified
  <2>1. u # t /\ Checked(u) /\ Cmd(u)' = Cmd(u)
    BY <1>3 DEF Checked, In, Cmd
  <2>2. Cmd(u).kind \notin PortionCommands
    BY <1>1, <2>1, PortionIsHeld DEF IInv, PortionCommands
  <2>3. VerifiedRow(Cmd(u))
    BY <2>1 DEF IInv, Verified
  <2> QED
    BY <1>2, <2>1, <2>2, <2>3
    DEF VerifiedPortion, VerifiedRow, IssuesClosed, PortionCommands
<1>12. FactsInOrder'
  <2>1. LatestFactIsLast'
    BY <1>1, <1>4, <1>6, <1>7, <1>8 DEF LatestFactIsLast, IsLatest
  <2>2. \A f \in DOMAIN facts' : facts'[f].at <= requests'
    BY <1>1, <1>2, <1>4, <1>7, <1>8 DEF IInv, FactsInOrder, Checked, In
  <2>3. ASSUME NEW u \in Attempts, ~In(u, "idle")'
        PROVE  /\ attempts'[u].at <= requests'
               /\ Cmd(u)'.kind \in PortionCommands =>
                    Cmd(u)'.version <= version' /\ Cmd(u)'.version # version'
    <3>1. u # t /\ attempts'[u] = attempts[u] /\ ~In(u, "idle")
      BY <1>3, <2>3 DEF In
    <3>2. attempts[u].cmd \in Command
      BY <3>1, AttemptShape DEF IInv, Shape, In
    <3>3. attempts[u].cmd.version \in Nat
      BY <3>2 DEF Command
    <3> QED
      BY <1>2, <1>5, <3>1, <3>3 DEF IInv, FactsInOrder, Cmd
  <2> QED
    BY <2>1, <2>2, <2>3 DEF FactsInOrder
<1>13. DecisionsHold' /\ AcceptedIsConfirmedOnce'
  <2>1. DecisionsHold'
    BY <1>2 DEF IInv, DecisionsHold, IssuesClosed
  <2> QED
    BY <1>2, <2>1, ConfirmationsStay DEF IInv, Accepted
<1>14. PresentedInFull'
  BY <1>1, <1>2 DEF IInv, Verified, VerifiedPortion, PresentedInFull
<1> QED
  BY <1>9, <1>10, <1>11, <1>12, <1>13, <1>14 DEF IInv

LEMMA RequestInspectionStep ==
  ASSUME ControlAssumption, IInv, NEW t \in Attempts, RequestInspection(t)
  PROVE  IInv'
<1> DEFINE row == [type |-> Cmd(t).type, status |-> "WAITING", decision |-> "NONE",
                   photos |-> 0, version |-> 1]
           new == Len(inspections) + 1
<1>1. /\ Checked(t) /\ Cmd(t).kind = "request" /\ Addressed(Cmd(t))
  BY DEF RequestInspection, Committing, Checked, IInv, Shape, In
<1>2. /\ attempts' = [attempts EXCEPT ![t] = Idle] /\ requests' = requests
      /\ version' = version + 1 /\ inspections' = Append(inspections, row)
      /\ facts' = facts /\ issues' = issues /\ confirmations' = confirmations
      /\ Len(inspections) < MaxInspections
  BY DEF RequestInspection, Committing
<1>3. /\ attempts' \in [Attempts -> Attempt]
      /\ attempts'[t].phase = "idle"
      /\ \A u \in Attempts \ {t} : attempts'[u] = attempts[u]
  BY <1>2, Ended DEF IInv, Shape
<1>4. /\ row \in Inspection /\ row.type = Cmd(t).type
      /\ row.status = "WAITING" /\ row.decision = "NONE"
  BY <1>1 DEF Addressed, Inspection, Active, Decisions
<1>5. version \in Nat /\ LatestCovers(Planned)
  BY <1>1 DEF IInv, Shape, TypeOK, Verified, VerifiedPortion
<1> HIDE DEF row, new
<1>6. /\ inspections' \in Seq(Inspection)
      /\ Len(inspections') = new
      /\ \A i \in DOMAIN inspections : inspections'[i] = inspections[i]
      /\ inspections'[new] = row
  BY <1>2, <1>4, AppendProperties, LenProperties DEF IInv, Shape, TypeOK, new
<1>7. /\ DOMAIN inspections' = DOMAIN inspections \cup {new}
      /\ new \notin DOMAIN inspections
      /\ new <= MaxInspections
  BY <1>2, <1>6, RowsAreSequences, LenProperties DEF IInv, Shape, new, ControlAssumption
<1>8. Shape'
  <2>1. TypeOK'
    BY <1>2, <1>3, <1>5, <1>6, <1>7 DEF IInv, Shape, TypeOK
  <2>2. \A u \in Attempts : ~In(u, "idle")' => Addressed(Cmd(u))'
    BY <1>2, <1>3, <1>7 DEF IInv, Shape, In, Addressed, Cmd
  <2> QED
    BY <1>6, <1>7, <2>1, <2>2 DEF Shape
<1>9. Exclusive'
  BY <1>2, <1>3 DEF IInv, Exclusive, Checked, In, Cmd, LockedRow
<1>10. Verified'
  <2> SUFFICES ASSUME NEW u \in Attempts, Checked(u)'
               PROVE  VerifiedPortion(Cmd(u))' /\ VerifiedRow(Cmd(u))'
    BY DEF Verified
  <2>1. u # t /\ Checked(u) /\ Cmd(u)' = Cmd(u)
    BY <1>3 DEF Checked, In, Cmd
  <2>2. Cmd(u).kind \notin PortionCommands
    BY <1>1, <2>1, PortionIsHeld DEF IInv, PortionCommands
  <2>3. VerifiedRow(Cmd(u)) /\ Addressed(Cmd(u))
    BY <2>1 DEF IInv, Verified, Shape, Checked, In
  <2>4. Cmd(u).kind \in InspectionCommands =>
          inspections'[Cmd(u).id] = inspections[Cmd(u).id]
    BY <1>6, <2>3 DEF Addressed
  <2>5. VerifiedRow(Cmd(u))'
    BY <1>2, <2>1, <2>3, <2>4
    DEF VerifiedRow, IssuesClosed, InspectionCommands, PositiveAsStored
  <2> QED
    BY <2>1, <2>2, <2>5 DEF VerifiedPortion, PortionCommands
<1>11. FactsInOrder'
  <2>1. LatestFactIsLast'
    BY <1>2 DEF IInv, FactsInOrder, LatestFactIsLast, IsLatest
  <2>2. \A f \in DOMAIN facts' : facts'[f].at <= requests'
    BY <1>2 DEF IInv, FactsInOrder
  <2>3. ASSUME NEW u \in Attempts, ~In(u, "idle")'
        PROVE  /\ attempts'[u].at <= requests'
               /\ Cmd(u)'.kind \in PortionCommands =>
                    Cmd(u)'.version <= version' /\ Cmd(u)'.version # version'
    <3>1. u # t /\ attempts'[u] = attempts[u] /\ ~In(u, "idle")
      BY <1>3, <2>3 DEF In
    <3>2. attempts[u].cmd \in Command
      BY <3>1, AttemptShape DEF IInv, Shape, In
    <3>3. attempts[u].cmd.version \in Nat
      BY <3>2 DEF Command
    <3> QED
      BY <1>2, <1>5, <3>1, <3>3 DEF IInv, FactsInOrder, Cmd
  <2> QED
    BY <2>1, <2>2, <2>3 DEF FactsInOrder
<1>12. DecisionsHold' /\ PresentedInFull'
  <2>1. DecisionsHold'
    BY <1>2, <1>4, <1>6, <1>7 DEF IInv, DecisionsHold, IssuesClosed
  <2>2. LatestCovers(Planned)'
    BY <1>2, <1>5 DEF LatestCovers, IsLatest
  <2> QED
    BY <2>1, <2>2 DEF PresentedInFull
<1>13. AcceptedIsConfirmedOnce'
  <2>1. \A j : j = new => ~Accepted(j)'
    BY <1>4, <1>6 DEF Accepted
  <2>2. \A c \in DOMAIN confirmations : confirmations[c].inspection # new
    BY <1>7 DEF IInv, Shape, TypeOK
  <2>3. ASSUME NEW j \in DOMAIN inspections', j # new
        PROVE  /\ j \in DOMAIN inspections
               /\ Accepted(j)' <=> Accepted(j)
               /\ inspections'[j].type = inspections[j].type
    BY <1>6, <1>7, <2>3 DEF Accepted
  <2> QED
    BY <1>2, <2>1, <2>2, <2>3, ConfirmationsStay DEF IInv
<1> QED
  BY <1>8, <1>9, <1>10, <1>11, <1>12, <1>13 DEF IInv

-----------------------------------------------------------------------------
(* Steps that move an attempt only *)

\* An attempt ends and writes nothing.
LEMMA NothingWritten ==
  ASSUME IInv, NEW t \in Attempts, attempts' = [attempts EXCEPT ![t] = Idle],
         UNCHANGED <<version, facts, inspections, issues, confirmations, requests>>
  PROVE  IInv'
<1>1. /\ attempts' \in [Attempts -> Attempt]
      /\ attempts'[t].phase = "idle"
      /\ \A u \in Attempts \ {t} : attempts'[u] = attempts[u]
  BY Ended DEF IInv, Shape
<1>2. Shape'
  <2>1. TypeOK'
    BY <1>1 DEF IInv, Shape, TypeOK
  <2>2. \A u \in Attempts : ~In(u, "idle")' => Addressed(Cmd(u))'
    BY <1>1 DEF IInv, Shape, In, Addressed, Cmd
  <2> QED
    BY <2>1, <2>2 DEF IInv, Shape
<1>3. Exclusive'
  BY <1>1 DEF IInv, Exclusive, Checked, In, Cmd, LockedRow
<1>4. Verified'
  BY <1>1 DEF IInv, Verified, VerifiedPortion, VerifiedRow, Checked, In, Cmd, LatestCovers,
              IsLatest, IssuesClosed
<1>5. FactsInOrder'
  BY <1>1 DEF IInv, FactsInOrder, LatestFactIsLast, IsLatest, In, Cmd
<1>6. DecisionsHold' /\ PresentedInFull'
  BY DEF IInv, DecisionsHold, IssuesClosed, PresentedInFull, LatestCovers, IsLatest
<1>7. AcceptedIsConfirmedOnce'
  BY ConfirmationsStay DEF IInv, Accepted
<1> QED
  BY <1>2, <1>3, <1>4, <1>5, <1>6, <1>7 DEF IInv

\* A client sends a command on what it saw; a command of the portion that saw
\* the current version is dated after every fact.
LEMMA RequestStep ==
  ASSUME ControlAssumption, IInv, NEW t \in Attempts,
         NEW cmd \in PortionRequests \cup InspectionRequests \cup IssueRequests, Request(t, cmd)
  PROVE  IInv'
<1> DEFINE new == [phase |-> "begun", cmd |-> cmd, at |-> requests + 1]
<1>1. /\ cmd \in Command /\ Addressed(cmd)
      /\ cmd.kind \in PortionCommands => cmd.version = version
  <2>1. CASE cmd \in PortionRequests
    BY <2>1 DEF PortionRequests, NewCommand, Command, Addressed, PORTION, IInv, Shape, TypeOK,
      PortionCommands, InspectionCommands, IssueCommands, ControlAssumption
  <2>2. CASE cmd \in InspectionRequests
    <3>1. ASSUME NEW i \in DOMAIN inspections
          PROVE  i \in Nat /\ inspections[i].version \in Nat
      BY RowsAreSequences DEF IInv, Shape, Inspection
    <3> QED
      BY <2>2, <3>1 DEF InspectionRequests, NewCommand, Command, Addressed,
        PortionCommands, InspectionCommands, IssueCommands
  <2>3. CASE cmd \in IssueRequests
    <3>1. ASSUME NEW x \in DOMAIN issues
          PROVE  x \in Nat /\ issues[x].version \in Nat
      BY RowsAreSequences DEF IInv, Shape, Issue
    <3> QED
      BY <2>3, <3>1 DEF IssueRequests, NewCommand, Command, Addressed,
        PortionCommands, InspectionCommands, IssueCommands
  <2> QED
    BY <2>1, <2>2, <2>3
<1>2. /\ attempts' = [attempts EXCEPT ![t] = new] /\ requests' = requests + 1
      /\ UNCHANGED <<version, facts, inspections, issues, confirmations>>
      /\ requests + 1 \in 1..MaxRequests /\ requests \in Nat
  BY DEF Request, IInv, Shape, TypeOK, ControlAssumption
<1>3. /\ attempts' \in [Attempts -> Attempt]
      /\ attempts'[t] = new
      /\ \A u \in Attempts \ {t} : attempts'[u] = attempts[u]
  <2>1. new \in Attempt
    BY <1>1, <1>2 DEF Attempt
  <2> HIDE DEF new
  <2> QED
    BY <1>2, <2>1 DEF IInv, Shape, TypeOK
<1>4. /\ attempts'[t].phase = "begun" /\ attempts'[t].cmd = cmd
      /\ attempts'[t].at = requests + 1
  BY <1>3
<1>5. Shape'
  <2>1. TypeOK'
    BY <1>2, <1>3, ControlAssumption DEF IInv, Shape, TypeOK, ControlAssumption
  <2>2. \A u \in Attempts : ~In(u, "idle")' => Addressed(Cmd(u))'
    BY <1>1, <1>2, <1>3, <1>4 DEF IInv, Shape, In, Addressed, Cmd
  <2> QED
    BY <1>2, <2>1, <2>2 DEF IInv, Shape
<1>6. \A u \in Attempts : Checked(u)' => u # t /\ Checked(u) /\ attempts'[u] = attempts[u]
  BY <1>3, <1>4 DEF Checked, In
<1>7. Exclusive'
  BY <1>2, <1>6 DEF IInv, Exclusive, Cmd, LockedRow
<1>8. Verified'
  BY <1>2, <1>6 DEF IInv, Verified, VerifiedPortion, VerifiedRow, Cmd, LatestCovers,
                    IsLatest, IssuesClosed
<1>9. FactsInOrder'
  <2>1. LatestFactIsLast'
    BY <1>2 DEF IInv, FactsInOrder, LatestFactIsLast, IsLatest
  <2>2. \A f \in DOMAIN facts : facts[f].at \in Nat /\ facts[f].at <= requests
    BY RowsAreSequences DEF IInv, Shape, FactsInOrder
  <2>3. \A f \in DOMAIN facts' : facts'[f].at <= requests'
    BY <1>2, <2>2
  <2>4. ASSUME NEW u \in Attempts, ~In(u, "idle")'
        PROVE  /\ attempts'[u].at <= requests'
               /\ Cmd(u)'.kind \in PortionCommands =>
                    /\ Cmd(u)'.version <= version'
                    /\ Cmd(u)'.version = version' =>
                         \A f \in DOMAIN facts' : facts'[f].at < attempts'[u].at
    <3>1. CASE u = t
      BY <1>1, <1>2, <1>4, <2>2, <3>1 DEF Cmd, IInv, Shape, TypeOK
    <3>2. CASE u # t
      <4>1. attempts'[u] = attempts[u] /\ ~In(u, "idle") /\ attempts[u].at \in 1..MaxRequests
        BY <1>3, <2>4, <3>2, AttemptShape DEF In, IInv, Shape
      <4> QED
        BY <1>2, <4>1 DEF IInv, FactsInOrder, Cmd
    <3> QED
      BY <3>1, <3>2
  <2> QED
    BY <2>1, <2>3, <2>4 DEF FactsInOrder
<1>10. DecisionsHold' /\ PresentedInFull'
  BY <1>2 DEF IInv, DecisionsHold, IssuesClosed, PresentedInFull, LatestCovers, IsLatest
<1>11. AcceptedIsConfirmedOnce'
  BY <1>2, ConfirmationsStay DEF IInv, Accepted
<1> QED
  BY <1>5, <1>7, <1>8, <1>9, <1>10, <1>11 DEF IInv

\* What a command has checked holds, and its row is its own.
LEMMA LockAndCheckStep ==
  ASSUME IInv, NEW t \in Attempts, LockAndCheck(t)
  PROVE  IInv'
<1>1. /\ In(t, "begun") /\ IsFree(t, LockedRow(Cmd(t))) /\ Allowed(Cmd(t))
      /\ attempts' = [attempts EXCEPT ![t].phase = "checked"]
      /\ UNCHANGED <<version, facts, inspections, issues, confirmations, requests>>
  BY DEF LockAndCheck
<1>2. /\ attempts' \in [Attempts -> Attempt]
      /\ attempts'[t].phase = "checked" /\ attempts'[t].cmd = attempts[t].cmd
      /\ attempts'[t].at = attempts[t].at
      /\ \A u \in Attempts \ {t} : attempts'[u] = attempts[u]
  <2> DEFINE new == [attempts[t] EXCEPT !.phase = "checked"]
  <2>1. attempts[t] \in [phase : {"begun", "checked"}, cmd : Command, at : 1..MaxRequests]
    BY <1>1 DEF IInv, Shape, TypeOK, Attempt, Idle, In
  <2>2. /\ new \in Attempt /\ new.phase = "checked"
        /\ new.cmd = attempts[t].cmd /\ new.at = attempts[t].at
    BY <2>1 DEF Attempt
  <2>3. attempts' = [attempts EXCEPT ![t] = new]
    BY <1>1
  <2> HIDE DEF new
  <2> QED
    BY <2>2, <2>3 DEF IInv, Shape, TypeOK
<1>3. Shape'
  <2>1. TypeOK'
    BY <1>1, <1>2 DEF IInv, Shape, TypeOK
  <2>2. \A u \in Attempts : ~In(u, "idle")' => Addressed(Cmd(u))'
    BY <1>1, <1>2 DEF IInv, Shape, In, Addressed, Cmd
  <2> QED
    BY <1>1, <2>1, <2>2 DEF IInv, Shape
<1>4. \A u \in Attempts : Cmd(u)' = Cmd(u) /\ attempts'[u].at = attempts[u].at
  BY <1>2 DEF Cmd
<1>5. \A cmd : LockedRow(cmd)' = LockedRow(cmd)
  BY <1>1 DEF LockedRow
<1>6. Exclusive'
  <2> SUFFICES ASSUME NEW u \in Attempts, NEW v \in Attempts, u # v, Checked(u)', Checked(v)'
               PROVE  LockedRow(Cmd(u)) # LockedRow(Cmd(v))
    BY <1>4, <1>5 DEF Exclusive
  <2>1. CASE u # t /\ v # t
    BY <1>2, <2>1 DEF IInv, Exclusive, Checked, In
  <2>2. CASE u = t
    BY <1>1, <1>2, <2>2 DEF IsFree, Holds, Checked, In
  <2>3. CASE v = t
    BY <1>1, <1>2, <2>3 DEF IsFree, Holds, Checked, In
  <2> QED
    BY <2>1, <2>2, <2>3
<1>7. VerifiedPortion(Cmd(t)) /\ VerifiedRow(Cmd(t))
  <2>1. Cmd(t).kind \in PortionCommands \cup InspectionCommands \cup IssueCommands
    BY <1>1, LockedRowExists DEF In, IInv, Shape
  <2>2. CASE Cmd(t).kind = "fact"
    BY <1>1, <2>2 DEF Allowed, FactAllowed, VerifiedPortion, VerifiedRow, IInv, DecisionsHold,
                      IssueCommands
  <2>3. CASE Cmd(t).kind = "request"
    BY <1>1, <2>3 DEF Allowed, RequestAllowed, VerifiedPortion, VerifiedRow, IssueCommands
  <2>4. CASE Cmd(t).kind = "addIssue"
    BY <1>1, <2>4 DEF Allowed, IssueAllowed, VerifiedPortion, VerifiedRow, IssueCommands,
                      PortionCommands
  <2>5. CASE Cmd(t).kind = "photo"
    BY <1>1, <2>5 DEF Allowed, PhotoAllowed, VerifiedPortion, VerifiedRow, IssueCommands,
                      PortionCommands
  <2>6. CASE Cmd(t).kind \in {"accept", "reject"}
    BY <1>1, <2>6 DEF Allowed, DecisionAllowed, VerifiedPortion, VerifiedRow, IssueCommands,
                      PortionCommands
  <2>7. CASE Cmd(t).kind \in IssueCommands
    BY <1>1, <2>7 DEF Allowed, IssueActionAllowed, VerifiedPortion, VerifiedRow, IssueCommands,
                      PortionCommands
  <2> QED
    BY <2>1, <2>2, <2>3, <2>4, <2>5, <2>6, <2>7
    DEF PortionCommands, InspectionCommands
<1>8. Verified'
  <2>1. \A u \in Attempts : Checked(u)' => VerifiedPortion(Cmd(u)) /\ VerifiedRow(Cmd(u))
    BY <1>2, <1>7 DEF IInv, Verified, Checked, In
  <2>2. \A cmd : /\ VerifiedPortion(cmd)' <=> VerifiedPortion(cmd)
                 /\ VerifiedRow(cmd)' <=> VerifiedRow(cmd)
    BY <1>1 DEF VerifiedPortion, VerifiedRow, LatestCovers, IsLatest, IssuesClosed
  <2> QED
    BY <1>4, <2>1, <2>2 DEF Verified
<1>9. FactsInOrder'
  <2>1. LatestFactIsLast'
    BY <1>1 DEF IInv, FactsInOrder, LatestFactIsLast, IsLatest
  <2>2. \A u \in Attempts : ~In(u, "idle")' => ~In(u, "idle")
    BY <1>1, <1>2 DEF In
  <2> QED
    BY <1>1, <1>4, <2>1, <2>2 DEF IInv, FactsInOrder
<1>10. DecisionsHold' /\ PresentedInFull'
  BY <1>1 DEF IInv, DecisionsHold, IssuesClosed, PresentedInFull, LatestCovers, IsLatest
<1>11. AcceptedIsConfirmedOnce'
  BY <1>1, ConfirmationsStay DEF IInv, Accepted
<1> QED
  BY <1>3, <1>6, <1>8, <1>9, <1>10, <1>11 DEF IInv

-----------------------------------------------------------------------------
(* The invariant and what it implies *)

LEMMA Initially == ControlAssumption /\ Init => IInv
<1> SUFFICES ASSUME ControlAssumption, Init PROVE IInv
  OBVIOUS
<1>1. /\ facts = <<>> /\ inspections = <<>> /\ issues = <<>> /\ confirmations = <<>>
      /\ DOMAIN facts = {} /\ DOMAIN inspections = {} /\ DOMAIN issues = {}
      /\ DOMAIN confirmations = {} /\ Len(inspections) = 0
  BY DEF Init
<1>2. \A t \in Attempts : In(t, "idle") /\ ~Checked(t)
  BY DEF Init, In, Checked, Idle
<1>3. TypeOK
  BY <1>1, ControlAssumption, EmptySeq DEF Init, TypeOK, Attempt, ControlAssumption
<1>4. Shape
  BY <1>1, <1>2, <1>3, ControlAssumption DEF Shape, ControlAssumption
<1> QED
  BY <1>1, <1>2, <1>4
  DEF IInv, Exclusive, Verified, FactsInOrder, LatestFactIsLast, DecisionsHold, PresentedInFull,
      AcceptedIsConfirmedOnce

\* One step per action; the commands of an inspection go through RowWritten.
LEMMA Step == ControlAssumption /\ IInv /\ [Next]_vars => IInv'
<1> SUFFICES ASSUME ControlAssumption, IInv, [Next]_vars PROVE IInv'
  OBVIOUS
<1>1. ASSUME NEW t \in Attempts,
             NEW cmd \in PortionRequests \cup InspectionRequests \cup IssueRequests,
             Request(t, cmd)
      PROVE  IInv'
  BY <1>1, RequestStep
<1>2. ASSUME NEW t \in Attempts, LockAndCheck(t) PROVE IInv'
  BY <1>2, LockAndCheckStep
<1>3. ASSUME NEW t \in Attempts, Refuse(t) \/ Abort(t) \/ RefusedByIndex(t) PROVE IInv'
  BY <1>3, NothingWritten DEF Refuse, Abort, RefusedByIndex
<1>4. ASSUME NEW t \in Attempts, RecordFact(t) PROVE IInv'
  BY <1>4, RecordFactStep
<1>5. ASSUME NEW t \in Attempts, RequestInspection(t) PROVE IInv'
  BY <1>5, RequestInspectionStep
<1>6. ASSUME NEW t \in Attempts, AddIssue(t) PROVE IInv'
  BY <1>6, AddIssueWrites, RowStep
<1>7. ASSUME NEW t \in Attempts, AddPhoto(t) PROVE IInv'
  BY <1>7, AddPhotoWrites, RowStep
<1>8. ASSUME NEW t \in Attempts, ActOnIssue(t, "resolve", "READY_FOR_VERIFICATION") PROVE IInv'
  BY <1>8, ActOnIssueWrites, RowStep DEF IssueCommands
<1>9. ASSUME NEW t \in Attempts, ActOnIssue(t, "verify", "CLOSED") PROVE IInv'
  BY <1>9, ActOnIssueWrites, RowStep DEF IssueCommands
<1>10. ASSUME NEW t \in Attempts, Accept(t) PROVE IInv'
  BY <1>10, AcceptStep
<1>11. ASSUME NEW t \in Attempts, Reject(t) PROVE IInv'
  BY <1>11, RejectWrites, RowStep
<1>12. CASE UNCHANGED vars
  <2>1. Shape'
    BY <1>12 DEF vars, IInv, Shape, TypeOK, Addressed, In, Cmd
  <2>2. Exclusive'
    BY <1>12 DEF vars, IInv, Exclusive, Checked, In, Cmd, LockedRow
  <2>3. Verified'
    BY <1>12 DEF vars, IInv, Verified, VerifiedPortion, VerifiedRow, Checked, In, Cmd,
                 LatestCovers, IsLatest, IssuesClosed
  <2>4. FactsInOrder'
    BY <1>12 DEF vars, IInv, FactsInOrder, LatestFactIsLast, IsLatest, In, Cmd
  <2>5. DecisionsHold' /\ PresentedInFull'
    BY <1>12 DEF vars, IInv, DecisionsHold, IssuesClosed, PresentedInFull, LatestCovers, IsLatest
  <2>6. AcceptedIsConfirmedOnce'
    BY <1>12, ConfirmationsStay DEF vars, IInv, Accepted
  <2> QED
    BY <2>1, <2>2, <2>3, <2>4, <2>5, <2>6 DEF IInv
<1> QED
  BY <1>1, <1>2, <1>3, <1>4, <1>5, <1>6, <1>7, <1>8, <1>9, <1>10, <1>11, <1>12 DEF Next

\* What every step of every process keeps: the rows a checked command stands on
\* stay as it found them until it commits, for the row it locked and for those
\* it only read (service.ts:116-160, 292-411; db.ts, security.ts scoped).
THEOREM Invariance == ASSUME ControlAssumption PROVE Spec => []IInv
<1>1. Init => IInv
  BY ControlAssumption, Initially
<1>2. IInv /\ [Next]_vars => IInv'
  BY ControlAssumption, Step
<1> QED
  BY <1>1, <1>2, PTL DEF Spec

\* The current fact of a portion is the last one committed although facts are
\* dated by the start of their transactions, an undecided inspection covers the
\* whole plan, and an inspection is confirmed once if and only if it is
\* accepted (service.ts:121-160, 313-354; fact-resolver.ts).
THEOREM InspectionsStaySound == ASSUME ControlAssumption PROVE Spec => []InspectionsAreSound
<1>1. IInv => InspectionsAreSound
  BY DEF IInv, Shape, FactsInOrder, InspectionsAreSound
<1> QED
  BY <1>1, Invariance, PTL

\* A command of one inspection takes nothing from an accepted one.
LEMMA RowLeavesThePast ==
  ASSUME IInv, NEW t \in Attempts, NEW i, RowWritten(t, i)
  PROVE  AcceptedIsFinal /\ FactWaitsForDecisions /\ FreshRequestsFollowRejections
<1>1. AcceptedIsFinal
  <2> SUFFICES ASSUME NEW j \in DOMAIN inspections, Accepted(j)
               PROVE  inspections'[j] = inspections[j] /\ IssuesOf(j)' = IssuesOf(j)
    BY DEF AcceptedIsFinal
  <2>1. j # i
    BY DEF RowWritten, Accepted
  <2>2. inspections'[j] = inspections[j]
    BY <2>1 DEF RowWritten
  <2>3. DOMAIN issues \subseteq DOMAIN issues'
    BY RowsSequencesNext DEF IInv
  <2>4. {x \in DOMAIN issues' : issues'[x].inspection = j}
          = {x \in DOMAIN issues : issues[x].inspection = j}
    BY <2>1, <2>3 DEF RowWritten
  <2>5. \A x \in {y \in DOMAIN issues : issues[y].inspection = j} : issues'[x] = issues[x]
    BY <2>1 DEF RowWritten
  <2> QED
    BY <2>2, <2>4, <2>5 DEF IssuesOf
<1>2. FactWaitsForDecisions
  BY DEF FactWaitsForDecisions, RowWritten
<1>3. FreshRequestsFollowRejections
  BY RowsAreSequences DEF FreshRequestsFollowRejections, RowWritten, IInv, Shape
<1> QED
  BY <1>1, <1>2, <1>3

LEMMA ReadingLeavesThePast ==
  ASSUME IInv, UNCHANGED <<facts, inspections, issues>>
  PROVE  AcceptedIsFinal /\ FactWaitsForDecisions /\ FreshRequestsFollowRejections
BY RowsAreSequences
DEF AcceptedIsFinal, FactWaitsForDecisions, FreshRequestsFollowRejections, IssuesOf, IInv, Shape

\* No step takes an acceptance back or touches its issues, records a fact over
\* an inspection nobody decided, or presents anew what is not rejected - not
\* even where an issue moved the inspection after the command had looked at it
\* (service.ts:116-160, 292-341).
THEOREM ThePastIsKept == ASSUME ControlAssumption PROVE Spec => ThePastStands
<1> DEFINE Kept == AcceptedIsFinal /\ FactWaitsForDecisions /\ FreshRequestsFollowRejections
<1>1. IInv /\ [Next]_vars => [Kept]_vars
  <2> SUFFICES ASSUME IInv, Next PROVE Kept
    OBVIOUS
  <2>1. ASSUME NEW t \in Attempts,
               \/ \E cmd \in PortionRequests \cup InspectionRequests \cup IssueRequests : Request(t, cmd)
               \/ LockAndCheck(t) \/ Refuse(t) \/ Abort(t) \/ RefusedByIndex(t)
        PROVE  Kept
    BY <2>1, ReadingLeavesThePast DEF Request, LockAndCheck, Refuse, Abort, RefusedByIndex
  <2>2. ASSUME NEW t \in Attempts, RecordFact(t) PROVE Kept
    <3>1. \A i \in DOMAIN inspections : inspections[i].decision = "REJECTED"
      BY <2>2 DEF RecordFact, Committing, IInv, Verified, VerifiedPortion, Checked
    <3>2. inspections' = inspections /\ issues' = issues
      BY <2>2 DEF RecordFact
    <3> QED
      BY <3>1, <3>2, RowsAreSequences
      DEF AcceptedIsFinal, FactWaitsForDecisions, FreshRequestsFollowRejections, IssuesOf, IInv, Shape
  <2>3. ASSUME NEW t \in Attempts, RequestInspection(t) PROVE Kept
    <3> DEFINE row == [type |-> Cmd(t).type, status |-> "WAITING", decision |-> "NONE",
                       photos |-> 0, version |-> 1]
    <3>1. /\ inspections' = Append(inspections, row) /\ facts' = facts /\ issues' = issues
          /\ Checked(t) /\ Cmd(t).kind = "request" /\ Addressed(Cmd(t))
          /\ ~OtherActive(Cmd(t).type, 0)
      BY <2>3 DEF RequestInspection, Committing, Checked, IInv, Shape, In
    <3>2. row \in Inspection /\ row.type = Cmd(t).type
      BY <3>1 DEF Addressed, Inspection, Active, Decisions
    <3> HIDE DEF row
    <3>3. /\ Len(inspections') = Len(inspections) + 1
          /\ \A i \in DOMAIN inspections : inspections'[i] = inspections[i]
          /\ inspections'[Len(inspections')].type = Cmd(t).type
      BY <3>1, <3>2, AppendProperties, LenProperties DEF IInv, Shape, TypeOK
    <3>4. AcceptedIsFinal
      BY <3>1, <3>3 DEF AcceptedIsFinal, IssuesOf
    <3>5. FreshRequestsFollowRejections
      <4> SUFFICES ASSUME NEW i \in DOMAIN inspections, inspections[i].type = Cmd(t).type
                   PROVE  inspections[i].status = "REJECTED"
        BY <3>3 DEF FreshRequestsFollowRejections
      <4>1. inspections[i].status # "ACCEPTED"
        BY <3>1 DEF IInv, Verified, VerifiedPortion
      <4>2. inspections[i].status \notin Active
        BY <3>1, RowsAreSequences DEF OtherActive, IInv, Shape
      <4>3. inspections[i].status \in Active \cup Decisions
        BY RowsAreSequences DEF IInv, Shape, Inspection
      <4> QED
        BY <4>1, <4>2, <4>3 DEF Decisions
    <3> QED
      BY <3>1, <3>4, <3>5 DEF FactWaitsForDecisions
  <2>4. ASSUME NEW t \in Attempts,
               \/ AddIssue(t) \/ AddPhoto(t) \/ Accept(t) \/ Reject(t)
               \/ ActOnIssue(t, "resolve", "READY_FOR_VERIFICATION")
               \/ ActOnIssue(t, "verify", "CLOSED")
        PROVE  Kept
    <3>1. \E i : RowWritten(t, i)
      BY <2>4, ControlAssumption, AddIssueWrites, AddPhotoWrites, AcceptWrites, RejectWrites,
         ActOnIssueWrites DEF IssueCommands
    <3> QED
      BY <3>1, RowLeavesThePast
  <2> QED
    BY <2>1, <2>2, <2>3, <2>4 DEF Next
<1> QED
  BY <1>1, Invariance, PTL DEF Spec, ThePastStands

-----------------------------------------------------------------------------
(* Figures: the inductive invariant                                        *)

Reporting(t) == Figures!In(t, "checked")
Told(t) == Figures!Cmd(t)

\* Rows follow each other in time, each dated by a transaction that has begun.
Rising(records) == \A i, j \in DOMAIN records : i < j => records[i].at < records[j].at
Between(records, a, b) == \A i \in DOMAIN records : a < records[i].at /\ records[i].at < b
FirstBefore(records, n, b) == n <= Len(records) /\ \A i \in 1..n : records[i].at < b

RowsAreDated ==
  /\ 0 < now /\ switchedAt < now
  /\ Rising(progress) /\ Between(progress, 0, now)
  /\ \A p \in DOMAIN portions :
       /\ portions[p].at < now
       /\ Rising(Figures!Facts(p)) /\ Between(Figures!Facts(p), portions[p].at, now)

\* What a client saw was there before its command began.
SeenBefore(t) ==
  /\ 0 < sources[t].at /\ sources[t].at <= now
  /\ Told(t).kind = "progress" => FirstBefore(progress, Told(t).seen, sources[t].at)
  /\ Told(t).kind = "fact" =>
       /\ Told(t).portion \in DOMAIN portions
       /\ portions[Told(t).portion].at < sources[t].at
       /\ FirstBefore(Figures!Facts(Told(t).portion), Told(t).seen, sources[t].at)
  /\ Told(t).kind = "portion" => units # {}

CommandsSawRows == \A t \in Attempts : ~Figures!In(t, "idle") => SeenBefore(t)

\* The row locks on the work and on a portion.
WorkLocksApart ==
  \A t, u \in Attempts : t # u /\ Reporting(t) /\ Reporting(u) =>
    /\ Told(t).kind = "progress" => Told(u).kind \notin {"progress", "unit"}
    /\ Told(t).kind = "fact" /\ Told(u).kind = "fact" => Told(t).portion # Told(u).portion

\* What a command was checked against and still finds.
StillReports(t) ==
  /\ Told(t).kind = "progress" =>
       Told(t).seen = Len(progress) /\ mode # "PORTION" /\ units = {}
  /\ Told(t).kind = "fact" => Told(t).seen = Len(Figures!Facts(Told(t).portion))

ReportsStand == \A t \in Attempts : Reporting(t) => StillReports(t)

OneSource ==
  /\ Figures!SourcesDoNotMix
  /\ mode = "PORTION" => Figures!HasFacts
  /\ mode = "UNCLASSIFIED" => switchedAt = 0
  /\ portions # <<>> => units # {}
  /\ progress # <<>> => actual = progress[Len(progress)].quantity

FiguresInv ==
  /\ Figures!TypeOK
  /\ RowsAreDated /\ CommandsSawRows /\ WorkLocksApart /\ ReportsStand /\ OneSource

(* One element more, at the end.                                           *)
LEMMA OneRowMore ==
  ASSUME NEW D, NEW s \in Seq(D), NEW d \in D
  PROVE  /\ Append(s, d) \in Seq(D) /\ Len(Append(s, d)) = Len(s) + 1
         /\ DOMAIN s = 1..Len(s) /\ DOMAIN Append(s, d) = 1..(Len(s) + 1)
         /\ \A i \in 1..Len(s) : Append(s, d)[i] = s[i] /\ s[i] \in D
         /\ Append(s, d)[Len(s) + 1] = d
  OBVIOUS

(* A row that its transaction dates after all rows it saw follows them.    *)
LEMMA RowFollows ==
  ASSUME NEW s \in Seq(Figures!Record), NEW r \in Figures!Record, NEW a \in Nat, NEW b \in Nat,
         NEW c \in Nat, Rising(s), Between(s, a, b), FirstBefore(s, Len(s), r.at),
         a < r.at, r.at < c, b <= c
  PROVE  /\ Rising(Append(s, r)) /\ Between(Append(s, r), a, c)
         /\ Len(Append(s, r)) > 0 /\ Append(s, r)[Len(Append(s, r))] = r
  <1>1. /\ Len(Append(s, r)) = Len(s) + 1 /\ Len(s) \in Nat
        /\ DOMAIN s = 1..Len(s) /\ DOMAIN Append(s, r) = 1..(Len(s) + 1)
        /\ \A i \in 1..Len(s) : Append(s, r)[i] = s[i] /\ s[i] \in Figures!Record
        /\ Append(s, r)[Len(s) + 1] = r
    BY OneRowMore
  <1>2. \A i \in 1..Len(s) : s[i].at \in Nat /\ s[i].at < r.at /\ a < s[i].at /\ s[i].at < b
    BY <1>1 DEF Figures!Record, Between, FirstBefore
  <1>3. r.at \in Nat
    BY DEF Figures!Record
  <1>4. \A i \in 1..(Len(s) + 1) : i \in 1..Len(s) \/ i = Len(s) + 1
    BY <1>1
  <1>5. Rising(Append(s, r))
    <2>1. SUFFICES ASSUME NEW i \in 1..(Len(s) + 1), NEW j \in 1..(Len(s) + 1), i < j
                   PROVE  Append(s, r)[i].at < Append(s, r)[j].at
      BY <1>1 DEF Rising
    <2>2. i \in 1..Len(s)
      BY <1>1, <2>1
    <2>3. CASE j \in 1..Len(s)
      BY <1>1, <2>1, <2>2, <2>3 DEF Rising
    <2>4. CASE j = Len(s) + 1
      BY <1>1, <1>2, <2>2, <2>4
    <2>5. QED
      BY <1>4, <2>3, <2>4
  <1>6. Between(Append(s, r), a, c)
    BY <1>1, <1>2, <1>3, <1>4 DEF Between
  <1>7. QED
    BY <1>1, <1>5, <1>6

(* The figures begin without rows.                                         *)
LEMMA FiguresBegin ==
  ASSUME Figures!FactAssumption, Figures!Init
  PROVE  FiguresInv
  <1>1. sources \in [Attempts -> Figures!Attempt] /\ \A t \in Attempts : Figures!In(t, "idle")
    BY DEF Figures!Init, Figures!Idle, Figures!Attempt, Figures!In
  <1>2. Figures!TypeOK
    BY <1>1 DEF Figures!Init, Figures!TypeOK, Figures!FactAssumption, Figures!Modes
  <1>3. \A t \in Attempts : ~Reporting(t)
    BY <1>1 DEF Reporting, Figures!In
  <1>4. RowsAreDated /\ OneSource
    BY DEF Figures!Init, RowsAreDated, OneSource, Rising, Between, Figures!SourcesDoNotMix,
       Figures!HasFacts, Figures!LegacyFact, Figures!FactAssumption, Figures!Modes
  <1>5. CommandsSawRows /\ WorkLocksApart /\ ReportsStand
    BY <1>1, <1>3 DEF CommandsSawRows, WorkLocksApart, ReportsStand
  <1>6. QED
    BY <1>2, <1>4, <1>5 DEF FiguresInv

(* What a command of the figures is.                                       *)
LEMMA ToldIsCommand ==
  ASSUME Figures!TypeOK, NEW t \in Attempts, ~Figures!In(t, "idle")
  PROVE  /\ Told(t) \in Figures!Command /\ sources[t] \in Figures!Attempt
         /\ sources[t].at \in Nat /\ sources[t].phase \in {"begun", "checked"}
         /\ sources[t] = [phase |-> sources[t].phase, cmd |-> Told(t), at |-> sources[t].at]
  BY DEF Figures!TypeOK, Figures!In, Told, Figures!Cmd, Figures!Attempt, Figures!Idle

(* Without a row more or less, the rows are as they were.                  *)
LEMMA SameRows ==
  ASSUME UNCHANGED <<mode, switchedAt, actual, progress, units, portions>>
  PROVE  /\ OneSource <=> OneSource'
         /\ \A p : Figures!Facts(p)' = Figures!Facts(p)
         /\ now' = now => (RowsAreDated <=> RowsAreDated')
  BY DEF OneSource, Figures!SourcesDoNotMix, Figures!HasFacts, Figures!LegacyFact,
     Figures!Facts, RowsAreDated, Rising, Between

(* Portions are numbered by their place.                                   *)
LEMMA PortionShape ==
  ASSUME portions \in Seq(Figures!Portion), NEW p \in DOMAIN portions
  PROVE  /\ p \in Nat /\ p \in 1..Len(portions) /\ portions[p] \in Figures!Portion
         /\ portions[p].at \in Nat /\ Figures!Facts(p) \in Seq(Figures!Record)
         /\ Figures!Facts(p) = portions[p].facts
         /\ Len(Figures!Facts(p)) \in Nat /\ DOMAIN Figures!Facts(p) = 1..Len(Figures!Facts(p))
  <1>1. p \in Nat /\ p \in 1..Len(portions) /\ portions[p] \in Figures!Portion
    OBVIOUS
  <1>2. PICK row \in Figures!Portion : row = portions[p]
    BY <1>1
  <1>3. row.at \in Nat /\ row.facts \in Seq(Figures!Record)
    BY DEF Figures!Portion
  <1>4. Figures!Facts(p) = row.facts
    BY <1>2 DEF Figures!Facts
  <1>5. QED
    BY <1>1, <1>2, <1>3, <1>4

(* One element more, and the others stay.                                  *)
LEMMA OneMoreAtTheEnd ==
  ASSUME NEW D, NEW s \in Seq(D), NEW d \in D
  PROVE  /\ Append(s, d) \in Seq(D)
         /\ \A i \in DOMAIN s : i \in DOMAIN Append(s, d) /\ Append(s, d)[i] = s[i]
         /\ \A i \in DOMAIN Append(s, d) : i \in DOMAIN s \/ Append(s, d)[i] = d
  OBVIOUS

(* What was before now is before a later instant.                          *)
LEMMA LaterIsBetween ==
  ASSUME RowsAreDated, progress \in Seq(Figures!Record), portions \in Seq(Figures!Portion),
         switchedAt \in Nat, now \in Nat, now' = now + 1
  PROVE  /\ 0 < now' /\ switchedAt < now' /\ Rising(progress) /\ Between(progress, 0, now')
         /\ \A p \in DOMAIN portions :
              /\ portions[p].at < now'
              /\ Rising(portions[p].facts) /\ Between(portions[p].facts, portions[p].at, now')
         /\ UNCHANGED <<switchedAt, progress, portions>> => RowsAreDated'
  <1>1. 0 < now' /\ switchedAt < now' /\ Rising(progress)
    BY DEF RowsAreDated
  <1>2. ASSUME NEW s \in Seq(Figures!Record), NEW a, Between(s, a, now)
        PROVE  Between(s, a, now')
    <2>1. \A i \in DOMAIN s : s[i] \in Figures!Record
      OBVIOUS
    <2>2. \A r \in Figures!Record : r.at \in Nat
      BY DEF Figures!Record
    <2>3. QED
      BY <1>2, <2>1, <2>2 DEF Between
  <1>3. Between(progress, 0, now')
    BY <1>2 DEF RowsAreDated
  <1>4. ASSUME NEW p \in DOMAIN portions
        PROVE  /\ portions[p].at < now'
               /\ Rising(portions[p].facts) /\ Between(portions[p].facts, portions[p].at, now')
    <2>1. portions[p].facts \in Seq(Figures!Record) /\ portions[p].at \in Nat
      BY PortionShape
    <2>2. /\ portions[p].at < now
          /\ Rising(portions[p].facts) /\ Between(portions[p].facts, portions[p].at, now)
      BY DEF RowsAreDated, Figures!Facts
    <2>3. QED
      BY <1>2, <2>1, <2>2
  <1>5. UNCHANGED <<switchedAt, progress, portions>> => RowsAreDated'
    BY <1>1, <1>3, <1>4 DEF RowsAreDated, Figures!Facts
  <1>6. QED
    BY <1>1, <1>3, <1>4, <1>5

(* Who does nothing tells nothing.                                         *)
LEMMA SilentAreIdle ==
  ASSUME NEW t \in Attempts, NEW x
  PROVE  /\ x = Figures!Idle => x.phase # "checked" /\ x.phase = "idle"
         /\ Reporting(t) => ~Figures!In(t, "idle")
  BY DEF Reporting, Figures!In, Figures!Idle

(* A command that was read but changes no row.                             *)
LEMMA OnlyOneMoves ==
  ASSUME FiguresInv, NEW t \in Attempts, NEW x \in Figures!Attempt,
         sources' = [sources EXCEPT ![t] = x],
         UNCHANGED <<mode, switchedAt, actual, progress, units, portions, now>>,
         sent' \in 0..MaxReports,
         x.phase # "idle" => SeenBefore(t)',
         x.phase = "checked" =>
           /\ StillReports(t)'
           /\ \A u \in Attempts \ {t} : Reporting(u) =>
                /\ x.cmd.kind = "progress" => Told(u).kind \notin {"progress", "unit"}
                /\ Told(u).kind = "progress" => x.cmd.kind \notin {"progress", "unit"}
                /\ x.cmd.kind = "fact" /\ Told(u).kind = "fact" => Told(u).portion # x.cmd.portion
  PROVE  FiguresInv'
  <1>1. /\ sources \in [Attempts -> Figures!Attempt] /\ sources'[t] = x
        /\ sources' \in [Attempts -> Figures!Attempt]
        /\ \A u \in Attempts \ {t} : sources'[u] = sources[u]
    BY DEF FiguresInv, Figures!TypeOK
  <1>2. /\ \A u \in Attempts \ {t} :
             /\ Figures!In(u, "idle")' <=> Figures!In(u, "idle")
             /\ Reporting(u)' <=> Reporting(u)
             /\ Told(u)' = Told(u) /\ sources'[u].at = sources[u].at
        /\ Figures!In(t, "idle")' <=> x.phase = "idle"
        /\ Reporting(t)' <=> x.phase = "checked"
        /\ Told(t)' = x.cmd
    BY <1>1 DEF Reporting, Told, Figures!In, Figures!Cmd
  <1>3. Figures!TypeOK'
    BY <1>1 DEF FiguresInv, Figures!TypeOK
  <1>4. RowsAreDated' /\ OneSource' /\ \A p : Figures!Facts(p)' = Figures!Facts(p)
    BY SameRows DEF FiguresInv
  <1>5. \A u \in Attempts \ {t} : SeenBefore(u) => SeenBefore(u)'
    BY <1>2, <1>4 DEF SeenBefore, FirstBefore
  <1>6. CommandsSawRows'
    BY <1>2, <1>5 DEF CommandsSawRows, FiguresInv
  <1>7. \A u \in Attempts \ {t} : StillReports(u) => StillReports(u)'
    BY <1>2, <1>4 DEF StillReports
  <1>8. ReportsStand'
    BY <1>2, <1>7 DEF ReportsStand, FiguresInv
  <1>9. WorkLocksApart'
    <2>1. SUFFICES ASSUME NEW u \in Attempts, NEW v \in Attempts, u # v,
                          Reporting(u)', Reporting(v)'
                   PROVE  /\ Told(u)'.kind = "progress" => Told(v)'.kind \notin {"progress", "unit"}
                          /\ Told(u)'.kind = "fact" /\ Told(v)'.kind = "fact" =>
                               Told(u)'.portion # Told(v)'.portion
      BY DEF WorkLocksApart
    <2>2. CASE u # t /\ v # t
      BY <1>2, <2>1, <2>2 DEF FiguresInv, WorkLocksApart
    <2>3. CASE u = t /\ v # t
      BY <1>2, <2>1, <2>3
    <2>4. CASE u # t /\ v = t
      BY <1>2, <2>1, <2>4
    <2>5. QED
      BY <2>1, <2>2, <2>3, <2>4
  <1>10. QED
    BY <1>3, <1>4, <1>6, <1>8, <1>9 DEF FiguresInv

(* A client sends what it reads now.                                       *)
LEMMA RequestKeepsFigures ==
  ASSUME Figures!FactAssumption, FiguresInv, NEW t \in Attempts, NEW cmd \in Figures!Commands,
         Figures!Request(t, cmd)
  PROVE  FiguresInv'
  <1>1. PICK x : x = [phase |-> "begun", cmd |-> cmd, at |-> now]
    OBVIOUS
  <1>2. /\ sources' = [sources EXCEPT ![t] = x] /\ sent < MaxReports /\ sent' = sent + 1
        /\ UNCHANGED <<mode, switchedAt, actual, progress, units, portions, now>>
    BY <1>1 DEF Figures!Request, Figures!evidence
  <1>3. /\ progress \in Seq(Figures!Record) /\ portions \in Seq(Figures!Portion) /\ now \in Nat
        /\ sources \in [Attempts -> Figures!Attempt] /\ sent \in 0..MaxReports
        /\ Amounts \subseteq Nat /\ MaxReports \in Nat
    BY DEF FiguresInv, Figures!TypeOK, Figures!FactAssumption
  <1>4. \A p \in DOMAIN portions :
          p \in Nat /\ portions[p] \in Figures!Portion /\ Figures!Facts(p) \in Seq(Figures!Record)
    BY <1>3, PortionShape
  <1> DEFINE Fits(c) ==
               /\ c \in Figures!Command
               /\ c.kind = "progress" => c.seen = Len(progress)
               /\ c.kind = "portion" => units # {}
               /\ c.kind = "fact" =>
                    c.portion \in DOMAIN portions /\ c.seen = Len(Figures!Facts(c.portion))
  <1>5. Fits(cmd)
    <2>1. Len(progress) \in Nat /\ \A p \in DOMAIN portions : Len(Figures!Facts(p)) \in Nat
      BY <1>3, <1>4
    <2>2. ASSUME NEW q \in Amounts, cmd = Figures!NewCommand("progress", 0, q, Len(progress))
          PROVE  Fits(cmd)
      BY <1>3, <2>1, <2>2 DEF Figures!NewCommand, Figures!Command
    <2>3. CASE cmd = Figures!NewCommand("unit", 0, 0, 0)
      BY <2>3 DEF Figures!NewCommand, Figures!Command
    <2>4. CASE units # {} /\ cmd = Figures!NewCommand("portion", 0, 0, 0)
      BY <2>4 DEF Figures!NewCommand, Figures!Command
    <2>5. ASSUME NEW p \in DOMAIN portions, NEW q \in Amounts,
                 cmd = Figures!NewCommand("fact", p, q, Len(Figures!Facts(p)))
          PROVE  Fits(cmd)
      BY <1>3, <1>4, <2>1, <2>5 DEF Figures!NewCommand, Figures!Command
    <2>6. QED
      BY <2>2, <2>3, <2>4, <2>5 DEF Figures!Commands
  <1>6. x \in Figures!Attempt /\ x.phase = "begun" /\ x.cmd = cmd /\ x.at = now
    BY <1>1, <1>3, <1>5 DEF Figures!Attempt
  <1>7. Told(t)' = cmd /\ sources'[t].at = now
    BY <1>2, <1>3, <1>6 DEF Told, Figures!Cmd
  <1>8. /\ 0 < now /\ Between(progress, 0, now)
        /\ \A p \in DOMAIN portions : Between(Figures!Facts(p), portions[p].at, now)
    BY DEF FiguresInv, RowsAreDated
  <1>9. FirstBefore(progress, Len(progress), now)
    BY <1>3, <1>8 DEF FirstBefore, Between
  <1>10. \A p \in DOMAIN portions : FirstBefore(Figures!Facts(p), Len(Figures!Facts(p)), now)
    BY <1>3, <1>4, <1>8 DEF FirstBefore, Between
  <1>11. \A p \in DOMAIN portions : portions[p].at < now
    BY DEF FiguresInv, RowsAreDated
  <1>12. SeenBefore(t)'
    BY <1>2, <1>3, <1>5, <1>7, <1>8, <1>9, <1>10, <1>11, SameRows DEF SeenBefore
  <1>13. sent' \in 0..MaxReports /\ x.phase # "checked"
    BY <1>2, <1>3, <1>6
  <1>14. QED
    BY <1>2, <1>6, <1>12, <1>13, OnlyOneMoves

(* Locks are taken where nobody has them.                                  *)
LEMMA LockKeepsFigures ==
  ASSUME FiguresInv, NEW t \in Attempts, Figures!LockAndCheck(t)
  PROVE  FiguresInv'
  <1>1. PICK x : x = [phase |-> "checked", cmd |-> Told(t), at |-> sources[t].at]
    OBVIOUS
  <1>2. /\ Figures!In(t, "begun") /\ ~Figures!In(t, "idle") /\ Figures!TypeOK
    BY DEF Figures!LockAndCheck, FiguresInv, Figures!In
  <1>3. /\ Told(t) \in Figures!Command /\ sources[t].at \in Nat
        /\ sources[t] = [phase |-> "begun", cmd |-> Told(t), at |-> sources[t].at]
    BY <1>2, ToldIsCommand DEF Figures!In
  <1>4. sources' = [sources EXCEPT ![t] = x]
    <2>1. PICK y : y = sources[t]
      OBVIOUS
    <2>2. [y EXCEPT !.phase = "checked"] = x
      BY <1>1, <1>3, <2>1
    <2>3. QED
      BY <2>1, <2>2 DEF Figures!LockAndCheck
  <1>5. /\ UNCHANGED <<mode, switchedAt, actual, progress, units, portions, now>>
        /\ sent' \in 0..MaxReports
    BY <1>2 DEF Figures!LockAndCheck, Figures!evidence, Figures!TypeOK
  <1>6. x \in Figures!Attempt /\ x.phase = "checked" /\ x.cmd = Told(t) /\ x.at = sources[t].at
    BY <1>1, <1>3 DEF Figures!Attempt
  <1>7. Told(t)' = Told(t) /\ sources'[t].at = sources[t].at
    BY <1>2, <1>4, <1>6 DEF Told, Figures!Cmd, Figures!TypeOK
  <1>8. SeenBefore(t)'
    <2>1. SeenBefore(t)
      BY <1>2 DEF FiguresInv, CommandsSawRows
    <2>2. QED
      BY <1>5, <1>7, <2>1, SameRows DEF SeenBefore
  <1>9. StillReports(t)'
    <2>1. Figures!Allowed(t)
      BY DEF Figures!LockAndCheck
    <2>2. StillReports(t)
      BY <2>1 DEF Figures!Allowed, StillReports, Told
    <2>3. QED
      BY <1>5, <1>7, <2>2, SameRows DEF StillReports
  <1>10. \A u \in Attempts \ {t} : Reporting(u) =>
           /\ Told(t).kind = "progress" => Told(u).kind \notin {"progress", "unit"}
           /\ Told(u).kind = "progress" => Told(t).kind \notin {"progress", "unit"}
           /\ Told(t).kind = "fact" /\ Told(u).kind = "fact" => Told(u).portion # Told(t).portion
    <2>1. Figures!CanLock(t)
      BY DEF Figures!LockAndCheck
    <2>2. CASE Told(t).kind \in {"progress", "unit"}
      BY <2>1, <2>2 DEF Figures!CanLock, Figures!WorkIsFree, Figures!HoldsWork,
         Figures!SharesWork, Told, Reporting
    <2>3. CASE Told(t).kind = "fact"
      BY <2>1, <2>3 DEF Figures!CanLock, Figures!PortionIsFree, Told, Reporting
    <2>4. CASE Told(t).kind \notin {"progress", "unit", "fact"}
      BY <2>4
    <2>5. QED
      BY <2>2, <2>3, <2>4
  <1>11. QED
    BY <1>4, <1>5, <1>6, <1>8, <1>9, <1>10, OnlyOneMoves

(* A command that ends without effect leaves the rows.                     *)
LEMMA EndKeepsFigures ==
  ASSUME FiguresInv, NEW t \in Attempts, Figures!Refuse(t) \/ Figures!Abort(t)
  PROVE  FiguresInv'
  <1>1. /\ sources' = [sources EXCEPT ![t] = Figures!Idle]
        /\ UNCHANGED <<mode, switchedAt, actual, progress, units, portions, now, sent>>
    BY DEF Figures!Refuse, Figures!Abort, Figures!evidence
  <1>2. /\ Figures!Idle \in Figures!Attempt
        /\ Figures!Idle.phase # "checked" /\ Figures!Idle.phase = "idle"
    BY DEF Figures!Idle, Figures!Attempt
  <1>3. sent' \in 0..MaxReports
    BY <1>1 DEF FiguresInv, Figures!TypeOK
  <1>4. QED
    BY <1>1, <1>2, <1>3, OnlyOneMoves

(* Where nothing moves, nothing changes.                                   *)
LEMMA NothingMoves ==
  ASSUME FiguresInv,
         UNCHANGED <<mode, switchedAt, actual, progress, units, portions, sources, sent, now>>
  PROVE  FiguresInv'
  <1>1. Figures!TypeOK'
    BY DEF FiguresInv, Figures!TypeOK
  <1>2. RowsAreDated' /\ OneSource' /\ \A p : Figures!Facts(p)' = Figures!Facts(p)
    BY SameRows DEF FiguresInv
  <1>3. \A t \in Attempts : /\ Figures!In(t, "idle")' <=> Figures!In(t, "idle")
                            /\ Reporting(t)' <=> Reporting(t)
                            /\ Told(t)' = Told(t)
    BY DEF Figures!In, Reporting, Told, Figures!Cmd
  <1>4. CommandsSawRows'
    BY <1>2, <1>3 DEF CommandsSawRows, SeenBefore, FirstBefore, FiguresInv
  <1>5. WorkLocksApart' /\ ReportsStand'
    BY <1>2, <1>3 DEF WorkLocksApart, ReportsStand, StillReports, FiguresInv
  <1>6. QED
    BY <1>1, <1>2, <1>4, <1>5 DEF FiguresInv

\* Rows are only added.
Grown(old, new) == Len(old) <= Len(new) /\ \A i \in 1..Len(old) : new[i] = old[i]

\* What a commit leaves of the portions.
PortionsGrown(old, new) ==
  \A p \in DOMAIN old :
    p \in DOMAIN new /\ new[p].at = old[p].at /\ Grown(old[p].facts, new[p].facts)

(* Rows that were seen before an instant still are when rows are added.    *)
LEMMA StillBefore ==
  ASSUME NEW D, NEW old \in Seq(D), NEW new, Grown(old, new), Len(new) \in Nat,
         NEW n \in Nat, NEW b, FirstBefore(old, n, b)
  PROVE  FirstBefore(new, n, b)
  <1>1. n <= Len(old) /\ Len(old) \in Nat /\ \A i \in 1..n : i \in 1..Len(old)
    BY DEF FirstBefore
  <1>2. QED
    BY <1>1 DEF FirstBefore, Grown

(* A commit that adds rows, of the sort the transaction is about, and lets *)
(* the other checked commands find what they were checked against.         *)
LEMMA CommitKeepsFigures ==
  ASSUME FiguresInv, NEW t \in Attempts, NEW kind, Figures!Committing(t, kind),
         mode' \in Figures!Modes, switchedAt' \in Nat, actual' \in Nat,
         progress' \in Seq(Figures!Record), units' \subseteq Nat,
         portions' \in Seq(Figures!Portion),
         Grown(progress, progress'), units \subseteq units', PortionsGrown(portions, portions'),
         RowsAreDated', OneSource',
         \A u \in Attempts \ {t} : Reporting(u) /\ Told(u)' = Told(u) => StillReports(u)'
  PROVE  FiguresInv'
  <1>1. /\ sources' = [sources EXCEPT ![t] = Figures!Idle] /\ now' = now + 1 /\ sent' = sent
        /\ Figures!TypeOK
    BY DEF Figures!Committing, FiguresInv
  <1>2. Figures!Idle \in Figures!Attempt
    BY DEF Figures!Idle, Figures!Attempt
  <1>3. /\ \A u \in Attempts \ {t} : sources'[u] = sources[u]
        /\ sources'[t] = Figures!Idle /\ sources' \in [Attempts -> Figures!Attempt]
    BY <1>1, <1>2 DEF Figures!TypeOK
  <1>4. Figures!TypeOK'
    BY <1>1, <1>3 DEF Figures!TypeOK
  <1>5. Figures!In(t, "idle")' /\ ~Reporting(t)'
    BY <1>3 DEF Figures!In, Figures!Idle, Reporting
  <1>6. \A u \in Attempts \ {t} :
          /\ Figures!In(u, "idle")' <=> Figures!In(u, "idle")
          /\ Reporting(u)' <=> Reporting(u)
          /\ Told(u)' = Told(u) /\ sources'[u].at = sources[u].at
    BY <1>3 DEF Figures!In, Reporting, Told, Figures!Cmd
  <1>7. WorkLocksApart'
    BY <1>5, <1>6 DEF WorkLocksApart, FiguresInv
  <1>8. ReportsStand'
    BY <1>5, <1>6 DEF ReportsStand
  <1>9. ASSUME NEW u \in Attempts \ {t}, ~Figures!In(u, "idle")
        PROVE  SeenBefore(u)'
    <2>1. PICK c \in Figures!Command : c = Told(u)
      BY <1>1, <1>9, ToldIsCommand
    <2>2. PICK at \in Nat : at = sources[u].at
      BY <1>1, <1>9, ToldIsCommand
    <2>3. Told(u)' = c /\ sources'[u].at = at
      BY <1>6, <1>9, <2>1, <2>2
    <2>4. SeenBefore(u)
      BY <1>9 DEF FiguresInv, CommandsSawRows
    <2>5. 0 < at /\ at <= now + 1
      BY <1>1, <2>2, <2>4 DEF SeenBefore, Figures!TypeOK
    <2>6. c.seen \in Nat
      BY DEF Figures!Command
    <2>7. ASSUME c.kind = "progress"
          PROVE  FirstBefore(progress', c.seen, at)
      <3>1. FirstBefore(progress, c.seen, at)
        BY <2>1, <2>2, <2>4, <2>7 DEF SeenBefore
      <3>2. progress \in Seq(Figures!Record) /\ Len(progress') \in Nat
        BY <1>1 DEF Figures!TypeOK
      <3>3. QED
        BY <2>6, <3>1, <3>2, StillBefore
    <2>8. ASSUME c.kind = "fact"
          PROVE  /\ c.portion \in DOMAIN portions' /\ portions'[c.portion].at < at
                 /\ FirstBefore(portions'[c.portion].facts, c.seen, at)
      <3>1. PICK p \in DOMAIN portions : p = c.portion
        BY <2>1, <2>4, <2>8 DEF SeenBefore
      <3>2. portions[p].at < at /\ FirstBefore(portions[p].facts, c.seen, at)
        BY <2>1, <2>2, <2>4, <2>8, <3>1 DEF SeenBefore, Figures!Facts
      <3>3. /\ p \in DOMAIN portions' /\ portions'[p].at = portions[p].at
            /\ Grown(portions[p].facts, portions'[p].facts)
        BY DEF PortionsGrown
      <3>4. portions[p].facts \in Seq(Figures!Record)
        BY <1>1, PortionShape DEF Figures!TypeOK, Figures!Facts
      <3>5. portions'[p] \in Figures!Portion
        BY <3>3
      <3>6. Len(portions'[p].facts) \in Nat
        BY <3>5 DEF Figures!Portion
      <3>7. FirstBefore(portions'[p].facts, c.seen, at)
        BY <2>6, <3>2, <3>3, <3>4, <3>6, StillBefore
      <3>8. QED
        BY <3>1, <3>2, <3>3, <3>7
    <2>9. c.kind = "portion" => units' # {}
      BY <2>1, <2>4 DEF SeenBefore
    <2>10. QED
      BY <1>1, <2>3, <2>5, <2>7, <2>8, <2>9 DEF SeenBefore, Figures!Facts
  <1>10. CommandsSawRows'
    BY <1>5, <1>6, <1>9 DEF CommandsSawRows
  <1>11. QED
    BY <1>4, <1>7, <1>8, <1>10 DEF FiguresInv

(* Rows as they were have grown.                                           *)
LEMMA SameIsGrown ==
  ASSUME NEW D, NEW s \in Seq(D), NEW d \in D
  PROVE  Grown(s, s) /\ Grown(s, Append(s, d))
  BY OneRowMore DEF Grown

(* Portions as they were have grown.                                       *)
LEMMA SamePortionsGrown ==
  ASSUME portions \in Seq(Figures!Portion)
  PROVE  PortionsGrown(portions, portions)
  <1>1. \A p \in DOMAIN portions : Grown(portions[p].facts, portions[p].facts)
    <2>1. SUFFICES ASSUME NEW p \in DOMAIN portions
                   PROVE  Grown(portions[p].facts, portions[p].facts)
      OBVIOUS
    <2>2. portions[p].facts \in Seq(Figures!Record)
      BY PortionShape
    <2>3. QED
      BY <2>2 DEF Grown
  <1>2. QED
    BY <1>1 DEF PortionsGrown

(* What a commit knows of its command.                                     *)
LEMMA CommitKnows ==
  ASSUME FiguresInv, NEW t \in Attempts, NEW kind, Figures!Committing(t, kind)
  PROVE  /\ Told(t) \in Figures!Command /\ Told(t).kind = kind /\ Reporting(t)
         /\ sources[t].at \in Nat /\ 0 < sources[t].at /\ sources[t].at < now' /\ now <= now'
         /\ now \in Nat /\ now' = now + 1
         /\ SeenBefore(t) /\ StillReports(t)
         /\ Figures!Reporting(t) \in Figures!Record
         /\ Figures!Reporting(t).at = sources[t].at
         /\ Figures!Reporting(t).quantity = Told(t).quantity
         /\ \A u \in Attempts \ {t} : Reporting(u) =>
              /\ ~Figures!In(u, "idle") /\ StillReports(u)
              /\ kind = "progress" => Told(u).kind \notin {"progress", "unit"}
              /\ kind = "unit" => Told(u).kind # "progress"
              /\ kind = "fact" /\ Told(u).kind = "fact" => Told(u).portion # Told(t).portion
  <1>1. /\ Reporting(t) /\ Told(t).kind = kind /\ now' = now + 1 /\ now \in Nat /\ Figures!TypeOK
        /\ \A u \in Attempts : Reporting(u) => ~Figures!In(u, "idle")
    BY SilentAreIdle DEF Figures!Committing, Reporting, Told, FiguresInv, Figures!TypeOK
  <1>2. Told(t) \in Figures!Command /\ sources[t].at \in Nat
    BY <1>1, ToldIsCommand
  <1>3. SeenBefore(t) /\ StillReports(t)
    BY <1>1 DEF FiguresInv, CommandsSawRows, ReportsStand
  <1>4. 0 < sources[t].at /\ sources[t].at <= now
    BY <1>3 DEF SeenBefore
  <1>5. /\ Figures!Reporting(t) = [quantity |-> Told(t).quantity, at |-> sources[t].at]
        /\ Told(t).quantity \in Nat
    BY <1>2 DEF Figures!Reporting, Figures!At, Told, Figures!Command
  <1>6. \A u \in Attempts \ {t} : Reporting(u) =>
          /\ StillReports(u)
          /\ kind = "progress" => Told(u).kind \notin {"progress", "unit"}
          /\ kind = "unit" => Told(u).kind # "progress"
          /\ kind = "fact" /\ Told(u).kind = "fact" => Told(u).portion # Told(t).portion
    BY <1>1 DEF FiguresInv, WorkLocksApart, ReportsStand
  <1>7. QED
    BY <1>1, <1>2, <1>3, <1>4, <1>5, <1>6 DEF Figures!Record

(* Progress is reported of a work without units.                           *)
LEMMA ProgressKeepsFigures ==
  ASSUME FiguresInv, NEW t \in Attempts, Figures!Progress(t)
  PROVE  FiguresInv'
  <1>1. PICK r : r = Figures!Reporting(t)
    OBVIOUS
  <1>2. /\ Figures!Committing(t, "progress")
        /\ actual' = r.quantity /\ progress' = Append(progress, r)
        /\ UNCHANGED <<mode, switchedAt, units, portions>>
    BY <1>1, CommitKnows DEF Figures!Progress, Told
  <1>3. /\ r \in Figures!Record /\ r.at \in Nat /\ 0 < r.at /\ r.at < now' /\ now <= now'
        /\ now \in Nat /\ now' = now + 1 /\ r.quantity \in Nat
    BY <1>1, <1>2, CommitKnows DEF Figures!Record
  <1>4. /\ Told(t).kind = "progress" /\ r.at = sources[t].at
        /\ FirstBefore(progress, Told(t).seen, r.at) /\ Told(t).seen = Len(progress)
        /\ mode # "PORTION" /\ units = {}
    BY <1>1, <1>2, CommitKnows DEF SeenBefore, StillReports
  <1>5. /\ progress \in Seq(Figures!Record) /\ portions \in Seq(Figures!Portion)
        /\ mode \in Figures!Modes /\ switchedAt \in Nat /\ units \subseteq Nat
        /\ RowsAreDated /\ OneSource
    BY DEF FiguresInv, Figures!TypeOK
  <1>6. /\ Rising(progress') /\ Between(progress', 0, now')
        /\ Len(progress') > 0 /\ progress'[Len(progress')] = r
    <2>1. Rising(progress) /\ Between(progress, 0, now)
      BY <1>5 DEF RowsAreDated
    <2>2. QED
      BY <1>2, <1>3, <1>4, <1>5, <2>1, RowFollows
  <1>7. progress' \in Seq(Figures!Record) /\ Grown(progress, progress')
    BY <1>2, <1>3, <1>5, SameIsGrown, OneRowMore
  <1>8. portions = <<>>
    BY <1>4, <1>5 DEF OneSource
  <1>9. RowsAreDated'
    BY <1>2, <1>3, <1>5, <1>6, <1>8 DEF RowsAreDated
  <1>10. OneSource'
    <2>1. ~Figures!HasFacts /\ ~Figures!HasFacts'
      BY <1>2, <1>8 DEF Figures!HasFacts
    <2>2. QED
      BY <1>2, <1>4, <1>5, <1>6, <1>8, <2>1 DEF OneSource, Figures!SourcesDoNotMix
  <1>11. \A u \in Attempts \ {t} : Reporting(u) /\ Told(u)' = Told(u) => StillReports(u)'
    <2>1. SUFFICES ASSUME NEW u \in Attempts \ {t}, Reporting(u), Told(u)' = Told(u)
                   PROVE  StillReports(u)'
      OBVIOUS
    <2>2. StillReports(u) /\ Told(u).kind # "progress"
      BY <1>2, <2>1, CommitKnows
    <2>3. QED
      BY <1>2, <2>1, <2>2 DEF StillReports, Figures!Facts
  <1>12. PortionsGrown(portions, portions')
    BY <1>2, <1>5, SamePortionsGrown
  <1>13. actual' \in Nat /\ units \subseteq units'
    BY <1>2, <1>3
  <1>14. QED
    BY <1>2, <1>5, <1>7, <1>9, <1>10, <1>11, <1>12, <1>13, CommitKeepsFigures

(* A unit is added while no progress is under way.                         *)
LEMMA UnitKeepsFigures ==
  ASSUME FiguresInv, NEW t \in Attempts, Figures!CreateUnit(t)
  PROVE  FiguresInv'
  <1>1. /\ Figures!Committing(t, "unit") /\ units' = units \cup {sources[t].at}
        /\ UNCHANGED <<mode, switchedAt, actual, progress, portions>>
    BY DEF Figures!CreateUnit, Figures!At
  <1>2. sources[t].at \in Nat /\ now \in Nat /\ now' = now + 1
    BY <1>1, CommitKnows
  <1>3. /\ progress \in Seq(Figures!Record) /\ portions \in Seq(Figures!Portion)
        /\ mode \in Figures!Modes /\ switchedAt \in Nat /\ units \subseteq Nat /\ actual \in Nat
        /\ RowsAreDated /\ OneSource
    BY DEF FiguresInv, Figures!TypeOK
  <1>4. Grown(progress, progress')
    BY <1>1, <1>3 DEF Grown
  <1>5. RowsAreDated'
    BY <1>1, <1>2, <1>3, LaterIsBetween
  <1>6. OneSource'
    BY <1>1, <1>3 DEF OneSource, Figures!SourcesDoNotMix, Figures!HasFacts, Figures!LegacyFact,
       Figures!Facts
  <1>7. \A u \in Attempts \ {t} : Reporting(u) /\ Told(u)' = Told(u) => StillReports(u)'
    <2>1. SUFFICES ASSUME NEW u \in Attempts \ {t}, Reporting(u), Told(u)' = Told(u)
                   PROVE  StillReports(u)'
      OBVIOUS
    <2>2. StillReports(u) /\ Told(u).kind # "progress"
      BY <1>1, <2>1, CommitKnows
    <2>3. QED
      BY <1>1, <2>1, <2>2 DEF StillReports, Figures!Facts
  <1>8. PortionsGrown(portions, portions')
    BY <1>1, <1>3, SamePortionsGrown
  <1>9. units' \subseteq Nat /\ units \subseteq units'
    BY <1>1, <1>2, <1>3
  <1>10. QED
    BY <1>1, <1>3, <1>4, <1>5, <1>6, <1>7, <1>8, <1>9, CommitKeepsFigures

(* A portion is added, of a unit that is there.                            *)
LEMMA PortionKeepsFigures ==
  ASSUME FiguresInv, NEW t \in Attempts, Figures!CreatePortion(t)
  PROVE  FiguresInv'
  <1>1. PICK row : row = [at |-> sources[t].at, facts |-> <<>>]
    OBVIOUS
  <1>2. /\ Figures!Committing(t, "portion") /\ portions' = Append(portions, row)
        /\ UNCHANGED <<mode, switchedAt, actual, progress, units>>
    BY <1>1 DEF Figures!CreatePortion, Figures!At
  <1>3. /\ sources[t].at \in Nat /\ now \in Nat /\ now' = now + 1 /\ sources[t].at < now'
        /\ units # {}
    BY <1>2, CommitKnows DEF SeenBefore
  <1>4. /\ progress \in Seq(Figures!Record) /\ portions \in Seq(Figures!Portion)
        /\ mode \in Figures!Modes /\ switchedAt \in Nat /\ units \subseteq Nat /\ actual \in Nat
        /\ RowsAreDated /\ OneSource
    BY DEF FiguresInv, Figures!TypeOK
  <1>5. row \in Figures!Portion /\ row.facts = <<>> /\ row.at = sources[t].at
    BY <1>1, <1>3 DEF Figures!Portion
  <1>6. /\ portions' \in Seq(Figures!Portion)
        /\ \A p \in DOMAIN portions : p \in DOMAIN portions' /\ portions'[p] = portions[p]
        /\ \A p \in DOMAIN portions' : p \in DOMAIN portions \/ portions'[p] = row
    BY <1>2, <1>4, <1>5, OneMoreAtTheEnd
  <1>7. Grown(progress, progress') /\ PortionsGrown(portions, portions')
    BY <1>2, <1>4, <1>6, SamePortionsGrown DEF Grown, PortionsGrown
  <1>8. RowsAreDated'
    <2>1. 0 < now' /\ switchedAt' < now' /\ Rising(progress') /\ Between(progress', 0, now')
      BY <1>2, <1>3, <1>4, LaterIsBetween DEF RowsAreDated
    <2>2. ASSUME NEW p \in DOMAIN portions'
          PROVE  /\ portions'[p].at < now'
                 /\ Rising(portions'[p].facts) /\ Between(portions'[p].facts, portions'[p].at, now')
      <3>1. CASE portions'[p] = row
        BY <1>3, <1>5, <3>1 DEF Rising, Between
      <3>2. CASE p \in DOMAIN portions
        <4>1. portions'[p] = portions[p]
          BY <1>6, <3>2
        <4>2. /\ portions[p].at < now' /\ Rising(portions[p].facts)
              /\ Between(portions[p].facts, portions[p].at, now')
          BY <1>3, <1>4, <3>2, LaterIsBetween
        <4>3. QED
          BY <4>1, <4>2
      <3>3. QED
        BY <1>6, <3>1, <3>2
    <2>3. QED
      BY <2>1, <2>2 DEF RowsAreDated, Figures!Facts
  <1>9. Figures!HasFacts <=> Figures!HasFacts'
    BY <1>5, <1>6 DEF Figures!HasFacts, Figures!Facts
  <1>10. OneSource'
    BY <1>2, <1>3, <1>4, <1>9 DEF OneSource, Figures!SourcesDoNotMix, Figures!LegacyFact
  <1>11. \A u \in Attempts \ {t} : Reporting(u) /\ Told(u)' = Told(u) => StillReports(u)'
    <2>1. SUFFICES ASSUME NEW u \in Attempts \ {t}, Reporting(u), Told(u)' = Told(u)
                   PROVE  StillReports(u)'
      OBVIOUS
    <2>2. /\ StillReports(u)
          /\ Told(u).kind = "fact" => Told(u).portion \in DOMAIN portions
      BY <1>2, <2>1, CommitKnows DEF FiguresInv, CommandsSawRows, SeenBefore
    <2>3. QED
      BY <1>2, <1>6, <2>1, <2>2 DEF StillReports, Figures!Facts
  <1>12. QED
    BY <1>2, <1>4, <1>6, <1>7, <1>8, <1>10, <1>11, CommitKeepsFigures

(* A fact is added to one portion, the last of it.                         *)
LEMMA FactIsAdded ==
  ASSUME FiguresInv, NEW t \in Attempts, Figures!Committing(t, "fact"),
         portions' = Figures!WithFact(t), NEW p, p = Told(t).portion,
         UNCHANGED <<actual, progress, units>>
  PROVE  /\ p \in DOMAIN portions /\ p \in DOMAIN portions'
         /\ portions' \in Seq(Figures!Portion) /\ DOMAIN portions' = DOMAIN portions
         /\ portions'[p].at = portions[p].at
         /\ portions'[p].facts = Append(portions[p].facts, Figures!Reporting(t))
         /\ \A q \in DOMAIN portions \ {p} : portions'[q] = portions[q]
         /\ PortionsGrown(portions, portions')
         /\ \A q \in DOMAIN portions :
              /\ portions'[q].at < now'
              /\ Rising(portions'[q].facts)
              /\ Between(portions'[q].facts, portions'[q].at, now')
         /\ portions'[p].facts # <<>> /\ units # {}
         /\ \A u \in Attempts \ {t} : Reporting(u) /\ Told(u)' = Told(u) =>
              /\ StillReports(u)
              /\ Told(u).kind = "fact" => Told(u).seen = Len(Figures!Facts(Told(u).portion)')
  <1>1. PICK r : r = Figures!Reporting(t)
    OBVIOUS
  <1>2. /\ progress \in Seq(Figures!Record) /\ portions \in Seq(Figures!Portion)
        /\ switchedAt \in Nat /\ RowsAreDated /\ OneSource
    BY DEF FiguresInv, Figures!TypeOK
  <1>3. /\ r \in Figures!Record /\ r.at \in Nat /\ 0 < r.at /\ r.at < now' /\ now <= now'
        /\ now \in Nat /\ now' = now + 1 /\ r.at = sources[t].at
        /\ Told(t).kind = "fact"
    BY <1>1, CommitKnows DEF Figures!Record
  <1>4. /\ p \in DOMAIN portions /\ portions[p].at < r.at
        /\ FirstBefore(portions[p].facts, Len(portions[p].facts), r.at)
    BY <1>3, CommitKnows DEF SeenBefore, StillReports, Figures!Facts
  <1>5. PICK old \in Seq(Figures!Record) : old = portions[p].facts
    BY <1>2, <1>4, PortionShape
  <1>6. PICK at \in Nat : at = portions[p].at
    BY <1>2, <1>4, PortionShape
  <1>7. PICK row : row = [at |-> at, facts |-> Append(old, r)]
    OBVIOUS
  <1>8. row \in Figures!Portion /\ row.at = at /\ row.facts = Append(old, r)
    BY <1>3, <1>7, OneRowMore DEF Figures!Portion
  <1>9. portions' = [portions EXCEPT ![p] = row]
    BY <1>1, <1>5, <1>6, <1>7 DEF Figures!WithFact, Told, Figures!Facts
  <1>10. /\ portions' \in Seq(Figures!Portion) /\ DOMAIN portions' = DOMAIN portions
         /\ portions'[p] = row /\ \A q \in DOMAIN portions \ {p} : portions'[q] = portions[q]
    BY <1>2, <1>4, <1>8, <1>9
  <1>11. Rising(row.facts) /\ Between(row.facts, at, now') /\ row.facts # <<>>
    <2>1. Rising(old) /\ Between(old, at, now)
      BY <1>2, <1>4, <1>5, <1>6 DEF RowsAreDated, Figures!Facts
    <2>2. FirstBefore(old, Len(old), r.at) /\ at < r.at
      BY <1>4, <1>5, <1>6
    <2>3. Rising(Append(old, r)) /\ Between(Append(old, r), at, now') /\ Len(Append(old, r)) > 0
      BY <1>3, <2>1, <2>2, RowFollows
    <2>4. QED
      BY <1>8, <2>3
  <1>12. \A q \in DOMAIN portions :
           /\ portions'[q].at < now'
           /\ Rising(portions'[q].facts) /\ Between(portions'[q].facts, portions'[q].at, now')
    <2>1. SUFFICES ASSUME NEW q \in DOMAIN portions
                   PROVE  /\ portions'[q].at < now' /\ Rising(portions'[q].facts)
                          /\ Between(portions'[q].facts, portions'[q].at, now')
      OBVIOUS
    <2>2. CASE q = p
      <3>1. portions'[q] = row
        BY <1>10, <2>2
      <3>2. at < now'
        BY <1>3, <1>4, <1>6
      <3>3. QED
        BY <1>8, <1>11, <3>1, <3>2
    <2>3. CASE q # p
      BY <1>2, <1>3, <1>10, <2>1, <2>3, LaterIsBetween
    <2>4. QED
      BY <2>2, <2>3
  <1>13. PortionsGrown(portions, portions')
    <2>1. Grown(old, row.facts)
      BY <1>3, <1>8, SameIsGrown
    <2>2. PortionsGrown(portions, portions)
      BY <1>2, SamePortionsGrown
    <2>3. QED
      BY <1>5, <1>6, <1>8, <1>10, <2>1, <2>2 DEF PortionsGrown
  <1>14. units # {}
    BY <1>2, <1>4 DEF OneSource
  <1>15. \A u \in Attempts \ {t} : Reporting(u) /\ Told(u)' = Told(u) =>
           /\ StillReports(u)
           /\ Told(u).kind = "fact" => Told(u).seen = Len(Figures!Facts(Told(u).portion)')
    <2>1. SUFFICES ASSUME NEW u \in Attempts \ {t}, Reporting(u), Told(u)' = Told(u)
                   PROVE  /\ StillReports(u)
                          /\ Told(u).kind = "fact" =>
                               Told(u).seen = Len(Figures!Facts(Told(u).portion)')
      OBVIOUS
    <2>2. StillReports(u) /\ (Told(u).kind = "fact" => Told(u).portion # p)
      BY <2>1, CommitKnows
    <2>3. Told(u).kind = "fact" => Told(u).portion \in DOMAIN portions
      BY <2>1, CommitKnows DEF FiguresInv, CommandsSawRows, SeenBefore
    <2>4. PICK c : c = Told(u) /\ Told(u)' = c
      BY <2>1
    <2>5. c.kind = "fact" => portions'[c.portion] = portions[c.portion]
      BY <1>10, <2>2, <2>3, <2>4
    <2>6. c.kind = "fact" => c.seen = Len(portions[c.portion].facts)
      BY <2>2, <2>4 DEF StillReports, Figures!Facts
    <2>7. QED
      BY <2>2, <2>4, <2>5, <2>6 DEF Figures!Facts
  <1>16. QED
    BY <1>1, <1>4, <1>5, <1>6, <1>8, <1>10, <1>11, <1>12, <1>13, <1>14, <1>15

(* A fact of a work that counts portions, or has not been classified.      *)
LEMMA FactKeepsFigures ==
  ASSUME FiguresInv, NEW t \in Attempts, Figures!PortionFact(t)
  PROVE  FiguresInv'
  <1>1. /\ Figures!Committing(t, "fact") /\ mode # "LEGACY_WORK"
        /\ portions' = Figures!WithFact(t)
        /\ UNCHANGED <<mode, switchedAt, actual, progress, units>>
    BY DEF Figures!PortionFact
  <1>2. /\ progress \in Seq(Figures!Record) /\ portions \in Seq(Figures!Portion)
        /\ mode \in Figures!Modes /\ switchedAt \in Nat /\ units \subseteq Nat /\ actual \in Nat
        /\ RowsAreDated /\ OneSource /\ now \in Nat /\ now' = now + 1
    BY <1>1, CommitKnows DEF FiguresInv, Figures!TypeOK
  <1>3. PICK p : p = Told(t).portion
    OBVIOUS
  <1>4. /\ DOMAIN portions' = DOMAIN portions /\ p \in DOMAIN portions'
        /\ portions' \in Seq(Figures!Portion) /\ PortionsGrown(portions, portions')
        /\ portions'[p].facts # <<>> /\ units # {}
        /\ \A q \in DOMAIN portions :
             /\ portions'[q].at < now'
             /\ Rising(portions'[q].facts) /\ Between(portions'[q].facts, portions'[q].at, now')
    BY <1>1, <1>3, FactIsAdded
  <1>5. RowsAreDated'
    BY <1>1, <1>2, <1>4, LaterIsBetween DEF RowsAreDated, Figures!Facts
  <1>6. OneSource'
    <2>1. Figures!HasFacts'
      BY <1>4 DEF Figures!HasFacts, Figures!Facts
    <2>2. mode = "PORTION" => Figures!HasFacts
      BY <1>2 DEF OneSource
    <2>3. QED
      BY <1>1, <1>2, <1>4, <2>1, <2>2
         DEF OneSource, Figures!SourcesDoNotMix, Figures!LegacyFact, Figures!Modes
  <1>7. \A u \in Attempts \ {t} : Reporting(u) /\ Told(u)' = Told(u) => StillReports(u)'
    BY <1>1, <1>3, FactIsAdded DEF StillReports
  <1>8. Grown(progress, progress')
    BY <1>1, <1>2 DEF Grown
  <1>9. QED
    BY <1>1, <1>2, <1>4, <1>5, <1>6, <1>7, <1>8, CommitKeepsFigures

(* The first fact of a classified work settles its source.                 *)
LEMMA FirstFactKeepsFigures ==
  ASSUME FiguresInv, NEW t \in Attempts, Figures!FirstPortionFact(t)
  PROVE  FiguresInv'
  <1>1. /\ Figures!Committing(t, "fact") /\ mode = "LEGACY_WORK" /\ mode' = "PORTION"
        /\ switchedAt' = sources[t].at /\ portions' = Figures!WithFact(t)
        /\ Figures!WorkIsFree(t) /\ ~Figures!LegacyFact
        /\ UNCHANGED <<actual, progress, units>>
    BY DEF Figures!FirstPortionFact, Figures!At
  <1>2. /\ progress \in Seq(Figures!Record) /\ portions \in Seq(Figures!Portion)
        /\ switchedAt \in Nat /\ units \subseteq Nat /\ actual \in Nat
        /\ RowsAreDated /\ OneSource /\ now \in Nat /\ now' = now + 1
        /\ sources[t].at \in Nat /\ 0 < sources[t].at /\ sources[t].at < now'
    BY <1>1, CommitKnows DEF FiguresInv, Figures!TypeOK
  <1>3. PICK p : p = Told(t).portion
    OBVIOUS
  <1>4. /\ DOMAIN portions' = DOMAIN portions /\ p \in DOMAIN portions'
        /\ portions' \in Seq(Figures!Portion) /\ PortionsGrown(portions, portions')
        /\ portions'[p].facts # <<>> /\ units # {}
        /\ \A q \in DOMAIN portions :
             /\ portions'[q].at < now'
             /\ Rising(portions'[q].facts) /\ Between(portions'[q].facts, portions'[q].at, now')
    BY <1>1, <1>3, FactIsAdded
  <1>5. RowsAreDated'
    BY <1>1, <1>2, <1>4, LaterIsBetween DEF RowsAreDated, Figures!Facts
  <1>6. OneSource'
    <2>1. Figures!HasFacts'
      BY <1>4 DEF Figures!HasFacts, Figures!Facts
    <2>2. QED
      BY <1>1, <1>2, <1>4, <2>1 DEF OneSource, Figures!SourcesDoNotMix, Figures!LegacyFact
  <1>7. \A u \in Attempts \ {t} : Reporting(u) /\ Told(u)' = Told(u) => StillReports(u)'
    <2>1. \A u \in Attempts \ {t} : Reporting(u) => Told(u).kind # "progress"
      BY <1>1 DEF Figures!WorkIsFree, Figures!HoldsWork, Reporting, Told
    <2>2. QED
      BY <1>1, <1>3, <2>1, FactIsAdded DEF StillReports
  <1>8. Grown(progress, progress') /\ mode' \in Figures!Modes
    BY <1>1, <1>2 DEF Grown, Figures!Modes
  <1>9. QED
    BY <1>1, <1>2, <1>4, <1>5, <1>6, <1>7, <1>8, CommitKeepsFigures

(* The inductive invariant of a work's figures: rows follow each other in  *)
(* time, what a command saw was there before it began, what one was        *)
(* checked against holds until it commits, and one source counts.          *)
THEOREM FiguresInvariance ==
  ASSUME Figures!FactAssumption
  PROVE  Figures!Spec => []FiguresInv
  <1>1. Figures!Init => FiguresInv
    BY FiguresBegin
  <1>2. FiguresInv /\ [Figures!Next]_(Figures!vars) => FiguresInv'
    <2>1. SUFFICES ASSUME FiguresInv, [Figures!Next]_(Figures!vars)
                   PROVE  FiguresInv'
      OBVIOUS
    <2>2. CASE UNCHANGED Figures!vars
      <3>1. UNCHANGED <<mode, switchedAt, actual, progress, units, portions, sources, sent, now>>
        BY <2>2 DEF Figures!vars
      <3>2. QED
        BY <2>1, <3>1, NothingMoves
    <2>3. ASSUME NEW t \in Attempts, NEW cmd \in Figures!Commands, Figures!Request(t, cmd)
          PROVE  FiguresInv'
      BY <2>1, <2>3, RequestKeepsFigures
    <2>4. ASSUME NEW t \in Attempts, Figures!LockAndCheck(t)
          PROVE  FiguresInv'
      BY <2>1, <2>4, LockKeepsFigures
    <2>5. ASSUME NEW t \in Attempts, Figures!Refuse(t) \/ Figures!Abort(t)
          PROVE  FiguresInv'
      BY <2>1, <2>5, EndKeepsFigures
    <2>6. ASSUME NEW t \in Attempts, Figures!Progress(t)
          PROVE  FiguresInv'
      BY <2>1, <2>6, ProgressKeepsFigures
    <2>7. ASSUME NEW t \in Attempts, Figures!CreateUnit(t)
          PROVE  FiguresInv'
      BY <2>1, <2>7, UnitKeepsFigures
    <2>8. ASSUME NEW t \in Attempts, Figures!CreatePortion(t)
          PROVE  FiguresInv'
      BY <2>1, <2>8, PortionKeepsFigures
    <2>9. ASSUME NEW t \in Attempts, Figures!PortionFact(t)
          PROVE  FiguresInv'
      BY <2>1, <2>9, FactKeepsFigures
    <2>10. ASSUME NEW t \in Attempts, Figures!FirstPortionFact(t)
           PROVE  FiguresInv'
      BY <2>1, <2>10, FirstFactKeepsFigures
    <2>11. QED
      BY <2>1, <2>2, <2>3, <2>4, <2>5, <2>6, <2>7, <2>8, <2>9, <2>10 DEF Figures!Next
  <1>3. QED
    BY <1>1, <1>2, PTL DEF Figures!Spec

-----------------------------------------------------------------------------
(* Figures: the resolver                                                   *)

(* Instants up to a bound have a least and a greatest one.                 *)
LEMMA FirstInstant ==
  ASSUME NEW S, S \subseteq Nat, S # {}
  PROVE  \E x \in S : \A y \in S : x <= y
  <1>1. IsWellFoundedOn(OpToRel(<, Nat), Nat)
    BY NatLessThanWellFounded
  <1>2. PICK x \in S : \A y \in S : ~(<<y, x>> \in OpToRel(<, Nat))
    BY <1>1, WFMin
  <1>3. \A y \in S : <<y, x>> \in OpToRel(<, Nat) <=> y < x
    BY <1>2 DEF OpToRel
  <1>4. \A y \in S : ~(y < x)
    BY <1>2, <1>3
  <1>5. QED
    BY <1>4

(* The greatest is as far from the bound as the least of the distances.    *)
LEMMA LastInstant ==
  ASSUME NEW n \in Nat, NEW S, S \subseteq 0..n, S # {}
  PROVE  \E x \in S : \A y \in S : y <= x
  <1> DEFINE D == {n - y : y \in S}
  <1>1. D \subseteq Nat /\ D # {}
    OBVIOUS
  <1> HIDE DEF D
  <1>2. PICK d \in D : \A e \in D : d <= e
    BY <1>1, FirstInstant
  <1>3. PICK x \in S : d = n - x
    BY <1>2 DEF D
  <1>4. \A y \in S : n - y \in D
    BY DEF D
  <1>5. QED
    BY <1>2, <1>3, <1>4

(* The library's least and greatest elements.                              *)
LEMMA MinIsFirst ==
  ASSUME NEW S, S \subseteq Nat, S # {}
  PROVE  Figures!Min(S) \in S /\ \A y \in S : Figures!Min(S) <= y
  <1>1. \E x \in S : \A y \in S : x <= y
    BY FirstInstant
  <1>2. QED
    BY <1>1 DEF Figures!Min

(* The same of the greatest.                                               *)
LEMMA MaxIsLast ==
  ASSUME NEW n \in Nat, NEW S, S \subseteq 0..n, S # {}
  PROVE  Figures!Max(S) \in S /\ \A y \in S : y <= Figures!Max(S)
  <1>1. \E x \in S : \A y \in S : x >= y
    <2>1. PICK x \in S : \A y \in S : y <= x
      BY LastInstant
    <2>2. \A y \in S : x >= y
      BY <2>1
    <2>3. QED
      BY <2>2
  <1>2. Figures!Max(S) \in S /\ \A y \in S : Figures!Max(S) >= y
    BY <1>1 DEF Figures!Max
  <1>3. QED
    BY <1>2

(* The rows of a sequence, and those seen of them at an instant.           *)
LEMMA RowsSeen ==
  ASSUME NEW s \in Seq(Figures!Record), NEW at \in Nat
  PROVE  /\ Figures!Seen(s, at) = {s[i] : i \in {j \in DOMAIN s : s[j].at <= at}}
         /\ Figures!Seen(s, Figures!CURRENT) = {s[i] : i \in DOMAIN s}
         /\ Figures!Seen(s, at) \subseteq Figures!Record
         /\ Figures!Seen(s, Figures!CURRENT) \subseteq Figures!Record
         /\ \A i \in DOMAIN s : s[i] \in Figures!Record /\ s[i].at \in Nat /\ i \in 1..Len(s)
  <1>1. \A i \in DOMAIN s : s[i] \in Figures!Record /\ i \in 1..Len(s)
    OBVIOUS
  <1>2. \A r \in Figures!Record : r.at \in Nat
    BY DEF Figures!Record
  <1>3. Figures!Range(s) = {s[i] : i \in DOMAIN s}
    BY DEF Figures!Range
  <1>4. QED
    BY <1>1, <1>2, <1>3 DEF Figures!Seen, Figures!CURRENT

(* Of rows in the order of time, the last one speaks.                      *)
LEMMA LastRowSpeaks ==
  ASSUME NEW s \in Seq(Figures!Record), s # <<>>, Rising(s)
  PROVE  Figures!Agreed({s[i] : i \in DOMAIN s}) = s[Len(s)].quantity
  <1> DEFINE all == {s[i] : i \in DOMAIN s}
             last == s[Len(s)]
  <1>1. Len(s) \in DOMAIN s /\ \A i \in DOMAIN s : i \in 1..Len(s) /\ s[i] \in Figures!Record
    OBVIOUS
  <1>2. \A r \in Figures!Record : r.at \in Nat
    BY DEF Figures!Record
  <1>3. \A i \in DOMAIN s : i # Len(s) => s[i].at < last.at
    BY <1>1 DEF Rising
  <1>4. last \in all /\ \A r \in all : r = last \/ r.at < last.at
    BY <1>1, <1>3
  <1>5. \A r \in all : r.at \in Nat
    BY <1>1, <1>2
  <1> HIDE DEF all, last
  <1>6. Figures!Latest(all) = {last}
    BY <1>4, <1>5 DEF Figures!Latest
  <1>7. Figures!Agreed(all) = last.quantity
    BY <1>6 DEF Figures!Agreed
  <1>8. QED
    BY <1>7 DEF all, last

(* What is agreed of the rows seen is a quantity, or that there is none.   *)
LEMMA AgreedIsQuantity ==
  ASSUME NEW n \in Nat, NEW S \in SUBSET Figures!Record, S # {}, \A r \in S : r.at <= n
  PROVE  Figures!Agreed(S) \in Nat \cup {Figures!NoQuantity}
  <1>1. \A r \in S : r.at \in Nat /\ r.quantity \in Nat
    BY DEF Figures!Record
  <1> DEFINE T == {r.at : r \in S}
  <1>2. T \subseteq 0..n /\ T # {}
    BY <1>1
  <1> HIDE DEF T
  <1>3. PICK x \in T : \A y \in T : y <= x
    BY <1>2, LastInstant
  <1>4. PICK r \in S : r.at = x
    BY <1>3 DEF T
  <1>5. r \in Figures!Latest(S)
    BY <1>3, <1>4 DEF Figures!Latest, T
  <1>6. (CHOOSE q \in Figures!Latest(S) : TRUE) \in S
    BY <1>5 DEF Figures!Latest
  <1>7. QED
    BY <1>1, <1>6 DEF Figures!Agreed

(* The sum of quantities of finitely many portions is a quantity.          *)
LEMMA PortionsHaveASum ==
  ASSUME NEW S, IsFiniteSet(S), NEW f, \A x \in S : f[x] \in Nat
  PROVE  Figures!SumOver(f, S) \in Nat
  <1>1. IsFiniteSet({{x} \X (1..f[x]) : x \in S})
    <2> DEFINE of == [x \in S |-> {x} \X (1..f[x])]
    <2>1. of \in Surjection(S, {{x} \X (1..f[x]) : x \in S})
      BY DEF Surjection
    <2> HIDE DEF of
    <2>2. QED
      BY <2>1, FS_Surjection
  <1>2. ASSUME NEW x \in S
        PROVE  IsFiniteSet({x} \X (1..f[x]))
    <2>1. IsFiniteSet({x})
      BY FS_Singleton
    <2>2. IsFiniteSet(1..f[x])
      BY FS_Interval
    <2>3. QED
      BY <2>1, <2>2, FS_Product
  <1>3. IsFiniteSet(Figures!UnitsOf(f, S))
    BY <1>1, <1>2, FS_UNION DEF Figures!UnitsOf
  <1>4. Cardinality(Figures!UnitsOf(f, S)) \in Nat
    BY <1>3, FS_CardinalityType
  <1>5. QED
    BY <1>4 DEF Figures!SumOver, Figures!Cardinality, Cardinality

(* What a reader is told of the legacy figure at an instant.               *)
LEMMA LegacyIsQuantity ==
  ASSUME Figures!TypeOK, NEW at \in Nat
  PROVE  Figures!LegacyAt(at).quantity \in Nat \cup {Figures!NoQuantity}
  <1>1. progress \in Seq(Figures!Record) /\ at # Figures!CURRENT
    BY DEF Figures!TypeOK, Figures!CURRENT
  <1>2. PICK S \in SUBSET Figures!Record : S = Figures!Seen(progress, at)
    BY <1>1, RowsSeen
  <1>3. \A r \in S : r.at <= at
    BY <1>1, <1>2 DEF Figures!Seen
  <1>4. S # {} => Figures!Agreed(S) \in Nat \cup {Figures!NoQuantity}
    BY <1>3, AgreedIsQuantity
  <1>5. QED
    BY <1>1, <1>2, <1>4 DEF Figures!LegacyAt

(* Portions reported at an instant are some of the work's.                 *)
LEMMA ReportedAreFinite ==
  ASSUME Figures!TypeOK, NEW at
  PROVE  /\ Figures!Reported(at) \subseteq DOMAIN portions
         /\ IsFiniteSet(Figures!Reported(at))
  <1>1. Figures!Reported(at) \subseteq DOMAIN portions
    BY DEF Figures!Reported
  <1>2. DOMAIN portions = 1..Len(portions) /\ Len(portions) \in Nat
    BY DEF Figures!TypeOK
  <1>3. IsFiniteSet(1..Len(portions))
    BY <1>2, FS_Interval
  <1>4. QED
    BY <1>1, <1>2, <1>3, FS_Subset

(* What the resolver says at an instant is a quantity, or that there is    *)
(* none.                                                                   *)
LEMMA AnswerIsQuantity ==
  ASSUME Figures!TypeOK, NEW at \in Nat
  PROVE  Figures!ResolveWorkFact(at).quantity \in Nat \cup {Figures!NoQuantity}
  <1>1. Figures!LegacyAt(at).quantity \in Nat \cup {Figures!NoQuantity}
    BY LegacyIsQuantity
  <1>2. ASSUME ~Figures!PortionTie(at)
        PROVE  Figures!PortionSum(at) \in Nat
    <2> DEFINE S == Figures!Reported(at)
               f == [p \in S |-> Figures!Agreed(Figures!Seen(Figures!Facts(p), at))]
    <2>1. ASSUME NEW p \in S
          PROVE  f[p] \in Nat
      <3>1. /\ p \in DOMAIN portions /\ Figures!Seen(Figures!Facts(p), at) # {}
            /\ Figures!Agreed(Figures!Seen(Figures!Facts(p), at)) # Figures!NoQuantity
        BY <1>2 DEF Figures!Reported, Figures!PortionTie
      <3>2. Figures!Facts(p) \in Seq(Figures!Record)
        BY <3>1, PortionShape DEF Figures!TypeOK
      <3>3. PICK T \in SUBSET Figures!Record : T = Figures!Seen(Figures!Facts(p), at)
        BY <3>2, RowsSeen
      <3>4. \A r \in T : r.at <= at
        BY <3>3 DEF Figures!Seen, Figures!CURRENT
      <3>5. Figures!Agreed(T) \in Nat \cup {Figures!NoQuantity}
        BY <3>1, <3>3, <3>4, AgreedIsQuantity
      <3>6. QED
        BY <3>1, <3>3, <3>5
    <2>2. IsFiniteSet(S)
      BY ReportedAreFinite
    <2> HIDE DEF f, S
    <2>3. Figures!SumOver(f, S) \in Nat
      BY <2>1, <2>2, PortionsHaveASum
    <2>4. QED
      BY <2>3 DEF Figures!PortionSum, f, S
  <1>3. Figures!ModeAt(at) \in {"LEGACY_WORK", "PORTION"}
    BY DEF Figures!ModeAt, Figures!TypeOK, Figures!Modes
  <1>4. QED
    BY <1>1, <1>2, <1>3 DEF Figures!ResolveWorkFact, Figures!Fact

(* Who sees the same rows gets the same answer.                            *)
LEMMA SameRowsSameAnswer ==
  ASSUME NEW a \in Nat, NEW b \in Nat,
         Figures!Seen(progress, a) = Figures!Seen(progress, b),
         Figures!Reported(a) = Figures!Reported(b),
         \A p \in Figures!Reported(a) :
           Figures!Seen(Figures!Facts(p), a) = Figures!Seen(Figures!Facts(p), b),
         switchedAt <= a <=> switchedAt <= b
  PROVE  Figures!ResolveWorkFact(a) = Figures!ResolveWorkFact(b)
  <1>1. a # Figures!CURRENT /\ b # Figures!CURRENT
    BY DEF Figures!CURRENT
  <1>2. Figures!ModeAt(a) = Figures!ModeAt(b)
    BY <1>1 DEF Figures!ModeAt
  <1>3. Figures!LegacyAt(a) = Figures!LegacyAt(b)
    BY <1>1 DEF Figures!LegacyAt
  <1>4. Figures!PortionTie(a) <=> Figures!PortionTie(b)
    BY DEF Figures!PortionTie
  <1>5. Figures!PortionSum(a) = Figures!PortionSum(b)
    <2>1. [p \in Figures!Reported(a) |-> Figures!Agreed(Figures!Seen(Figures!Facts(p), a))]
            = [p \in Figures!Reported(b) |-> Figures!Agreed(Figures!Seen(Figures!Facts(p), b))]
      OBVIOUS
    <2>2. QED
      BY <2>1 DEF Figures!PortionSum
  <1>6. Figures!Overlap(a) <=> Figures!Overlap(b)
    BY <1>2 DEF Figures!Overlap, Figures!LegacyEvidence
  <1>7. QED
    BY <1>2, <1>3, <1>4, <1>5, <1>6 DEF Figures!ResolveWorkFact

(* Between two instants at which something was recorded the answer stays.  *)
LEMMA QuietInterval ==
  ASSUME FiguresInv, NEW a \in Nat, NEW b \in Nat, a <= b,
         \A i \in Figures!Instants : i <= a \/ b < i
  PROVE  Figures!ResolveWorkFact(a) = Figures!ResolveWorkFact(b)
  <1>1. /\ progress \in Seq(Figures!Record) /\ portions \in Seq(Figures!Portion)
        /\ switchedAt \in Nat /\ RowsAreDated
    BY DEF FiguresInv, Figures!TypeOK
  <1>2. a # Figures!CURRENT /\ b # Figures!CURRENT
    BY DEF Figures!CURRENT
  <1>3. ASSUME NEW s \in Seq(Figures!Record), \A r \in Figures!Range(s) : r.at \in Figures!Instants
        PROVE  Figures!Seen(s, a) = Figures!Seen(s, b)
    <2>1. \A r \in Figures!Range(s) : r.at \in Nat
      <3>1. Figures!Range(s) \subseteq Figures!Record
        BY DEF Figures!Range
      <3>2. QED
        BY <3>1 DEF Figures!Record
    <2>2. \A r \in Figures!Range(s) : r.at <= a <=> r.at <= b
      BY <1>3, <2>1
    <2>3. QED
      BY <1>2, <2>2 DEF Figures!Seen
  <1>4. Figures!Seen(progress, a) = Figures!Seen(progress, b)
    BY <1>1, <1>3 DEF Figures!Instants
  <1>5. \A p \in DOMAIN portions :
          Figures!Seen(Figures!Facts(p), a) = Figures!Seen(Figures!Facts(p), b)
    <2>1. SUFFICES ASSUME NEW p \in DOMAIN portions
                   PROVE  Figures!Seen(Figures!Facts(p), a) = Figures!Seen(Figures!Facts(p), b)
      OBVIOUS
    <2>2. Figures!Facts(p) \in Seq(Figures!Record)
      BY <1>1, PortionShape
    <2>3. \A r \in Figures!Range(Figures!Facts(p)) : r.at \in Figures!Instants
      BY DEF Figures!Instants
    <2>4. QED
      BY <1>3, <2>2, <2>3
  <1>6. Figures!Reported(a) = Figures!Reported(b)
    <2>1. ASSUME NEW p \in DOMAIN portions, Figures!Seen(Figures!Facts(p), a) # {}
          PROVE  portions[p].at <= a /\ portions[p].at <= b
      <3>1. /\ Figures!Facts(p) \in Seq(Figures!Record) /\ portions[p].at \in Nat
            /\ Between(Figures!Facts(p), portions[p].at, now)
        BY <1>1, PortionShape DEF RowsAreDated
      <3>2. PICK i \in DOMAIN Figures!Facts(p) : Figures!Facts(p)[i].at <= a
        BY <2>1, <3>1, RowsSeen
      <3>3. portions[p].at < Figures!Facts(p)[i].at /\ Figures!Facts(p)[i].at \in Nat
        BY <3>1, RowsSeen DEF Between
      <3>4. QED
        BY <3>1, <3>2, <3>3
    <2>2. QED
      BY <1>2, <1>5, <2>1 DEF Figures!Reported
  <1>7. switchedAt <= a <=> switchedAt <= b
    <2>1. CASE switchedAt = 0
      BY <2>1
    <2>2. CASE switchedAt # 0
      <3>1. switchedAt \in Figures!Instants
        BY <2>2 DEF Figures!Instants
      <3>2. QED
        BY <1>1, <3>1
    <2>3. QED
      BY <2>1, <2>2
  <1>8. Figures!Reported(a) \subseteq DOMAIN portions
    BY DEF Figures!Reported
  <1>9. QED
    BY <1>4, <1>5, <1>6, <1>7, <1>8, SameRowsSameAnswer

(* An instant at which something was recorded is past.                     *)
LEMMA InstantsArePast ==
  ASSUME FiguresInv
  PROVE  Figures!Instants \subseteq 0..now /\ \A i \in Figures!Instants : 0 < i /\ i < now
  <1>1. /\ progress \in Seq(Figures!Record) /\ portions \in Seq(Figures!Portion)
        /\ switchedAt \in Nat /\ now \in Nat /\ RowsAreDated
    BY DEF FiguresInv, Figures!TypeOK
  <1>2. ASSUME NEW s \in Seq(Figures!Record), NEW a \in Nat, Between(s, a, now),
               NEW r \in Figures!Range(s)
        PROVE  r.at \in Nat /\ 0 < r.at /\ r.at < now
    <2>1. PICK i \in DOMAIN s : r = s[i]
      BY <1>2 DEF Figures!Range
    <2>2. s[i].at \in Nat /\ a < s[i].at /\ s[i].at < now
      BY <1>2, <2>1, RowsSeen DEF Between
    <2>3. QED
      BY <1>2, <2>1, <2>2
  <1>3. ASSUME NEW i \in Figures!Instants
        PROVE  i \in Nat /\ 0 < i /\ i < now
    <2>1. CASE i \in {r.at : r \in Figures!Range(progress)}
      BY <1>1, <1>2, <2>1 DEF RowsAreDated
    <2>2. CASE switchedAt # 0 /\ i = switchedAt
      BY <1>1, <2>2 DEF RowsAreDated
    <2>3. ASSUME NEW p \in DOMAIN portions, NEW r \in Figures!Range(Figures!Facts(p)), i = r.at
          PROVE  i \in Nat /\ 0 < i /\ i < now
      <3>1. /\ Figures!Facts(p) \in Seq(Figures!Record) /\ portions[p].at \in Nat
            /\ Between(Figures!Facts(p), portions[p].at, now)
        BY <1>1, PortionShape DEF RowsAreDated
      <3>2. QED
        BY <1>2, <2>3, <3>1
    <2>4. QED
      BY <2>1, <2>2, <2>3 DEF Figures!Instants
  <1>4. QED
    BY <1>1, <1>3

(* What is known now is what was recorded last, where the legacy figure    *)
(* has a history.                                                          *)
LEMMA NowIsCurrent ==
  ASSUME FiguresInv
  PROVE  Figures!CurrentIsKnownNow
  <1> DEFINE C == Figures!CURRENT
  <1>1. /\ progress \in Seq(Figures!Record) /\ portions \in Seq(Figures!Portion)
        /\ switchedAt \in Nat /\ now \in Nat /\ RowsAreDated /\ OneSource /\ actual \in Nat
        /\ now # C
    BY DEF FiguresInv, Figures!TypeOK, Figures!CURRENT
  <1>2. ASSUME NEW s \in Seq(Figures!Record), NEW a, Between(s, a, now)
        PROVE  Figures!Seen(s, now) = Figures!Seen(s, C)
    <2>1. \A i \in DOMAIN s : s[i].at \in Nat /\ s[i].at <= now
      BY <1>1, <1>2, RowsSeen DEF Between
    <2>2. QED
      BY <1>1, <2>1, RowsSeen
  <1>3. Figures!Seen(progress, now) = Figures!Seen(progress, C)
    BY <1>1, <1>2 DEF RowsAreDated
  <1>4. \A p \in DOMAIN portions :
          /\ Figures!Seen(Figures!Facts(p), now) = Figures!Seen(Figures!Facts(p), C)
          /\ portions[p].at <= now
    <2>1. SUFFICES ASSUME NEW p \in DOMAIN portions
                   PROVE  /\ Figures!Seen(Figures!Facts(p), now) = Figures!Seen(Figures!Facts(p), C)
                          /\ portions[p].at <= now
      OBVIOUS
    <2>2. /\ Figures!Facts(p) \in Seq(Figures!Record) /\ portions[p].at \in Nat
          /\ Between(Figures!Facts(p), portions[p].at, now) /\ portions[p].at < now
      BY <1>1, PortionShape DEF RowsAreDated
    <2>3. QED
      BY <1>1, <1>2, <2>2
  <1>5. Figures!Reported(now) = Figures!Reported(C)
    BY <1>1, <1>4 DEF Figures!Reported
  <1>6. Figures!ModeAt(now) = Figures!ModeAt(C)
    BY <1>1, <1>5 DEF Figures!ModeAt, RowsAreDated
  <1>7. Figures!PortionTie(now) <=> Figures!PortionTie(C)
    BY <1>4, <1>5 DEF Figures!PortionTie, Figures!Reported
  <1>8. Figures!PortionSum(now) = Figures!PortionSum(C)
    <2>1. [p \in Figures!Reported(now) |-> Figures!Agreed(Figures!Seen(Figures!Facts(p), now))]
            = [p \in Figures!Reported(C) |-> Figures!Agreed(Figures!Seen(Figures!Facts(p), C))]
      BY <1>4, <1>5 DEF Figures!Reported
    <2>2. QED
      BY <1>5, <2>1 DEF Figures!PortionSum
  <1>9. Figures!LegacyAt(C).state = "KNOWN" /\ Figures!LegacyAt(C).quantity = actual
    BY DEF Figures!LegacyAt
  <1>10. \/ Figures!LegacyAt(now).state = "HISTORY_UNAVAILABLE"
         \/ /\ Figures!LegacyAt(now).state = "KNOWN"
            /\ Figures!LegacyAt(now).quantity = actual
    <2>1. CASE progress = <<>>
      <3>1. Figures!Seen(progress, now) = {}
        BY <2>1 DEF Figures!Seen, Figures!Range
      <3>2. QED
        BY <1>1, <2>1, <3>1 DEF Figures!LegacyAt
    <2>2. CASE progress # <<>>
      <3>1. Len(progress) \in DOMAIN progress
        BY <1>1, <2>2
      <3>2. /\ Figures!Seen(progress, now) = {progress[i] : i \in DOMAIN progress}
            /\ Figures!Seen(progress, now) # {}
        <4>1. Figures!Seen(progress, C) = {progress[i] : i \in DOMAIN progress}
          BY <1>1, RowsSeen
        <4>2. QED
          BY <1>3, <3>1, <4>1
      <3>3. Figures!Agreed(Figures!Seen(progress, now)) = actual
        BY <1>1, <2>2, <3>2, LastRowSpeaks DEF RowsAreDated, OneSource
      <3>4. actual # Figures!NoQuantity
        BY <1>1 DEF Figures!NoQuantity
      <3>5. QED
        BY <1>1, <2>2, <3>2, <3>3, <3>4 DEF Figures!LegacyAt
    <2>3. QED
      BY <2>1, <2>2
  <1>11. Figures!Overlap(now) <=> Figures!Overlap(C)
    BY <1>3, <1>5, <1>6 DEF Figures!Overlap, Figures!LegacyEvidence
  <1>12. Figures!ModeAt(C) \in {"LEGACY_WORK", "PORTION"}
    BY DEF Figures!ModeAt, FiguresInv, Figures!TypeOK, Figures!Modes
  <1> HIDE DEF C
  <1>13. ASSUME Figures!ResolveWorkFact(now).state # "HISTORY_UNAVAILABLE"
         PROVE  Figures!ResolveWorkFact(now) = Figures!ResolveWorkFact(C)
    <2>1. CASE Figures!ModeAt(C) = "PORTION"
      BY <1>5, <1>6, <1>7, <1>8, <1>11, <2>1 DEF Figures!ResolveWorkFact
    <2>2. CASE Figures!ModeAt(C) = "LEGACY_WORK"
      <3>1. Figures!LegacyAt(now).state # "HISTORY_UNAVAILABLE"
        BY <1>6, <1>13, <2>2 DEF Figures!ResolveWorkFact, Figures!Fact
      <3>2. QED
        BY <1>6, <1>9, <1>10, <1>11, <2>2, <3>1 DEF Figures!ResolveWorkFact
    <2>3. QED
      BY <1>12, <2>1, <2>2
  <1>14. QED
    BY <1>13 DEF Figures!CurrentIsKnownNow, C

(* Without facts of portions, the work's own figure is the answer.         *)
LEMMA FigureIsKept ==
  ASSUME FiguresInv
  PROVE  Figures!NoFigureIsLost
  <1> DEFINE C == Figures!CURRENT
  <1>1. SUFFICES ASSUME ~Figures!HasFacts
                 PROVE  Figures!ResolveWorkFact(C) = Figures!Fact("KNOWN", actual)
    BY DEF Figures!NoFigureIsLost
  <1>2. \A p \in DOMAIN portions : Figures!Seen(Figures!Facts(p), C) = {}
    <2>1. \A p \in DOMAIN portions : Figures!Facts(p) = <<>>
      BY <1>1 DEF Figures!HasFacts
    <2>2. Figures!Seen(<<>>, C) = {}
      BY DEF Figures!Seen, Figures!Range
    <2>3. QED
      BY <2>1, <2>2
  <1>3. Figures!Reported(C) = {}
    BY <1>2 DEF Figures!Reported
  <1>4. mode # "PORTION" /\ mode \in Figures!Modes
    BY <1>1 DEF FiguresInv, OneSource, Figures!TypeOK
  <1>5. Figures!ModeAt(C) = "LEGACY_WORK" /\ ~Figures!Overlap(C)
    BY <1>3, <1>4 DEF Figures!ModeAt, Figures!Overlap, Figures!Modes
  <1>6. Figures!LegacyAt(C).state = "KNOWN" /\ Figures!LegacyAt(C).quantity = actual
    BY DEF Figures!LegacyAt
  <1>7. QED
    BY <1>5, <1>6 DEF Figures!ResolveWorkFact, Figures!Fact

(* The completion observed opens the run of instants at the target.        *)
LEMMA RunStartsThere ==
  ASSUME Figures!FactAssumption, FiguresInv
  PROVE  Figures!CompletionStartsTheRun
  <1> DEFINE I == Figures!Instants
             answer(at) == Figures!ResolveWorkFact(at).quantity
             stops == {i \in I : Figures!Stops(i)}
             last == IF stops = {} THEN 0 ELSE Figures!Max(stops)
             start == Figures!CompletionStart
  <1>1. SUFFICES ASSUME Figures!CompletionObservedAt = "OBSERVED"
                 PROVE  /\ start \in I
                        /\ \A at \in start..now : answer(at) >= Target
                        /\ \/ start = Figures!Min(I)
                           \/ answer(start - 1) \in 0..(Target - 1)
    BY DEF Figures!CompletionStartsTheRun
  <1>2. /\ now \in Nat /\ Target \in Nat /\ Figures!TypeOK
        /\ I \subseteq 0..now /\ \A i \in I : i \in Nat /\ 0 < i /\ i < now
    BY InstantsArePast DEF FiguresInv, Figures!TypeOK, Figures!FactAssumption
  <1>3. \A at \in Nat : answer(at) \in Nat \cup {Figures!NoQuantity}
    BY <1>2, AnswerIsQuantity
  <1>4. \A i \in I : i \in stops <=> answer(i) < Target
    BY DEF Figures!Stops
  <1>5. /\ stops # {} => answer(last) # Figures!NoQuantity
        /\ {i \in I : i > last} # {}
    BY <1>1 DEF Figures!CompletionObservedAt, Figures!RunAfter
  <1>6. start = Figures!Min({i \in I : i > last})
    BY DEF Figures!CompletionStart, Figures!RunAfter
  <1> HIDE DEF I, answer, start
  <1>7. /\ stops = {} => last = 0
        /\ stops # {} => last \in stops /\ \A i \in stops : i <= last
    <2>1. stops \subseteq 0..now
      BY <1>2
    <2> HIDE DEF stops
    <2>2. QED
      BY <1>2, <2>1, MaxIsLast
  <1> HIDE DEF last
  <1>8. last \in Nat /\ last <= now
    <2>1. \A i \in stops : i \in Nat /\ i <= now
      BY <1>2
    <2> HIDE DEF stops
    <2>2. QED
      BY <1>2, <1>7, <2>1
  <1> HIDE DEF stops
  <1>9. /\ start \in I /\ start > last /\ start \in Nat /\ start <= now
        /\ \A i \in I : i > last => start <= i
    <2> DEFINE R == {i \in I : i > last}
    <2>1. R \subseteq Nat /\ R # {}
      BY <1>2, <1>5
    <2> HIDE DEF R
    <2>2. start \in R /\ \A i \in R : start <= i
      BY <1>6, <2>1, MinIsFirst DEF R
    <2>3. QED
      BY <1>2, <2>2 DEF R
  <1>10. \A i \in I : i > last => answer(i) >= Target
    <2>1. SUFFICES ASSUME NEW i \in I, i > last
                   PROVE  answer(i) >= Target
      OBVIOUS
    <2>2. i \notin stops
      BY <1>2, <1>7, <1>8, <2>1
    <2>3. ~(answer(i) < Target) /\ answer(i) \in Int
      BY <1>2, <1>3, <1>4, <2>2 DEF Figures!NoQuantity
    <2>4. QED
      BY <1>2, <2>3
  <1>11. ASSUME NEW at \in start..now
         PROVE  answer(at) >= Target
    <2> DEFINE S == {j \in I : j <= at}
    <2>1. S \subseteq 0..now /\ S # {} /\ at \in Nat /\ start <= at
      <3>1. at \in Nat /\ start <= at
        BY <1>2, <1>9, <1>11
      <3>2. start \in S
        BY <1>9, <3>1
      <3>3. S \subseteq 0..now
        BY <1>2
      <3>4. QED
        BY <3>1, <3>2, <3>3
    <2> HIDE DEF S
    <2>2. PICK i \in S : \A j \in S : j <= i
      BY <1>2, <2>1, LastInstant
    <2>3. i \in I /\ i \in Nat /\ i <= at /\ i > last /\ \A j \in I : j <= i \/ at < j
      <3>1. i \in I /\ i \in Nat /\ i <= at
        BY <1>2, <2>2 DEF S
      <3>2. start \in S
        BY <1>9, <2>1 DEF S
      <3>3. start <= i
        BY <2>2, <3>2
      <3>4. \A j \in I : j <= i \/ at < j
        BY <1>2, <2>1, <2>2 DEF S
      <3>5. QED
        BY <1>8, <1>9, <3>1, <3>3, <3>4
    <2>4. answer(i) = answer(at)
      BY <2>1, <2>3, QuietInterval DEF I, answer
    <2>5. QED
      BY <1>10, <2>3, <2>4
  <1>12. CASE stops = {}
    <2>1. {i \in I : i > last} = I
      BY <1>2, <1>7, <1>12
    <2>2. QED
      BY <1>6, <1>9, <1>11, <2>1
  <1>13. CASE stops # {}
    <2>1. /\ last \in I /\ answer(last) < Target /\ answer(last) # Figures!NoQuantity
      BY <1>4, <1>5, <1>7, <1>13 DEF stops
    <2>2. start - 1 \in Nat /\ last <= start - 1
      BY <1>8, <1>9
    <2>3. \A j \in I : j <= last \/ start - 1 < j
      BY <1>2, <1>8, <1>9
    <2>4. answer(last) = answer(start - 1)
      BY <1>8, <2>2, <2>3, QuietInterval DEF I, answer
    <2>5. answer(last) \in 0..(Target - 1)
      BY <1>2, <1>3, <1>8, <2>1
    <2>6. QED
      BY <1>9, <1>11, <2>4, <2>5
  <1>14. QED
    BY <1>12, <1>13

(* What one state says of the figures.                                     *)
LEMMA FiguresHold ==
  ASSUME Figures!FactAssumption, FiguresInv
  PROVE  /\ Figures!TypeOK /\ Figures!SourcesDoNotMix
         /\ Figures!NoFigureIsLost /\ Figures!CurrentIsKnownNow
         /\ Figures!CompletionStartsTheRun
  <1>1. Figures!TypeOK /\ Figures!SourcesDoNotMix
    BY DEF FiguresInv, OneSource
  <1>2. QED
    BY <1>1, FigureIsKept, NowIsCurrent, RunStartsThere

-----------------------------------------------------------------------------
(* Figures: the past                                                       *)

(* A row dated after an instant is not seen at it.                         *)
LEMMA LaterRowUnseen ==
  ASSUME NEW s \in Seq(Figures!Record), NEW r \in Figures!Record, NEW at \in Nat, at < r.at
  PROVE  Figures!Seen(Append(s, r), at) = Figures!Seen(s, at)
  <1>1. /\ DOMAIN s = 1..Len(s) /\ DOMAIN Append(s, r) = 1..(Len(s) + 1) /\ Len(s) \in Nat
        /\ \A i \in 1..Len(s) : Append(s, r)[i] = s[i]
        /\ Append(s, r)[Len(s) + 1] = r
    BY OneRowMore
  <1>2. Figures!Range(Append(s, r)) = Figures!Range(s) \cup {r}
    <2>1. 1..(Len(s) + 1) = (1..Len(s)) \cup {Len(s) + 1}
      BY <1>1
    <2>2. QED
      BY <1>1, <2>1 DEF Figures!Range
  <1>3. r.at \in Nat /\ ~(r.at <= at) /\ at # Figures!CURRENT
    BY DEF Figures!Record, Figures!CURRENT
  <1>4. QED
    BY <1>2, <1>3 DEF Figures!Seen

(* Portions of which the same is seen add up to the same.                  *)
LEMMA PortionsStillSeen ==
  ASSUME NEW at \in Nat,
         \A p \in DOMAIN portions :
           /\ p \in DOMAIN portions' /\ portions'[p].at = portions[p].at
           /\ Figures!Seen(portions'[p].facts, at) = Figures!Seen(portions[p].facts, at),
         \A p \in DOMAIN portions' :
           p \in DOMAIN portions \/ Figures!Seen(portions'[p].facts, at) = {}
  PROVE  /\ Figures!Reported(at)' = Figures!Reported(at)
         /\ Figures!PortionTie(at)' <=> Figures!PortionTie(at)
         /\ Figures!PortionSum(at)' = Figures!PortionSum(at)
  <1>1. Figures!Reported(at)' = Figures!Reported(at)
    BY DEF Figures!Reported, Figures!Facts
  <1>2. \A p \in Figures!Reported(at) :
          Figures!Seen(portions'[p].facts, at) = Figures!Seen(portions[p].facts, at)
    BY DEF Figures!Reported
  <1>3. Figures!PortionTie(at)' <=> Figures!PortionTie(at)
    BY <1>1, <1>2 DEF Figures!PortionTie, Figures!Facts
  <1>4. [p \in Figures!Reported(at) |-> Figures!Agreed(Figures!Seen(portions'[p].facts, at))]
          = [p \in Figures!Reported(at) |-> Figures!Agreed(Figures!Seen(portions[p].facts, at))]
    BY <1>2
  <1>5. Figures!PortionSum(at)' = Figures!PortionSum(at)
    BY <1>1, <1>4 DEF Figures!PortionSum, Figures!Facts
  <1>6. QED
    BY <1>1, <1>3, <1>5

(* What the resolver's answer is made of.                                  *)
LEMMA StillAnswers ==
  ASSUME NEW at \in Nat,
         Figures!ModeAt(at)' = Figures!ModeAt(at),
         Figures!ModeAt(at) = "LEGACY_WORK" => Figures!LegacyAt(at)' = Figures!LegacyAt(at),
         Figures!Reported(at)' = Figures!Reported(at),
         Figures!PortionTie(at)' <=> Figures!PortionTie(at),
         Figures!PortionSum(at)' = Figures!PortionSum(at),
         Figures!Overlap(at)' <=> Figures!Overlap(at),
         Figures!ModeAt(at) \in {"LEGACY_WORK", "PORTION"}
  PROVE  Figures!ResolveWorkFact(at)' = Figures!ResolveWorkFact(at)
  <1>1. CASE Figures!ModeAt(at) = "LEGACY_WORK"
    BY <1>1 DEF Figures!ResolveWorkFact, Figures!Fact
  <1>2. CASE Figures!ModeAt(at) = "PORTION"
    BY <1>2 DEF Figures!ResolveWorkFact, Figures!Fact
  <1>3. QED
    BY <1>1, <1>2

(* Where only portions change, and the same is seen of them, the answer    *)
(* stays.                                                                  *)
LEMMA PortionsAnswer ==
  ASSUME NEW at \in Nat, mode \in Figures!Modes,
         UNCHANGED <<mode, switchedAt, actual, progress>>,
         Figures!Reported(at)' = Figures!Reported(at),
         Figures!PortionTie(at)' <=> Figures!PortionTie(at),
         Figures!PortionSum(at)' = Figures!PortionSum(at)
  PROVE  Figures!ResolveWorkFact(at)' = Figures!ResolveWorkFact(at)
  <1>1. Figures!ModeAt(at)' = Figures!ModeAt(at)
    BY DEF Figures!ModeAt
  <1>2. Figures!LegacyAt(at)' = Figures!LegacyAt(at)
    BY DEF Figures!LegacyAt
  <1>3. Figures!Overlap(at)' <=> Figures!Overlap(at)
    BY <1>1 DEF Figures!Overlap, Figures!LegacyEvidence
  <1>4. Figures!ModeAt(at) \in {"LEGACY_WORK", "PORTION"}
    BY DEF Figures!ModeAt, Figures!Modes
  <1>5. QED
    BY <1>1, <1>2, <1>3, <1>4, StillAnswers

(* Without a new row, all the past is as it was.                           *)
LEMMA QuietStep ==
  ASSUME NEW at \in Nat, mode \in Figures!Modes,
         UNCHANGED <<mode, switchedAt, actual, progress, portions>>
  PROVE  Figures!ResolveWorkFact(at)' = Figures!ResolveWorkFact(at)
  <1>1. /\ Figures!Reported(at)' = Figures!Reported(at)
        /\ Figures!PortionTie(at)' <=> Figures!PortionTie(at)
        /\ Figures!PortionSum(at)' = Figures!PortionSum(at)
    BY PortionsStillSeen
  <1>2. QED
    BY <1>1, PortionsAnswer

(* Who is still at work when an instant is settled began after it.         *)
LEMMA SettledIsBefore ==
  ASSUME FiguresInv, NEW t \in Attempts, NEW kind, Figures!Committing(t, kind),
         NEW at \in Nat, Figures!Settled(at)
  PROVE  at < sources[t].at
  <1>1. Reporting(t)
    BY CommitKnows
  <1>2. ~Figures!In(t, "idle")
    BY <1>1, SilentAreIdle
  <1>3. QED
    BY <1>2 DEF Figures!Settled

(* Progress leaves what was known, an import without history apart.        *)
LEMMA ProgressLeavesThePast ==
  ASSUME FiguresInv, NEW t \in Attempts, Figures!Progress(t), NEW at \in Nat,
         Figures!Settled(at), Figures!ResolveWorkFact(at).state # "HISTORY_UNAVAILABLE"
  PROVE  Figures!ResolveWorkFact(at)' = Figures!ResolveWorkFact(at)
  <1>1. PICK r : r = Figures!Reporting(t)
    OBVIOUS
  <1>2. /\ Figures!Committing(t, "progress") /\ progress' = Append(progress, r)
        /\ UNCHANGED <<mode, switchedAt, units, portions>>
    BY <1>1 DEF Figures!Progress
  <1>3. r \in Figures!Record /\ at < r.at /\ mode # "PORTION" /\ units = {}
    BY <1>1, <1>2, CommitKnows, SettledIsBefore DEF StillReports
  <1>4. /\ progress \in Seq(Figures!Record) /\ mode \in Figures!Modes /\ actual \in Nat
        /\ OneSource
    BY DEF FiguresInv, Figures!TypeOK
  <1>5. Figures!Reported(at) = {} /\ Figures!Reported(at)' = {}
    <2>1. portions = <<>>
      BY <1>3, <1>4 DEF OneSource
    <2>2. QED
      BY <1>2, <2>1 DEF Figures!Reported
  <1>6. /\ Figures!PortionTie(at)' <=> Figures!PortionTie(at)
        /\ Figures!PortionSum(at)' = Figures!PortionSum(at)
    BY <1>2, PortionsStillSeen
  <1>7. Figures!ModeAt(at) = "LEGACY_WORK" /\ Figures!ModeAt(at)' = "LEGACY_WORK"
    BY <1>2, <1>3, <1>4, <1>5 DEF Figures!ModeAt, Figures!Modes
  <1>8. ~Figures!Overlap(at) /\ ~Figures!Overlap(at)'
    BY <1>5, <1>7 DEF Figures!Overlap
  <1>9. Figures!Seen(progress', at) = Figures!Seen(progress, at)
    BY <1>2, <1>3, <1>4, LaterRowUnseen
  <1>10. progress' # <<>>
    BY <1>2, <1>3, <1>4
  <1>11. at # Figures!CURRENT
    BY DEF Figures!CURRENT
  <1>12. Figures!LegacyAt(at).state # "HISTORY_UNAVAILABLE"
    BY <1>7 DEF Figures!ResolveWorkFact, Figures!Fact
  <1>13. Figures!LegacyAt(at)' = Figures!LegacyAt(at)
    <2>1. CASE Figures!Seen(progress, at) = {}
      <3>1. Figures!LegacyAt(at) = [state |-> "KNOWN", quantity |-> 0]
        BY <1>11, <1>12, <2>1 DEF Figures!LegacyAt
      <3>2. Figures!LegacyAt(at)' = [state |-> "KNOWN", quantity |-> 0]
        BY <1>9, <1>10, <1>11, <2>1 DEF Figures!LegacyAt
      <3>3. QED
        BY <3>1, <3>2
    <2>2. CASE Figures!Seen(progress, at) # {}
      BY <1>9, <1>11, <2>2 DEF Figures!LegacyAt
    <2>3. QED
      BY <2>1, <2>2
  <1>14. QED
    BY <1>5, <1>6, <1>7, <1>8, <1>13, StillAnswers

(* A new portion has no facts.                                             *)
LEMMA PortionLeavesThePast ==
  ASSUME FiguresInv, NEW t \in Attempts, Figures!CreatePortion(t), NEW at \in Nat
  PROVE  Figures!ResolveWorkFact(at)' = Figures!ResolveWorkFact(at)
  <1>1. PICK new : new = [at |-> sources[t].at, facts |-> <<>>]
    OBVIOUS
  <1>2. /\ Figures!Committing(t, "portion") /\ portions' = Append(portions, new)
        /\ UNCHANGED <<mode, switchedAt, actual, progress>>
    BY <1>1 DEF Figures!CreatePortion, Figures!At
  <1>3. portions \in Seq(Figures!Portion) /\ mode \in Figures!Modes /\ sources[t].at \in Nat
    BY <1>2, CommitKnows DEF FiguresInv, Figures!TypeOK
  <1>4. new \in Figures!Portion /\ new.facts = <<>>
    BY <1>1, <1>3 DEF Figures!Portion
  <1>5. /\ \A p \in DOMAIN portions : p \in DOMAIN portions' /\ portions'[p] = portions[p]
        /\ \A p \in DOMAIN portions' : p \in DOMAIN portions \/ portions'[p] = new
    BY <1>2, <1>3, <1>4, OneMoreAtTheEnd
  <1>6. Figures!Seen(new.facts, at) = {}
    BY <1>4 DEF Figures!Seen, Figures!Range
  <1>7. /\ Figures!Reported(at)' = Figures!Reported(at)
        /\ Figures!PortionTie(at)' <=> Figures!PortionTie(at)
        /\ Figures!PortionSum(at)' = Figures!PortionSum(at)
    BY <1>5, <1>6, PortionsStillSeen
  <1>8. QED
    BY <1>2, <1>3, <1>7, PortionsAnswer

(* A portion's fact is dated by its transaction.                           *)
LEMMA FactIsUnseen ==
  ASSUME FiguresInv, NEW t \in Attempts, Figures!Committing(t, "fact"),
         portions' = Figures!WithFact(t), UNCHANGED <<actual, progress, units>>,
         NEW at \in Nat, Figures!Settled(at)
  PROVE  /\ at < sources[t].at
         /\ Figures!Reported(at)' = Figures!Reported(at)
         /\ Figures!PortionTie(at)' <=> Figures!PortionTie(at)
         /\ Figures!PortionSum(at)' = Figures!PortionSum(at)
  <1>1. PICK p : p = Told(t).portion
    OBVIOUS
  <1>2. PICK r : r = Figures!Reporting(t)
    OBVIOUS
  <1>3. r \in Figures!Record /\ at < r.at /\ r.at = sources[t].at
    BY <1>2, CommitKnows, SettledIsBefore
  <1>4. /\ p \in DOMAIN portions /\ DOMAIN portions' = DOMAIN portions
        /\ portions'[p].at = portions[p].at
        /\ portions'[p].facts = Append(portions[p].facts, r)
        /\ \A q \in DOMAIN portions \ {p} : portions'[q] = portions[q]
    BY <1>1, <1>2, FactIsAdded
  <1>5. portions[p].facts \in Seq(Figures!Record)
    BY <1>4, PortionShape DEF FiguresInv, Figures!TypeOK
  <1>6. Figures!Seen(portions'[p].facts, at) = Figures!Seen(portions[p].facts, at)
    BY <1>3, <1>4, <1>5, LaterRowUnseen
  <1>7. \A q \in DOMAIN portions :
          /\ q \in DOMAIN portions' /\ portions'[q].at = portions[q].at
          /\ Figures!Seen(portions'[q].facts, at) = Figures!Seen(portions[q].facts, at)
    BY <1>4, <1>6
  <1>8. QED
    BY <1>3, <1>4, <1>7, PortionsStillSeen

(* The fact of a portion leaves what was known, the first one too: it      *)
(* switches the work's source only from its own instant on.                *)
LEMMA FactLeavesThePast ==
  ASSUME FiguresInv, NEW t \in Attempts,
         Figures!PortionFact(t) \/ Figures!FirstPortionFact(t),
         NEW at \in Nat, Figures!Settled(at)
  PROVE  Figures!ResolveWorkFact(at)' = Figures!ResolveWorkFact(at)
  <1>1. /\ Figures!Committing(t, "fact") /\ portions' = Figures!WithFact(t)
        /\ UNCHANGED <<actual, progress, units>>
    BY DEF Figures!PortionFact, Figures!FirstPortionFact
  <1>2. /\ at < sources[t].at
        /\ Figures!Reported(at)' = Figures!Reported(at)
        /\ Figures!PortionTie(at)' <=> Figures!PortionTie(at)
        /\ Figures!PortionSum(at)' = Figures!PortionSum(at)
    BY <1>1, FactIsUnseen
  <1>3. mode \in Figures!Modes /\ OneSource /\ sources[t].at \in Nat
    BY <1>1, CommitKnows DEF FiguresInv, Figures!TypeOK
  <1>4. CASE Figures!PortionFact(t)
    <2>1. UNCHANGED <<mode, switchedAt, actual, progress>>
      BY <1>4 DEF Figures!PortionFact
    <2>2. QED
      BY <1>2, <1>3, <2>1, PortionsAnswer
  <1>5. CASE Figures!FirstPortionFact(t)
    <2>1. /\ mode = "LEGACY_WORK" /\ mode' = "PORTION" /\ switchedAt' = sources[t].at
      BY <1>5 DEF Figures!FirstPortionFact, Figures!At
    <2>2. at # Figures!CURRENT /\ switchedAt' # 0 /\ ~(switchedAt' <= at)
      BY <1>2, <1>3, <2>1 DEF Figures!CURRENT
    <2>3. Figures!ModeAt(at) = "LEGACY_WORK" /\ Figures!ModeAt(at)' = "LEGACY_WORK"
      BY <2>1, <2>2 DEF Figures!ModeAt
    <2>4. Figures!Overlap(at)' <=> Figures!Overlap(at)
      BY <1>2, <2>1, <2>3 DEF Figures!Overlap
    <2>5. Figures!LegacyAt(at)' = Figures!LegacyAt(at)
      BY <1>1 DEF Figures!LegacyAt
    <2>6. QED
      BY <1>2, <2>3, <2>4, <2>5, StillAnswers
  <1>6. QED
    BY <1>4, <1>5

(* No step changes what is known of a settled instant.                     *)
LEMMA ThePastStays ==
  ASSUME FiguresInv, [Figures!Next]_(Figures!vars)
  PROVE  Figures!ThePastIsStable
  <1>1. SUFFICES ASSUME NEW at \in 1..now, Figures!Settled(at),
                        Figures!ResolveWorkFact(at).state # "HISTORY_UNAVAILABLE"
                 PROVE  Figures!ResolveWorkFact(at)' = Figures!ResolveWorkFact(at)
    BY DEF Figures!ThePastIsStable
  <1>2. at \in Nat /\ mode \in Figures!Modes
    BY DEF FiguresInv, Figures!TypeOK
  <1>3. CASE UNCHANGED <<mode, switchedAt, actual, progress, portions>>
    BY <1>2, <1>3, QuietStep
  <1>4. CASE UNCHANGED Figures!vars
    BY <1>3, <1>4 DEF Figures!vars
  <1>5. ASSUME NEW t \in Attempts, NEW cmd \in Figures!Commands, Figures!Request(t, cmd)
        PROVE  Figures!ResolveWorkFact(at)' = Figures!ResolveWorkFact(at)
    BY <1>3, <1>5 DEF Figures!Request, Figures!evidence
  <1>6. ASSUME NEW t \in Attempts,
               Figures!LockAndCheck(t) \/ Figures!Refuse(t) \/ Figures!Abort(t)
        PROVE  Figures!ResolveWorkFact(at)' = Figures!ResolveWorkFact(at)
    BY <1>3, <1>6 DEF Figures!LockAndCheck, Figures!Refuse, Figures!Abort, Figures!evidence
  <1>7. ASSUME NEW t \in Attempts, Figures!CreateUnit(t)
        PROVE  Figures!ResolveWorkFact(at)' = Figures!ResolveWorkFact(at)
    BY <1>3, <1>7 DEF Figures!CreateUnit
  <1>8. ASSUME NEW t \in Attempts, Figures!Progress(t)
        PROVE  Figures!ResolveWorkFact(at)' = Figures!ResolveWorkFact(at)
    BY <1>1, <1>2, <1>8, ProgressLeavesThePast
  <1>9. ASSUME NEW t \in Attempts, Figures!CreatePortion(t)
        PROVE  Figures!ResolveWorkFact(at)' = Figures!ResolveWorkFact(at)
    BY <1>2, <1>9, PortionLeavesThePast
  <1>10. ASSUME NEW t \in Attempts, Figures!PortionFact(t) \/ Figures!FirstPortionFact(t)
         PROVE  Figures!ResolveWorkFact(at)' = Figures!ResolveWorkFact(at)
    BY <1>1, <1>2, <1>10, FactLeavesThePast
  <1>11. QED
    BY <1>4, <1>5, <1>6, <1>7, <1>8, <1>9, <1>10 DEF Figures!Next

(* The figures are kept: one source counts, no quantity is lost, the       *)
(* present and the completion are read right, and the past stays as known  *)
(* (service.ts, infra/026, gpr2/fact-resolver.ts).                         *)
THEOREM FiguresStayKept ==
  ASSUME Figures!FactAssumption
  PROVE  Figures!Spec => FiguresAreKept
  <1>1. FiguresInv =>
          /\ Figures!TypeOK /\ Figures!SourcesDoNotMix
          /\ Figures!NoFigureIsLost /\ Figures!CurrentIsKnownNow
          /\ Figures!CompletionStartsTheRun
    BY FiguresHold
  <1>2. FiguresInv /\ [Figures!Next]_(Figures!vars) => [Figures!ThePastIsStable]_figures
    BY ThePastStays
  <1>3. Figures!Spec => []FiguresInv
    BY FiguresInvariance
  <1>4. QED
    BY <1>1, <1>2, <1>3, PTL DEF Figures!Spec, FiguresAreKept
=============================================================================
