-------------------------- MODULE Planning_proofs --------------------------
(***************************************************************************)
(* What is planned for an object, for any number of processes, works,      *)
(* units, revisions and requests.                                          *)
(*                                                                         *)
(* Works: dependencies stay acyclic although each is checked against those *)
(* committed before it, none is put in front of work that has begun, and   *)
(* the acceptance a command read without a lock still stands when the      *)
(* command commits.                                                        *)
(*                                                                         *)
(* The schedule: a draft corrects the baseline in force, is approved as    *)
(* its page showed it, and never plans a work twice, although units appear *)
(* between the check of a command and its commit.                          *)
(*                                                                         *)
(* Generation: a place has one producer of a stage and space is counted    *)
(* once, although a preview is confirmed long after it was computed.       *)
(*                                                                         *)
(* The catalogue: a type is named only where it may be and measures what   *)
(* its unit says, and one approved proposal, of what was proposed,         *)
(* publishes it.                                                           *)
(***************************************************************************)
EXTENDS Planning, FiniteSetTheorems, SequenceTheorems, WellFoundedInduction, TLAPS

-----------------------------------------------------------------------------
(* The inductive invariant of the works *)

Checked(t) == In(t, {"checked"})

\* What a command addresses exists.
Addressed(cmd) ==
  /\ cmd.kind \in InspectionCommands => cmd.id \in DOMAIN inspections[cmd.work]
  /\ cmd.kind = "portionFact" => cmd.work \in PortionWorks

\* A command that changes the structure of the object is alone on it.
PlansAlone ==
  \A t, u \in Attempts : t # u /\ Coordinates(t) /\ Coordinates(u) => ~Exclusive(Cmd(t))

\* Row locks keep checked commands of one row apart.
RowsApart ==
  \A t, u \in Attempts : t # u /\ Checked(t) /\ Checked(u) =>
    /\ LockedWork(Cmd(t)) \cap LockedWork(Cmd(u)) = {}
    /\ LockedInspection(Cmd(t)) \cap LockedInspection(Cmd(u)) = {}

AcceptancesStand(w) ==
  \A d \in dependencies : d.succ = w /\ d.acceptance =>
    Complete(d.pred) /\ Some(d.pred, "ACCEPTED")

\* What still holds of a command's conditions until it commits: of the row it
\* locked, of the predecessors it only read, and of the whole structure when
\* it is alone on it.
Verified(cmd) ==
  /\ cmd.kind \in {"start", "progress", "portionFact"} => AcceptancesStand(cmd.work)
  /\ cmd.kind \in {"progress", "request"} => cmd.work \notin PortionWorks
  /\ cmd.kind = "progress" => ~Some(cmd.work, "ACCEPTED")
  /\ cmd.kind \in {"issue", "accept", "reject"} => Is(cmd.work, cmd.id, "LIVE")
  /\ cmd.kind = "accept" => ~Unclosed(cmd.work, cmd.id)
  /\ cmd.kind \in {"resolve", "verify"} => Unclosed(cmd.work, cmd.id)
  /\ cmd.kind = "dependency" => NotStarted(cmd.work) /\ ~ClosesCycle(cmd)

\* An accepted inspection has no critical issue left, and a work reported by
\* portions is never inspected as a whole.
AcceptedIsClosed ==
  \A w \in Works : \A i \in DOMAIN inspections[w] : Is(w, i, "ACCEPTED") => ~Unclosed(w, i)
PortionsAreElsewhere == \A w \in Works : w \in PortionWorks => inspections[w] = <<>>
InspectionsFit == \A w \in Works : DOMAIN inspections[w] \subseteq 1..MaxInspections

Rows ==
  TypeOK /\ AcceptedIsClosed /\ PortionsAreElsewhere /\ InspectionsFit /\ DependenciesAreAcyclic

IInv ==
  /\ Rows
  /\ \A t \in Attempts : ~In(t, {"idle"}) => Addressed(Cmd(t))
  /\ PlansAlone
  /\ RowsApart
  /\ \A t \in Attempts : Checked(t) => Verified(Cmd(t))

-----------------------------------------------------------------------------
(* Following dependencies *)

\* The works that follow v hold their successors; so v follows whom they follow.
LEMMA FollowersHoldSuccessors ==
  ASSUME dependencies \subseteq Dependency, NEW v \in Works
  PROVE  HoldsSuccessors({x \in Works : Follows(v, x)}, v)
<1> SUFFICES ASSUME NEW d \in dependencies, d.pred = v \/ Follows(v, d.pred),
                    NEW S \in SUBSET Works, HoldsSuccessors(S, v)
             PROVE  d.succ \in S
  BY DEF HoldsSuccessors, Follows, Dependency
<1>1. d.pred \in S \cup {v}
  BY DEF Follows
<1> QED
  BY <1>1 DEF HoldsSuccessors

LEMMA FollowingIsTransitive ==
  ASSUME NEW u, NEW v, NEW w, Follows(u, v), Follows(v, w)
  PROVE  Follows(u, w)
<1> SUFFICES ASSUME NEW S \in SUBSET Works, HoldsSuccessors(S, u)
             PROVE  w \in S
  BY DEF Follows
<1>1. v \in S
  BY DEF Follows
<1>2. HoldsSuccessors(S, v)
  BY <1>1 DEF HoldsSuccessors
<1> QED
  BY <1>2 DEF Follows

\* A dependency whose successor does not lead back to its predecessor closes
\* no cycle.
LEMMA NoCycleCloses ==
  ASSUME dependencies \subseteq Dependency, DependenciesAreAcyclic,
         NEW new \in Dependency, new.pred # new.succ, ~Follows(new.succ, new.pred),
         dependencies' = dependencies \cup {new}
  PROVE  DependenciesAreAcyclic'
<1> SUFFICES ASSUME NEW w \in Works
             PROVE  \E S \in SUBSET Works : HoldsSuccessors(S, w)' /\ w \notin S
  BY DEF DependenciesAreAcyclic, Follows
<1> DEFINE p == new.pred
           s == new.succ
<1>1. /\ p \in Works /\ s \in Works /\ p # s
      /\ ~Follows(w, w) /\ ~Follows(s, s) /\ ~Follows(s, p)
  BY DEF Dependency, DependenciesAreAcyclic
<1>2. PICK R \in SUBSET Works : R = {x \in Works : Follows(w, x)}
  OBVIOUS
<1>3. PICK Q \in SUBSET Works : Q = {x \in Works : Follows(s, x)}
  OBVIOUS
<1>4. HoldsSuccessors(R, w) /\ HoldsSuccessors(Q, s)
  BY <1>1, <1>2, <1>3, FollowersHoldSuccessors
<1>5. CASE p \notin R \cup {w}
  <2>1. HoldsSuccessors(R, w)'
    BY <1>4, <1>5 DEF HoldsSuccessors
  <2> QED
    BY <1>1, <1>2, <2>1
<1>6. CASE p \in R \cup {w}
  <2>1. HoldsSuccessors(R \cup {s} \cup Q, w)'
    BY <1>4 DEF HoldsSuccessors
  <2>2. w # s
    BY <1>1, <1>2, <1>6
  <2>3. ~Follows(s, w)
    BY <1>1, <1>2, <1>6, FollowingIsTransitive
  <2>4. w \notin R \cup {s} \cup Q
    BY <1>1, <1>2, <1>3, <2>2, <2>3
  <2> QED
    BY <1>1, <2>1, <2>4
<1> QED
  BY <1>5, <1>6

-----------------------------------------------------------------------------
(* Attempts and rows *)

LEMMA AttemptShape ==
  ASSUME TypeOK, NEW t \in Attempts
  PROVE  /\ attempts[t].phase \in {"begun", "coordinated", "checked", "idle"}
         /\ attempts[t].phase # "idle" => attempts[t].cmd \in Command
<1>1. attempts[t] \in Attempt
  BY DEF TypeOK
<1> QED
  BY <1>1 DEF Attempt, Idle

\* A step that ends attempt t.
LEMMA Ended ==
  ASSUME TypeOK, NEW t \in Attempts, attempts' = [attempts EXCEPT ![t] = Idle]
  PROVE  /\ attempts' \in [Attempts -> Attempt]
         /\ attempts'[t].phase = "idle"
         /\ \A u \in Attempts \ {t} : attempts'[u] = attempts[u]
BY DEF Attempt, TypeOK, Idle

\* A step that moves it on.
LEMMA MovedOn ==
  ASSUME TypeOK, NEW t \in Attempts, ~In(t, {"idle"}),
         NEW phase \in {"coordinated", "checked"}, Goto(t, phase)
  PROVE  /\ attempts' \in [Attempts -> Attempt]
         /\ attempts'[t].phase = phase /\ attempts'[t].cmd = attempts[t].cmd
         /\ \A u \in Attempts \ {t} : attempts'[u] = attempts[u]
<1> DEFINE new == [attempts[t] EXCEPT !.phase = phase]
<1>1. attempts[t] \in [phase : {"begun", "coordinated", "checked"}, cmd : Command]
  BY DEF TypeOK, Attempt, Idle, In
<1>2. new \in Attempt /\ new.phase = phase /\ new.cmd = attempts[t].cmd
  BY <1>1 DEF Attempt
<1>3. attempts' = [attempts EXCEPT ![t] = new]
  BY DEF Goto
<1> HIDE DEF new
<1> QED
  BY <1>2, <1>3 DEF TypeOK

LEMMA RowsAreSequences ==
  ASSUME TypeOK, NEW w \in Works
  PROVE  /\ inspections[w] \in Seq(Inspection)
         /\ Len(inspections[w]) \in Nat
         /\ DOMAIN inspections[w] = 1..Len(inspections[w])
         /\ \A i \in DOMAIN inspections[w] : inspections[w][i] \in Inspection
<1>1. inspections[w] \in Seq(Inspection)
  BY DEF TypeOK
<1>2. Len(inspections[w]) \in Nat /\ DOMAIN inspections[w] = 1..Len(inspections[w])
  BY <1>1, LenProperties
<1> QED
  BY <1>1, <1>2

\* Only the row named is written; a quantity stays between nothing and the plan.
LEMMA WorkWritten ==
  ASSUME TypeOK, NEW w \in Works, NEW status, NEW quantity, NEW assigned,
         [status |-> status, quantity |-> quantity, assigned |-> assigned,
          version |-> works[w].version + 1] \in Work,
         Write(w, status, quantity, assigned)
  PROVE  /\ works' \in [Works -> Work]
         /\ works'[w].status = status /\ works'[w].quantity = quantity
         /\ \A v \in Works \ {w} : works'[v] = works[v]
<1> DEFINE row == [status |-> status, quantity |-> quantity, assigned |-> assigned,
                   version |-> works[w].version + 1]
<1>1. row \in Work /\ row.status = status /\ row.quantity = quantity
  OBVIOUS
<1>2. works' = [works EXCEPT ![w] = row]
  BY DEF Write
<1> HIDE DEF row
<1> QED
  BY <1>1, <1>2 DEF TypeOK

LEMMA InspectionWritten ==
  ASSUME TypeOK, NEW w \in Works, NEW i \in DOMAIN inspections[w], NEW row \in Inspection,
         Inspect(w, i, row)
  PROVE  /\ inspections' \in [Works -> Seq(Inspection)]
         /\ DOMAIN inspections'[w] = DOMAIN inspections[w]
         /\ inspections'[w][i] = row
         /\ \A j \in DOMAIN inspections[w] \ {i} : inspections'[w][j] = inspections[w][j]
         /\ \A v \in Works \ {w} : inspections'[v] = inspections[v]
<1> DEFINE rows == [inspections[w] EXCEPT ![i] = row]
<1>1. /\ rows \in Seq(Inspection) /\ DOMAIN rows = DOMAIN inspections[w] /\ rows[i] = row
      /\ \A j \in DOMAIN inspections[w] \ {i} : rows[j] = inspections[w][j]
  BY RowsAreSequences, ExceptSeq
<1>2. inspections' = [inspections EXCEPT ![w] = rows]
  BY DEF Inspect
<1> HIDE DEF rows
<1> QED
  BY <1>1, <1>2 DEF TypeOK

-----------------------------------------------------------------------------
(* What a committing command may do *)

\* It holds its rows; an accepted inspection stays accepted and the quantity
\* under it stays; a new acceptance waits for the work's row; dependencies
\* move only under the exclusive lock.
Commits(t) ==
  /\ Checked(t)
  /\ attempts' = [attempts EXCEPT ![t] = Idle]
  /\ requests' = requests
  /\ Rows'
  /\ dependencies' = dependencies \/ Exclusive(Cmd(t))
  /\ \A w \in Works :
       /\ works'[w].quantity = works[w].quantity \/ ~Some(w, "ACCEPTED")
       /\ DOMAIN inspections[w] \subseteq DOMAIN inspections'[w]
       /\ \A i \in DOMAIN inspections[w] :
            inspections'[w][i] = inspections[w][i] \/ <<w, i>> \in LockedInspection(Cmd(t))
       /\ Some(w, "ACCEPTED") => Some(w, "ACCEPTED")'
       /\ Some(w, "ACCEPTED")' /\ ~Some(w, "ACCEPTED") =>
            \A u \in Attempts \ {t} : Checked(u) => w \notin LockedWork(Cmd(u))

\* Commands that wait or have been checked do not notice.
LEMMA CommitKeeps ==
  ASSUME IInv, NEW t \in Attempts, Commits(t)
  PROVE  IInv'
<1>1. /\ attempts' \in [Attempts -> Attempt]
      /\ attempts'[t].phase = "idle"
      /\ \A u \in Attempts \ {t} : attempts'[u] = attempts[u]
  BY Ended DEF IInv, Rows, Commits
<1>2. \A u \in Attempts : ~In(u, {"idle"})' =>
        /\ u # t /\ attempts'[u] = attempts[u] /\ Cmd(u)' = Cmd(u) /\ ~In(u, {"idle"})
        /\ Cmd(u) \in Command /\ Addressed(Cmd(u))
  BY <1>1, AttemptShape DEF In, Cmd, IInv, Rows
<1>3. \A u \in Attempts : ~In(u, {"idle"})' => Addressed(Cmd(u))'
  <2> SUFFICES ASSUME NEW u \in Attempts, ~In(u, {"idle"})'
               PROVE  \A cmd : cmd = Cmd(u) => Addressed(cmd)'
    BY <1>2
  <2>1. Cmd(u).work \in Works
    BY <1>2 DEF Command
  <2> QED
    BY <1>2, <2>1 DEF Addressed, Commits
<1>4. \A u \in Attempts : /\ Coordinates(u)' => ~In(u, {"idle"})' /\ Coordinates(u)
                          /\ Checked(u)' => ~In(u, {"idle"})' /\ Coordinates(u)' /\ Checked(u)
  BY <1>1 DEF Coordinates, Checked, In
<1>5. PlansAlone'
  BY <1>2, <1>4 DEF IInv, PlansAlone, Exclusive
<1>6. RowsApart'
  BY <1>2, <1>4 DEF IInv, RowsApart, LockedWork, LockedInspection
<1>7. ASSUME NEW u \in Attempts, Checked(u)'
      PROVE  Verified(Cmd(u))'
  <2>0. PICK c : c = Cmd(u)
    OBVIOUS
  <2>1. /\ u # t /\ Checked(u) /\ Coordinates(u) /\ Cmd(u)' = c /\ Cmd(u) = c
        /\ c \in Command /\ Addressed(c) /\ Verified(c)
    BY <1>2, <1>4, <1>7, <2>0 DEF IInv
  <2>2. Coordinates(t)
    BY DEF Commits, Checked, Coordinates, In
  <2>3. /\ dependencies' = dependencies /\ ~Exclusive(c)
        /\ LockedWork(Cmd(t)) \cap LockedWork(c) = {}
        /\ LockedInspection(Cmd(t)) \cap LockedInspection(c) = {}
    BY <2>1, <2>2 DEF IInv, PlansAlone, RowsApart, Commits
  <2>4. /\ c.work \in Works
        /\ \A w \in Works : Some(w, "ACCEPTED") => Some(w, "ACCEPTED")' /\ Complete(w)' = Complete(w)
    BY <2>1 DEF Command, Commits, Complete
  <2>5. \A w \in Works : AcceptancesStand(w) => AcceptancesStand(w)'
    <3>1. \A d \in dependencies : d.pred \in Works
      BY DEF IInv, Rows, TypeOK, Dependency
    <3> QED
      BY <2>3, <2>4, <3>1 DEF AcceptancesStand
  <2>6. c.kind = "progress" /\ ~Some(c.work, "ACCEPTED") => ~Some(c.work, "ACCEPTED")'
    BY <2>1, <2>4 DEF Commits, LockedWork, WorkCommands
  <2>7. c.kind \in InspectionCommands =>
          inspections'[c.work][c.id] = inspections[c.work][c.id]
    <3> SUFFICES ASSUME c.kind \in InspectionCommands
                 PROVE  inspections'[c.work][c.id] = inspections[c.work][c.id]
      OBVIOUS
    <3>1. c.id \in DOMAIN inspections[c.work] /\ <<c.work, c.id>> \in LockedInspection(c)
      BY <2>1 DEF Addressed, LockedInspection
    <3> QED
      BY <2>3, <2>4, <3>1 DEF Commits
  <2>8. c.kind # "dependency"
    BY <2>3 DEF Exclusive
  <2>9. Verified(c)'
    BY <2>1, <2>4, <2>5, <2>6, <2>7, <2>8 DEF Verified, Is, Unclosed, InspectionCommands
  <2> QED
    BY <2>1, <2>9
<1> QED
  BY <1>3, <1>5, <1>6, <1>7 DEF IInv, Commits

-----------------------------------------------------------------------------
(* Each committing command keeps within it *)

\* What committing in a kind gives.
LEMMA CommitsKind ==
  ASSUME IInv, NEW t \in Attempts, NEW kind, Committing(t, kind)
  PROVE  /\ Checked(t) /\ Cmd(t).kind = kind /\ Verified(Cmd(t)) /\ Addressed(Cmd(t))
         /\ Cmd(t) \in Command /\ Cmd(t).work \in Works /\ Cmd(t).pred \in Works
         /\ Cmd(t).quantity \in 0..Planned
         /\ attempts' = [attempts EXCEPT ![t] = Idle] /\ attempts' \in [Attempts -> Attempt]
         /\ requests' = requests
<1>1. /\ Checked(t) /\ ~In(t, {"idle"}) /\ Cmd(t).kind = kind
      /\ attempts' = [attempts EXCEPT ![t] = Idle] /\ requests' = requests
  BY DEF Committing, Checked, In
<1>2. Cmd(t) \in Command
  BY <1>1, AttemptShape DEF In, Cmd, IInv, Rows
<1> QED
  BY <1>1, <1>2, Ended DEF IInv, Rows, Command

\* Commands that write works alone.
LEMMA WorksAlone ==
  ASSUME IInv, NEW t \in Attempts, NEW kind, Committing(t, kind),
         UNCHANGED <<inspections, dependencies>>, works' \in [Works -> Work],
         \A w \in Works : works'[w].quantity = works[w].quantity \/ ~Some(w, "ACCEPTED")
  PROVE  Commits(t)
<1>1. TypeOK'
  BY CommitsKind DEF IInv, Rows, TypeOK
<1>2. AcceptedIsClosed' /\ PortionsAreElsewhere' /\ InspectionsFit'
  BY DEF IInv, Rows, AcceptedIsClosed, PortionsAreElsewhere, InspectionsFit, Is, Unclosed
<1>3. DependenciesAreAcyclic'
  BY DEF IInv, Rows, DependenciesAreAcyclic, Follows, HoldsSuccessors
<1>4. \A w \in Works : Some(w, "ACCEPTED")' <=> Some(w, "ACCEPTED")
  BY DEF Some, Is
<1> QED
  BY <1>1, <1>2, <1>3, <1>4, CommitsKind DEF Commits, Rows

\* A row of a work whose version moves.
LEMMA WorkRow ==
  ASSUME TypeOK, NEW w \in Works, NEW status \in {"PLANNED", "ACTIVE", "COMPLETED"},
         NEW quantity \in 0..Planned, NEW assigned \in BOOLEAN
  PROVE  [status |-> status, quantity |-> quantity, assigned |-> assigned,
          version |-> works[w].version + 1] \in Work
BY DEF TypeOK, Work

LEMMA WorkIsTyped ==
  ASSUME TypeOK, NEW w \in Works
  PROVE  /\ works[w].status \in {"PLANNED", "ACTIVE", "COMPLETED"}
         /\ works[w].quantity \in 0..Planned /\ works[w].assigned \in BOOLEAN
BY DEF TypeOK, Work

LEMMA CompletePlanningCommits ==
  ASSUME IInv, NEW t \in Attempts, CompletePlanning(t)
  PROVE  Commits(t) /\ \A w \in Works : ~Moves(w)
<1> DEFINE w == Cmd(t).work
<1>1. /\ w \in Works /\ Committing(t, "complete") /\ UNCHANGED <<inspections, dependencies>>
      /\ Write(w, works[w].status, works[w].quantity, TRUE)
  BY CommitsKind DEF CompletePlanning
<1> HIDE DEF w
<1>2. /\ works' \in [Works -> Work]
      /\ works'[w].status = works[w].status /\ works'[w].quantity = works[w].quantity
      /\ \A v \in Works \ {w} : works'[v] = works[v]
  BY <1>1, WorkIsTyped, WorkRow, WorkWritten DEF IInv, Rows
<1> QED
  BY <1>1, <1>2, WorksAlone DEF Moves

LEMMA StartCommits ==
  ASSUME IInv, NEW t \in Attempts, Start(t)
  PROVE  Commits(t) /\ \A w \in Works \ {Cmd(t).work} : ~Moves(w)
<1> DEFINE w == Cmd(t).work
<1>1. /\ w \in Works /\ Committing(t, "start") /\ UNCHANGED <<inspections, dependencies>>
      /\ Write(w, "ACTIVE", works[w].quantity, works[w].assigned)
  BY CommitsKind DEF Start
<1>0. w = Cmd(t).work
  OBVIOUS
<1> HIDE DEF w
<1>2. /\ works' \in [Works -> Work] /\ works'[w].quantity = works[w].quantity
      /\ \A v \in Works \ {w} : works'[v] = works[v]
  BY <1>1, WorkIsTyped, WorkRow, WorkWritten DEF IInv, Rows
<1> QED
  BY <1>0, <1>1, <1>2, WorksAlone DEF Moves

LEMMA ProgressCommits ==
  ASSUME IInv, NEW t \in Attempts, Progress(t)
  PROVE  Commits(t) /\ \A w \in Works \ {Cmd(t).work} : ~Moves(w)
<1> DEFINE w == Cmd(t).work
           q == Cmd(t).quantity
<1>1. /\ w \in Works /\ q \in 0..Planned
      /\ Committing(t, "progress") /\ UNCHANGED <<inspections, dependencies>>
      /\ Write(w, StatusFor(q), q, works[w].assigned)
      /\ ~Some(w, "ACCEPTED")
  BY CommitsKind DEF Progress, Verified
<1>0. w = Cmd(t).work
  OBVIOUS
<1> HIDE DEF w, q
<1>2. /\ works' \in [Works -> Work]
      /\ \A v \in Works \ {w} : works'[v] = works[v]
  <2>1. StatusFor(q) \in {"PLANNED", "ACTIVE", "COMPLETED"}
    BY DEF StatusFor
  <2> QED
    BY <1>1, <2>1, WorkIsTyped, WorkRow, WorkWritten DEF IInv, Rows
<1> QED
  BY <1>0, <1>1, <1>2, WorksAlone DEF Moves

\* The quantity of a work reported by portions moves under no lock of the work;
\* nothing accepts such a work.
LEMMA PortionFactCommits ==
  ASSUME IInv, NEW t \in Attempts, PortionFact(t)
  PROVE  Commits(t) /\ \A w \in Works \ {Cmd(t).work} : ~Moves(w)
<1> DEFINE w == Cmd(t).work
           q == Cmd(t).quantity
           row == [works[w] EXCEPT !.quantity = q]
<1>1. /\ w \in Works /\ q \in 0..Planned /\ w \in PortionWorks
      /\ Committing(t, "portionFact") /\ UNCHANGED <<inspections, dependencies>>
      /\ works' = [works EXCEPT ![w] = row]
  BY CommitsKind DEF PortionFact, Addressed
<1>0. w = Cmd(t).work
  OBVIOUS
<1>2. row \in Work
  BY <1>1 DEF IInv, Rows, TypeOK, Work
<1>3. ~Some(w, "ACCEPTED")
  BY <1>1 DEF IInv, Rows, PortionsAreElsewhere, Some
<1> HIDE DEF w, row
<1>4. /\ works' \in [Works -> Work]
      /\ \A v \in Works \ {w} : works'[v] = works[v]
  BY <1>1, <1>2 DEF IInv, Rows, TypeOK
<1> QED
  BY <1>0, <1>1, <1>3, <1>4, WorksAlone DEF Moves

\* Commands that write one inspection or append one, and no quantity.
LEMMA InspectionsAlone ==
  ASSUME IInv, NEW t \in Attempts, NEW kind, Committing(t, kind), dependencies' = dependencies,
         works' \in [Works -> Work],
         \A w \in Works : works'[w].quantity = works[w].quantity,
         inspections' \in [Works -> Seq(Inspection)],
         NEW w \in Works, w \notin PortionWorks,
         \A v \in Works \ {w} : inspections'[v] = inspections[v],
         DOMAIN inspections[w] \subseteq DOMAIN inspections'[w],
         DOMAIN inspections'[w] \subseteq 1..MaxInspections,
         \A i \in DOMAIN inspections[w] :
           \/ inspections'[w][i] = inspections[w][i]
           \/ <<w, i>> \in LockedInspection(Cmd(t)) /\ inspections[w][i].status # "ACCEPTED",
         \A i \in DOMAIN inspections'[w] : inspections'[w][i].status = "ACCEPTED" =>
           inspections'[w][i].critical \notin {"OPEN", "RESOLVED"},
         Some(w, "ACCEPTED")' /\ ~Some(w, "ACCEPTED") =>
           \A u \in Attempts \ {t} : Checked(u) => w \notin LockedWork(Cmd(u))
  PROVE  Commits(t)
<1>1. TypeOK'
  BY CommitsKind DEF IInv, Rows, TypeOK
<1>2. AcceptedIsClosed'
  <2> SUFFICES ASSUME NEW v \in Works, NEW i \in DOMAIN inspections'[v], Is(v, i, "ACCEPTED")'
               PROVE  ~Unclosed(v, i)'
    BY DEF AcceptedIsClosed
  <2>1. CASE v = w
    BY <2>1 DEF Is, Unclosed
  <2>2. CASE v # w
    BY <2>2 DEF IInv, Rows, AcceptedIsClosed, Is, Unclosed
  <2> QED
    BY <2>1, <2>2
<1>3. PortionsAreElsewhere' /\ InspectionsFit'
  BY DEF IInv, Rows, PortionsAreElsewhere, InspectionsFit
<1>4. DependenciesAreAcyclic'
  BY DEF IInv, Rows, DependenciesAreAcyclic, Follows, HoldsSuccessors
<1>5. \A v \in Works \ {w} : Some(v, "ACCEPTED")' <=> Some(v, "ACCEPTED")
  BY DEF Some, Is
<1>6. Some(w, "ACCEPTED") => Some(w, "ACCEPTED")'
  BY DEF Some, Is
<1>7. \A v \in Works :
        /\ DOMAIN inspections[v] \subseteq DOMAIN inspections'[v]
        /\ \A i \in DOMAIN inspections[v] :
             inspections'[v][i] = inspections[v][i] \/ <<v, i>> \in LockedInspection(Cmd(t))
  OBVIOUS
<1> QED
  BY <1>1, <1>2, <1>3, <1>4, <1>5, <1>6, <1>7, CommitsKind DEF Commits, Rows

LEMMA RequestInspectionCommits ==
  ASSUME WorksAssumption, IInv, NEW t \in Attempts, RequestInspection(t)
  PROVE  Commits(t) /\ \A w \in Works : ~Moves(w)
<1>0. PICK w : w = Cmd(t).work
  OBVIOUS
<1> DEFINE row == [status |-> "LIVE", critical |-> "NONE"]
           rows == Append(inspections[w], row)
<1>1. /\ w \in Works /\ w \notin PortionWorks /\ Committing(t, "request")
      /\ dependencies' = dependencies
      /\ Write(w, works[w].status, works[w].quantity, works[w].assigned)
      /\ inspections' = [inspections EXCEPT ![w] = rows]
      /\ Len(inspections[w]) < MaxInspections
  BY <1>0, CommitsKind DEF RequestInspection, Verified
<1>2. row \in Inspection /\ row.status = "LIVE"
  BY DEF Inspection
<1> HIDE DEF row
<1>3. /\ rows \in Seq(Inspection)
      /\ DOMAIN inspections[w] \subseteq DOMAIN rows
      /\ DOMAIN rows \subseteq 1..MaxInspections
      /\ \A i \in DOMAIN inspections[w] : rows[i] = inspections[w][i]
      /\ \A i \in DOMAIN rows : i \in DOMAIN inspections[w] \/ rows[i] = row
  <2>1. /\ inspections[w] \in Seq(Inspection) /\ Len(inspections[w]) \in Nat
        /\ DOMAIN inspections[w] = 1..Len(inspections[w])
    BY <1>1, RowsAreSequences DEF IInv, Rows
  <2>2. /\ rows \in Seq(Inspection) /\ Len(rows) = Len(inspections[w]) + 1
        /\ \A i \in 1..Len(inspections[w]) : rows[i] = inspections[w][i]
        /\ rows[Len(inspections[w]) + 1] = row
    BY <1>2, <2>1, AppendProperties
  <2>3. DOMAIN rows = 1..Len(rows)
    BY <2>2, LenProperties
  <2> QED
    BY <1>1, <2>1, <2>2, <2>3, WorksAssumption DEF WorksAssumption
<1> HIDE DEF rows
<1>4. /\ inspections' \in [Works -> Seq(Inspection)] /\ inspections'[w] = rows
      /\ \A v \in Works \ {w} : inspections'[v] = inspections[v]
  BY <1>1, <1>3 DEF IInv, Rows, TypeOK
<1>5. /\ works' \in [Works -> Work]
      /\ works'[w].status = works[w].status /\ works'[w].quantity = works[w].quantity
      /\ \A v \in Works \ {w} : works'[v] = works[v]
  BY <1>1, WorkIsTyped, WorkRow, WorkWritten DEF IInv, Rows
<1>6. \A i \in DOMAIN inspections'[w] : inspections'[w][i].status = "ACCEPTED" =>
        /\ i \in DOMAIN inspections[w] /\ inspections[w][i].status = "ACCEPTED"
        /\ inspections'[w][i] = inspections[w][i]
  BY <1>2, <1>3, <1>4
<1>7. Some(w, "ACCEPTED")' => Some(w, "ACCEPTED")
  BY <1>6 DEF Some, Is
<1>8. \A i \in DOMAIN inspections'[w] : inspections'[w][i].status = "ACCEPTED" =>
        inspections'[w][i].critical \notin {"OPEN", "RESOLVED"}
  BY <1>1, <1>6 DEF IInv, Rows, AcceptedIsClosed, Is, Unclosed
<1>9. Commits(t)
  BY <1>1, <1>3, <1>4, <1>5, <1>7, <1>8, InspectionsAlone
<1> QED
  BY <1>5, <1>9 DEF Moves

\* A live or unclosed inspection is not accepted, and its row is the command's.
LEMMA IssueStepCommits ==
  ASSUME IInv, NEW t \in Attempts,
         NEW kind \in {"issue", "resolve", "verify"}, NEW critical \in {"OPEN", "RESOLVED", "CLOSED"},
         IssueStep(t, kind, critical)
  PROVE  Commits(t) /\ \A w \in Works : ~Moves(w)
<1>0. PICK w, i : w = Cmd(t).work /\ i = Cmd(t).id
  OBVIOUS
<1> DEFINE row == [status |-> "LIVE", critical |-> critical]
<1>1. /\ w \in Works /\ Committing(t, kind) /\ UNCHANGED <<works, dependencies>>
      /\ Inspect(w, i, row)
      /\ i \in DOMAIN inspections[w] /\ <<w, i>> \in LockedInspection(Cmd(t))
      /\ Is(w, i, "LIVE") \/ Unclosed(w, i)
  BY <1>0, CommitsKind DEF IssueStep, Verified, Addressed, LockedInspection, InspectionCommands
<1>2. row \in Inspection /\ row.status = "LIVE"
  BY DEF Inspection
<1> HIDE DEF row
<1>3. /\ inspections' \in [Works -> Seq(Inspection)]
      /\ DOMAIN inspections'[w] = DOMAIN inspections[w]
      /\ DOMAIN inspections'[w] \subseteq 1..MaxInspections
      /\ inspections'[w][i] = row
      /\ \A j \in DOMAIN inspections[w] \ {i} : inspections'[w][j] = inspections[w][j]
      /\ \A v \in Works \ {w} : inspections'[v] = inspections[v]
  BY <1>1, <1>2, InspectionWritten DEF IInv, Rows, InspectionsFit
<1>4. inspections[w][i].status # "ACCEPTED"
  BY <1>1 DEF IInv, Rows, AcceptedIsClosed, Is
<1>5. w \notin PortionWorks
  BY <1>1 DEF IInv, Rows, PortionsAreElsewhere
<1>6. \A j \in DOMAIN inspections'[w] : inspections'[w][j].status = "ACCEPTED" =>
        j \in DOMAIN inspections[w] /\ inspections'[w][j] = inspections[w][j]
  BY <1>2, <1>3
<1>7. Some(w, "ACCEPTED")' => Some(w, "ACCEPTED")
  BY <1>6 DEF Some, Is
<1>8. \A j \in DOMAIN inspections'[w] : inspections'[w][j].status = "ACCEPTED" =>
        inspections'[w][j].critical \notin {"OPEN", "RESOLVED"}
  BY <1>1, <1>6 DEF IInv, Rows, AcceptedIsClosed, Is, Unclosed
<1>9. works' \in [Works -> Work] /\ \A v \in Works : works'[v].quantity = works[v].quantity
  BY <1>1 DEF IInv, Rows, TypeOK
<1>10. Commits(t)
  BY <1>1, <1>3, <1>4, <1>5, <1>7, <1>8, <1>9, InspectionsAlone
<1> QED
  BY <1>1, <1>10 DEF Moves

\* A decision waits for the work's row: whoever checked that nothing of the work
\* is accepted has committed by then.
LEMMA DecideCommits ==
  ASSUME IInv, NEW t \in Attempts,
         NEW kind, NEW status, <<kind, status>> \in {<<"accept", "ACCEPTED">>, <<"reject", "REJECTED">>},
         Decide(t, kind, status)
  PROVE  Commits(t) /\ \A w \in Works : ~Moves(w)
<1>0. PICK w, i : w = Cmd(t).work /\ i = Cmd(t).id
  OBVIOUS
<1> DEFINE row == [inspections[w][i] EXCEPT !.status = status]
<1>1. /\ w \in Works /\ Committing(t, kind) /\ dependencies' = dependencies
      /\ Inspect(w, i, row)
      /\ Write(w, works[w].status, works[w].quantity, works[w].assigned)
      /\ i \in DOMAIN inspections[w] /\ <<w, i>> \in LockedInspection(Cmd(t))
      /\ Is(w, i, "LIVE")
      /\ kind = "accept" => ~Unclosed(w, i)
      /\ \A u \in Attempts \ {t} : Checked(u) => w \notin LockedWork(Cmd(u))
  BY <1>0, CommitsKind
  DEF Decide, Verified, Addressed, LockedInspection, InspectionCommands, Checked
<1>2. row \in Inspection /\ row.status = status /\ row.critical = inspections[w][i].critical
  <2>1. inspections[w][i] \in Inspection
    BY <1>1, RowsAreSequences DEF IInv, Rows
  <2> QED
    BY <2>1 DEF Inspection
<1> HIDE DEF row
<1>3. /\ inspections' \in [Works -> Seq(Inspection)]
      /\ DOMAIN inspections'[w] = DOMAIN inspections[w]
      /\ DOMAIN inspections'[w] \subseteq 1..MaxInspections
      /\ inspections'[w][i] = row
      /\ \A j \in DOMAIN inspections[w] \ {i} : inspections'[w][j] = inspections[w][j]
      /\ \A v \in Works \ {w} : inspections'[v] = inspections[v]
  BY <1>1, <1>2, InspectionWritten DEF IInv, Rows, InspectionsFit
<1>4. inspections[w][i].status # "ACCEPTED"
  BY <1>1 DEF Is
<1>5. w \notin PortionWorks
  BY <1>1 DEF IInv, Rows, PortionsAreElsewhere
<1>6. /\ works' \in [Works -> Work]
      /\ works'[w].status = works[w].status /\ works'[w].quantity = works[w].quantity
      /\ \A v \in Works \ {w} : works'[v] = works[v]
  BY <1>1, WorkIsTyped, WorkRow, WorkWritten DEF IInv, Rows
<1>7. \A j \in DOMAIN inspections'[w] : inspections'[w][j].status = "ACCEPTED" =>
        inspections'[w][j].critical \notin {"OPEN", "RESOLVED"}
  <2> SUFFICES ASSUME NEW j \in DOMAIN inspections'[w], inspections'[w][j].status = "ACCEPTED"
               PROVE  inspections'[w][j].critical \notin {"OPEN", "RESOLVED"}
    OBVIOUS
  <2>1. CASE j = i
    BY <1>1, <1>2, <1>3, <2>1 DEF Unclosed
  <2>2. CASE j # i
    BY <1>1, <1>3, <2>2 DEF IInv, Rows, AcceptedIsClosed, Is, Unclosed
  <2> QED
    BY <2>1, <2>2
<1>8. Commits(t)
  BY <1>1, <1>3, <1>4, <1>5, <1>6, <1>7, InspectionsAlone
<1> QED
  BY <1>6, <1>8 DEF Moves

LEMMA AddDependencyCommits ==
  ASSUME IInv, NEW t \in Attempts, AddDependency(t)
  PROVE  Commits(t) /\ \A w \in Works : ~Moves(w)
<1> DEFINE new == [pred |-> Cmd(t).pred, succ |-> Cmd(t).work, acceptance |-> Cmd(t).acceptance]
<1>1. /\ Committing(t, "dependency") /\ Exclusive(Cmd(t)) /\ ~ClosesCycle(Cmd(t))
      /\ UNCHANGED <<works, inspections>>
      /\ dependencies' = dependencies \cup {new}
      /\ new \in Dependency /\ new.pred = Cmd(t).pred /\ new.succ = Cmd(t).work
  BY CommitsKind DEF AddDependency, Verified, Exclusive, Dependency, Command
<1> HIDE DEF new
<1>2. DependenciesAreAcyclic'
  BY <1>1, NoCycleCloses DEF IInv, Rows, TypeOK, ClosesCycle
<1>3. TypeOK'
  BY <1>1, CommitsKind DEF IInv, Rows, TypeOK
<1>4. AcceptedIsClosed' /\ PortionsAreElsewhere' /\ InspectionsFit'
  BY <1>1 DEF IInv, Rows, AcceptedIsClosed, PortionsAreElsewhere, InspectionsFit, Is, Unclosed
<1>5. \A w \in Works : Some(w, "ACCEPTED")' <=> Some(w, "ACCEPTED")
  BY <1>1 DEF Some, Is
<1> QED
  BY <1>1, <1>2, <1>3, <1>4, <1>5, CommitsKind DEF Commits, Rows, Moves

-----------------------------------------------------------------------------
(* Steps that write no row *)

\* What is known of commands and rows stands when only attempts move.
LEMMA RowsStand ==
  ASSUME Rows, UNCHANGED <<works, inspections, dependencies>>, attempts' \in [Attempts -> Attempt],
         requests' \in 0..MaxRequests
  PROVE  /\ Rows'
         /\ \A cmd : (Addressed(cmd) => Addressed(cmd)') /\ (Verified(cmd) => Verified(cmd)')
<1>1. TypeOK'
  BY DEF Rows, TypeOK
<1>2. AcceptedIsClosed' /\ PortionsAreElsewhere' /\ InspectionsFit'
  BY DEF Rows, AcceptedIsClosed, PortionsAreElsewhere, InspectionsFit, Is, Unclosed
<1>3. DependenciesAreAcyclic'
  BY DEF Rows, DependenciesAreAcyclic, Follows, HoldsSuccessors
<1>4. \A cmd : Addressed(cmd) => Addressed(cmd)'
  BY DEF Addressed
<1>5. ASSUME NEW cmd, Verified(cmd)
      PROVE  Verified(cmd)'
  <2>1. AcceptancesStand(cmd.work) => AcceptancesStand(cmd.work)'
    BY DEF AcceptancesStand, Complete, Some, Is
  <2>2. ~ClosesCycle(cmd) => ~ClosesCycle(cmd)'
    BY DEF ClosesCycle, Follows, HoldsSuccessors
  <2> QED
    BY <1>5, <2>1, <2>2 DEF Verified, Some, Is, Unclosed, NotStarted
<1> QED
  BY <1>1, <1>2, <1>3, <1>4, <1>5 DEF Rows

LEMMA AskedCommand ==
  ASSUME WorksAssumption, IInv, NEW t \in Attempts, NEW w \in Works, Ask(t, w)
  PROVE  \E cmd : cmd \in Command /\ Addressed(cmd) /\ Request(t, cmd)
<1>1. /\ 0 \in 0..MaxInspections /\ 0 \in 0..Planned
      /\ works[w].version \in Nat
      /\ \A i \in DOMAIN inspections[w] : i \in 0..MaxInspections
  BY DEF WorksAssumption, IInv, Rows, TypeOK, Work, InspectionsFit
<1>2. ASSUME NEW kind \in WorkCommands \ {"progress"},
             NEW cmd, cmd = NewCommand(kind, w, w, 0, 0, FALSE)
      PROVE  cmd \in Command /\ Addressed(cmd)
  <2>1. cmd \in Command /\ cmd.kind = kind
    BY <1>1, <1>2 DEF NewCommand, Command
  <2> QED
    BY <2>1 DEF Addressed, WorkCommands, InspectionCommands
<1>3. ASSUME NEW kind \in InspectionCommands, NEW i \in DOMAIN inspections[w],
             NEW cmd, cmd = NewCommand(kind, w, w, i, 0, FALSE)
      PROVE  cmd \in Command /\ Addressed(cmd)
  <2>1. cmd \in Command /\ cmd.work = w /\ cmd.id = i /\ cmd.kind = kind
    BY <1>1, <1>3 DEF NewCommand, Command
  <2> QED
    BY <2>1 DEF Addressed, InspectionCommands
<1>4. ASSUME NEW q \in 0..Planned, NEW cmd, cmd = NewCommand("progress", w, w, 0, q, FALSE)
      PROVE  cmd \in Command /\ Addressed(cmd)
  <2>1. cmd \in Command /\ cmd.kind = "progress"
    BY <1>1, <1>4 DEF NewCommand, Command, WorkCommands
  <2> QED
    BY <2>1 DEF Addressed, InspectionCommands
<1>5. ASSUME w \in PortionWorks, NEW q \in 0..Planned,
             NEW cmd, cmd = NewCommand("portionFact", w, w, 0, q, FALSE)
      PROVE  cmd \in Command /\ Addressed(cmd)
  <2>1. cmd \in Command /\ cmd.work = w /\ cmd.kind = "portionFact"
    BY <1>1, <1>5 DEF NewCommand, Command
  <2> QED
    BY <1>5, <2>1 DEF Addressed, InspectionCommands
<1>6. ASSUME NEW v \in Works, NEW a \in BOOLEAN,
             NEW cmd, cmd = NewCommand("dependency", w, v, 0, 0, a)
      PROVE  cmd \in Command /\ Addressed(cmd)
  <2>1. cmd \in Command /\ cmd.kind = "dependency"
    BY <1>1, <1>6 DEF NewCommand, Command
  <2> QED
    BY <2>1 DEF Addressed, InspectionCommands
<1> QED
  BY <1>2, <1>3, <1>4, <1>5, <1>6 DEF Ask

LEMMA RequestKeeps ==
  ASSUME WorksAssumption, IInv, NEW t \in Attempts,
         NEW cmd \in Command, Addressed(cmd), Request(t, cmd)
  PROVE  IInv'
<1> DEFINE new == [phase |-> "begun", cmd |-> cmd]
<1>2. /\ attempts' = [attempts EXCEPT ![t] = new] /\ requests' = requests + 1
      /\ UNCHANGED <<works, inspections, dependencies>>
      /\ requests' \in 0..MaxRequests
  BY DEF Request, IInv, Rows, TypeOK, WorksAssumption
<1>3. /\ attempts' \in [Attempts -> Attempt]
      /\ attempts'[t].phase = "begun" /\ attempts'[t].cmd = cmd
      /\ \A u \in Attempts \ {t} : attempts'[u] = attempts[u]
  <2>1. new \in Attempt /\ new.phase = "begun" /\ new.cmd = cmd
    BY DEF Attempt
  <2> HIDE DEF new
  <2> QED
    BY <1>2, <2>1 DEF IInv, Rows, TypeOK
<1>4. Rows' /\ \A c : (Addressed(c) => Addressed(c)') /\ (Verified(c) => Verified(c)')
  BY <1>2, <1>3, RowsStand DEF IInv
<1>5. \A u \in Attempts : ~In(u, {"idle"})' => Addressed(Cmd(u))'
  BY <1>3, <1>4 DEF IInv, In, Cmd
<1>6. \A u \in Attempts : Coordinates(u)' => Coordinates(u) /\ Cmd(u)' = Cmd(u)
  BY <1>3 DEF Coordinates, In, Cmd
<1>7. \A u \in Attempts : Checked(u)' => Checked(u) /\ Cmd(u)' = Cmd(u)
  BY <1>3 DEF Checked, In, Cmd
<1>8. PlansAlone'
  BY <1>6 DEF IInv, PlansAlone, Exclusive
<1>9. RowsApart'
  BY <1>7 DEF IInv, RowsApart, LockedWork, LockedInspection
<1>10. \A u \in Attempts : Checked(u)' => Verified(Cmd(u))'
  BY <1>4, <1>7 DEF IInv
<1> QED
  BY <1>4, <1>5, <1>8, <1>9, <1>10 DEF IInv

LEMMA RefuseKeeps ==
  ASSUME IInv, NEW t \in Attempts, Refuse(t)
  PROVE  IInv'
<1>1. /\ attempts' \in [Attempts -> Attempt]
      /\ attempts'[t].phase = "idle"
      /\ \A u \in Attempts \ {t} : attempts'[u] = attempts[u]
  BY Ended DEF Refuse, IInv, Rows
<1>2. Rows' /\ \A c : (Addressed(c) => Addressed(c)') /\ (Verified(c) => Verified(c)')
  BY <1>1, RowsStand DEF Refuse, IInv, Rows, TypeOK
<1>3. \A u \in Attempts : ~In(u, {"idle"})' => ~In(u, {"idle"}) /\ Cmd(u)' = Cmd(u)
  BY <1>1 DEF In, Cmd
<1>4. \A u \in Attempts : Coordinates(u)' => Coordinates(u) /\ Cmd(u)' = Cmd(u)
  BY <1>1 DEF Coordinates, In, Cmd
<1>5. \A u \in Attempts : Checked(u)' => Checked(u) /\ Cmd(u)' = Cmd(u)
  BY <1>1 DEF Checked, In, Cmd
<1>6. PlansAlone'
  BY <1>4 DEF IInv, PlansAlone, Exclusive
<1>7. RowsApart'
  BY <1>5 DEF IInv, RowsApart, LockedWork, LockedInspection
<1> QED
  BY <1>2, <1>3, <1>5, <1>6, <1>7 DEF IInv

\* Who takes the object's lock finds it in a mode that admits him.
LEMMA CoordinateKeeps ==
  ASSUME IInv, NEW t \in Attempts, Coordinate(t)
  PROVE  IInv'
<1>1. /\ In(t, {"begun"}) /\ ~In(t, {"idle"}) /\ LockModeIsFree(t)
      /\ attempts' \in [Attempts -> Attempt]
      /\ attempts'[t].phase = "coordinated" /\ attempts'[t].cmd = attempts[t].cmd
      /\ \A u \in Attempts \ {t} : attempts'[u] = attempts[u]
  BY MovedOn DEF Coordinate, IInv, Rows, In
<1>2. Rows' /\ \A c : (Addressed(c) => Addressed(c)') /\ (Verified(c) => Verified(c)')
  BY <1>1, RowsStand DEF Coordinate, IInv, Rows, TypeOK
<1>3. \A u \in Attempts : Cmd(u)' = Cmd(u) /\ (~In(u, {"idle"})' => ~In(u, {"idle"}))
  BY <1>1 DEF In, Cmd
<1>4. \A u \in Attempts : Coordinates(u)' => u = t \/ Coordinates(u)
  BY <1>1 DEF Coordinates, In
<1>5. \A u \in Attempts : Checked(u)' => Checked(u)
  BY <1>1 DEF Checked, In
<1>6. PlansAlone'
  <2> SUFFICES ASSUME NEW u \in Attempts, NEW v \in Attempts, u # v,
                      Coordinates(u)', Coordinates(v)'
               PROVE  ~Exclusive(Cmd(u))
    BY <1>3 DEF PlansAlone, Exclusive
  <2> QED
    BY <1>1, <1>4 DEF IInv, PlansAlone, LockModeIsFree
<1>7. RowsApart'
  BY <1>3, <1>5 DEF IInv, RowsApart, LockedWork, LockedInspection
<1> QED
  BY <1>2, <1>3, <1>5, <1>6, <1>7 DEF IInv

\* What a command checks under its locks is what it relies on.
LEMMA LockAndCheckKeeps ==
  ASSUME IInv, NEW t \in Attempts, LockAndCheck(t)
  PROVE  IInv'
<1>1. /\ In(t, {"coordinated"}) /\ ~In(t, {"idle"}) /\ Coordinates(t)
      /\ RowsAreFree(t) /\ Allowed(Cmd(t))
      /\ attempts' \in [Attempts -> Attempt]
      /\ attempts'[t].phase = "checked" /\ attempts'[t].cmd = attempts[t].cmd
      /\ \A u \in Attempts \ {t} : attempts'[u] = attempts[u]
  BY MovedOn DEF LockAndCheck, IInv, Rows, In, Coordinates
<1>2. Rows' /\ \A c : (Addressed(c) => Addressed(c)') /\ (Verified(c) => Verified(c)')
  BY <1>1, RowsStand DEF LockAndCheck, IInv, Rows, TypeOK
<1>3. \A u \in Attempts : Cmd(u)' = Cmd(u) /\ (~In(u, {"idle"})' => ~In(u, {"idle"}))
  BY <1>1 DEF In, Cmd
<1>4. \A u \in Attempts : Coordinates(u)' => Coordinates(u)
  BY <1>1 DEF Coordinates, In
<1>5. \A u \in Attempts : Checked(u)' => u = t \/ Checked(u)
  BY <1>1 DEF Checked, In
<1>6. PlansAlone'
  BY <1>3, <1>4 DEF IInv, PlansAlone, Exclusive
<1>7. RowsApart'
  <2> SUFFICES ASSUME NEW u \in Attempts, NEW v \in Attempts, u # v, Checked(u)', Checked(v)'
               PROVE  /\ LockedWork(Cmd(u)) \cap LockedWork(Cmd(v)) = {}
                      /\ LockedInspection(Cmd(u)) \cap LockedInspection(Cmd(v)) = {}
    BY <1>3 DEF RowsApart, LockedWork, LockedInspection
  <2>1. CASE u # t /\ v # t
    BY <1>5, <2>1 DEF IInv, RowsApart
  <2>2. CASE u = t
    BY <1>1, <1>5, <2>2 DEF RowsAreFree, Checked
  <2>3. CASE v = t
    BY <1>1, <1>5, <2>3 DEF RowsAreFree, Checked
  <2> QED
    BY <2>1, <2>2, <2>3
<1>8. Verified(Cmd(t))
  <2>1. PICK c : c = Cmd(t)
    OBVIOUS
  <2> SUFFICES Verified(c)
    BY <2>1
  <2>2. Allowed(c) /\ c \in Command /\ Addressed(c)
    BY <1>1, <2>1, AttemptShape DEF IInv, Rows, In, Cmd
  <2>3. CanStartWork(c.work) => AcceptancesStand(c.work)
    BY DEF CanStartWork, AcceptancesStand, Admits
  <2>4. CASE c.kind \in {"complete", "start"}
    BY <2>2, <2>3, <2>4 DEF Allowed, Verified
  <2>5. CASE c.kind = "progress"
    BY <2>2, <2>3, <2>5 DEF Allowed, Verified, Frozen
  <2>6. CASE c.kind \in {"portionFact", "request"}
    BY <2>2, <2>3, <2>6 DEF Allowed, Verified
  <2>7. CASE c.kind = "dependency"
    BY <2>2, <2>7 DEF Allowed, Verified
  <2>8. CASE c.kind \in {"issue", "reject", "accept"}
    BY <2>2, <2>8 DEF Allowed, Verified
  <2>9. CASE c.kind \in {"resolve", "verify"}
    BY <2>2, <2>9 DEF Allowed, Verified, Unclosed
  <2>10. c.kind \in WorkCommands \cup InspectionCommands \cup {"portionFact", "dependency"}
    BY <2>2 DEF Command
  <2> QED
    BY <2>4, <2>5, <2>6, <2>7, <2>8, <2>9, <2>10 DEF WorkCommands, InspectionCommands
<1> QED
  BY <1>2, <1>3, <1>5, <1>6, <1>7, <1>8 DEF IInv

-----------------------------------------------------------------------------
(* The invariant of the works and what it implies *)

LEMMA Initially == WorksAssumption /\ Init => IInv
<1> SUFFICES ASSUME WorksAssumption, Init PROVE IInv
  OBVIOUS
<1>1. \A w \in Works : inspections[w] = <<>> /\ DOMAIN inspections[w] = {}
  BY DEF Init
<1>2. ASSUME NEW t \in Attempts PROVE In(t, {"idle"}) /\ ~Checked(t) /\ ~Coordinates(t)
  BY DEF Init, In, Checked, Coordinates, Idle
<1>3. TypeOK
  BY <1>1, EmptySeq DEF Init, TypeOK, Work, Attempt, WorksAssumption
<1>4. DependenciesAreAcyclic
  BY DEF Init, DependenciesAreAcyclic, Follows, HoldsSuccessors
<1> QED
  BY <1>1, <1>2, <1>3, <1>4
  DEF IInv, Rows, AcceptedIsClosed, PortionsAreElsewhere, InspectionsFit, PlansAlone, RowsApart

\* The commands that write and commit, one by one.
LEMMA Committed ==
  ASSUME WorksAssumption, IInv, NEW t \in Attempts,
         \/ CompletePlanning(t) \/ Start(t) \/ Progress(t) \/ PortionFact(t)
         \/ RequestInspection(t)
         \/ IssueStep(t, "issue", "OPEN") \/ IssueStep(t, "resolve", "RESOLVED")
         \/ IssueStep(t, "verify", "CLOSED")
         \/ Decide(t, "accept", "ACCEPTED") \/ Decide(t, "reject", "REJECTED")
         \/ AddDependency(t)
  PROVE  Commits(t)
BY CompletePlanningCommits, StartCommits, ProgressCommits, PortionFactCommits,
   RequestInspectionCommits, IssueStepCommits, DecideCommits, AddDependencyCommits

LEMMA Step == WorksAssumption /\ IInv /\ [Next]_vars => IInv'
<1> SUFFICES ASSUME WorksAssumption, IInv, [Next]_vars PROVE IInv'
  OBVIOUS
<1>1. ASSUME NEW t \in Attempts, NEW w \in Works, Ask(t, w) PROVE IInv'
  BY <1>1, AskedCommand, RequestKeeps
<1>2. ASSUME NEW t \in Attempts, Coordinate(t) PROVE IInv'
  BY <1>2, CoordinateKeeps
<1>3. ASSUME NEW t \in Attempts, LockAndCheck(t) PROVE IInv'
  BY <1>3, LockAndCheckKeeps
<1>4. ASSUME NEW t \in Attempts, Refuse(t) PROVE IInv'
  BY <1>4, RefuseKeeps
<1>5. ASSUME NEW t \in Attempts,
             \/ CompletePlanning(t) \/ Start(t) \/ Progress(t) \/ PortionFact(t)
             \/ RequestInspection(t)
             \/ IssueStep(t, "issue", "OPEN") \/ IssueStep(t, "resolve", "RESOLVED")
             \/ IssueStep(t, "verify", "CLOSED")
             \/ Decide(t, "accept", "ACCEPTED") \/ Decide(t, "reject", "REJECTED")
             \/ AddDependency(t)
      PROVE  IInv'
  BY <1>5, Committed, CommitKeeps
<1>6. CASE UNCHANGED vars
  <2>1. Rows' /\ \A c : (Addressed(c) => Addressed(c)') /\ (Verified(c) => Verified(c)')
    BY <1>6, RowsStand DEF vars, IInv, Rows, TypeOK
  <2>2. \A t \in Attempts : ~In(t, {"idle"})' => Addressed(Cmd(t))'
    BY <1>6, <2>1 DEF vars, IInv, In, Cmd
  <2>3. PlansAlone' /\ RowsApart'
    BY <1>6 DEF vars, IInv, PlansAlone, RowsApart, Coordinates, Checked, In, Cmd, Exclusive,
                LockedWork, LockedInspection
  <2>4. \A t \in Attempts : Checked(t)' => Verified(Cmd(t))'
    BY <1>6, <2>1 DEF vars, IInv, Checked, In, Cmd
  <2> QED
    BY <2>1, <2>2, <2>3, <2>4 DEF IInv
<1> QED
  BY <1>1, <1>2, <1>3, <1>4, <1>5, <1>6 DEF Next

\* What every step keeps: the modes of the object's lock and the row locks leave
\* a checked command what it stands on until it commits, for the row it locked,
\* the predecessors it only read and the dependencies (service.ts:97-116;
\* coordination-lock.ts; security.ts scoped).
THEOREM Invariance == ASSUME WorksAssumption PROVE Spec => []IInv
<1>1. Init => IInv
  BY WorksAssumption, Initially
<1>2. IInv /\ [Next]_vars => IInv'
  BY WorksAssumption, Step
<1> QED
  BY <1>1, <1>2, PTL DEF Spec

\* Dependencies inserted by any number of concurrent transactions never close a
\* cycle, a started work gets no new predecessor, and whatever is begun or
\* reported on a work finds the acceptances it requires at the moment it is
\* written (service.ts:97-116; dependency-guard.ts).
THEOREM PrecedenceIsKept == ASSUME WorksAssumption PROVE Spec => PrecedenceHolds
<1> DEFINE Kept == NoDependencyAfterStart /\ AcceptedPredecessorsStayAccepted
<1>1. IInv => TypeOK /\ DependenciesAreAcyclic
  BY DEF IInv, Rows
<1>2. IInv /\ [Next]_vars => [Kept]_vars
  <2> SUFFICES ASSUME IInv, Next PROVE Kept
    OBVIOUS
  <2>0. \A d \in dependencies : d.succ \in Works
    BY DEF IInv, Rows, TypeOK, Dependency
  <2>1. ASSUME NEW t \in Attempts,
               \/ \E w \in Works : Ask(t, w)
               \/ Coordinate(t) \/ LockAndCheck(t) \/ Refuse(t)
        PROVE  Kept
    BY <2>1 DEF Ask, Request, Coordinate, LockAndCheck, Refuse, NoDependencyAfterStart,
                AcceptedPredecessorsStayAccepted, Moves
  <2>2. ASSUME NEW t \in Attempts,
               \/ CompletePlanning(t) \/ RequestInspection(t)
               \/ IssueStep(t, "issue", "OPEN") \/ IssueStep(t, "resolve", "RESOLVED")
               \/ IssueStep(t, "verify", "CLOSED")
               \/ Decide(t, "accept", "ACCEPTED") \/ Decide(t, "reject", "REJECTED")
        PROVE  Kept
    <3>1. \A w \in Works : ~Moves(w)
      BY <2>2, WorksAssumption, CompletePlanningCommits, RequestInspectionCommits,
         IssueStepCommits, DecideCommits
    <3>2. dependencies' = dependencies
      BY <2>2 DEF CompletePlanning, RequestInspection, IssueStep, Decide
    <3> QED
      BY <2>0, <3>1, <3>2 DEF NoDependencyAfterStart, AcceptedPredecessorsStayAccepted
  <2>3. ASSUME NEW t \in Attempts, Start(t) \/ Progress(t) \/ PortionFact(t)
        PROVE  Kept
    <3>1. \A w \in Works \ {Cmd(t).work} : ~Moves(w)
      BY <2>3, StartCommits, ProgressCommits, PortionFactCommits
    <3>2. AcceptancesStand(Cmd(t).work)
      BY <2>3, CommitsKind DEF Start, Progress, PortionFact, Verified
    <3>3. dependencies' = dependencies
      BY <2>3 DEF Start, Progress, PortionFact
    <3> QED
      BY <2>0, <3>1, <3>2, <3>3
      DEF NoDependencyAfterStart, AcceptedPredecessorsStayAccepted, AcceptancesStand
  <2>4. ASSUME NEW t \in Attempts, AddDependency(t)
        PROVE  Kept
    <3>1. \A w \in Works : ~Moves(w)
      BY <2>4, AddDependencyCommits
    <3>2. NotStarted(Cmd(t).work)
      BY <2>4, CommitsKind DEF AddDependency, Verified
    <3>3. \A d \in dependencies' \ dependencies : d.succ = Cmd(t).work
      BY <2>4 DEF AddDependency
    <3> QED
      BY <2>0, <3>1, <3>2, <3>3 DEF NoDependencyAfterStart, AcceptedPredecessorsStayAccepted
  <2> QED
    BY <2>1, <2>2, <2>3, <2>4 DEF Next
<1>3. Spec => []IInv
  BY WorksAssumption, Invariance
<1> QED
  BY <1>1, <1>2, <1>3, PTL DEF Spec, PrecedenceHolds

-----------------------------------------------------------------------------
(* The inductive invariant of the schedule *)

Holds(t) == GPR!In(t, {"checked"})
Shares(t) == GPR!In(t, {"coordinated", "checked"})

\* An approval is alone on the object, and the object's row keeps checked
\* commands apart, but for the creation of units.
DraftersApart ==
  \A t, u \in Attempts : t # u =>
    /\ Shares(t) /\ Shares(u) => ~GPR!Exclusive(GPR!Cmd(t))
    /\ Holds(t) /\ Holds(u) => ~GPR!LocksObject(GPR!Cmd(t)) \/ ~GPR!LocksObject(GPR!Cmd(u))

\* What a command names exists, the revisions from the start.
Named(cmd) ==
  /\ cmd.kind \in {"edit", "remove", "discard", "approve"} => cmd.id \in GPR!Numbers
  /\ cmd.kind = "resolve" => cmd.id \in DOMAIN reasons
  /\ cmd.kind = "unit" => cmd.scope \in Units
  /\ cmd.kind = "add" => cmd.scope \in GPR!Scopes

\* What is planned once the entry is added stays consistent, although the work
\* may have got units since the check.
Fits(cmd) ==
  LET planned == GPR!ScopesOf(GPR!Draft)
  IN  /\ GPR!HasDraft
      /\ cmd.scope \notin planned
      /\ cmd.pred \in planned \cup {NoScope}
      /\ cmd.scope \in Units => cmd.scope \in units /\ WorkOf[cmd.scope] \notin planned
      /\ \A u \in planned \cap Units : WorkOf[u] # cmd.scope

\* What still holds, when a command commits, of what was checked.
StillHolds(cmd) ==
  /\ cmd.kind = "add" => Fits(cmd)
  /\ cmd.kind \notin {"add", "unit"} => GPR!Allowed(cmd)

\* The version an approval sends back is not later than the draft's; while they
\* are the same, the page shows the entries of the draft.
Informed(t) ==
  LET cmd == GPR!Cmd(t)
  IN  /\ cmd.version <= revisions[cmd.id].version
      /\ ~GPR!In(t, {"reading"}) /\ cmd.version = revisions[cmd.id].version =>
           cmd.seen = revisions[cmd.id].entries

\* Consistent entries; the units planned exist.
Coherent(entries) ==
  LET planned == GPR!PlannedScopes(entries)
  IN  /\ \A u \in planned \cap Units : u \in units /\ WorkOf[u] \notin planned
      /\ \A s \in planned : entries[s].pred \in planned \cup {NoScope}
      /\ ~GPR!Cyclic(entries)

Drafted ==
  /\ revisions \in Seq(GPR!Revision)
  /\ Len(revisions) <= MaxRevisions
  /\ units \subseteq Units
  /\ reasons \in Seq(GPR!Reason)
  /\ \A n \in GPR!Numbers : Coherent(revisions[n].entries)
  /\ GPR!DraftCorrectsTheBaseline
  /\ GPR!ReasonsExplainABaseline

DraftingInv ==
  /\ Drafted
  /\ clerks \in [Attempts -> GPR!Attempt]
  /\ sent \in 0..MaxDrafting
  /\ DraftersApart
  /\ \A t \in Attempts : ~GPR!In(t, {"idle"}) =>
       /\ Named(GPR!Cmd(t))
       /\ GPR!Cmd(t).kind = "approve" => Informed(t)
       /\ GPR!In(t, {"reading"}) => GPR!Cmd(t).kind = "approve"
  /\ \A t \in Attempts : Holds(t) => StillHolds(GPR!Cmd(t))

-----------------------------------------------------------------------------
(* Entries *)

\* A scope that is not planned has no plan.
LEMMA AbsentIsNoEntry == GPR!Absent \notin GPR!Entry
BY DEF GPR!Absent, GPR!Entry

LEMMA PlannedScope ==
  ASSUME NEW entries \in GPR!Entries, NEW s \in GPR!PlannedScopes(entries)
  PROVE  s \in GPR!Scopes /\ entries[s] \in GPR!Entry /\ entries[s].pred \in GPR!Scopes
         \cup {NoScope}
BY DEF GPR!Entries, GPR!PlannedScopes, GPR!Entry

\* Adding or editing an entry plans its scope and leaves the others alone.
LEMMA PutPlans ==
  ASSUME NEW entries \in GPR!Entries, NEW cmd \in GPR!Command, cmd.scope \in GPR!Scopes,
         NEW version \in Nat \ {0}
  PROVE  LET put == GPR!Put(entries, cmd, version)
         IN  /\ put \in GPR!Entries
             /\ GPR!PlannedScopes(put) = GPR!PlannedScopes(entries) \cup {cmd.scope}
             /\ put[cmd.scope].pred = cmd.pred
             /\ \A s \in GPR!Scopes \ {cmd.scope} : put[s] = entries[s]
<1>1. PICK entry : entry = [plan |-> cmd.plan, pred |-> cmd.pred, version |-> version]
  OBVIOUS
<1>2. entry \in GPR!Entry /\ entry # GPR!Absent /\ entry.pred = cmd.pred
  BY <1>1, AbsentIsNoEntry DEF GPR!Command, GPR!Entry
<1>3. GPR!Put(entries, cmd, version) = [entries EXCEPT ![cmd.scope] = entry]
  BY <1>1 DEF GPR!Put
<1> QED BY <1>2, <1>3 DEF GPR!Entries, GPR!PlannedScopes

\* Fewer entries with the same predecessors close no new chain.
LEMMA ChainsAreKept ==
  ASSUME NEW old, NEW entries, GPR!PlannedScopes(entries) \subseteq GPR!PlannedScopes(old),
         ~GPR!Cyclic(old),
         \A s \in GPR!PlannedScopes(entries) : entries[s].pred = old[s].pred
  PROVE  ~GPR!Cyclic(entries)
<1> SUFFICES ASSUME NEW S \in (SUBSET GPR!PlannedScopes(entries)) \ {{}},
                    \A s \in S : entries[s].pred \in S
             PROVE  FALSE
  BY DEF GPR!Cyclic
<1>1. S \in (SUBSET GPR!PlannedScopes(old)) \ {{}} /\ \A s \in S : old[s].pred \in S
  OBVIOUS
<1> QED BY <1>1 DEF GPR!Cyclic

\* A new entry that follows one of the revision closes no chain: none follows it.
LEMMA AddedAtTheEnd ==
  ASSUME GPR!ScheduleAssumption, NEW entries \in GPR!Entries, NEW cmd \in GPR!Command,
         Coherent(entries),
         cmd.scope \in GPR!Scopes, cmd.scope \notin GPR!PlannedScopes(entries),
         cmd.pred \in GPR!PlannedScopes(entries) \cup {NoScope},
         cmd.scope \in Units => cmd.scope \in units
         /\ WorkOf[cmd.scope] \notin GPR!PlannedScopes(entries),
         \A u \in GPR!PlannedScopes(entries) \cap Units : WorkOf[u] # cmd.scope
  PROVE  Coherent(GPR!Put(entries, cmd, 1))
<1>1. PICK put : put = GPR!Put(entries, cmd, 1)
  OBVIOUS
<1> DEFINE was == GPR!PlannedScopes(entries)
           planned == was \cup {cmd.scope}
<1>2. /\ GPR!PlannedScopes(put) = planned /\ put[cmd.scope].pred = cmd.pred
      /\ \A s \in GPR!Scopes \ {cmd.scope} : put[s] = entries[s]
  BY <1>1, PutPlans
<1>3. \A s \in was : s \in GPR!Scopes /\ s # cmd.scope /\ put[s].pred = entries[s].pred
  BY <1>2, PlannedScope
<1>4. /\ \A u \in was \cap Units : u \in units /\ WorkOf[u] \notin was
      /\ \A s \in was : entries[s].pred \in was \cup {NoScope}
      /\ ~GPR!Cyclic(entries)
  BY DEF Coherent
<1>5. ASSUME NEW u \in planned \cap Units PROVE u \in units /\ WorkOf[u] \notin planned
  <2>1. WorkOf[u] \in Scheduled /\ WorkOf[u] \notin Units
    BY DEF GPR!ScheduleAssumption
  <2> QED BY <1>4, <2>1
<1>6. \A s \in planned : put[s].pred \in planned \cup {NoScope}
  BY <1>2, <1>3, <1>4
<1>7. ASSUME NEW S \in (SUBSET planned) \ {{}}, \A s \in S : put[s].pred \in S PROVE FALSE
  <2>1. \A s \in S \ {cmd.scope} : entries[s].pred \in S \ {cmd.scope}
    BY <1>3, <1>4, <1>7 DEF GPR!ScheduleAssumption
  <2>2. ASSUME cmd.scope \in S PROVE S \ {cmd.scope} # {}
    BY <1>2, <1>3, <1>7, <2>2 DEF GPR!ScheduleAssumption
  <2> QED BY <1>4, <1>7, <2>1, <2>2 DEF GPR!Cyclic
<1> HIDE DEF planned
<1>8. ~GPR!Cyclic(put)
  BY <1>2, <1>7 DEF GPR!Cyclic
<1> QED BY <1>1, <1>2, <1>5, <1>6, <1>8 DEF Coherent

\* An edited entry stays consistent, as its chains were walked with the new predecessor.
LEMMA EditedInPlace ==
  ASSUME NEW entries \in GPR!Entries, NEW cmd \in GPR!Command, Coherent(entries),
         cmd.scope \in GPR!PlannedScopes(entries),
         cmd.pred \in GPR!PlannedScopes(entries) \cup {NoScope},
         ~GPR!Cyclic(GPR!Put(entries, cmd, cmd.version)), cmd.version \in Nat \ {0}
  PROVE  /\ GPR!Put(entries, cmd, cmd.version + 1) \in GPR!Entries
         /\ Coherent(GPR!Put(entries, cmd, cmd.version + 1))
<1>1. PICK now, next \in Nat \ {0} : now = cmd.version /\ next = cmd.version + 1
  OBVIOUS
<1>2. PICK put, tried : put = GPR!Put(entries, cmd, next) /\ tried = GPR!Put(entries, cmd, now)
  OBVIOUS
<1>3. /\ cmd.scope \in GPR!Scopes
      /\ GPR!PlannedScopes(entries) \cup {cmd.scope} = GPR!PlannedScopes(entries)
      /\ put \in GPR!Entries
      /\ GPR!PlannedScopes(put) = GPR!PlannedScopes(entries)
      /\ put[cmd.scope].pred = cmd.pred
      /\ \A s \in GPR!Scopes \ {cmd.scope} : put[s] = entries[s]
  <2>1. /\ cmd.scope \in GPR!Scopes
        /\ GPR!PlannedScopes(entries) \cup {cmd.scope} = GPR!PlannedScopes(entries)
    BY PlannedScope
  <2>2. put \in GPR!Entries
    BY <1>2, <2>1, PutPlans
  <2>3. /\ GPR!PlannedScopes(put) = GPR!PlannedScopes(entries) \cup {cmd.scope}
        /\ put[cmd.scope].pred = cmd.pred
    BY <1>2, <2>1, PutPlans
  <2>4. \A s \in GPR!Scopes \ {cmd.scope} : put[s] = entries[s]
    BY <1>2, <2>1, PutPlans
  <2> QED BY <2>1, <2>2, <2>3, <2>4
<1>7. /\ GPR!PlannedScopes(tried) = GPR!PlannedScopes(entries) /\ tried[cmd.scope].pred = cmd.pred
      /\ \A s \in GPR!Scopes \ {cmd.scope} : tried[s] = entries[s]
  BY <1>2, <1>3, PutPlans
<1>4. \A s \in GPR!PlannedScopes(put) : s \in GPR!Scopes /\ put[s].pred = tried[s].pred
  BY <1>3, <1>7, PlannedScope
<1>5. ~GPR!Cyclic(put)
  BY <1>1, <1>2, <1>3, <1>7, <1>4, ChainsAreKept
<1>6. \A s \in GPR!PlannedScopes(entries) :
        put[s].pred \in GPR!PlannedScopes(entries) \cup {NoScope}
  BY <1>3, PlannedScope DEF Coherent
<1>8. Coherent(put)
  BY <1>3, <1>5, <1>6 DEF Coherent
<1> QED BY <1>1, <1>2, <1>3, <1>8

\* Removing an entry that none follows leaves no chain open.
LEMMA RemovedFromTheEnd ==
  ASSUME NEW entries \in GPR!Entries, NEW s \in GPR!PlannedScopes(entries), Coherent(entries),
         \A r \in GPR!PlannedScopes(entries) : entries[r].pred # s
  PROVE  /\ [entries EXCEPT ![s] = GPR!Absent] \in GPR!Entries
         /\ Coherent([entries EXCEPT ![s] = GPR!Absent])
<1>1. PICK left : left = [entries EXCEPT ![s] = GPR!Absent]
  OBVIOUS
<1>2. /\ left \in GPR!Entries /\ GPR!PlannedScopes(left) = GPR!PlannedScopes(entries) \ {s}
      /\ \A r \in GPR!PlannedScopes(left) : left[r] = entries[r]
  BY <1>1 DEF GPR!Entries, GPR!PlannedScopes
<1>3. ~GPR!Cyclic(left)
  BY <1>2, ChainsAreKept DEF Coherent
<1>4. Coherent(left)
  BY <1>2, <1>3 DEF Coherent
<1> QED BY <1>1, <1>2, <1>4

\* A clone plans what its baseline plans, with versions of its own.
LEMMA ClonedEntries ==
  ASSUME NEW entries \in GPR!Entries, Coherent(entries)
  PROVE  GPR!Cloned(entries) \in GPR!Entries /\ Coherent(GPR!Cloned(entries))
<1>1. PICK copy : copy = GPR!Cloned(entries)
  OBVIOUS
<1>2. ASSUME NEW s \in GPR!Scopes
      PROVE  /\ s \in GPR!PlannedScopes(entries) => copy[s] \in GPR!Entry
                /\ copy[s].pred = entries[s].pred
             /\ s \notin GPR!PlannedScopes(entries) => copy[s] = GPR!Absent
  <2>1. copy[s] = IF entries[s] = GPR!Absent THEN GPR!Absent ELSE [entries[s] EXCEPT !.version = 1]
    BY <1>1 DEF GPR!Cloned
  <2>2. CASE s \in GPR!PlannedScopes(entries)
    <3>1. PICK entry \in GPR!Entry : entry = entries[s] /\ entry # GPR!Absent
      BY <2>2, PlannedScope, AbsentIsNoEntry
    <3>2. [entry EXCEPT !.version = 1] \in GPR!Entry
          /\ [entry EXCEPT !.version = 1].pred = entry.pred
      BY DEF GPR!Entry
    <3> QED BY <2>1, <2>2, <3>1, <3>2
  <2> QED BY <2>1, <2>2 DEF GPR!PlannedScopes
<1>3. copy = [s \in GPR!Scopes |-> copy[s]]
  BY <1>1 DEF GPR!Cloned
<1>4. GPR!PlannedScopes(copy) = GPR!PlannedScopes(entries) /\ copy \in GPR!Entries
  BY <1>2, <1>3, AbsentIsNoEntry DEF GPR!PlannedScopes, GPR!Entries
<1>5. \A s \in GPR!PlannedScopes(entries) : copy[s].pred = entries[s].pred
  BY <1>2, PlannedScope
<1>6. ~GPR!Cyclic(copy)
  BY <1>4, <1>5, ChainsAreKept DEF Coherent
<1> QED BY <1>1, <1>4, <1>5, <1>6 DEF Coherent

LEMMA NothingIsCoherent == GPR!NoEntries \in GPR!Entries /\ Coherent(GPR!NoEntries)
<1>1. GPR!PlannedScopes(GPR!NoEntries) = {} /\ GPR!NoEntries \in GPR!Entries
  BY DEF GPR!NoEntries, GPR!PlannedScopes, GPR!Entries
<1> QED BY <1>1 DEF Coherent, GPR!Cyclic

-----------------------------------------------------------------------------
(* Revisions *)

LEMMA TheOnly ==
  ASSUME NEW S, \A m, n \in S : m = n, S # {}
  PROVE  S = {CHOOSE n \in S : TRUE}
<1>1. PICK m : m \in S
  OBVIOUS
<1> QED BY <1>1

LEMMA RevisionRow ==
  ASSUME Drafted, NEW n \in GPR!Numbers
  PROVE  /\ n \in 1..Len(revisions)
         /\ revisions[n] \in GPR!Revision
         /\ revisions[n].status \in GPR!Statuses
         /\ revisions[n].version \in Nat
         /\ revisions[n].based \in 0..MaxRevisions
         /\ revisions[n].entries \in GPR!Entries
         /\ Coherent(revisions[n].entries)
<1>1. n \in 1..Len(revisions) /\ Len(revisions) \in Nat
  BY DEF Drafted, GPR!Numbers
<1>2. revisions[n] \in GPR!Revision
  BY <1>1 DEF Drafted
<1> QED BY <1>1, <1>2 DEF GPR!Revision, Drafted

\* There is one baseline at most, and Current is its number.
LEMMA TheBaseline ==
  ASSUME Drafted
  PROVE  /\ GPR!Current = 0 => GPR!With("APPROVED") = {}
         /\ GPR!Current # 0 => /\ GPR!Current \in GPR!Numbers
                           /\ GPR!Is(GPR!Current, "APPROVED")
                           /\ GPR!With("APPROVED") = {GPR!Current}
         /\ GPR!Current \in {0} \cup GPR!Numbers
<1>1. \A m, n \in GPR!With("APPROVED") : m = n
  BY DEF Drafted, GPR!DraftCorrectsTheBaseline
<1>2. ASSUME GPR!With("APPROVED") # {} PROVE GPR!With("APPROVED") = {GPR!Current}
  BY <1>1, <1>2, TheOnly DEF GPR!Current
<1>3. GPR!With("APPROVED") \subseteq GPR!Numbers /\ 0 \notin GPR!Numbers
  BY RevisionRow DEF GPR!With
<1> QED BY <1>2, <1>3 DEF GPR!Current, GPR!With

\* There is one draft at most, it is called Draft and corrects the baseline.
LEMMA TheDraft ==
  ASSUME Drafted, GPR!HasDraft
  PROVE  /\ GPR!Draft \in GPR!Numbers /\ GPR!Is(GPR!Draft, "DRAFT")
            /\ GPR!With("DRAFT") = {GPR!Draft}
         /\ revisions[GPR!Draft].based = GPR!Current
<1>1. GPR!With("DRAFT") = {GPR!Draft}
  BY TheOnly DEF Drafted, GPR!DraftCorrectsTheBaseline, GPR!HasDraft, GPR!Draft
<1> QED BY <1>1 DEF GPR!With, Drafted, GPR!DraftCorrectsTheBaseline

LEMMA CurrentEntries ==
  ASSUME Drafted
  PROVE  GPR!EntriesOf(GPR!Current) \in GPR!Entries /\ Coherent(GPR!EntriesOf(GPR!Current))
BY TheBaseline, RevisionRow, NothingIsCoherent DEF GPR!EntriesOf

\* Where the next baseline comes from.
LEMMA NextBaseline ==
  ASSUME NEW n
  PROVE  /\ GPR!With("APPROVED")' = {n} => GPR!Current' = n
         /\ GPR!With("APPROVED")' = {} => GPR!Current' = 0
         /\ GPR!With("APPROVED")' = GPR!With("APPROVED") => GPR!Current' = GPR!Current
<1>1. GPR!With("APPROVED")' = {n} => GPR!Current' = n
  BY DEF GPR!Current
<1>2. GPR!With("APPROVED")' = {} => GPR!Current' = 0
  BY DEF GPR!Current
<1> DEFINE The(S) == IF S = {} THEN 0 ELSE CHOOSE m \in S : TRUE
<1>3. GPR!Current = The(GPR!With("APPROVED")) /\ GPR!Current' = The(GPR!With("APPROVED")')
  BY DEF GPR!Current
<1> HIDE DEF The
<1>4. GPR!With("APPROVED")' = GPR!With("APPROVED") => GPR!Current' = GPR!Current
  BY <1>3
<1> QED BY <1>1, <1>2, <1>4

\* What a change of a revision writes.
LEMMA MovedRow ==
  ASSUME Drafted, NEW n \in GPR!Numbers, NEW status \in GPR!Statuses, NEW entries \in GPR!Entries
  PROVE  LET moved == GPR!Moved(n, status, entries)
         IN  /\ moved \in GPR!Revision
             /\ moved.status = status
             /\ moved.based = revisions[n].based
             /\ moved.entries = entries
             /\ moved.version = revisions[n].version + 1
<1>1. PICK row \in GPR!Revision : row = revisions[n]
  BY RevisionRow
<1>2. PICK moved : moved = [row EXCEPT !.status = status, !.entries = entries,
                                       !.version = row.version + 1]
  OBVIOUS
<1>3. row.version + 1 \in Nat
  BY DEF GPR!Revision
<1>4. /\ moved \in GPR!Revision /\ moved.status = status /\ moved.based = row.based
      /\ moved.entries = entries /\ moved.version = row.version + 1
  BY <1>2, <1>3 DEF GPR!Revision
<1> QED BY <1>1, <1>2, <1>4 DEF GPR!Moved

\* What a step may do to the revisions, for the sake of who looks at them.
Evolves ==
  /\ GPR!Numbers \subseteq GPR!Numbers'
  /\ \A n \in GPR!Numbers : \/ revisions'[n] = revisions[n]
                        \/ revisions'[n].version = revisions[n].version + 1
  /\ DOMAIN reasons \subseteq DOMAIN reasons'
  /\ units \subseteq units'

\* Changed entries of a draft move its version, so nobody mistakes them for those he read.
LEMMA DraftRewritten ==
  ASSUME GPR!ScheduleAssumption, Drafted, NEW n \in GPR!Numbers, GPR!Is(n, "DRAFT"),
         NEW entries \in GPR!Entries,
         Coherent(entries), revisions' = [revisions EXCEPT ![n] = GPR!Moved(n, "DRAFT", entries)],
         UNCHANGED <<units, reasons>>
  PROVE  Drafted' /\ Evolves
<1>1. PICK moved : moved = GPR!Moved(n, "DRAFT", entries)
  OBVIOUS
<1>2. /\ moved \in GPR!Revision /\ moved.status = "DRAFT" /\ moved.based = revisions[n].based
      /\ moved.entries = entries /\ moved.version = revisions[n].version + 1
  BY <1>1, MovedRow DEF GPR!Statuses
<1>3. /\ revisions' \in Seq(GPR!Revision) /\ Len(revisions') = Len(revisions)
         /\ GPR!Numbers' = GPR!Numbers
      /\ revisions'[n] = moved /\ \A m \in GPR!Numbers \ {n} : revisions'[m] = revisions[m]
  BY <1>1, <1>2, ExceptSeq DEF Drafted, GPR!Numbers
<1>4. \A m \in GPR!Numbers : revisions'[m].status = revisions[m].status
                         /\ revisions'[m].based = revisions[m].based
  BY <1>2, <1>3 DEF GPR!Is
<1>5. \A status \in GPR!Statuses : GPR!With(status)' = GPR!With(status)
  BY <1>3, <1>4 DEF GPR!With, GPR!Is
<1>6. GPR!Current' = GPR!Current
  BY <1>5, NextBaseline DEF GPR!Statuses
<1>7. GPR!DraftCorrectsTheBaseline'
  BY <1>4, <1>5, <1>6 DEF GPR!DraftCorrectsTheBaseline, Drafted, GPR!Statuses, GPR!With
<1>8. ASSUME NEW m \in GPR!Numbers PROVE Coherent(revisions[m].entries)'
  <2>1. Coherent(revisions'[m].entries)
    BY <1>2, <1>3, RevisionRow
  <2> QED BY <2>1 DEF Coherent
<1>9. GPR!ReasonsExplainABaseline'
  <2> SUFFICES ASSUME NEW r \in DOMAIN reasons
               PROVE  /\ reasons[r].revision \in GPR!With("APPROVED")' \cup GPR!With("SUPERSEDED")'
                      /\ reasons[r].scope \in GPR!ScopesOf(reasons[r].revision)'
    BY DEF GPR!ReasonsExplainABaseline
  <2>1. /\ reasons[r].revision \in GPR!With("APPROVED") \cup GPR!With("SUPERSEDED")
        /\ reasons[r].scope \in GPR!ScopesOf(reasons[r].revision)
    BY DEF Drafted, GPR!ReasonsExplainABaseline
  <2>2. reasons[r].revision \in GPR!Numbers \ {n}
    BY <2>1 DEF GPR!With, GPR!Is
  <2> QED BY <1>3, <1>5, <2>1, <2>2 DEF GPR!Statuses, GPR!ScopesOf
<1>10. Evolves
  BY <1>2, <1>3 DEF Evolves
<1> QED BY <1>3, <1>7, <1>8, <1>9, <1>10 DEF Drafted

\* A discarded draft is in nobody's way.
LEMMA DraftDiscarded ==
  ASSUME GPR!ScheduleAssumption, Drafted, GPR!HasDraft,
         revisions' = [revisions EXCEPT ![GPR!Draft] = GPR!Marked(GPR!Draft, "DISCARDED")],
         UNCHANGED <<units, reasons>>
  PROVE  Drafted' /\ Evolves
<1>1. PICK n, moved :
        /\ n \in GPR!Numbers /\ n = GPR!Draft /\ GPR!Is(n, "DRAFT") /\ GPR!With("DRAFT") = {n}
        /\ moved = GPR!Moved(n, "DISCARDED", revisions[n].entries)
  BY TheDraft
<1>2. /\ moved \in GPR!Revision /\ moved.status = "DISCARDED"
      /\ moved.entries = revisions[n].entries /\ moved.version = revisions[n].version + 1
  BY <1>1, RevisionRow, MovedRow DEF GPR!Statuses
<1>3. /\ revisions' \in Seq(GPR!Revision) /\ Len(revisions') = Len(revisions)
         /\ GPR!Numbers' = GPR!Numbers
      /\ revisions'[n] = moved /\ \A m \in GPR!Numbers \ {n} : revisions'[m] = revisions[m]
  BY <1>1, <1>2, ExceptSeq DEF Drafted, GPR!Numbers, GPR!Marked
<1>4. /\ GPR!With("DRAFT")' = {}
      /\ GPR!With("APPROVED")' = GPR!With("APPROVED")
         /\ GPR!With("SUPERSEDED")' = GPR!With("SUPERSEDED")
  BY <1>1, <1>2, <1>3 DEF GPR!With, GPR!Is
<1>5. GPR!DraftCorrectsTheBaseline'
  BY <1>4 DEF GPR!DraftCorrectsTheBaseline, Drafted
<1>6. \A m \in GPR!Numbers : revisions'[m].entries = revisions[m].entries
  BY <1>2, <1>3
<1>7. ASSUME NEW m \in GPR!Numbers PROVE Coherent(revisions[m].entries)'
  BY <1>6, RevisionRow DEF Coherent
<1>8. GPR!ReasonsExplainABaseline'
  BY <1>3, <1>4, <1>6 DEF GPR!ReasonsExplainABaseline, Drafted, GPR!ScopesOf, GPR!With
<1>9. Evolves
  BY <1>2, <1>3 DEF Evolves
<1> QED BY <1>3, <1>5, <1>7, <1>8, <1>9 DEF Drafted

\* What an approval leaves of a revision.
ApprovedRow(m) ==
  /\ revisions'[m] \in GPR!Revision
  /\ revisions'[m].entries = revisions[m].entries
  /\ \/ revisions'[m] = revisions[m]
     \/ revisions'[m].version = revisions[m].version + 1
  /\ m = GPR!Current => revisions'[m].status = "SUPERSEDED"
  /\ m = GPR!Draft => revisions'[m].status = "APPROVED"
  /\ m \notin {GPR!Current, GPR!Draft} => revisions'[m].status = revisions[m].status

LEMMA TheDraftIsNoBaseline ==
  ASSUME Drafted, GPR!HasDraft
  PROVE  GPR!Draft # GPR!Current
<1>1. GPR!Draft \in GPR!Numbers /\ GPR!Is(GPR!Draft, "DRAFT") /\ GPR!Draft # 0
  BY TheDraft, RevisionRow
<1> QED BY <1>1, TheBaseline DEF GPR!Is

\* An approval writes the draft and the baseline it replaces.
LEMMA ApprovedRows ==
  ASSUME Drafted, GPR!HasDraft, revisions' = GPR!Approved
  PROVE  /\ revisions' \in Seq(GPR!Revision) /\ Len(revisions') = Len(revisions)
         /\ GPR!Numbers' = GPR!Numbers
         /\ \A n \in GPR!Numbers : ApprovedRow(n)
<1>1. GPR!Current # GPR!Draft
  BY TheDraftIsNoBaseline
<1>2. ASSUME NEW m \in GPR!Numbers, NEW status \in {"SUPERSEDED", "APPROVED"}
      PROVE  /\ GPR!Marked(m, status) \in GPR!Revision /\ GPR!Marked(m, status).status = status
             /\ GPR!Marked(m, status).entries = revisions[m].entries
             /\ GPR!Marked(m, status).version = revisions[m].version + 1
  BY RevisionRow, MovedRow DEF GPR!Marked, GPR!Statuses
<1>3. ASSUME NEW m \in GPR!Numbers PROVE ApprovedRow(m)
  <2>1. revisions[m] \in GPR!Revision
    BY RevisionRow
  <2>2. CASE m = GPR!Current
    <3>1. revisions'[m] = GPR!Marked(m, "SUPERSEDED")
      BY <1>1, <2>2 DEF GPR!Approved
    <3> QED BY <1>1, <1>2, <2>2, <3>1 DEF ApprovedRow
  <2>3. CASE m = GPR!Draft
    <3>1. revisions'[m] = GPR!Marked(m, "APPROVED")
      BY <1>1, <2>3 DEF GPR!Approved
    <3> QED BY <1>1, <1>2, <2>3, <3>1 DEF ApprovedRow
  <2>4. CASE m \notin {GPR!Current, GPR!Draft}
    <3>1. revisions'[m] = revisions[m]
      BY <2>4 DEF GPR!Approved
    <3> QED BY <2>1, <2>4, <3>1 DEF ApprovedRow
  <2> QED BY <2>2, <2>3, <2>4
<1>4. DOMAIN revisions' = GPR!Numbers /\ GPR!Numbers = 1..Len(revisions) /\ Len(revisions) \in Nat
  BY DEF Drafted, GPR!Numbers, GPR!Approved
<1>5. revisions' = [n \in 1..Len(revisions) |-> revisions'[n]]
  BY <1>4 DEF GPR!Approved
<1>6. revisions' \in [1..Len(revisions) -> GPR!Revision]
  BY <1>3, <1>4, <1>5 DEF ApprovedRow
<1>7. revisions' \in Seq(GPR!Revision) /\ Len(revisions') = Len(revisions)
  BY <1>4, <1>6, SeqDef
<1> QED BY <1>3, <1>4, <1>7 DEF GPR!Numbers

\* The approved draft is the only baseline.
LEMMA DraftApproved ==
  ASSUME Drafted, GPR!HasDraft, revisions' \in Seq(GPR!Revision), Len(revisions') = Len(revisions),
         GPR!Numbers' = GPR!Numbers, \A n \in GPR!Numbers : ApprovedRow(n), UNCHANGED <<units,
         reasons>>
  PROVE  Drafted' /\ Evolves
<1>1. PICK n \in GPR!Numbers : n = GPR!Draft /\ GPR!Is(n, "DRAFT") /\ GPR!With("DRAFT") = {n}
  BY TheDraft
<1>2. n # GPR!Current
  BY <1>1, TheDraftIsNoBaseline
<1>3. GPR!With("DRAFT")' = {}
  BY <1>1, <1>2, TheBaseline DEF GPR!With, GPR!Is, ApprovedRow
<1>4. GPR!With("APPROVED")' = {n}
  BY <1>1, <1>2, TheBaseline DEF GPR!With, GPR!Is, ApprovedRow
<1>5. GPR!DraftCorrectsTheBaseline'
  BY <1>3, <1>4 DEF GPR!DraftCorrectsTheBaseline
<1>6. ASSUME NEW m \in GPR!Numbers PROVE Coherent(revisions[m].entries)'
  BY RevisionRow DEF Coherent, ApprovedRow
<1>7. GPR!With("APPROVED") \cup GPR!With("SUPERSEDED") \subseteq GPR!With("APPROVED")'
      \cup GPR!With("SUPERSEDED")'
  BY <1>1, <1>2, TheBaseline DEF GPR!With, GPR!Is, ApprovedRow
<1>8. GPR!ReasonsExplainABaseline'
  <2> SUFFICES ASSUME NEW r \in DOMAIN reasons
               PROVE  /\ reasons[r].revision \in GPR!With("APPROVED")' \cup GPR!With("SUPERSEDED")'
                      /\ reasons[r].scope \in GPR!ScopesOf(reasons[r].revision)'
    BY DEF GPR!ReasonsExplainABaseline
  <2>1. /\ reasons[r].revision \in GPR!With("APPROVED") \cup GPR!With("SUPERSEDED")
        /\ reasons[r].scope \in GPR!ScopesOf(reasons[r].revision)
    BY DEF Drafted, GPR!ReasonsExplainABaseline
  <2>2. reasons[r].revision \in GPR!Numbers
    BY <2>1 DEF GPR!With
  <2> QED BY <1>7, <2>1, <2>2 DEF GPR!ScopesOf, ApprovedRow
<1>9. Evolves
  BY DEF Evolves, ApprovedRow
<1> QED BY <1>5, <1>6, <1>8, <1>9 DEF Drafted

\* A new draft corrects the baseline in force.
LEMMA DraftCreated ==
  ASSUME GPR!ScheduleAssumption, Drafted, ~GPR!HasDraft, Len(revisions) < MaxRevisions,
         revisions' = Append(revisions,
           [status |-> "DRAFT", based |-> GPR!Current, version |-> 1,
            entries |-> GPR!Cloned(GPR!EntriesOf(GPR!Current))]),
         UNCHANGED <<units, reasons>>
  PROVE  Drafted' /\ Evolves
<1>1. PICK row : row = [status |-> "DRAFT", based |-> GPR!Current, version |-> 1,
                        entries |-> GPR!Cloned(GPR!EntriesOf(GPR!Current))]
  OBVIOUS
<1>2. row.status = "DRAFT" /\ row.based = GPR!Current /\ row.entries \in GPR!Entries
      /\ Coherent(row.entries)
  BY <1>1, CurrentEntries, ClonedEntries
<1>3. Len(revisions) \in Nat /\ GPR!Numbers = 1..Len(revisions)
  BY DEF Drafted, GPR!Numbers
<1>4. row \in GPR!Revision
  <2>1. GPR!Current \in 0..MaxRevisions
    BY <1>3, TheBaseline DEF GPR!ScheduleAssumption
  <2> QED BY <1>1, <1>2, <2>1 DEF GPR!Revision, GPR!Statuses
<1> DEFINE new == Len(revisions) + 1
<1>5. /\ revisions' \in Seq(GPR!Revision) /\ Len(revisions') = new /\ GPR!Numbers' = 1..new
      /\ revisions'[new] = row /\ \A m \in GPR!Numbers : revisions'[m] = revisions[m]
  BY <1>1, <1>3, <1>4, AppendProperties DEF Drafted, GPR!Numbers
<1>6. new \in Nat /\ new \notin GPR!Numbers /\ GPR!Numbers' = GPR!Numbers \cup {new}
      /\ new <= MaxRevisions
  BY <1>3, <1>5 DEF GPR!ScheduleAssumption
<1> HIDE DEF new
<1>7. /\ GPR!With("DRAFT")' = {new}
      /\ GPR!With("APPROVED")' = GPR!With("APPROVED")
         /\ GPR!With("SUPERSEDED")' = GPR!With("SUPERSEDED")
  BY <1>2, <1>5, <1>6 DEF GPR!With, GPR!Is, GPR!HasDraft
<1>8. GPR!Current' = GPR!Current
  BY <1>7, NextBaseline
<1>9. GPR!DraftCorrectsTheBaseline'
  BY <1>2, <1>5, <1>7, <1>8 DEF GPR!DraftCorrectsTheBaseline, Drafted
<1>10. ASSUME NEW m \in GPR!Numbers' PROVE Coherent(revisions[m].entries)'
  <2>1. Coherent(revisions'[m].entries)
    BY <1>2, <1>5, <1>6, RevisionRow
  <2> QED BY <2>1 DEF Coherent
<1>11. GPR!ReasonsExplainABaseline'
  BY <1>5, <1>7 DEF GPR!ReasonsExplainABaseline, Drafted, GPR!ScopesOf, GPR!With
<1>12. Evolves
  BY <1>5, <1>6 DEF Evolves
<1> QED BY <1>5, <1>6, <1>9, <1>10, <1>11, <1>12 DEF Drafted

-----------------------------------------------------------------------------
(* Commands *)

\* A process that is not idle has a command.
LEMMA DrafterHasCommand ==
  ASSUME clerks \in [Attempts -> GPR!Attempt], NEW t \in Attempts, ~GPR!In(t, {"idle"})
  PROVE  /\ clerks[t] \in [phase : {"reading", "begun", "coordinated", "checked"}, cmd :
            GPR!Command]
         /\ GPR!Cmd(t) \in GPR!Command
BY DEF GPR!Attempt, GPR!In, GPR!Idle, GPR!Cmd

\* A process that is done holds nothing; the others keep what they have.
LEMMA DrafterEnds ==
  ASSUME DraftingInv, NEW t \in Attempts, clerks' = [clerks EXCEPT ![t] = GPR!Idle]
  PROVE  /\ clerks' \in [Attempts -> GPR!Attempt]
         /\ DraftersApart'
         /\ \A u \in Attempts : ~GPR!In(u, {"idle"})' =>
              /\ u # t /\ ~GPR!In(u, {"idle"}) /\ GPR!Cmd(u)' = GPR!Cmd(u)
              /\ Holds(u)' => Holds(u)
              /\ GPR!In(u, {"reading"})' <=> GPR!In(u, {"reading"})
<1>1. clerks' \in [Attempts -> GPR!Attempt]
  BY DEF DraftingInv, GPR!Attempt
<1>2. \A u \in Attempts : clerks'[u] = IF u = t THEN GPR!Idle ELSE clerks[u]
  BY DEF DraftingInv
<1>3. \A u \in Attempts : ~GPR!In(u, {"idle"})' => u # t /\ clerks'[u] = clerks[u]
  BY <1>2 DEF GPR!In, GPR!Idle
<1>4. \A u \in Attempts : Shares(u)' \/ Holds(u)' => ~GPR!In(u, {"idle"})'
  BY DEF Shares, Holds, GPR!In
<1>5. DraftersApart'
  BY <1>3, <1>4 DEF DraftingInv, DraftersApart, Shares, Holds, GPR!In, GPR!Cmd
<1> QED BY <1>1, <1>3, <1>5 DEF GPR!In, GPR!Cmd, Holds

\* A command about the object's row commits: the ledger evolves, and every
\* other checked command only creates a unit.
LEMMA DraftingCommits ==
  ASSUME DraftingInv, Drafted', Evolves, NEW t \in Attempts, Holds(t), GPR!LocksObject(GPR!Cmd(t)),
         clerks' = [clerks EXCEPT ![t] = GPR!Idle], sent' = sent
  PROVE  DraftingInv'
<1>1. /\ clerks' \in [Attempts -> GPR!Attempt] /\ DraftersApart'
      /\ \A u \in Attempts : ~GPR!In(u, {"idle"})' =>
           /\ u # t /\ ~GPR!In(u, {"idle"}) /\ GPR!Cmd(u)' = GPR!Cmd(u)
           /\ Holds(u)' => Holds(u)
           /\ GPR!In(u, {"reading"})' <=> GPR!In(u, {"reading"})
  BY DrafterEnds
<1>2. ASSUME NEW u \in Attempts, ~GPR!In(u, {"idle"})'
      PROVE  /\ Named(GPR!Cmd(u))'
             /\ (GPR!Cmd(u).kind = "approve" => Informed(u))'
             /\ (GPR!In(u, {"reading"}) => GPR!Cmd(u).kind = "approve")'
  <2>1. /\ ~GPR!In(u, {"idle"}) /\ GPR!Cmd(u)' = GPR!Cmd(u) /\ Named(GPR!Cmd(u))
        /\ GPR!In(u, {"reading"})' <=> GPR!In(u, {"reading"})
    BY <1>1, <1>2 DEF DraftingInv
  <2>2. Named(GPR!Cmd(u))'
    BY <2>1 DEF Named, Evolves
  <2>3. ASSUME GPR!Cmd(u).kind = "approve" PROVE Informed(u)'
    <3>1. PICK cmd \in GPR!Command, n \in GPR!Numbers : cmd = GPR!Cmd(u) /\ n = cmd.id
      BY <2>1, <2>3, DrafterHasCommand DEF DraftingInv, Named
    <3>2. /\ cmd.version <= revisions[n].version
          /\ ~GPR!In(u, {"reading"}) /\ cmd.version = revisions[n].version =>
               cmd.seen = revisions[n].entries
      BY <2>1, <2>3, <3>1 DEF DraftingInv, Informed
    <3>3. cmd.version \in Nat /\ revisions[n].version \in Nat
      BY RevisionRow DEF DraftingInv, GPR!Command
    <3>4. CASE revisions'[n] = revisions[n]
      BY <2>1, <3>1, <3>2, <3>4 DEF Informed
    <3>5. CASE revisions'[n].version = revisions[n].version + 1
      BY <2>1, <3>1, <3>2, <3>3, <3>5 DEF Informed
    <3> QED BY <3>4, <3>5 DEF Evolves
  <2>4. (GPR!In(u, {"reading"}) => GPR!Cmd(u).kind = "approve")'
    BY <1>1, <1>2, <2>1 DEF DraftingInv
  <2> QED BY <2>1, <2>2, <2>3, <2>4
<1>3. ASSUME NEW u \in Attempts, Holds(u)' PROVE StillHolds(GPR!Cmd(u))'
  <2>1. u # t /\ Holds(u) /\ GPR!Cmd(u)' = GPR!Cmd(u)
    BY <1>1, <1>3 DEF Holds, GPR!In
  <2>2. GPR!Cmd(u).kind = "unit"
    BY <2>1 DEF DraftingInv, DraftersApart, GPR!LocksObject
  <2> QED BY <2>1, <2>2 DEF StillHolds
<1> QED BY <1>1, <1>2, <1>3 DEF DraftingInv

\* What a process that commits may rely on.
LEMMA Committer ==
  ASSUME DraftingInv, NEW t \in Attempts, NEW kind, GPR!Committing(t, kind)
  PROVE  /\ Holds(t) /\ GPR!Cmd(t) \in GPR!Command /\ GPR!Cmd(t).kind = kind
         /\ Named(GPR!Cmd(t)) /\ StillHolds(GPR!Cmd(t)) /\ Drafted
         /\ clerks' = [clerks EXCEPT ![t] = GPR!Idle] /\ sent' = sent
<1>1. Holds(t) /\ ~GPR!In(t, {"idle"})
  BY DEF GPR!Committing, Holds, GPR!In
<1> QED BY <1>1, DrafterHasCommand DEF DraftingInv, GPR!Committing

\* Each command that commits keeps the invariant.
LEMMA CreateDraftCommits ==
  ASSUME GPR!ScheduleAssumption, DraftingInv, NEW t \in Attempts, GPR!CreateDraft(t)
  PROVE  DraftingInv'
<1>1. GPR!Committing(t, "create")
  BY DEF GPR!CreateDraft
<1>2. ~GPR!HasDraft
  BY <1>1, Committer DEF StillHolds, GPR!Allowed
<1>3. Drafted' /\ Evolves
  BY <1>1, <1>2, Committer, DraftCreated DEF GPR!CreateDraft
<1> QED BY <1>1, <1>3, Committer, DraftingCommits DEF GPR!LocksObject

LEMMA AddEntryCommits ==
  ASSUME GPR!ScheduleAssumption, DraftingInv, NEW t \in Attempts, GPR!AddEntry(t)
  PROVE  DraftingInv'
<1>1. GPR!Committing(t, "add")
  BY DEF GPR!AddEntry
<1>2. PICK cmd \in GPR!Command : cmd = GPR!Cmd(t) /\ Fits(cmd) /\ cmd.scope \in GPR!Scopes
             /\ Drafted
  BY <1>1, Committer DEF StillHolds, Named
<1>3. PICK n \in GPR!Numbers, entries \in GPR!Entries :
        n = GPR!Draft /\ GPR!Is(n, "DRAFT") /\ entries = revisions[n].entries /\ Coherent(entries)
  BY <1>2, TheDraft, RevisionRow DEF Fits
<1>4. Coherent(GPR!Put(entries, cmd, 1))
  BY <1>2, <1>3, AddedAtTheEnd DEF Fits, GPR!ScopesOf
<1>5. GPR!Put(entries, cmd, 1) \in GPR!Entries
  BY <1>2, PutPlans
<1>6. revisions' = [revisions EXCEPT ![n] = GPR!Moved(n, "DRAFT", GPR!Put(entries, cmd, 1))]
  BY <1>2, <1>3 DEF GPR!AddEntry, GPR!Touch, GPR!Is
<1>7. Drafted' /\ Evolves
  BY <1>2, <1>3, <1>4, <1>5, <1>6, DraftRewritten DEF GPR!AddEntry
<1> QED BY <1>1, <1>7, Committer, DraftingCommits DEF GPR!LocksObject

\* An entry under edit is one of a consistent revision.
LEMMA TouchedEntry ==
  ASSUME Drafted, NEW cmd \in GPR!Command, cmd.id \in GPR!Numbers, GPR!CanTouch(cmd)
  PROVE  /\ revisions[cmd.id].entries \in GPR!Entries /\ Coherent(revisions[cmd.id].entries)
         /\ cmd.scope \in GPR!PlannedScopes(revisions[cmd.id].entries)
         /\ cmd.version \in Nat \ {0}
<1>1. PICK entries \in GPR!Entries :
        /\ entries = revisions[cmd.id].entries /\ Coherent(entries)
        /\ cmd.scope \in GPR!PlannedScopes(entries) /\ entries[cmd.scope].version = cmd.version
  BY RevisionRow DEF GPR!CanTouch, GPR!ScopesOf
<1>2. cmd.version \in Nat \ {0}
  BY <1>1, PlannedScope DEF GPR!Entry
<1> QED BY <1>1, <1>2

LEMMA EditEntryCommits ==
  ASSUME GPR!ScheduleAssumption, DraftingInv, NEW t \in Attempts, GPR!EditEntry(t)
  PROVE  DraftingInv'
<1>1. GPR!Committing(t, "edit")
  BY DEF GPR!EditEntry
<1>2. PICK cmd \in GPR!Command : cmd = GPR!Cmd(t) /\ GPR!CanEdit(cmd) /\ cmd.id \in GPR!Numbers
             /\ Drafted
  BY <1>1, Committer DEF StillHolds, GPR!Allowed, Named
<1>3. PICK n \in GPR!Numbers, entries \in GPR!Entries :
        /\ n = cmd.id /\ GPR!Is(n, "DRAFT") /\ entries = revisions[n].entries /\ Coherent(entries)
        /\ cmd.scope \in GPR!PlannedScopes(entries) /\ cmd.version \in Nat \ {0}
  BY <1>2, TouchedEntry DEF GPR!CanEdit, GPR!CanTouch
<1>4. PICK put : put = GPR!Put(entries, cmd, cmd.version + 1)
  OBVIOUS
<1>5. put \in GPR!Entries /\ Coherent(put)
  BY <1>2, <1>3, <1>4, EditedInPlace DEF GPR!CanEdit, GPR!ScopesOf
<1>6. revisions' = [revisions EXCEPT ![n] = GPR!Moved(n, "DRAFT", put)]
  BY <1>2, <1>3, <1>4 DEF GPR!EditEntry, GPR!Touch, GPR!Is
<1>7. Drafted' /\ Evolves
  BY <1>2, <1>3, <1>5, <1>6, DraftRewritten DEF GPR!EditEntry
<1> QED BY <1>1, <1>7, Committer, DraftingCommits DEF GPR!LocksObject

LEMMA RemoveEntryCommits ==
  ASSUME GPR!ScheduleAssumption, DraftingInv, NEW t \in Attempts, GPR!RemoveEntry(t)
  PROVE  DraftingInv'
<1>1. GPR!Committing(t, "remove")
  BY DEF GPR!RemoveEntry
<1>2. PICK cmd \in GPR!Command : cmd = GPR!Cmd(t) /\ GPR!CanRemove(cmd) /\ cmd.id \in GPR!Numbers
             /\ Drafted
  BY <1>1, Committer DEF StillHolds, GPR!Allowed, Named
<1>3. PICK n \in GPR!Numbers, entries \in GPR!Entries :
        /\ n = cmd.id /\ GPR!Is(n, "DRAFT") /\ entries = revisions[n].entries /\ Coherent(entries)
        /\ cmd.scope \in GPR!PlannedScopes(entries)
  BY <1>2, TouchedEntry DEF GPR!CanRemove, GPR!CanTouch
<1>4. PICK left : left = [entries EXCEPT ![cmd.scope] = GPR!Absent]
  OBVIOUS
<1>5. left \in GPR!Entries /\ Coherent(left)
  BY <1>2, <1>3, <1>4, RemovedFromTheEnd DEF GPR!CanRemove, GPR!ScopesOf
<1>6. revisions' = [revisions EXCEPT ![n] = GPR!Moved(n, "DRAFT", left)]
  BY <1>2, <1>3, <1>4 DEF GPR!RemoveEntry, GPR!Touch, GPR!Is
<1>7. Drafted' /\ Evolves
  BY <1>2, <1>3, <1>5, <1>6, DraftRewritten DEF GPR!RemoveEntry
<1> QED BY <1>1, <1>7, Committer, DraftingCommits DEF GPR!LocksObject

LEMMA DiscardDraftCommits ==
  ASSUME GPR!ScheduleAssumption, DraftingInv, NEW t \in Attempts, GPR!DiscardDraft(t)
  PROVE  DraftingInv'
<1>1. GPR!Committing(t, "discard")
  BY DEF GPR!DiscardDraft
<1>2. GPR!HasDraft
  BY <1>1, Committer DEF StillHolds, GPR!Allowed, GPR!SeenDraft
<1>3. Drafted' /\ Evolves
  BY <1>1, <1>2, Committer, DraftDiscarded DEF GPR!DiscardDraft
<1> QED BY <1>1, <1>3, Committer, DraftingCommits DEF GPR!LocksObject

LEMMA ApproveDraftCommits ==
  ASSUME GPR!ScheduleAssumption, DraftingInv, NEW t \in Attempts, GPR!ApproveDraft(t)
  PROVE  DraftingInv'
<1>1. GPR!Committing(t, "approve")
  BY DEF GPR!ApproveDraft
<1>2. GPR!HasDraft /\ Drafted
  BY <1>1, Committer DEF StillHolds, GPR!Allowed, GPR!CanApprove, GPR!SeenDraft
<1>3. /\ revisions' \in Seq(GPR!Revision) /\ Len(revisions') = Len(revisions)
         /\ GPR!Numbers' = GPR!Numbers
      /\ \A n \in GPR!Numbers : ApprovedRow(n)
  BY <1>2, ApprovedRows DEF GPR!ApproveDraft
<1>4. Drafted' /\ Evolves
  BY <1>2, <1>3, DraftApproved DEF GPR!ApproveDraft
<1> QED BY <1>1, <1>4, Committer, DraftingCommits DEF GPR!LocksObject

LEMMA RecordReasonCommits ==
  ASSUME GPR!ScheduleAssumption, DraftingInv, NEW t \in Attempts, GPR!RecordReason(t)
  PROVE  DraftingInv'
<1>1. GPR!Committing(t, "reason") /\ UNCHANGED <<revisions, units>>
  BY DEF GPR!RecordReason
<1>2. PICK s, n : /\ s = GPR!Cmd(t).scope /\ n = GPR!Current /\ Drafted /\ s \in GPR!ScopesOf(n)
             /\ n \in GPR!Numbers
                  /\ n \in GPR!With("APPROVED")
  BY <1>1, Committer, TheBaseline DEF StillHolds, GPR!Allowed
<1>3. n \in 1..MaxRevisions
  <2>1. revisions[n].based \in 0..MaxRevisions /\ n \in 1..Len(revisions)
    BY <1>2, RevisionRow
  <2>2. Len(revisions) \in Nat /\ Len(revisions) <= MaxRevisions
    BY <1>2 DEF Drafted
  <2> QED BY <2>1, <2>2 DEF GPR!ScheduleAssumption
<1>4. s \in GPR!Scopes
  BY <1>2, RevisionRow, PlannedScope DEF GPR!ScopesOf
<1>5. PICK reason : reason = [scope |-> s, revision |-> n, status |-> "OPEN"]
  OBVIOUS
<1>6. reason \in GPR!Reason /\ reason.scope = s /\ reason.revision = n
  BY <1>3, <1>4, <1>5 DEF GPR!Reason
<1>7. /\ reasons' \in Seq(GPR!Reason) /\ Len(reasons') = Len(reasons) + 1
      /\ reasons'[Len(reasons) + 1] = reason
      /\ \A r \in DOMAIN reasons : reasons'[r] = reasons[r]
      /\ DOMAIN reasons' = DOMAIN reasons \cup {Len(reasons) + 1}
  <2>1. reasons \in Seq(GPR!Reason) /\ reasons' = Append(reasons, reason)
    BY <1>2, <1>5 DEF GPR!RecordReason, Drafted
  <2> QED BY <1>6, <2>1, AppendProperties
<1>8. GPR!ReasonsExplainABaseline'
  <2> SUFFICES ASSUME NEW r \in DOMAIN reasons'
               PROVE  /\ reasons'[r].revision \in GPR!With("APPROVED") \cup GPR!With("SUPERSEDED")
                      /\ reasons'[r].scope \in GPR!ScopesOf(reasons'[r].revision)
    BY <1>1 DEF GPR!ReasonsExplainABaseline, GPR!With, GPR!Is, GPR!Numbers, GPR!ScopesOf
  <2>1. CASE r \in DOMAIN reasons
    BY <1>2, <1>7, <2>1 DEF Drafted, GPR!ReasonsExplainABaseline
  <2>2. CASE r = Len(reasons) + 1
    BY <1>2, <1>6, <1>7, <2>2
  <2> QED BY <1>7, <2>1, <2>2
<1>9. GPR!DraftCorrectsTheBaseline'
  BY <1>1, <1>2 DEF Drafted, GPR!DraftCorrectsTheBaseline, GPR!With, GPR!Is, GPR!Numbers,
     GPR!Current
<1>10. Drafted' /\ Evolves
  BY <1>1, <1>2, <1>7, <1>8, <1>9 DEF Drafted, Evolves, Coherent, GPR!Numbers
<1> QED BY <1>1, <1>10, Committer, DraftingCommits DEF GPR!LocksObject

LEMMA ResolveReasonCommits ==
  ASSUME DraftingInv, NEW t \in Attempts, GPR!ResolveReason(t)
  PROVE  DraftingInv'
<1>1. GPR!Committing(t, "resolve") /\ UNCHANGED <<revisions, units>>
  BY DEF GPR!ResolveReason
<1>2. PICK r \in DOMAIN reasons : r = GPR!Cmd(t).id /\ Drafted
  BY <1>1, Committer DEF Named
<1>3. PICK reason \in GPR!Reason : reason = reasons[r]
  BY <1>2 DEF Drafted
<1>4. PICK resolved : resolved = [reason EXCEPT !.status = "RESOLVED"]
  OBVIOUS
<1>5. /\ resolved \in GPR!Reason
      /\ resolved.revision = reason.revision /\ resolved.scope = reason.scope
  BY <1>4 DEF GPR!Reason
<1>6. reasons' = [reasons EXCEPT ![r] = resolved]
  BY <1>2, <1>3, <1>4 DEF GPR!ResolveReason
<1>7. /\ reasons' \in Seq(GPR!Reason) /\ DOMAIN reasons' = DOMAIN reasons
      /\ reasons'[r] = resolved /\ \A q \in DOMAIN reasons \ {r} : reasons'[q] = reasons[q]
  BY <1>2, <1>5, <1>6, ExceptSeq DEF Drafted
<1>8. \A q \in DOMAIN reasons : /\ reasons'[q].revision = reasons[q].revision
                               /\ reasons'[q].scope = reasons[q].scope
  BY <1>3, <1>5, <1>7
<1>9. GPR!ReasonsExplainABaseline'
  BY <1>1, <1>2, <1>7, <1>8 DEF Drafted, GPR!ReasonsExplainABaseline, GPR!With, GPR!Is,
     GPR!Numbers, GPR!ScopesOf
<1>10. GPR!DraftCorrectsTheBaseline'
  BY <1>1, <1>2 DEF Drafted, GPR!DraftCorrectsTheBaseline, GPR!With, GPR!Is, GPR!Numbers,
     GPR!Current
<1>11. Drafted' /\ Evolves
  BY <1>1, <1>2, <1>7, <1>9, <1>10 DEF Drafted, Evolves, Coherent, GPR!Numbers
<1> QED BY <1>1, <1>11, Committer, DraftingCommits DEF GPR!LocksObject

\* The revisions stay as they are.
LEMMA LedgerStands ==
  ASSUME UNCHANGED <<revisions, reasons>>
  PROVE  /\ GPR!DraftCorrectsTheBaseline' = GPR!DraftCorrectsTheBaseline
         /\ GPR!ReasonsExplainABaseline' = GPR!ReasonsExplainABaseline
         /\ \A cmd : /\ GPR!SeenDraft(cmd)' = GPR!SeenDraft(cmd)
                     /\ GPR!CanEdit(cmd)' = GPR!CanEdit(cmd)
                     /\ GPR!CanRemove(cmd)' = GPR!CanRemove(cmd)
         /\ GPR!Current' = GPR!Current /\ GPR!HasDraft' = GPR!HasDraft /\ GPR!Draft' = GPR!Draft
         /\ \A n : GPR!ScopesOf(n)' = GPR!ScopesOf(n)
<1>1. GPR!Current' = GPR!Current /\ GPR!HasDraft' = GPR!HasDraft /\ GPR!Draft' = GPR!Draft
      /\ \A n : GPR!ScopesOf(n)' = GPR!ScopesOf(n)
  BY DEF GPR!Current, GPR!HasDraft, GPR!Draft, GPR!With, GPR!Is, GPR!Numbers, GPR!ScopesOf
<1>2. /\ GPR!DraftCorrectsTheBaseline' = GPR!DraftCorrectsTheBaseline
      /\ GPR!ReasonsExplainABaseline' = GPR!ReasonsExplainABaseline
  BY <1>1 DEF GPR!DraftCorrectsTheBaseline, GPR!ReasonsExplainABaseline, GPR!With, GPR!Is,
     GPR!Numbers
<1>3. ASSUME NEW cmd
      PROVE  /\ GPR!SeenDraft(cmd)' = GPR!SeenDraft(cmd)
             /\ GPR!CanEdit(cmd)' = GPR!CanEdit(cmd)
             /\ GPR!CanRemove(cmd)' = GPR!CanRemove(cmd)
  BY <1>1 DEF GPR!SeenDraft, GPR!CanEdit, GPR!CanRemove, GPR!CanTouch, GPR!Is
<1> QED BY <1>1, <1>2, <1>3

\* A unit appears between the check and the commit of another command: only an
\* approval asks which works have units, and it is alone.
LEMMA CreateExecutionUnitCommits ==
  ASSUME DraftingInv, NEW t \in Attempts, GPR!CreateExecutionUnit(t)
  PROVE  DraftingInv'
<1>1. GPR!Committing(t, "unit") /\ UNCHANGED <<revisions, reasons>>
  BY DEF GPR!CreateExecutionUnit
<1>2. PICK unit \in Units : unit = GPR!Cmd(t).scope /\ units' = units \cup {unit}
  BY <1>1, Committer DEF GPR!CreateExecutionUnit, Named
<1>3. Drafted'
  <2>1. \A n \in GPR!Numbers : Coherent(revisions[n].entries)'
    BY <1>1, <1>2 DEF DraftingInv, Drafted, Coherent, GPR!Numbers
  <2> QED BY <1>1, <1>2, <2>1, LedgerStands DEF DraftingInv, Drafted, GPR!Numbers
<1>4. /\ clerks' \in [Attempts -> GPR!Attempt] /\ DraftersApart'
      /\ \A u \in Attempts : ~GPR!In(u, {"idle"})' =>
           /\ u # t /\ ~GPR!In(u, {"idle"}) /\ GPR!Cmd(u)' = GPR!Cmd(u)
           /\ Holds(u)' => Holds(u)
           /\ GPR!In(u, {"reading"})' <=> GPR!In(u, {"reading"})
  BY <1>1, Committer, DrafterEnds
<1>5. ASSUME NEW u \in Attempts, ~GPR!In(u, {"idle"})'
      PROVE  Named(GPR!Cmd(u))' /\ (GPR!Cmd(u).kind = "approve" => Informed(u))'
             /\ (GPR!In(u, {"reading"}) => GPR!Cmd(u).kind = "approve")'
  BY <1>1, <1>2, <1>4, <1>5 DEF DraftingInv, Named, Informed, GPR!Numbers, GPR!In
<1>6. ASSUME NEW u \in Attempts, Holds(u)' PROVE StillHolds(GPR!Cmd(u))'
  <2>1. u # t /\ Holds(u) /\ GPR!Cmd(u)' = GPR!Cmd(u) /\ StillHolds(GPR!Cmd(u))
    BY <1>4, <1>6 DEF DraftingInv, Holds, GPR!In
  <2>2. GPR!Cmd(u).kind # "approve"
    BY <1>1, <2>1, Committer DEF DraftingInv, DraftersApart, Shares, Holds, GPR!In, GPR!Exclusive
  <2>3. GPR!Cmd(u).kind = "add" => Fits(GPR!Cmd(u))'
    BY <1>1, <1>2, <2>1, LedgerStands DEF StillHolds, Fits
  <2>4. GPR!Cmd(u).kind \notin {"add", "unit"} => GPR!Allowed(GPR!Cmd(u))'
    BY <1>1, <2>1, <2>2, LedgerStands DEF StillHolds, GPR!Allowed
  <2> QED BY <2>1, <2>3, <2>4 DEF StillHolds
<1> QED BY <1>1, <1>3, <1>4, <1>5, <1>6, Committer DEF DraftingInv

-----------------------------------------------------------------------------
(* Steps before a commit *)

\* What is asked about the rows alone.
LEMMA RowsKeep ==
  ASSUME DraftingInv, UNCHANGED <<revisions, units, reasons>>
  PROVE  /\ Drafted'
         /\ \A cmd : Named(cmd)' = Named(cmd) /\ GPR!Allowed(cmd)' = GPR!Allowed(cmd)
         /\ \A cmd : StillHolds(cmd)' = StillHolds(cmd)
<1>1. Drafted'
  BY LedgerStands DEF DraftingInv, Drafted, Coherent, GPR!Numbers
<1>2. \A cmd : Named(cmd)' = Named(cmd)
  BY DEF Named, GPR!Numbers
<1>3. \A n \in GPR!Numbers : GPR!WholeWorks(n)' = GPR!WholeWorks(n)
  BY DEF GPR!WholeWorks, GPR!ScopesOf
<1>4. ASSUME NEW cmd PROVE GPR!CanAdd(cmd)' = GPR!CanAdd(cmd)
             /\ GPR!CanApprove(cmd)' = GPR!CanApprove(cmd)
  BY LedgerStands DEF GPR!CanAdd, GPR!CanApprove, GPR!WholeWorks, GPR!WithUnits, GPR!Changed,
     GPR!EntriesOf
<1>5. ASSUME NEW cmd PROVE GPR!Allowed(cmd)' = GPR!Allowed(cmd) /\ Fits(cmd)' = Fits(cmd)
  BY <1>4, LedgerStands DEF GPR!Allowed, Fits
<1>6. ASSUME NEW cmd PROVE StillHolds(cmd)' = StillHolds(cmd)
  BY <1>5 DEF StillHolds
<1> QED BY <1>1, <1>2, <1>5, <1>6

\* What clients ask for names rows that exist, with versions that were once current.
LEMMA AskedOfTheSchedule ==
  ASSUME GPR!ScheduleAssumption, DraftingInv, NEW cmd \in GPR!Commands
  PROVE  /\ cmd \in GPR!Command /\ Named(cmd)
         /\ cmd.kind = "approve" => cmd.version <= revisions[cmd.id].version
<1>1. GPR!AnyPlan \in Plans /\ GPR!NoEntries \in GPR!Entries
  BY NothingIsCoherent DEF GPR!ScheduleAssumption, GPR!AnyPlan
<1>2. ASSUME NEW kind \in GPR!Kinds, NEW sc \in GPR!Scopes \cup {NoScope}, NEW plan \in Plans,
             NEW pred \in GPR!Scopes \cup {NoScope}, NEW id \in Nat, NEW v \in Nat
      PROVE  LET c == GPR!NewCommand(kind, sc, plan, pred, id, v)
             IN  c \in GPR!Command /\ c.kind = kind /\ c.id = id /\ c.scope = sc /\ c.version = v
  BY <1>1 DEF GPR!NewCommand, GPR!Command
<1>3. ASSUME NEW kind \in GPR!Kinds, NEW sc \in GPR!Scopes \cup {NoScope}, NEW id \in Nat,
             NEW v \in Nat
      PROVE  LET c == GPR!Simple(kind, sc, id, v)
             IN  c \in GPR!Command /\ c.kind = kind /\ c.id = id /\ c.scope = sc /\ c.version = v
  BY <1>1 DEF GPR!Simple, GPR!NewCommand, GPR!Command
<1>4. CASE cmd = GPR!Simple("create", NoScope, 0, 0)
  BY <1>3, <1>4 DEF GPR!Kinds, Named
<1>5. CASE \E u \in Units \ units : cmd = GPR!Simple("unit", u, 0, 0)
  BY <1>3, <1>5 DEF GPR!Kinds, Named, GPR!Scopes
<1>6. CASE \E r \in DOMAIN reasons : cmd = GPR!Simple("resolve", NoScope, r, 0)
  <2>1. PICK r \in DOMAIN reasons : cmd = GPR!Simple("resolve", NoScope, r, 0)
    BY <1>6
  <2>2. r \in Nat
    BY DEF DraftingInv, Drafted
  <2> QED BY <1>3, <2>1, <2>2 DEF GPR!Kinds, Named
<1>7. CASE cmd \in GPR!Reasons
  <2>1. PICK s \in GPR!ScopesOf(GPR!Current) : cmd = GPR!Simple("reason", s, 0, 0)
    BY <1>7 DEF GPR!Reasons
  <2>2. s \in GPR!Scopes
    BY DEF GPR!ScopesOf, GPR!PlannedScopes
  <2> QED BY <1>3, <2>1, <2>2 DEF GPR!Kinds, Named
<1>8. ASSUME GPR!HasDraft
      PROVE  /\ GPR!Draft \in GPR!Numbers /\ GPR!Draft \in Nat
                /\ revisions[GPR!Draft].version \in Nat
             /\ \A s \in GPR!ScopesOf(GPR!Draft) : s \in GPR!Scopes /\ GPR!VersionOf(s) \in Nat
             /\ GPR!Preds \subseteq GPR!Scopes \cup {NoScope}
  <2>1. GPR!Draft \in GPR!Numbers
    BY <1>8, TheDraft DEF DraftingInv
  <2>2. /\ GPR!Draft \in Nat /\ revisions[GPR!Draft].version \in Nat
        /\ revisions[GPR!Draft].entries \in GPR!Entries
    BY <2>1, RevisionRow DEF DraftingInv
  <2> QED BY <2>1, <2>2, PlannedScope DEF GPR!Entry, GPR!ScopesOf, GPR!VersionOf, GPR!Preds
<1>9. CASE GPR!HasDraft /\ cmd \in GPR!Decisions
  <2>1. PICK kind \in {"discard", "approve"}, v \in Nat :
          v = revisions[GPR!Draft].version /\ cmd = GPR!Simple(kind, NoScope, GPR!Draft, v)
    BY <1>8, <1>9 DEF GPR!Decisions
  <2> QED BY <1>3, <1>8, <1>9, <2>1 DEF GPR!Kinds, Named
<1>10. CASE GPR!HasDraft /\ cmd \in GPR!Additions
  <2>1. PICK s \in Scheduled \cup units, p \in Plans, pred \in GPR!Preds, v \in Nat :
          v = revisions[GPR!Draft].version /\ cmd = GPR!NewCommand("add", s, p, pred, GPR!Draft, v)
    BY <1>8, <1>10 DEF GPR!Additions
  <2>2. s \in GPR!Scopes
    BY DEF DraftingInv, Drafted, GPR!Scopes
  <2>3. pred \in GPR!Scopes \cup {NoScope} /\ "add" \in GPR!Kinds /\ GPR!Draft \in Nat
        /\ GPR!Draft \in GPR!Numbers
    BY <1>8, <1>10 DEF GPR!Kinds
  <2>4. cmd \in GPR!Command /\ cmd.kind = "add" /\ cmd.id = GPR!Draft /\ cmd.scope = s
    <3>1. LET c == GPR!NewCommand("add", s, p, pred, GPR!Draft, v)
          IN  c \in GPR!Command /\ c.kind = "add" /\ c.id = GPR!Draft /\ c.scope = s
      BY <1>2, <2>2, <2>3
    <3> QED BY <2>1, <3>1
  <2> QED BY <2>2, <2>3, <2>4 DEF Named
<1>11. CASE GPR!HasDraft /\ cmd \in GPR!Edits
  <2>1. PICK s \in GPR!ScopesOf(GPR!Draft), p \in Plans, pred \in GPR!Preds, v \in Nat :
          v = GPR!VersionOf(s) /\ cmd = GPR!NewCommand("edit", s, p, pred, GPR!Draft, v)
    BY <1>8, <1>11 DEF GPR!Edits
  <2>2. /\ s \in GPR!Scopes /\ pred \in GPR!Scopes \cup {NoScope} /\ "edit" \in GPR!Kinds
        /\ GPR!Draft \in Nat /\ GPR!Draft \in GPR!Numbers
    BY <1>8, <1>11 DEF GPR!Kinds
  <2>3. cmd \in GPR!Command /\ cmd.kind = "edit" /\ cmd.id = GPR!Draft /\ cmd.scope = s
    <3>1. LET c == GPR!NewCommand("edit", s, p, pred, GPR!Draft, v)
          IN  c \in GPR!Command /\ c.kind = "edit" /\ c.id = GPR!Draft /\ c.scope = s
      BY <1>2, <2>2
    <3> QED BY <2>1, <3>1
  <2> QED BY <2>2, <2>3 DEF Named
<1>12. CASE GPR!HasDraft /\ cmd \in GPR!Removals
  <2>1. PICK s \in GPR!ScopesOf(GPR!Draft), v \in Nat :
          v = GPR!VersionOf(s) /\ cmd = GPR!Simple("remove", s, GPR!Draft, v)
    BY <1>8, <1>12 DEF GPR!Removals
  <2> QED BY <1>3, <1>8, <1>12, <2>1 DEF GPR!Kinds, Named
<1>13. ASSUME cmd \in GPR!Rows
       PROVE  \/ cmd = GPR!Simple("create", NoScope, 0, 0)
              \/ \E u \in Units \ units : cmd = GPR!Simple("unit", u, 0, 0)
              \/ \E r \in DOMAIN reasons : cmd = GPR!Simple("resolve", NoScope, r, 0)
  BY <1>13 DEF GPR!Rows
<1> QED BY <1>4, <1>5, <1>6, <1>7, <1>9, <1>10, <1>11, <1>12, <1>13 DEF GPR!Commands

LEMMA ScheduleRequested ==
  ASSUME GPR!ScheduleAssumption, DraftingInv, NEW t \in Attempts, NEW cmd \in GPR!Commands,
         GPR!Request(t, cmd)
  PROVE  DraftingInv'
<1>1. /\ cmd \in GPR!Command /\ Named(cmd)
      /\ cmd.kind = "approve" => cmd.version <= revisions[cmd.id].version
  BY AskedOfTheSchedule
<1>2. PICK phase \in {"reading", "begun"} :
        /\ phase = IF cmd.kind = "approve" THEN "reading" ELSE "begun"
        /\ clerks' = [clerks EXCEPT ![t] = [phase |-> phase, cmd |-> cmd]]
  BY DEF GPR!Request
<1>3. PICK attempt :
        /\ attempt = [phase |-> phase, cmd |-> cmd]
        /\ attempt \in GPR!Attempt /\ attempt.phase = phase /\ attempt.cmd = cmd
  <2>1. PICK attempt : attempt = [phase |-> phase, cmd |-> cmd]
    OBVIOUS
  <2> QED BY <1>1, <2>1 DEF GPR!Attempt
<1>4. /\ UNCHANGED <<revisions, units, reasons>> /\ sent' \in 0..MaxDrafting
      /\ clerks' \in [Attempts -> GPR!Attempt]
      /\ clerks'[t] = attempt /\ \A u \in Attempts \ {t} : clerks'[u] = clerks[u]
  BY <1>2, <1>3 DEF GPR!Request, DraftingInv, GPR!ScheduleAssumption
<1>5. Drafted' /\ (\A c : Named(c)' = Named(c)) /\ (\A c : StillHolds(c)' = StillHolds(c))
  BY <1>4, RowsKeep
<1>6. \A u \in Attempts : Shares(u)' \/ Holds(u)' => u # t /\ clerks'[u] = clerks[u]
  BY <1>3, <1>4 DEF Shares, Holds, GPR!In
<1>7. DraftersApart'
  BY <1>6 DEF DraftingInv, DraftersApart, Shares, Holds, GPR!In, GPR!Cmd
<1>8. ASSUME NEW u \in Attempts, ~GPR!In(u, {"idle"})'
      PROVE  Named(GPR!Cmd(u))' /\ (GPR!Cmd(u).kind = "approve" => Informed(u))'
             /\ (GPR!In(u, {"reading"}) => GPR!Cmd(u).kind = "approve")'
  <2>1. CASE u = t
    <3>1. GPR!Cmd(u)' = cmd /\ (GPR!In(u, {"reading"})' <=> cmd.kind = "approve")
      BY <1>2, <1>3, <1>4, <2>1 DEF GPR!Cmd, GPR!In
    <3> QED BY <1>1, <1>4, <1>5, <3>1 DEF Informed
  <2>2. CASE u # t
    <3>1. GPR!Cmd(u)' = GPR!Cmd(u) /\ \A phases : GPR!In(u, phases)' = GPR!In(u, phases)
      BY <1>4, <2>2 DEF GPR!Cmd, GPR!In
    <3> QED BY <1>4, <1>5, <1>8, <3>1 DEF DraftingInv, Informed
  <2> QED BY <2>1, <2>2
<1>9. ASSUME NEW u \in Attempts, Holds(u)' PROVE StillHolds(GPR!Cmd(u))'
  <2>1. GPR!Cmd(u)' = GPR!Cmd(u) /\ Holds(u)
    BY <1>6, <1>9 DEF GPR!Cmd, Holds, GPR!In
  <2> QED BY <1>5, <2>1 DEF DraftingInv
<1> QED BY <1>4, <1>5, <1>7, <1>8, <1>9 DEF DraftingInv

\* The page shows the entries of the version it read, or that version has passed.
LEMMA EntriesRead ==
  ASSUME DraftingInv, NEW t \in Attempts, GPR!ReadEntries(t)
  PROVE  DraftingInv'
<1>1. /\ GPR!Cmd(t) \in GPR!Command /\ GPR!In(t, {"reading"}) /\ ~GPR!In(t, {"idle"})
      /\ UNCHANGED <<revisions, units, reasons, sent>>
  BY DrafterHasCommand DEF GPR!ReadEntries, DraftingInv, GPR!In
<1>2. PICK was \in GPR!Command, n \in GPR!Numbers, shown \in GPR!Entries :
        /\ was = GPR!Cmd(t) /\ n = was.id /\ shown = revisions[n].entries
        /\ Named(was) /\ was.kind = "approve" /\ was.version <= revisions[n].version
  BY <1>1, RevisionRow DEF DraftingInv, Named, Informed
<1>3. PICK cmd :
        /\ cmd = [was EXCEPT !.seen = shown] /\ cmd \in GPR!Command /\ cmd.seen = shown
        /\ cmd.id = n /\ cmd.kind = "approve" /\ cmd.version = was.version
  <2>1. PICK cmd : cmd = [was EXCEPT !.seen = shown]
    OBVIOUS
  <2> QED BY <1>2, <2>1 DEF GPR!Command
<1>4. PICK attempt :
        /\ attempt = [phase |-> "begun", cmd |-> cmd]
        /\ attempt \in GPR!Attempt /\ attempt.phase = "begun" /\ attempt.cmd = cmd
  <2>1. PICK attempt : attempt = [phase |-> "begun", cmd |-> cmd]
    OBVIOUS
  <2> QED BY <1>3, <2>1 DEF GPR!Attempt
<1>5. clerks' = [clerks EXCEPT ![t] = attempt]
  BY <1>2, <1>3, <1>4 DEF GPR!ReadEntries
<1>6. /\ clerks' \in [Attempts -> GPR!Attempt]
      /\ clerks'[t] = attempt /\ \A u \in Attempts \ {t} : clerks'[u] = clerks[u]
  BY <1>4, <1>5 DEF DraftingInv
<1>7. Drafted' /\ (\A c : Named(c)' = Named(c)) /\ (\A c : StillHolds(c)' = StillHolds(c))
  BY <1>1, RowsKeep
<1>8. \A u \in Attempts : Shares(u)' \/ Holds(u)' => u # t /\ clerks'[u] = clerks[u]
  BY <1>4, <1>6 DEF Shares, Holds, GPR!In
<1>9. DraftersApart'
  BY <1>8 DEF DraftingInv, DraftersApart, Shares, Holds, GPR!In, GPR!Cmd
<1>10. ASSUME NEW u \in Attempts, ~GPR!In(u, {"idle"})'
       PROVE  Named(GPR!Cmd(u))' /\ (GPR!Cmd(u).kind = "approve" => Informed(u))'
              /\ (GPR!In(u, {"reading"}) => GPR!Cmd(u).kind = "approve")'
  <2>1. CASE u = t
    <3>1. GPR!Cmd(u)' = cmd /\ ~GPR!In(u, {"reading"})'
      BY <1>4, <1>6, <2>1 DEF GPR!Cmd, GPR!In
    <3>2. Named(cmd)
      BY <1>3 DEF Named
    <3> QED BY <1>1, <1>2, <1>3, <1>7, <3>1, <3>2 DEF Informed
  <2>2. CASE u # t
    <3>1. GPR!Cmd(u)' = GPR!Cmd(u) /\ \A phases : GPR!In(u, phases)' = GPR!In(u, phases)
      BY <1>6, <2>2 DEF GPR!Cmd, GPR!In
    <3> QED BY <1>1, <1>7, <1>10, <3>1 DEF DraftingInv, Informed
  <2> QED BY <2>1, <2>2
<1>11. ASSUME NEW u \in Attempts, Holds(u)' PROVE StillHolds(GPR!Cmd(u))'
  <2>1. GPR!Cmd(u)' = GPR!Cmd(u) /\ Holds(u)
    BY <1>8, <1>11 DEF GPR!Cmd, Holds, GPR!In
  <2> QED BY <1>7, <2>1 DEF DraftingInv
<1> QED BY <1>1, <1>6, <1>7, <1>9, <1>10, <1>11 DEF DraftingInv

\* A lock is granted to one that the others leave apart, and what it checks holds.
LEMMA SteppedOn ==
  ASSUME DraftingInv, NEW t \in Attempts, NEW phase \in {"coordinated", "checked"},
         GPR!Goto(t, phase),
         ~GPR!In(t, {"idle", "reading"}),
         phase = "coordinated" => GPR!LockModeIsFree(t),
         phase = "checked" => Shares(t) /\ GPR!ObjectIsFree(t) /\ StillHolds(GPR!Cmd(t))
  PROVE  DraftingInv'
<1>1. /\ clerks[t] \in [phase : {"reading", "begun", "coordinated", "checked"}, cmd : GPR!Command]
      /\ UNCHANGED <<revisions, units, reasons, sent>>
      /\ clerks' = [clerks EXCEPT ![t].phase = phase]
  BY DrafterHasCommand DEF GPR!Goto, DraftingInv, GPR!In
<1>2. PICK attempt : /\ attempt = [clerks[t] EXCEPT !.phase = phase]
                     /\ attempt \in GPR!Attempt
                     /\ attempt.phase = phase /\ attempt.cmd = clerks[t].cmd
  <2>1. PICK attempt : attempt = [clerks[t] EXCEPT !.phase = phase]
    OBVIOUS
  <2> QED BY <1>1, <2>1 DEF GPR!Attempt
<1>3. /\ clerks' \in [Attempts -> GPR!Attempt] /\ clerks'[t] = attempt
      /\ \A u \in Attempts \ {t} : clerks'[u] = clerks[u]
  BY <1>1, <1>2 DEF DraftingInv
<1>4. \A u \in Attempts : GPR!Cmd(u)' = GPR!Cmd(u)
  BY <1>2, <1>3 DEF GPR!Cmd
<1>5. \A u \in Attempts \ {t} : \A phases : GPR!In(u, phases)' = GPR!In(u, phases)
  BY <1>3 DEF GPR!In
<1>6. Drafted' /\ (\A c : Named(c)' = Named(c)) /\ (\A c : StillHolds(c)' = StillHolds(c))
  BY <1>1, RowsKeep
<1>7. DraftersApart'
  <2> SUFFICES ASSUME NEW u \in Attempts, NEW v \in Attempts, u # v
               PROVE  /\ Shares(u)' /\ Shares(v)' => ~GPR!Exclusive(GPR!Cmd(u))
                      /\ Holds(u)' /\ Holds(v)' => ~GPR!LocksObject(GPR!Cmd(u))
                         \/ ~GPR!LocksObject(GPR!Cmd(v))
    BY <1>4 DEF DraftersApart, GPR!Exclusive, GPR!LocksObject
  <2>1. ASSUME Shares(u)', Shares(v)' PROVE ~GPR!Exclusive(GPR!Cmd(u))
    <3>1. CASE phase = "coordinated" /\ t \in {u, v}
      BY <1>5, <2>1, <3>1 DEF GPR!LockModeIsFree, Shares
    <3>2. CASE phase = "checked" \/ t \notin {u, v}
      <4>1. Shares(u) /\ Shares(v)
        BY <1>5, <2>1, <3>2 DEF Shares
      <4> QED BY <4>1 DEF DraftingInv, DraftersApart
    <3> QED BY <3>1, <3>2
  <2>2. ASSUME Holds(u)', Holds(v)' PROVE ~GPR!LocksObject(GPR!Cmd(u))
               \/ ~GPR!LocksObject(GPR!Cmd(v))
    <3>1. CASE phase = "checked" /\ t \in {u, v}
      BY <1>5, <2>2, <3>1 DEF GPR!ObjectIsFree, Holds
    <3>2. CASE phase = "coordinated" \/ t \notin {u, v}
      <4>1. Holds(u) /\ Holds(v)
        BY <1>2, <1>3, <1>5, <2>2, <3>2 DEF Holds, GPR!In
      <4> QED BY <4>1 DEF DraftingInv, DraftersApart
    <3> QED BY <3>1, <3>2
  <2> QED BY <2>1, <2>2
<1>8. ASSUME NEW u \in Attempts, ~GPR!In(u, {"idle"})'
      PROVE  Named(GPR!Cmd(u))' /\ (GPR!Cmd(u).kind = "approve" => Informed(u))'
             /\ (GPR!In(u, {"reading"}) => GPR!Cmd(u).kind = "approve")'
  <2>1. ~GPR!In(u, {"idle"}) /\ (GPR!In(u, {"reading"})' <=> GPR!In(u, {"reading"}))
    BY <1>2, <1>3, <1>5, <1>8 DEF GPR!In
  <2> QED BY <1>1, <1>4, <1>6, <2>1 DEF DraftingInv, Informed
<1>9. ASSUME NEW u \in Attempts, Holds(u)' PROVE StillHolds(GPR!Cmd(u))'
  <2>1. CASE u = t
    <3>1. phase = "checked"
      BY <1>2, <1>3, <1>9, <2>1 DEF Holds, GPR!In
    <3> QED BY <1>4, <1>6, <2>1, <3>1
  <2>2. CASE u # t
    BY <1>4, <1>5, <1>6, <1>9, <2>2 DEF DraftingInv, Holds
  <2> QED BY <2>1, <2>2
<1> QED BY <1>1, <1>3, <1>6, <1>7, <1>8, <1>9 DEF DraftingInv

LEMMA DrafterRefused ==
  ASSUME DraftingInv, NEW t \in Attempts, GPR!Refuse(t)
  PROVE  DraftingInv'
<1>1. UNCHANGED <<revisions, units, reasons, sent>> /\ clerks' = [clerks EXCEPT ![t] = GPR!Idle]
  BY DEF GPR!Refuse
<1>2. /\ clerks' \in [Attempts -> GPR!Attempt] /\ DraftersApart'
      /\ \A u \in Attempts : ~GPR!In(u, {"idle"})' =>
           /\ u # t /\ ~GPR!In(u, {"idle"}) /\ GPR!Cmd(u)' = GPR!Cmd(u)
           /\ Holds(u)' => Holds(u)
           /\ GPR!In(u, {"reading"})' <=> GPR!In(u, {"reading"})
  BY <1>1, DrafterEnds
<1>3. Drafted' /\ (\A c : Named(c)' = Named(c)) /\ (\A c : StillHolds(c)' = StillHolds(c))
  BY <1>1, RowsKeep
<1>4. \A u \in Attempts : ~GPR!In(u, {"idle"})' =>
        Named(GPR!Cmd(u))' /\ (GPR!Cmd(u).kind = "approve" => Informed(u))'
             /\ (GPR!In(u, {"reading"}) => GPR!Cmd(u).kind = "approve")'
  BY <1>1, <1>2, <1>3 DEF DraftingInv, Informed
<1>5. \A u \in Attempts : Holds(u)' => StillHolds(GPR!Cmd(u))'
  <2> SUFFICES ASSUME NEW u \in Attempts, Holds(u)' PROVE StillHolds(GPR!Cmd(u))'
    OBVIOUS
  <2>1. ~GPR!In(u, {"idle"})'
    BY DEF Holds, GPR!In
  <2> QED BY <1>2, <1>3, <2>1 DEF DraftingInv
<1> QED BY <1>1, <1>2, <1>3, <1>4, <1>5 DEF DraftingInv

-----------------------------------------------------------------------------
(* The invariant of the schedule and what it implies *)

LEMMA ScheduleInitially == GPR!ScheduleAssumption /\ GPR!Init => DraftingInv
<1> SUFFICES ASSUME GPR!ScheduleAssumption, GPR!Init PROVE DraftingInv
  OBVIOUS
<1>1. GPR!Numbers = {} /\ DOMAIN reasons = {} /\ Len(revisions) = 0
  BY DEF GPR!Init, GPR!Numbers
<1>2. Drafted
  BY <1>1 DEF GPR!Init, Drafted, GPR!DraftCorrectsTheBaseline, GPR!ReasonsExplainABaseline,
     GPR!With, GPR!ScheduleAssumption
<1>3. clerks \in [Attempts -> GPR!Attempt] /\ \A t \in Attempts : GPR!In(t, {"idle"})
  BY DEF GPR!Init, GPR!Attempt, GPR!Idle, GPR!In
<1>4. ASSUME NEW t \in Attempts PROVE ~Shares(t) /\ ~Holds(t)
  BY <1>3 DEF Shares, Holds, GPR!In
<1> QED BY <1>2, <1>3, <1>4 DEF GPR!Init, DraftingInv, DraftersApart, GPR!ScheduleAssumption

\* What is checked holds when the check is made.
LEMMA CheckedStillHolds ==
  ASSUME GPR!ScheduleAssumption, DraftingInv, NEW t \in Attempts, GPR!In(t, {"coordinated"}),
         GPR!Allowed(GPR!Cmd(t))
  PROVE  StillHolds(GPR!Cmd(t))
<1>1. PICK cmd \in GPR!Command : cmd = GPR!Cmd(t) /\ Named(cmd) /\ GPR!Allowed(cmd)
  BY DrafterHasCommand DEF DraftingInv, GPR!In
<1>2. ASSUME cmd.kind = "add" PROVE Fits(cmd)
  <2>1. GPR!CanAdd(cmd) /\ cmd.scope \in GPR!Scopes
    BY <1>1, <1>2 DEF GPR!Allowed, Named
  <2>2. GPR!Draft \in GPR!Numbers
    BY <2>1, TheDraft DEF GPR!CanAdd, DraftingInv
  <2>3. \A u \in GPR!ScopesOf(GPR!Draft) \cap Units : u \in units
    BY <2>2 DEF DraftingInv, Drafted, Coherent, GPR!ScopesOf
  <2>4. ASSUME NEW u \in GPR!ScopesOf(GPR!Draft) \cap Units PROVE WorkOf[u] # cmd.scope
    <3>1. CASE cmd.scope \in Units
      BY <3>1 DEF GPR!ScheduleAssumption
    <3>2. CASE cmd.scope \notin Units
      BY <2>1, <2>3, <2>4, <3>2 DEF GPR!CanAdd, GPR!WithUnits
    <3> QED BY <3>1, <3>2
  <2> QED BY <2>1, <2>4 DEF GPR!CanAdd, Fits
<1> QED BY <1>1, <1>2 DEF StillHolds

LEMMA ScheduleStep == GPR!ScheduleAssumption /\ DraftingInv /\ [GPR!Next]_(GPR!vars) => DraftingInv'
<1> SUFFICES ASSUME GPR!ScheduleAssumption, DraftingInv, [GPR!Next]_(GPR!vars) PROVE DraftingInv'
  OBVIOUS
<1>1. CASE UNCHANGED GPR!vars
  <2>1. UNCHANGED <<revisions, units, reasons, clerks, sent>>
    BY <1>1 DEF GPR!vars
  <2>2. Drafted' /\ (\A c : Named(c)' = Named(c)) /\ (\A c : StillHolds(c)' = StillHolds(c))
    BY <2>1, RowsKeep
  <2> QED BY <2>1, <2>2 DEF DraftingInv, DraftersApart, Shares, Holds, GPR!In, GPR!Cmd, Informed
<1>2. ASSUME NEW t \in Attempts, NEW cmd \in GPR!Commands, GPR!Request(t, cmd) PROVE DraftingInv'
  BY <1>2, ScheduleRequested
<1>3. ASSUME NEW t \in Attempts, GPR!ReadEntries(t) PROVE DraftingInv'
  BY <1>3, EntriesRead
<1>4. ASSUME NEW t \in Attempts, GPR!Coordinate(t) PROVE DraftingInv'
  BY <1>4, SteppedOn DEF GPR!Coordinate, GPR!In
<1>5. ASSUME NEW t \in Attempts, GPR!LockAndCheck(t) PROVE DraftingInv'
  <2>1. /\ GPR!Goto(t, "checked") /\ GPR!In(t, {"coordinated"}) /\ GPR!ObjectIsFree(t)
        /\ StillHolds(GPR!Cmd(t))
    BY <1>5, CheckedStillHolds DEF GPR!LockAndCheck
  <2>2. ~GPR!In(t, {"idle", "reading"}) /\ Shares(t)
    BY <2>1 DEF GPR!In, Shares
  <2> QED BY <2>1, <2>2, SteppedOn
<1>6. ASSUME NEW t \in Attempts, GPR!Refuse(t) PROVE DraftingInv'
  BY <1>6, DrafterRefused
<1>7. ASSUME NEW t \in Attempts, GPR!CreateDraft(t) PROVE DraftingInv'
  BY <1>7, CreateDraftCommits
<1>8. ASSUME NEW t \in Attempts, GPR!AddEntry(t) PROVE DraftingInv'
  BY <1>8, AddEntryCommits
<1>9. ASSUME NEW t \in Attempts, GPR!EditEntry(t) PROVE DraftingInv'
  BY <1>9, EditEntryCommits
<1>10. ASSUME NEW t \in Attempts, GPR!RemoveEntry(t) PROVE DraftingInv'
  BY <1>10, RemoveEntryCommits
<1>11. ASSUME NEW t \in Attempts, GPR!DiscardDraft(t) PROVE DraftingInv'
  BY <1>11, DiscardDraftCommits
<1>12. ASSUME NEW t \in Attempts, GPR!ApproveDraft(t) PROVE DraftingInv'
  BY <1>12, ApproveDraftCommits
<1>13. ASSUME NEW t \in Attempts, GPR!RecordReason(t) PROVE DraftingInv'
  BY <1>13, RecordReasonCommits
<1>14. ASSUME NEW t \in Attempts, GPR!ResolveReason(t) PROVE DraftingInv'
  BY <1>14, ResolveReasonCommits
<1>15. ASSUME NEW t \in Attempts, GPR!CreateExecutionUnit(t) PROVE DraftingInv'
  BY <1>15, CreateExecutionUnitCommits
<1> QED BY <1>1, <1>2, <1>3, <1>4, <1>5, <1>6, <1>7, <1>8, <1>9, <1>10, <1>11, <1>12, <1>13,
           <1>14, <1>15 DEF GPR!Next

\* The draft of an approval is the one its page shows.
LEMMA ApprovedAsSeen ==
  ASSUME DraftingInv, NEW t \in Attempts, GPR!ApproveDraft(t), GPR!Draft = GPR!Cmd(t).id
  PROVE  revisions[GPR!Draft].entries = GPR!Cmd(t).seen
<1>1. GPR!Committing(t, "approve")
  BY DEF GPR!ApproveDraft
<1>2. revisions[GPR!Draft].version = GPR!Cmd(t).version /\ GPR!In(t, {"checked"})
      /\ GPR!Cmd(t).kind = "approve"
  BY <1>1, Committer DEF StillHolds, GPR!Allowed, GPR!CanApprove, GPR!SeenDraft, Holds
<1>3. Informed(t) /\ ~GPR!In(t, {"reading"})
  BY <1>2 DEF DraftingInv, GPR!In
<1> QED BY <1>2, <1>3 DEF Informed

\* What no step does to the revisions there are.
HistoryKept == GPR!HistoryIsFrozen /\ GPR!WholeWorksHaveNoUnits

\* A draft is all that is rewritten, and stays one or is discarded.
LEMMA RewritingADraft ==
  ASSUME Drafted, NEW n \in GPR!Numbers, GPR!Is(n, "DRAFT"), NEW row,
         revisions' = [revisions EXCEPT ![n] = row], row.status # "APPROVED"
  PROVE  HistoryKept
<1>1. revisions'[n] = row /\ \A m \in GPR!Numbers \ {n} : revisions'[m] = revisions[m]
  BY DEF Drafted, GPR!Numbers
<1> QED BY <1>1 DEF HistoryKept, GPR!HistoryIsFrozen, GPR!WholeWorksHaveNoUnits, GPR!Is

\* Rows that are not written stay frozen.
LEMMA HistoryStands ==
  ASSUME \A n \in GPR!Numbers : revisions'[n] = revisions[n]
  PROVE  HistoryKept
BY DEF HistoryKept, GPR!HistoryIsFrozen, GPR!WholeWorksHaveNoUnits, GPR!Is

LEMMA StatusMoved ==
  ASSUME Drafted, NEW n \in GPR!Numbers, NEW status, NEW entries
  PROVE  GPR!Moved(n, status, entries).status = status
<1>1. PICK row \in GPR!Revision : row = revisions[n]
  BY RevisionRow
<1>2. PICK moved : moved = [row EXCEPT !.status = status, !.entries = entries,
                                       !.version = row.version + 1]
  OBVIOUS
<1>3. moved.status = status
  BY <1>2 DEF GPR!Revision
<1> QED BY <1>1, <1>2, <1>3 DEF GPR!Moved

\* A draft's entries may be rewritten: it is no history yet.
LEMMA TouchFreezes ==
  ASSUME Drafted, NEW n \in GPR!Numbers, GPR!Is(n, "DRAFT"), NEW entries, GPR!Touch(n, entries)
  PROVE  HistoryKept
<1>1. GPR!Moved(n, "DRAFT", entries).status = "DRAFT"
  BY StatusMoved
<1> QED BY <1>1, RewritingADraft DEF GPR!Touch, GPR!Is

\* An approval only replaces the baseline and finds no unit of a work planned whole.
LEMMA ApprovalFreezes ==
  ASSUME DraftingInv, NEW t \in Attempts, GPR!ApproveDraft(t)
  PROVE  HistoryKept
<1>1. GPR!CanApprove(GPR!Cmd(t)) /\ GPR!HasDraft /\ Drafted
  BY Committer DEF GPR!ApproveDraft, StillHolds, GPR!Allowed, GPR!CanApprove, GPR!SeenDraft
<1>2. \A n \in GPR!Numbers : ApprovedRow(n)
  BY <1>1, ApprovedRows DEF GPR!ApproveDraft
<1>3. GPR!Is(GPR!Current, "APPROVED") \/ GPR!Current \notin GPR!Numbers
  <2>1. 0 \notin GPR!Numbers
    BY <1>1, RevisionRow
  <2> QED BY <1>1, <2>1, TheBaseline
<1>4. GPR!With("DRAFT") = {GPR!Draft} /\ GPR!Draft # GPR!Current
  BY <1>1, TheDraft, TheDraftIsNoBaseline
<1>5. GPR!HistoryIsFrozen
  BY <1>2, <1>3, <1>4 DEF GPR!HistoryIsFrozen, ApprovedRow, GPR!With, GPR!Is
<1>6. GPR!WholeWorksHaveNoUnits
  BY <1>1, <1>4 DEF GPR!WholeWorksHaveNoUnits, GPR!CanApprove, GPR!With
<1> QED BY <1>5, <1>6 DEF HistoryKept

\* No step rewrites what is approved, replaced or discarded.
LEMMA StepsFreeze ==
  ASSUME DraftingInv, GPR!Next
  PROVE  HistoryKept
<1>1. CASE UNCHANGED revisions
  BY <1>1, HistoryStands
<1>2. ASSUME NEW t \in Attempts, GPR!CreateDraft(t) PROVE HistoryKept
  BY <1>2, AppendProperties, HistoryStands DEF GPR!CreateDraft, DraftingInv, Drafted, GPR!Numbers
<1>3. ASSUME NEW t \in Attempts, GPR!AddEntry(t) PROVE HistoryKept
  <2>1. GPR!Committing(t, "add")
        /\ GPR!Touch(GPR!Draft, GPR!Put(revisions[GPR!Draft].entries, GPR!Cmd(t), 1))
    BY <1>3 DEF GPR!AddEntry
  <2>2. GPR!HasDraft /\ Drafted
    BY <2>1, Committer DEF StillHolds, Fits
  <2> QED BY <2>1, <2>2, TheDraft, TouchFreezes
<1>4. ASSUME NEW t \in Attempts, GPR!EditEntry(t) PROVE HistoryKept
  <2>1. GPR!Committing(t, "edit") /\ \E entries : GPR!Touch(GPR!Cmd(t).id, entries)
    BY <1>4 DEF GPR!EditEntry
  <2>2. GPR!Cmd(t).id \in GPR!Numbers /\ GPR!Is(GPR!Cmd(t).id, "DRAFT") /\ Drafted
    BY <2>1, Committer DEF StillHolds, GPR!Allowed, GPR!CanEdit, GPR!CanTouch, Named
  <2> QED BY <2>1, <2>2, TouchFreezes
<1>5. ASSUME NEW t \in Attempts, GPR!RemoveEntry(t) PROVE HistoryKept
  <2>1. GPR!Committing(t, "remove") /\ \E entries : GPR!Touch(GPR!Cmd(t).id, entries)
    BY <1>5 DEF GPR!RemoveEntry
  <2>2. GPR!Cmd(t).id \in GPR!Numbers /\ GPR!Is(GPR!Cmd(t).id, "DRAFT") /\ Drafted
    BY <2>1, Committer DEF StillHolds, GPR!Allowed, GPR!CanRemove, GPR!CanTouch, Named
  <2> QED BY <2>1, <2>2, TouchFreezes
<1>6. ASSUME NEW t \in Attempts, GPR!DiscardDraft(t) PROVE HistoryKept
  <2>1. GPR!Committing(t, "discard")
        /\ revisions' = [revisions EXCEPT ![GPR!Draft] = GPR!Marked(GPR!Draft, "DISCARDED")]
    BY <1>6 DEF GPR!DiscardDraft
  <2>2. GPR!HasDraft /\ Drafted
    BY <2>1, Committer DEF StillHolds, GPR!Allowed, GPR!SeenDraft
  <2>3. GPR!Draft \in GPR!Numbers /\ GPR!Is(GPR!Draft, "DRAFT")
        /\ GPR!Marked(GPR!Draft, "DISCARDED").status = "DISCARDED"
    BY <2>2, TheDraft, StatusMoved DEF GPR!Marked
  <2> QED BY <2>1, <2>2, <2>3, RewritingADraft
<1>7. ASSUME NEW t \in Attempts, GPR!ApproveDraft(t) PROVE HistoryKept
  BY <1>7, ApprovalFreezes
<1> QED BY <1>1, <1>2, <1>3, <1>4, <1>5, <1>6, <1>7 DEF GPR!Next, GPR!Request, GPR!ReadEntries,
           GPR!Coordinate, GPR!LockAndCheck, GPR!Goto, GPR!Refuse, GPR!RecordReason,
           GPR!ResolveReason, GPR!CreateExecutionUnit

\* The invariant, for any number of processes, works and units.
THEOREM RevisionsInvariance == ASSUME GPR!ScheduleAssumption PROVE GPR!Spec => []DraftingInv
<1>1. GPR!Init => DraftingInv
  BY ScheduleInitially
<1>2. DraftingInv /\ [GPR!Next]_(GPR!vars) => DraftingInv'
  BY ScheduleStep
<1> QED BY <1>1, <1>2, PTL DEF GPR!Spec, GPR!vars

\* A draft corrects the baseline in force and is approved as it was looked at;
\* what is approved or discarded stays as it is, and no revision plans a work
\* twice or follows itself.
THEOREM RevisionsStaySound ==
  ASSUME GPR!ScheduleAssumption
  PROVE  GPR!Spec => RevisionsAreSound
<1>1. DraftingInv =>
        /\ GPR!TypeOK /\ GPR!DraftCorrectsTheBaseline
        /\ GPR!ReasonsExplainABaseline /\ GPR!RevisionsAreConsistent
  BY DEF DraftingInv, Drafted, GPR!TypeOK, GPR!RevisionsAreConsistent, Coherent, GPR!ScopesOf
<1>2. DraftingInv /\ [GPR!Next]_(GPR!vars) =>
        [GPR!SameDraftAsSeen /\ GPR!HistoryIsFrozen /\ GPR!WholeWorksHaveNoUnits]_(GPR!vars)
  BY StepsFreeze, ApprovedAsSeen DEF GPR!SameDraftAsSeen, HistoryKept
<1> QED BY <1>1, <1>2, RevisionsInvariance, PTL DEF GPR!Spec, GPR!vars, RevisionsAreSound,
           drafting

-----------------------------------------------------------------------------
(* Generation: the inductive invariant                                     *)

Working(t) == Space!In(t, "checked")

\* Every area is older than its parts, and the parents of active areas are active.
TreeStands ==
  /\ areas \in Seq(Space!Area) /\ Len(areas) <= MaxAreas
  /\ \A a \in DOMAIN areas :
       /\ areas[a].parent < a
       /\ areas[a].active /\ areas[a].parent # 0 => areas[areas[a].parent].active

\* The parts of a measured area never measure more than it.
PartsFit ==
  \A a \in DOMAIN areas :
    areas[a].measure > 0 => Space!Measured(Space!Children(a)) <= areas[a].measure

MadeWork == [op : Operations, quantity : 1..MaxQuantity]

Catalogued ==
  /\ editions \in Seq(Systems) /\ Len(editions) <= MaxVersions
  /\ made \in Seq(MadeWork)
  /\ scope \in Nat /\ generated \in 0..MaxGenerating

\* A producer is of a work there is and on an active area; a main one produces
\* what the area measures.
PlacesHold ==
  /\ IsFiniteSet(bindings)
  /\ \A b \in bindings :
       /\ b \in Space!Binding
       /\ b.work \in DOMAIN made
       /\ b.area \in DOMAIN areas /\ areas[b.area].active
       /\ b.scope = "MAIN" => b.basis = areas[b.area].measure

\* What a client asks for is about areas and a version that are there.
RequestFits(r) ==
  /\ r.version \in DOMAIN editions
  /\ r.perArea \in BOOLEAN
  /\ \A l \in r.local : l.quantity \in Nat

CommandFits(cmd) ==
  /\ cmd.kind \in {"area", "retire", "upsert", "work", "confirm"}
  /\ cmd.kind = "area" => cmd.parent \in 0..Len(areas) /\ cmd.measure \in Nat
  /\ cmd.kind = "retire" => cmd.area \in DOMAIN areas
  /\ cmd.kind = "upsert" => cmd.stages \in Systems
  /\ cmd.kind = "work" => cmd.op \in Operations
  /\ cmd.kind = "confirm" => RequestFits(cmd.preview.request)

\* A work proposed is of one stage; its places are areas that are there, each
\* once, and its quantity is what they have together.
WorkIsWhole(w) ==
  /\ w.key \in Keys /\ w.op \in Operations /\ w.scope \in {"MAIN", "LOCAL"}
  /\ w.quantity \in 1..MaxQuantity /\ w.quantity = Space!Total(w.places)
  /\ IsFiniteSet(w.places)
  /\ \A q \in w.places :
       /\ q = [area |-> q.area, quantity |-> q.quantity]
       /\ q.area \in DOMAIN areas /\ q.quantity \in Nat
       /\ w.scope = "MAIN" => q.quantity = areas[q.area].measure

\* The places proposed for a stage neither repeat nor contain one another.
PlacesApart(proposed) ==
  \A v, w \in proposed : v.key = w.key =>
    \A p \in v.places, q \in w.places :
      /\ p.area \notin Space!Ancestors(q.area)
      /\ p.area = q.area => v = w /\ p = q

ProposalStands(p) ==
  /\ IsFiniteSet(p.proposed)
  /\ \A w \in p.proposed : WorkIsWhole(w)
  /\ PlacesApart(p.proposed)

\* What still holds, when a command commits, of what was checked.
CheckStands(cmd) ==
  /\ cmd.kind = "area" /\ cmd.parent # 0 =>
       /\ areas[cmd.parent].active
       /\ areas[cmd.parent].measure = 0 \/ cmd.measure = 0 \/
          Space!Measured(Space!Children(cmd.parent)) + cmd.measure <= areas[cmd.parent].measure
  /\ cmd.kind = "retire" =>
       Space!Children(cmd.area) = {} /\ \A b \in bindings : b.area # cmd.area
  /\ cmd.kind = "upsert" => Len(editions) < MaxVersions
  /\ cmd.kind = "confirm" => ProposalStands(cmd.preview)

HandsHold ==
  /\ DOMAIN builders = Attempts
  /\ \A t \in Attempts :
       \/ builders[t] = Space!Idle
       \/ /\ builders[t] = [phase |-> builders[t].phase, cmd |-> builders[t].cmd]
          /\ builders[t].phase \in {"begun", "checked"}
          /\ CommandFits(Space!Cmd(t))
  /\ \A t \in Attempts : Working(t) => CheckStands(Space!Cmd(t))
  /\ \A t, u \in Attempts : t # u /\ Working(t) /\ Working(u) =>
       ~Space!Conflict(Space!Cmd(t), Space!Cmd(u))

PlaceRows == TreeStands /\ PartsFit /\ Catalogued /\ PlacesHold /\ Space!OneProducerPerPlace
/\ Space!WorksAddUp
SpaceInv == PlaceRows /\ HandsHold

-----------------------------------------------------------------------------
(* Generation: sums                                                        *)

LEMMA SumIsCount ==
  ASSUME NEW f, NEW S
  PROVE  Space!SumOver(f, S) = Cardinality(Space!UnitsOf(f, S))
  BY DEF Space!SumOver, Space!Cardinality, Cardinality

LEMMA UnitsOfATerm ==
  ASSUME NEW x, NEW n \in Nat
  PROVE  IsFiniteSet({x} \X (1..n)) /\ Cardinality({x} \X (1..n)) = n
  <1>1. IsFiniteSet({x}) /\ Cardinality({x}) = 1
    BY FS_Singleton
  <1>2. IsFiniteSet(1..n) /\ Cardinality(1..n) = n
    BY FS_Interval
  <1>3. /\ IsFiniteSet({x} \X (1..n))
        /\ Cardinality({x} \X (1..n)) = Cardinality({x}) * Cardinality(1..n)
    BY <1>1, <1>2, FS_Product
  <1>4. 1 * n = n
    OBVIOUS
  <1>5. QED
    BY <1>1, <1>2, <1>3, <1>4

(* A finite sum of quantities is a quantity.                               *)
LEMMA SumIsNatural ==
  ASSUME NEW S, IsFiniteSet(S), NEW f, \A x \in S : f[x] \in Nat
  PROVE  IsFiniteSet(Space!UnitsOf(f, S)) /\ Space!SumOver(f, S) \in Nat
  <1>1. IsFiniteSet({{x} \X (1..f[x]) : x \in S})
    <2> DEFINE of == [x \in S |-> {x} \X (1..f[x])]
    <2>1. of \in Surjection(S, {{x} \X (1..f[x]) : x \in S})
      BY DEF Surjection
    <2> HIDE DEF of
    <2>2. QED
      BY <2>1, FS_Surjection
  <1>2. \A x \in S : IsFiniteSet({x} \X (1..f[x]))
    BY UnitsOfATerm
  <1>3. IsFiniteSet(Space!UnitsOf(f, S))
    BY <1>1, <1>2, FS_UNION DEF Space!UnitsOf
  <1>4. QED
    BY <1>3, FS_CardinalityType, SumIsCount

(* Where every term of one sum is a term of another, that is no less.      *)
LEMMA SumOfFewer ==
  ASSUME NEW S, NEW T, IsFiniteSet(T), NEW f, NEW g, \A y \in T : g[y] \in Nat,
         NEW h \in [S -> T], \A x, y \in S : h[x] = h[y] => x = y,
         \A x \in S : f[x] = g[h[x]]
  PROVE  Space!SumOver(f, S) <= Space!SumOver(g, T)
  <1> DEFINE A == Space!UnitsOf(f, S)
             B == Space!UnitsOf(g, T)
             m == [u \in A |-> <<h[u[1]], u[2]>>]
  <1>1. \A u : u \in A <=> \E x \in S : \E i \in 1..f[x] : u = <<x, i>>
    BY DEF Space!UnitsOf
  <1>2. \A u : u \in B <=> \E y \in T : \E i \in 1..g[y] : u = <<y, i>>
    BY DEF Space!UnitsOf
  <1>3. \A u \in A : u[1] \in S /\ u[2] \in 1..f[u[1]] /\ u = <<u[1], u[2]>>
    BY <1>1
  <1> HIDE DEF A, B
  <1>4. m \in [A -> B]
    <2>1. SUFFICES ASSUME NEW u \in A PROVE <<h[u[1]], u[2]>> \in B
      OBVIOUS
    <2>2. h[u[1]] \in T /\ u[2] \in 1..g[h[u[1]]]
      BY <1>3
    <2>3. QED
      BY <2>2, <1>2
  <1>5. \A u, v \in A : m[u] = m[v] => u = v
    <2>1. SUFFICES ASSUME NEW u \in A, NEW v \in A, m[u] = m[v] PROVE u = v
      OBVIOUS
    <2>2. h[u[1]] = h[v[1]] /\ u[2] = v[2]
      BY <2>1
    <2>3. u[1] = v[1]
      BY <2>2, <1>3
    <2>4. QED
      BY <2>2, <2>3, <1>3
  <1> HIDE DEF m
  <1>6. m \in Injection(A, B)
    BY <1>4, <1>5 DEF Injection, IsInjective
  <1>7. IsFiniteSet(B)
    BY SumIsNatural DEF B
  <1>8. Cardinality(A) <= Cardinality(B)
    BY <1>6, <1>7, FS_Injection
  <1>9. QED
    BY <1>8, SumIsCount DEF A, B

(* A part of the terms add up to no more.                                  *)
LEMMA SumOfPart ==
  ASSUME NEW S, NEW T, S \subseteq T, IsFiniteSet(T), NEW f, NEW g,
         \A y \in T : g[y] \in Nat, \A x \in S : f[x] = g[x]
  PROVE  Space!SumOver(f, S) <= Space!SumOver(g, T)
  <1> DEFINE h == [x \in S |-> x]
  <1>1. h \in [S -> T] /\ (\A x, y \in S : h[x] = h[y] => x = y) /\ \A x \in S : f[x] = g[h[x]]
    OBVIOUS
  <1> HIDE DEF h
  <1>2. QED
    BY <1>1, SumOfFewer

(* Sums of the same terms are the same.                                    *)
LEMMA SumOfTheSame ==
  ASSUME NEW S, NEW f, NEW g, \A x \in S : f[x] = g[x]
  PROVE  Space!SumOver(f, S) = Space!SumOver(g, S)
  <1>1. Space!UnitsOf(f, S) = Space!UnitsOf(g, S)
    BY DEF Space!UnitsOf
  <1>2. QED
    BY <1>1, SumIsCount

(* Of nothing the sum is nothing, of one term it is the term.              *)
LEMMA SumOfOne ==
  ASSUME NEW f, NEW x, f[x] \in Nat
  PROVE  Space!SumOver(f, {}) = 0 /\ Space!SumOver(f, {x}) = f[x]
  <1>1. Space!UnitsOf(f, {}) = {} /\ Space!UnitsOf(f, {x}) = {x} \X (1..f[x])
    BY DEF Space!UnitsOf
  <1>2. Cardinality({}) = 0 /\ Cardinality({x} \X (1..f[x])) = f[x]
    BY FS_EmptySet, UnitsOfATerm
  <1>3. Space!SumOver(f, {}) = Cardinality(Space!UnitsOf(f, {}))
    BY SumIsCount
  <1>4. Space!SumOver(f, {x}) = Cardinality(Space!UnitsOf(f, {x}))
    BY SumIsCount
  <1>5. QED
    BY <1>1, <1>2, <1>3, <1>4

(* One more term adds its amount.                                          *)
LEMMA SumOfOneMore ==
  ASSUME NEW S, IsFiniteSet(S), NEW f, \A x \in S : f[x] \in Nat,
         NEW y, y \notin S, f[y] \in Nat
  PROVE  Space!SumOver(f, S \cup {y}) = Space!SumOver(f, S) + f[y]
  <1> DEFINE A == Space!UnitsOf(f, S)
             B == {y} \X (1..f[y])
  <1>1. Space!UnitsOf(f, S \cup {y}) = A \cup B
    BY DEF Space!UnitsOf
  <1>2. A \cap B = {}
    BY DEF Space!UnitsOf
  <1>3. /\ IsFiniteSet(A) /\ Cardinality(A) \in Nat
        /\ IsFiniteSet(B) /\ Cardinality(B) = f[y]
    BY SumIsNatural, SumIsCount, UnitsOfATerm
  <1> HIDE DEF A, B
  <1>4. Cardinality(A \cap B) = 0
    BY <1>2, FS_EmptySet
  <1>5. Cardinality(A \cup B) = Cardinality(A) + Cardinality(B) - Cardinality(A \cap B)
    BY <1>3, FS_Union
  <1>6. Cardinality(A \cup B) = Cardinality(A) + f[y]
    BY <1>3, <1>4, <1>5
  <1>7. QED
    BY <1>1, <1>6, SumIsCount DEF A

-----------------------------------------------------------------------------
(* Generation: the tree of areas                                           *)

LEMMA LeastNumber ==
  ASSUME NEW S, S \subseteq Nat, S # {}
  PROVE  \E x \in S : \A y \in S : x <= y
  <1>1. IsWellFoundedOn(OpToRel(<, Nat), Nat)
    BY NatLessThanWellFounded
  <1>2. PICK x \in S : \A y \in S : ~(<<y, x>> \in OpToRel(<, Nat))
    BY <1>1, WFMin
  <1>3. \A y \in S : <<y, x>> \in OpToRel(<, Nat) <=> y < x
    BY <1>2 DEF OpToRel
  <1>4. \A y \in S : ~(y < x)
    BY <1>2, <1>3
  <1>5. QED
    BY <1>4

\* A set with the parent of an area, if it has one, and the parents of its own.
HoldsTheParents(tree, a, S) ==
  /\ tree[a].parent \in S \cup {0}
  /\ \A b \in S : tree[b].parent \in S \cup {0}

\* What Ancestors computes, of any tree, and the least of those sets.
AncestorsIn(tree, a) ==
  LET up[b \in DOMAIN tree] ==
        IF tree[b].parent = 0 THEN {} ELSE {tree[b].parent} \cup up[tree[b].parent]
  IN  up[a]
LeastAncestors(tree, a) ==
  {b \in DOMAIN tree : \A S \in SUBSET (DOMAIN tree) : HoldsTheParents(tree, a, S) => b \in S}

IsTree(tree) ==
  \E n \in Nat : DOMAIN tree = 1..n /\ \A a \in 1..n : tree[a].parent \in 0..(a - 1)

LEMMA LeastAncestorsUnfold ==
  ASSUME NEW tree, IsTree(tree), NEW a \in DOMAIN tree
  PROVE  LeastAncestors(tree, a) =
           IF tree[a].parent = 0 THEN {}
           ELSE {tree[a].parent} \cup LeastAncestors(tree, tree[a].parent)
  <1> DEFINE p == tree[a].parent
  <1>1. p \in {0} \cup DOMAIN tree
    BY DEF IsTree
  <1>2. CASE p = 0
    <2>1. HoldsTheParents(tree, a, {})
      BY <1>2 DEF HoldsTheParents
    <2>2. QED
      BY <1>2, <2>1 DEF LeastAncestors
  <1>3. CASE p # 0
    <2>1. p \in DOMAIN tree
      BY <1>1, <1>3
    <2>2. \A S \in SUBSET (DOMAIN tree) :
            HoldsTheParents(tree, a, S) => p \in S /\ HoldsTheParents(tree, p, S)
      BY <1>3 DEF HoldsTheParents
    <2>3. \A S \in SUBSET (DOMAIN tree) :
            HoldsTheParents(tree, p, S) => HoldsTheParents(tree, a, S \cup {p})
      BY <1>3 DEF HoldsTheParents
    <2>4. ASSUME NEW x \in DOMAIN tree
          PROVE  x \in LeastAncestors(tree, a) <=> x = p \/ x \in LeastAncestors(tree, p)
      <3>1. ASSUME x \in LeastAncestors(tree, a), x # p
            PROVE  x \in LeastAncestors(tree, p)
        <4>1. SUFFICES ASSUME NEW S \in SUBSET (DOMAIN tree), HoldsTheParents(tree, p, S)
                       PROVE  x \in S
          BY DEF LeastAncestors
        <4>2. S \cup {p} \in SUBSET (DOMAIN tree) /\ HoldsTheParents(tree, a, S \cup {p})
          BY <4>1, <2>1, <2>3
        <4>3. x \in S \cup {p}
          BY <4>2, <3>1 DEF LeastAncestors
        <4>4. QED
          BY <4>3, <3>1
      <3>2. ASSUME x = p \/ x \in LeastAncestors(tree, p)
            PROVE  x \in LeastAncestors(tree, a)
        BY <3>2, <2>2 DEF LeastAncestors
      <3>3. QED
        BY <3>1, <3>2
    <2>5. LeastAncestors(tree, a) \subseteq DOMAIN tree /\ LeastAncestors(tree, p)
            \subseteq DOMAIN tree
      BY DEF LeastAncestors
    <2>6. LeastAncestors(tree, a) = {p} \cup LeastAncestors(tree, p)
      BY <2>1, <2>4, <2>5
    <2>7. QED
      BY <1>3, <2>6
  <1>4. QED
    BY <1>2, <1>3

(* What the code computes is the least set.                                *)
LEMMA AncestorsAreLeast ==
  ASSUME NEW tree, IsTree(tree), NEW a \in DOMAIN tree
  PROVE  AncestorsIn(tree, a) = LeastAncestors(tree, a)
  <1> DEFINE Step_(f) == [b \in DOMAIN tree |->
                 IF tree[b].parent = 0 THEN {} ELSE {tree[b].parent} \cup f[tree[b].parent]]
             F == [b \in DOMAIN tree |-> LeastAncestors(tree, b)]
             up == CHOOSE f : f = Step_(f)
             D == {b \in DOMAIN tree : up[b] # LeastAncestors(tree, b)}
  <1>1. AncestorsIn(tree, a) = up[a]
    BY DEF AncestorsIn
  <1>2. \A b \in DOMAIN tree : tree[b].parent = 0 \/ tree[b].parent \in DOMAIN tree
    BY DEF IsTree
  <1>3. F = Step_(F)
    BY <1>2, LeastAncestorsUnfold
  <1>4. up = Step_(up)
    <2> HIDE DEF F, Step_
    <2>1. QED
      BY <1>3
  <1>5. \A b \in DOMAIN tree :
          up[b] = IF tree[b].parent = 0 THEN {} ELSE {tree[b].parent} \cup up[tree[b].parent]
    BY <1>4
  <1> HIDE DEF up
  <1>6. D = {}
    <2>1. SUFFICES ASSUME D # {} PROVE FALSE
      OBVIOUS
    <2>2. D \subseteq Nat
      BY DEF IsTree
    <2>3. PICK x \in D : \A y \in D : x <= y
      BY <2>1, <2>2, LeastNumber
    <2>4. x \in DOMAIN tree /\ up[x] # LeastAncestors(tree, x)
      BY <2>3
    <2>5. tree[x].parent # 0 =>
            /\ tree[x].parent \in DOMAIN tree
            /\ tree[x].parent \in Nat /\ x \in Nat /\ tree[x].parent < x
      BY <2>4 DEF IsTree
    <2>6. tree[x].parent # 0 => up[tree[x].parent] = LeastAncestors(tree, tree[x].parent)
      BY <2>5, <2>3
    <2>7. up[x] = LeastAncestors(tree, x)
      <3>1. LeastAncestors(tree, x) =
              IF tree[x].parent = 0 THEN {}
              ELSE {tree[x].parent} \cup LeastAncestors(tree, tree[x].parent)
        BY <2>4, LeastAncestorsUnfold
      <3>2. up[x] = IF tree[x].parent = 0 THEN {} ELSE {tree[x].parent} \cup up[tree[x].parent]
        BY <1>5, <2>4
      <3>3. QED
        BY <3>1, <3>2, <2>6
    <2>8. QED
      BY <2>4, <2>7
  <1>7. QED
    BY <1>1, <1>6

(* The parents are among the ancestors, and every set with them has those. *)
LEMMA AncestorsOfATree ==
  ASSUME NEW tree, IsTree(tree), NEW a \in DOMAIN tree
  PROVE  /\ AncestorsIn(tree, a) \subseteq DOMAIN tree
         /\ HoldsTheParents(tree, a, AncestorsIn(tree, a))
         /\ \A S \in SUBSET (DOMAIN tree) :
              HoldsTheParents(tree, a, S) => AncestorsIn(tree, a) \subseteq S
  <1>1. AncestorsIn(tree, a) = LeastAncestors(tree, a)
    BY AncestorsAreLeast
  <1>2. \A b \in DOMAIN tree : tree[b].parent = 0 \/ tree[b].parent \in DOMAIN tree
    BY DEF IsTree
  <1>3. HoldsTheParents(tree, a, LeastAncestors(tree, a))
    BY <1>2 DEF LeastAncestors, HoldsTheParents
  <1>4. QED
    BY <1>1, <1>3 DEF LeastAncestors

(* A tree that grows or loses life keeps the ancestors of its areas.       *)
LEMMA AncestorsStay ==
  ASSUME NEW tree, IsTree(tree), NEW grown, IsTree(grown),
         DOMAIN tree \subseteq DOMAIN grown,
         \A b \in DOMAIN tree : grown[b].parent = tree[b].parent,
         NEW a \in DOMAIN tree
  PROVE  AncestorsIn(grown, a) = AncestorsIn(tree, a)
  <1> DEFINE A == AncestorsIn(tree, a)
             G == AncestorsIn(grown, a)
  <1>1. A \subseteq DOMAIN tree /\ HoldsTheParents(tree, a, A)
    BY AncestorsOfATree
  <1>2. G \subseteq DOMAIN grown /\ HoldsTheParents(grown, a, G)
    BY AncestorsOfATree
  <1>3. G \subseteq A
    <2>1. A \in SUBSET (DOMAIN grown) /\ HoldsTheParents(grown, a, A)
      BY <1>1 DEF HoldsTheParents
    <2>2. QED
      BY <2>1, AncestorsOfATree
  <1>4. A \subseteq G
    <2>1. HoldsTheParents(tree, a, G)
      BY <1>2, <1>3, <1>1 DEF HoldsTheParents
    <2>2. G \in SUBSET (DOMAIN tree)
      BY <1>1, <1>3
    <2>3. QED
      BY <2>1, <2>2, AncestorsOfATree
  <1>5. QED
    BY <1>3, <1>4

LEMMA TreeFacts ==
  ASSUME TreeStands
  PROVE  /\ IsTree(areas)
         /\ Len(areas) \in Nat /\ DOMAIN areas = 1..Len(areas)
         /\ \A a \in DOMAIN areas :
              /\ areas[a] \in Space!Area
              /\ areas[a].measure \in Nat /\ areas[a].parent \in Int
              /\ areas[a].parent \in {0} \cup DOMAIN areas
  <1>1. Len(areas) \in Nat /\ DOMAIN areas = 1..Len(areas)
    BY LenProperties DEF TreeStands
  <1>2. \A a \in DOMAIN areas : areas[a] \in Space!Area
    BY <1>1, ElementOfSeq DEF TreeStands
  <1>3. \A a \in DOMAIN areas : areas[a].parent \in 0..(a - 1)
    BY <1>1, <1>2 DEF TreeStands, Space!Area
  <1>4. IsTree(areas)
    BY <1>1, <1>3 DEF IsTree
  <1>5. \A a \in DOMAIN areas : areas[a].measure \in Nat
    BY <1>2 DEF Space!Area
  <1>6. \A a \in DOMAIN areas : areas[a].parent \in Int /\ areas[a].parent \in {0} \cup DOMAIN areas
    BY <1>1, <1>3
  <1>7. QED
    BY <1>1, <1>2, <1>4, <1>5, <1>6

LEMMA AncestorsAreOfTheTree ==
  ASSUME NEW a
  PROVE  Space!Ancestors(a) = AncestorsIn(areas, a)
  BY DEF Space!Ancestors, AncestorsIn

LEMMA PartsAreFinite ==
  ASSUME TreeStands, NEW a
  PROVE  /\ IsFiniteSet(DOMAIN areas)
         /\ Space!Children(a) \subseteq DOMAIN areas /\ IsFiniteSet(Space!Children(a))
         /\ Space!Active \subseteq DOMAIN areas /\ IsFiniteSet(Space!Active)
  <1>1. IsFiniteSet(DOMAIN areas)
    BY TreeFacts, FS_Interval
  <1>2. Space!Children(a) \subseteq DOMAIN areas /\ Space!Active \subseteq DOMAIN areas
    BY DEF Space!Children, Space!Active
  <1>3. QED
    BY <1>1, <1>2, FS_Subset

(* An active area is below active areas only, and none of them is a leaf.  *)
LEMMA NoLeafIsAbove ==
  ASSUME TreeStands, NEW y \in Space!Active, NEW x \in Space!Ancestors(y)
  PROVE  x \in Space!Active /\ Space!Children(x) # {}
  <1> DEFINE S == {b \in Space!Active : Space!Children(b) # {}}
  <1>1. S \in SUBSET (DOMAIN areas) /\ y \in DOMAIN areas
    BY DEF Space!Active
  <1>2. \A b \in Space!Active : areas[b].parent # 0 => areas[b].parent \in S
    <2>1. TAKE b \in Space!Active
    <2>2. HAVE areas[b].parent # 0
    <2>3. areas[b].parent \in DOMAIN areas
      BY <2>2, TreeFacts DEF Space!Active
    <2>4. areas[b].parent \in Space!Active
      BY <2>2, <2>3 DEF TreeStands, Space!Active
    <2>5. b \in Space!Children(areas[b].parent)
      BY DEF Space!Children
    <2>6. QED
      BY <2>4, <2>5
  <1>3. HoldsTheParents(areas, y, S)
    BY <1>2 DEF HoldsTheParents
  <1>4. AncestorsIn(areas, y) \subseteq S
    BY <1>1, <1>3, TreeFacts, AncestorsOfATree
  <1>5. QED
    BY <1>4, AncestorsAreOfTheTree

LEMMA ParentIsAbove ==
  ASSUME TreeStands, NEW a \in DOMAIN areas, NEW b \in Space!Children(a)
  PROVE  a \in Space!Ancestors(b) /\ a # b
  <1>1. b \in DOMAIN areas /\ areas[b].parent = a
    BY DEF Space!Children, Space!Active
  <1>2. HoldsTheParents(areas, b, AncestorsIn(areas, b))
    BY <1>1, TreeFacts, AncestorsOfATree
  <1>3. a \in AncestorsIn(areas, b)
    BY <1>1, <1>2, TreeFacts DEF HoldsTheParents
  <1>4. a # b
    BY <1>1, TreeFacts DEF TreeStands
  <1>5. QED
    BY <1>3, <1>4, AncestorsAreOfTheTree

(* Main works on a measured area, or on parts of it, fit it.               *)
LEMMA SpaceIsCounted ==
  ASSUME TreeStands, PartsFit, PlacesHold, Space!OneProducerPerPlace
  PROVE  Space!SpaceIsCountedOnce
  <1>1. SUFFICES ASSUME NEW a \in DOMAIN areas, areas[a].measure > 0, NEW k \in Keys
                 PROVE  LET here == {b \in bindings : b.key = k /\ b.scope = "MAIN" /\
                                                       b.area \in {a} \cup Space!Children(a)}
                        IN  Space!Produced(here) <= areas[a].measure
    BY DEF Space!SpaceIsCountedOnce, PartsFit
  <1> DEFINE here == {b \in bindings : b.key = k /\ b.scope = "MAIN" /\
                                        b.area \in {a} \cup Space!Children(a)}
             f == [b \in here |-> b.basis]
             g == [b \in Space!Children(a) |-> areas[b].measure]
  <1>2. areas[a].measure \in Nat
    BY TreeFacts
  <1>3. \A b \in here : /\ b.key = k /\ b.area \in {a} \cup Space!Children(a)
                        /\ b.area \in DOMAIN areas
                        /\ b.basis = areas[b.area].measure /\ f[b] = areas[b.area].measure
    BY DEF PlacesHold
  <1>4. \A b, c \in here : b # c => b.area # c.area /\ b.area \notin Space!Ancestors(c.area)
    BY DEF Space!OneProducerPerPlace
  <1>5. Space!Produced(here) = Space!SumOver(f, here)
    BY DEF Space!Produced
  <1> HIDE DEF here, f
  <1>6. CASE \E b \in here : b.area = a
    <2>1. PICK b \in here : b.area = a
      BY <1>6
    <2>2. \A c \in here : c = b
      <3>1. SUFFICES ASSUME NEW c \in here, c # b PROVE FALSE
        OBVIOUS
      <3>2. c.area # a /\ a \notin Space!Ancestors(c.area)
        BY <3>1, <2>1, <1>4
      <3>3. c.area \in Space!Children(a)
        BY <3>2, <1>3
      <3>4. QED
        BY <3>2, <3>3, ParentIsAbove
    <2>3. here = {b}
      BY <2>1, <2>2
    <2>4. f[b] = areas[a].measure
      BY <1>3, <2>1
    <2>5. Space!SumOver(f, {b}) = f[b]
      BY <2>4, <1>2, SumOfOne
    <2>6. QED
      BY <1>2, <1>5, <2>3, <2>4, <2>5 DEF here
  <1>7. CASE \A b \in here : b.area # a
    <2> DEFINE h == [b \in here |-> b.area]
    <2>1. IsFiniteSet(Space!Children(a)) /\ \A y \in Space!Children(a) : g[y] \in Nat
      BY PartsAreFinite, TreeFacts
    <2>2. h \in [here -> Space!Children(a)]
      BY <1>3, <1>7
    <2>3. \A x, y \in here : h[x] = h[y] => x = y
      BY <1>4
    <2>4. \A x \in here : f[x] = g[h[x]]
      BY <1>3, <1>7
    <2> HIDE DEF g, h
    <2>5. Space!SumOver(f, here) <= Space!SumOver(g, Space!Children(a))
      BY <2>1, <2>2, <2>3, <2>4, SumOfFewer
    <2>6. Space!SumOver(g, Space!Children(a)) <= areas[a].measure
      BY <1>1 DEF PartsFit, Space!Measured, g
    <2>7. Space!SumOver(f, here) \in Nat /\ Space!SumOver(g, Space!Children(a)) \in Nat
      <3>1. IsFiniteSet(here)
        BY FS_Subset DEF PlacesHold, here
      <3>2. \A x \in here : f[x] \in Nat
        BY <1>3, TreeFacts
      <3>3. QED
        BY <3>1, <3>2, <2>1, SumIsNatural
    <2>8. QED
      BY <1>2, <1>5, <2>5, <2>6, <2>7 DEF here
  <1>8. QED
    BY <1>6, <1>7 DEF here

-----------------------------------------------------------------------------
(* Generation: what a preview proposes                                     *)

LEMMA LeavesAreApart ==
  ASSUME TreeStands, NEW r
  PROVE  /\ Space!Selected(r) \subseteq Space!Active /\ IsFiniteSet(Space!Selected(r))
         /\ \A x, y \in Space!Selected(r) : x \notin Space!Ancestors(y)
  <1>1. Space!Selected(r) \subseteq Space!Active /\ \A x \in Space!Selected(r) :
          Space!Children(x) = {}
    BY DEF Space!Selected, Space!Leaves, Space!Within
  <1>2. IsFiniteSet(Space!Selected(r))
    BY <1>1, PartsAreFinite, FS_Subset
  <1>3. \A x, y \in Space!Selected(r) : x \notin Space!Ancestors(y)
    BY <1>1, NoLeafIsAbove
  <1>4. QED
    BY <1>1, <1>2, <1>3

LEMMA StagesTakenIn ==
  ASSUME Space!GenerationAssumption, Catalogued, NEW r, RequestFits(r)
  PROVE  /\ IsFiniteSet(Space!Included(r))
         /\ \A s \in Space!Included(r) : s \in Space!Stage
         /\ \A s, q \in Space!Included(r) : s.key = q.key => s = q
  <1> DEFINE system == editions[r.version]
  <1>1. system \in Systems
    BY LenProperties, ElementOfSeq DEF Catalogued, RequestFits
  <1>2. Space!Included(r) \subseteq system
    BY DEF Space!Included
  <1>3. IsFiniteSet(system) /\ system \subseteq Space!Stage /\ \A s, q \in system : s.key =
          q.key => s = q
    BY <1>1 DEF Space!GenerationAssumption, Space!IsFiniteSet, IsFiniteSet
  <1> HIDE DEF system
  <1>4. IsFiniteSet(Space!Included(r))
    BY <1>2, <1>3, FS_Subset
  <1>5. QED
    BY <1>2, <1>3, <1>4

LEMMA NothingIsBlocked ==
  ASSUME NEW r, Space!Blockers(r) = {}
  PROVE  /\ \A s \in Space!Included(r) : Space!StageBlockers(r, s) = {}
         /\ \A w \in Space!Proposed(r) : ~(w.quantity > MaxQuantity)
  <1> DEFINE found == UNION {
        IF r.version = Len(editions) THEN {} ELSE {<<"STALE", NoKey, 0>>},
        {<<"AREA_OVERLAP", NoKey, a>> : a \in {x \in r.areas :
          Space!Ancestors(x) \cap r.areas # {}}},
        UNION {Space!StageBlockers(r, s) : s \in Space!Included(r)},
        {<<"OUT_OF_RANGE", w.key, 0>> : w \in {x \in Space!Proposed(r) : x.quantity > MaxQuantity}},
        {<<"NOT_IN_SCOPE", l.key, l.area>> : l \in {x \in r.local :
           ~\E s \in Space!Included(r) : s.key = x.key /\ s.scope = "LOCAL"
           /\ x.area \in Space!Selected(r)}}}
  <1>1. found = {}
    <2>1. Space!Blockers(r) = IF found = {} /\ Space!Proposed(r) =
            {} THEN {<<"NOTHING", NoKey, 0>>} ELSE found
      BY DEF Space!Blockers
    <2> HIDE DEF found
    <2>2. QED
      BY <2>1
  <1>2. UNION {Space!StageBlockers(r, s) : s \in Space!Included(r)} = {}
    BY <1>1
  <1>3. {<<"OUT_OF_RANGE", w.key, 0>> : w \in {x \in Space!Proposed(r) :
          x.quantity > MaxQuantity}} = {}
    BY <1>1
  <1>4. QED
    BY <1>2, <1>3

LEMMA PlacesOpen ==
  ASSUME NEW r, NEW s
  PROVE  /\ Space!Open(r, s) \subseteq Space!Selected(r)
         /\ \A a \in Space!Open(r, s) : s.scope = "MAIN" \/ Space!StatedFor(r, s.key, a) # {}
  BY DEF Space!Open, Space!Applicable

(* Unless it is blocked, an open place has a quantity, of a main stage what *)
(* the area measures.                                                      *)
LEMMA QuantityOfAPlace ==
  ASSUME TreeStands, NEW r, RequestFits(r), NEW s, NEW a \in Space!Open(r, s),
         Space!StageBlockers(r, s) = {}
  PROVE  /\ Space!Quantity(r, s, a) \in Nat \ {0}
         /\ s.scope = "MAIN" => Space!Quantity(r, s, a) = areas[a].measure
  <1>1. a \in DOMAIN areas
    BY PlacesOpen, LeavesAreApart DEF Space!Active
  <1>2. s.scope = "MAIN" => Space!Quantity(r, s, a) = areas[a].measure
    BY DEF Space!Quantity
  <1>3. s.scope # "MAIN" => Space!Quantity(r, s, a) \in Nat
    <2>1. HAVE s.scope # "MAIN"
    <2>2. Space!StatedFor(r, s.key, a) # {}
      BY <2>1, PlacesOpen
    <2>3. (CHOOSE l \in Space!StatedFor(r, s.key, a) : TRUE) \in Space!StatedFor(r, s.key, a)
      BY <2>2
    <2>4. (CHOOSE l \in Space!StatedFor(r, s.key, a) : TRUE) \in r.local
      BY <2>3 DEF Space!StatedFor
    <2>5. QED
      BY <2>1, <2>4 DEF RequestFits, Space!Quantity
  <1>4. Space!Quantity(r, s, a) # 0
    <2>1. {<<"QUANTITY_MISSING", s.key, x>> : x \in {y \in Space!Open(r, s) :
            Space!Quantity(r, s, y) = 0}}
            \subseteq Space!StageBlockers(r, s)
      BY DEF Space!StageBlockers
    <2>2. QED
      BY <2>1
  <1>5. QED
    BY <1>1, <1>2, <1>3, <1>4, TreeFacts

(* Every work proposed is one stage's.                                     *)
LEMMA WorkOfAStage ==
  ASSUME TreeStands, NEW r, RequestFits(r), NEW w \in Space!Proposed(r)
  PROVE  \E s \in Space!Included(r) : \E P \in SUBSET Space!Open(r, s) :
           /\ P # {} /\ w = Space!ProposedWork(r, s, P)
           /\ r.perArea => \E a \in Space!Open(r, s) : P = {a}
           /\ ~r.perArea => P = Space!Open(r, s)
  <1>1. CASE r.perArea
    <2>1. PICK s \in Space!Included(r) : \E a \in Space!Open(r, s) : w =
                   Space!ProposedWork(r, s, {a})
      BY <1>1 DEF Space!Proposed
    <2>2. QED
      BY <1>1, <2>1
  <1>2. CASE ~r.perArea
    <2>1. PICK s \in Space!Included(r) : Space!Open(r, s) # {} /\ w =
                   Space!ProposedWork(r, s, Space!Open(r, s))
      BY <1>2 DEF Space!Proposed
    <2>2. QED
      BY <1>2, <2>1
  <1>3. QED
    BY <1>1, <1>2 DEF RequestFits

LEMMA WorkProposedIsWhole ==
  ASSUME Space!GenerationAssumption, TreeStands, Catalogued, NEW r, RequestFits(r),
         Space!Blockers(r) = {}, NEW w \in Space!Proposed(r)
  PROVE  WorkIsWhole(w)
  <1>1. PICK s \in Space!Included(r) : \E P \in SUBSET Space!Open(r, s) :
          P # {} /\ w = Space!ProposedWork(r, s, P)
    BY WorkOfAStage
  <1>2. PICK P \in SUBSET Space!Open(r, s) : P # {} /\ w = Space!ProposedWork(r, s, P)
    BY <1>1
  <1> DEFINE places == {[area |-> a, quantity |-> Space!Quantity(r, s, a)] : a \in P}
             f == [q \in places |-> q.quantity]
  <1>3. w = [key |-> s.key, op |-> s.op, scope |-> s.scope, quantity |-> Space!Total(places),
             places |-> places]
    BY <1>2 DEF Space!ProposedWork
  <1>4. s \in Space!Stage
    BY StagesTakenIn
  <1>5. Space!StageBlockers(r, s) = {} /\ ~(w.quantity > MaxQuantity)
    BY NothingIsBlocked
  <1>6. P \subseteq DOMAIN areas /\ IsFiniteSet(P)
    BY PlacesOpen, LeavesAreApart, PartsAreFinite, FS_Subset
  <1>7. \A a \in P : /\ Space!Quantity(r, s, a) \in Nat \ {0}
                     /\ s.scope = "MAIN" => Space!Quantity(r, s, a) = areas[a].measure
    BY <1>5, QuantityOfAPlace
  <1>8. \A q \in places :
          /\ q = [area |-> q.area, quantity |-> q.quantity]
          /\ q.area \in DOMAIN areas /\ q.quantity \in Nat \ {0} /\ f[q] = q.quantity
          /\ s.scope = "MAIN" => q.quantity = areas[q.area].measure
    BY <1>6, <1>7
  <1>9. IsFiniteSet(places)
    <2> DEFINE of == [a \in P |-> [area |-> a, quantity |-> Space!Quantity(r, s, a)]]
    <2>1. of \in Surjection(P, places)
      BY DEF Surjection
    <2> HIDE DEF of, places
    <2>2. QED
      BY <2>1, <1>6, FS_Surjection
  <1>10. \E q \in places : TRUE
    BY <1>2
  <1>11. Space!Total(places) = Space!SumOver(f, places)
    BY DEF Space!Total
  <1> HIDE DEF places, f
  <1>12. Space!SumOver(f, places) \in Nat
    BY <1>8, <1>9, SumIsNatural
  <1>13. Space!SumOver(f, places) >= 1
    <2>1. PICK q \in places : TRUE
      BY <1>10
    <2>2. f[q] \in Nat /\ f[q] >= 1
      BY <1>8
    <2>3. Space!SumOver(f, {q}) = f[q]
      BY <2>2, SumOfOne
    <2>4. Space!SumOver(f, {q}) <= Space!SumOver(f, places)
      BY <1>8, <1>9, SumOfPart
    <2>5. QED
      BY <2>2, <2>3, <2>4, <1>12
  <1>14. w.quantity \in 1..MaxQuantity
    BY <1>3, <1>5, <1>11, <1>12, <1>13 DEF Space!GenerationAssumption
  <1>15. s.key \in Keys /\ s.op \in Operations /\ s.scope \in {"MAIN", "LOCAL"}
    BY <1>4 DEF Space!Stage
  <1>16. QED
    BY <1>3, <1>8, <1>9, <1>14, <1>15 DEF WorkIsWhole

(* Works of one stage are the same one, or of different places.            *)
LEMMA PlacesProposedAreApart ==
  ASSUME Space!GenerationAssumption, TreeStands, Catalogued, NEW r, RequestFits(r)
  PROVE  PlacesApart(Space!Proposed(r))
  <1>1. SUFFICES ASSUME NEW v \in Space!Proposed(r), NEW w \in Space!Proposed(r), v.key = w.key,
                        NEW p \in v.places, NEW q \in w.places
                 PROVE  /\ p.area \notin Space!Ancestors(q.area)
                        /\ p.area = q.area => v = w /\ p = q
    BY DEF PlacesApart
  <1>2. PICK s \in Space!Included(r) : \E P \in SUBSET Space!Open(r, s) :
           /\ P # {} /\ v = Space!ProposedWork(r, s, P)
           /\ r.perArea => \E a \in Space!Open(r, s) : P = {a}
           /\ ~r.perArea => P = Space!Open(r, s)
    BY WorkOfAStage
  <1>3. PICK P \in SUBSET Space!Open(r, s) :
           /\ P # {} /\ v = Space!ProposedWork(r, s, P)
           /\ r.perArea => \E a \in Space!Open(r, s) : P = {a}
           /\ ~r.perArea => P = Space!Open(r, s)
    BY <1>2
  <1>4. PICK s2 \in Space!Included(r) : \E Q \in SUBSET Space!Open(r, s2) :
           /\ Q # {} /\ w = Space!ProposedWork(r, s2, Q)
           /\ r.perArea => \E a \in Space!Open(r, s2) : Q = {a}
           /\ ~r.perArea => Q = Space!Open(r, s2)
    BY WorkOfAStage
  <1>5. PICK Q \in SUBSET Space!Open(r, s2) :
           /\ Q # {} /\ w = Space!ProposedWork(r, s2, Q)
           /\ r.perArea => \E a \in Space!Open(r, s2) : Q = {a}
           /\ ~r.perArea => Q = Space!Open(r, s2)
    BY <1>4
  <1>6. v.key = s.key /\ w.key = s2.key
    BY <1>3, <1>5 DEF Space!ProposedWork
  <1>7. s = s2
    BY <1>6, <1>1, StagesTakenIn
  <1>8. PICK a \in P : p = [area |-> a, quantity |-> Space!Quantity(r, s, a)]
    BY <1>1, <1>3 DEF Space!ProposedWork
  <1>9. PICK b \in Q : q = [area |-> b, quantity |-> Space!Quantity(r, s, b)]
    BY <1>1, <1>5, <1>7 DEF Space!ProposedWork
  <1>10. a \notin Space!Ancestors(b)
    BY <1>7, PlacesOpen, LeavesAreApart
  <1>11. a = b => P = Q
    BY <1>3, <1>5, <1>7
  <1>12. QED
    BY <1>3, <1>5, <1>7, <1>8, <1>9, <1>10, <1>11

LEMMA ProposedIsFinite ==
  ASSUME Space!GenerationAssumption, TreeStands, Catalogued, NEW r, RequestFits(r)
  PROVE  IsFiniteSet(Space!Proposed(r))
  <1> DEFINE Of(s) == IF r.perArea THEN {Space!ProposedWork(r, s, {a}) : a \in Space!Open(r, s)}
                      ELSE IF Space!Open(r, s) =
                        {} THEN {} ELSE {Space!ProposedWork(r, s, Space!Open(r, s))}
             all == {Of(s) : s \in Space!Included(r)}
  <1>1. IsFiniteSet(all)
    <2> DEFINE of == [s \in Space!Included(r) |-> Of(s)]
    <2>1. of \in Surjection(Space!Included(r), all)
      BY DEF Surjection
    <2> HIDE DEF of, all
    <2>2. QED
      BY <2>1, StagesTakenIn, FS_Surjection
  <1>2. ASSUME NEW s \in Space!Included(r) PROVE IsFiniteSet(Of(s))
    <2>1. IsFiniteSet(Space!Open(r, s))
      BY PlacesOpen, LeavesAreApart, FS_Subset
    <2>2. IsFiniteSet({Space!ProposedWork(r, s, {a}) : a \in Space!Open(r, s)})
      <3> DEFINE of == [a \in Space!Open(r, s) |-> Space!ProposedWork(r, s, {a})]
                 S == {Space!ProposedWork(r, s, {a}) : a \in Space!Open(r, s)}
      <3>1. of \in Surjection(Space!Open(r, s), S)
        BY DEF Surjection
      <3> HIDE DEF of, S
      <3>2. IsFiniteSet(S)
        BY <3>1, <2>1, FS_Surjection
      <3>3. QED
        BY <3>2 DEF S
    <2>3. IsFiniteSet({}) /\ IsFiniteSet({Space!ProposedWork(r, s, Space!Open(r, s))})
      BY FS_EmptySet, FS_Singleton
    <2>4. QED
      BY <2>2, <2>3
  <1>3. \A X \in all : IsFiniteSet(X)
    BY <1>2
  <1>4. Space!Proposed(r) = UNION all
    BY DEF Space!Proposed
  <1> HIDE DEF all
  <1>5. QED
    BY <1>1, <1>3, <1>4, FS_UNION

LEMMA PreviewStands ==
  ASSUME Space!GenerationAssumption, TreeStands, Catalogued, NEW p, RequestFits(p.request),
         p = Space!Preview(p.request), p.blockers = {}
  PROVE  ProposalStands(p)
  <1>1. p.proposed = Space!Proposed(p.request) /\ Space!Blockers(p.request) = {}
    BY DEF Space!Preview
  <1>2. QED
    BY <1>1, ProposedIsFinite, WorkProposedIsWhole, PlacesProposedAreApart DEF ProposalStands

-----------------------------------------------------------------------------
(* Generation: what a confirmation writes                                  *)

(* The library's sequence of a finite set has each of its elements once.   *)
LEMMA SetAsSequence ==
  ASSUME NEW S, IsFiniteSet(S)
  PROVE  \E n \in Nat :
           /\ Space!SetToSeq(S) \in [1..n -> S]
           /\ \A i, j \in 1..n : Space!SetToSeq(S)[i] = Space!SetToSeq(S)[j] => i = j
           /\ \A x \in S : \E i \in 1..n : Space!SetToSeq(S)[i] = x
           /\ n = Cardinality(S)
  <1> DEFINE n == Cardinality(S)
             IsOne(f) == f \in [1..n -> S] /\ \A i, j \in 1..n : f[i] = f[j] => i = j
  <1>1. n \in Nat /\ ExistsBijection(1..n, S)
    BY FS_CardinalityType
  <1>2. PICK f \in Bijection(1..n, S) : TRUE
    BY <1>1 DEF ExistsBijection
  <1>3. f \in [1..n -> S] /\ Space!IsInjective(f)
    BY <1>2 DEF Bijection, Injection, IsInjective, Space!IsInjective
  <1>4. Space!SetToSeq(S) = CHOOSE g \in [1..n -> S] : Space!IsInjective(g)
    BY DEF Space!SetToSeq, Space!Cardinality, Cardinality
  <1>5. Space!SetToSeq(S) \in [1..n -> S] /\ Space!IsInjective(Space!SetToSeq(S))
    <2> HIDE DEF n
    <2>1. QED
      BY <1>3, <1>4
  <1>6. \A i, j \in 1..n : Space!SetToSeq(S)[i] = Space!SetToSeq(S)[j] => i = j
    BY <1>5 DEF Space!IsInjective
  <1>7. \A x \in S : \E i \in 1..n : Space!SetToSeq(S)[i] = x
    <2> DEFINE s == Space!SetToSeq(S)
    <2>1. s \in Injection(1..n, S)
      BY <1>5, <1>6 DEF Injection, IsInjective
    <2>2. IsFiniteSet(1..n) /\ Cardinality(1..n) = n
      BY <1>1, FS_Interval
    <2> HIDE DEF s
    <2>3. s \in Surjection(1..n, S)
      BY <2>1, <2>2, FS_Injection
    <2>4. \A x \in S : \E i \in 1..n : s[i] = x
      BY <2>3 DEF Surjection
    <2>5. QED
      BY <2>4 DEF s
  <1>8. QED
    BY <1>1, <1>5, <1>6, <1>7

\* The producer on a place of the i-th work proposed.
NewPlace(p, i, q) ==
  [work |-> Len(made) + i, key |-> Space!SetToSeq(p.proposed)[i].key, area |-> q.area,
   version |-> p.request.version, op |-> Space!SetToSeq(p.proposed)[i].op,
   scope |-> Space!SetToSeq(p.proposed)[i].scope, basis |-> q.quantity]
WorkNumbers(p) == 1..Cardinality(p.proposed)
PlacesOf(p, i) == Space!SetToSeq(p.proposed)[i].places

LEMMA WorksInOrder ==
  ASSUME NEW p, ProposalStands(p)
  PROVE  /\ Cardinality(p.proposed) \in Nat /\ DOMAIN Space!SetToSeq(p.proposed) = WorkNumbers(p)
         /\ \A i \in WorkNumbers(p) : Space!SetToSeq(p.proposed)[i] \in p.proposed
         /\ \A i, j \in WorkNumbers(p) : Space!SetToSeq(p.proposed)[i] =
              Space!SetToSeq(p.proposed)[j] => i = j
  BY SetAsSequence DEF ProposalStands, WorkNumbers

LEMMA PlacesWritten ==
  ASSUME NEW p, ProposalStands(p)
  PROVE  \A b : b \in Space!NewBindings(p) <=>
           \E i \in WorkNumbers(p) : \E q \in PlacesOf(p, i) : b = NewPlace(p, i, q)
  <1>1. Space!NewBindings(p) = UNION {{NewPlace(p, i, q) : q \in PlacesOf(p, i)} :
          i \in DOMAIN Space!SetToSeq(p.proposed)}
    BY DEF Space!NewBindings, NewPlace, PlacesOf
  <1>2. QED
    BY <1>1, WorksInOrder

LEMMA PlacesWrittenAreFinite ==
  ASSUME NEW p, ProposalStands(p)
  PROVE  IsFiniteSet(Space!NewBindings(p))
  <1> DEFINE Of(i) == {NewPlace(p, i, q) : q \in PlacesOf(p, i)}
             all == {Of(i) : i \in WorkNumbers(p)}
  <1>1. IsFiniteSet(all)
    <2> DEFINE of == [i \in WorkNumbers(p) |-> Of(i)]
    <2>1. of \in Surjection(WorkNumbers(p), all)
      BY DEF Surjection
    <2>2. IsFiniteSet(WorkNumbers(p))
      BY WorksInOrder, FS_Interval DEF WorkNumbers
    <2> HIDE DEF of, all
    <2>3. QED
      BY <2>1, <2>2, FS_Surjection
  <1>2. ASSUME NEW i \in WorkNumbers(p) PROVE IsFiniteSet(Of(i))
    <2> DEFINE of == [q \in PlacesOf(p, i) |-> NewPlace(p, i, q)]
               S == Of(i)
    <2>1. IsFiniteSet(PlacesOf(p, i))
      BY WorksInOrder DEF ProposalStands, WorkIsWhole, PlacesOf
    <2>2. of \in Surjection(PlacesOf(p, i), S)
      BY DEF Surjection
    <2> HIDE DEF of, S
    <2>3. IsFiniteSet(S)
      BY <2>1, <2>2, FS_Surjection
    <2>4. QED
      BY <2>3 DEF S
  <1>3. Space!NewBindings(p) = UNION all
    BY PlacesWritten
  <1>4. \A X \in all : IsFiniteSet(X)
    BY <1>2
  <1> HIDE DEF all
  <1>5. QED
    BY <1>1, <1>3, <1>4, FS_UNION

LEMMA PlacesWrittenAreApart ==
  ASSUME NEW p, ProposalStands(p), NEW b \in Space!NewBindings(p), NEW c \in Space!NewBindings(p),
         b.key = c.key, b # c
  PROVE  b.area # c.area /\ b.area \notin Space!Ancestors(c.area)
  <1>1. PICK i \in WorkNumbers(p) : \E q \in PlacesOf(p, i) : b = NewPlace(p, i, q)
    BY PlacesWritten
  <1>2. PICK q \in PlacesOf(p, i) : b = NewPlace(p, i, q)
    BY <1>1
  <1>3. PICK j \in WorkNumbers(p) : \E r \in PlacesOf(p, j) : c = NewPlace(p, j, r)
    BY PlacesWritten
  <1>4. PICK r \in PlacesOf(p, j) : c = NewPlace(p, j, r)
    BY <1>3
  <1> DEFINE v == Space!SetToSeq(p.proposed)[i]
             w == Space!SetToSeq(p.proposed)[j]
  <1>5. v \in p.proposed /\ w \in p.proposed /\ (v = w => i = j)
    BY WorksInOrder
  <1>6. q \in v.places /\ r \in w.places
    BY DEF PlacesOf
  <1>7. v.key = b.key /\ w.key = c.key /\ b.area = q.area /\ c.area = r.area
    BY <1>2, <1>4 DEF NewPlace
  <1> HIDE DEF v, w
  <1>8. q.area \notin Space!Ancestors(r.area) /\ (q.area = r.area => v = w /\ q = r)
    BY <1>5, <1>6, <1>7 DEF ProposalStands, PlacesApart
  <1>9. q.area # r.area
    BY <1>8, <1>5, <1>2, <1>4
  <1>10. QED
    BY <1>7, <1>8, <1>9

(* The places of a new work add up to its quantity.                        *)
LEMMA NewWorkAddsUp ==
  ASSUME NEW p, ProposalStands(p), NEW i \in WorkNumbers(p), Len(made) \in Nat
  PROVE  /\ Space!Produced({b \in Space!NewBindings(p) : b.work = Len(made) + i}) =
              Space!SetToSeq(p.proposed)[i].quantity
         /\ \A b \in Space!NewBindings(p) : b.work = Len(made) + i =>
              /\ b.key = Space!SetToSeq(p.proposed)[i].key /\ b.scope =
                   Space!SetToSeq(p.proposed)[i].scope
              /\ b.op = Space!SetToSeq(p.proposed)[i].op
  <1> DEFINE w == Space!SetToSeq(p.proposed)[i]
             S == {b \in Space!NewBindings(p) : b.work = Len(made) + i}
             f == [b \in S |-> b.basis]
             g == [q \in w.places |-> q.quantity]
             h == [b \in S |-> [area |-> b.area, quantity |-> b.basis]]
             k == [q \in w.places |-> NewPlace(p, i, q)]
  <1>1. WorkIsWhole(w)
    BY WorksInOrder DEF ProposalStands
  <1>2. \A b \in S : \E q \in w.places : b = NewPlace(p, i, q)
    <2>1. TAKE b \in S
    <2>2. PICK j \in WorkNumbers(p) : \E q \in PlacesOf(p, j) : b = NewPlace(p, j, q)
      BY PlacesWritten
    <2>3. i \in Int /\ j \in Int /\ b.work = Len(made) + j
      BY <2>2 DEF NewPlace, WorkNumbers
    <2>4. j = i
      BY <2>3
    <2>5. QED
      BY <2>2, <2>4 DEF PlacesOf
  <1>3. \A q \in w.places : NewPlace(p, i, q) \in S
    BY PlacesWritten DEF PlacesOf, NewPlace
  <1>4. \A q \in w.places : /\ q = [area |-> q.area, quantity |-> q.quantity]
                            /\ q.quantity \in Nat /\ g[q] = q.quantity
    BY <1>1 DEF WorkIsWhole
  <1> HIDE DEF S, w
  <1>5. \A b \in S : h[b] \in w.places /\ b = NewPlace(p, i, h[b]) /\ f[b] = g[h[b]] /\ f[b] \in Nat
    <2>1. TAKE b \in S
    <2>2. PICK q \in w.places : b = NewPlace(p, i, q)
      BY <1>2
    <2>3. b.area = q.area /\ b.basis = q.quantity
      BY <2>2 DEF NewPlace
    <2>4. h[b] = q
      BY <2>3, <1>4
    <2>5. f[b] = q.quantity /\ g[q] = q.quantity /\ q.quantity \in Nat
      BY <2>3, <1>4
    <2>6. QED
      BY <2>2, <2>4, <2>5
  <1>6. \A q \in w.places : k[q] \in S /\ h[k[q]] = q /\ g[q] = f[k[q]]
    <2>1. TAKE q \in w.places
    <2>2. k[q] = NewPlace(p, i, q) /\ k[q] \in S
      BY <1>3
    <2>3. k[q].area = q.area /\ k[q].basis = q.quantity
      BY <2>2 DEF NewPlace
    <2>4. h[k[q]] = q
      BY <2>2, <2>3, <1>4
    <2>5. g[q] = f[k[q]]
      BY <2>2, <2>3, <1>4
    <2>6. QED
      BY <2>2, <2>4, <2>5
  <1>7. IsFiniteSet(S) /\ IsFiniteSet(w.places)
    BY <1>1, PlacesWrittenAreFinite, FS_Subset DEF WorkIsWhole, S
  <1>8. /\ h \in [S -> w.places] /\ k \in [w.places -> S]
        /\ (\A x, y \in S : h[x] = h[y] => x = y)
        /\ (\A x, y \in w.places : k[x] = k[y] => x = y)
    <2>1. h \in [S -> w.places] /\ k \in [w.places -> S]
      BY <1>5, <1>6
    <2> HIDE DEF h, k
    <2>2. QED
      BY <2>1, <1>5, <1>6
  <1>9. Space!Produced(S) = Space!SumOver(f, S) /\ w.quantity = Space!SumOver(g, w.places)
    BY <1>1 DEF Space!Produced, WorkIsWhole, Space!Total
  <1>10. \A b \in S : b.key = w.key /\ b.scope = w.scope /\ b.op = w.op
    BY <1>2 DEF NewPlace, w
  <1> HIDE DEF f, g, h, k
  <1>11. Space!SumOver(f, S) <= Space!SumOver(g, w.places)
    BY <1>4, <1>5, <1>7, <1>8, SumOfFewer
  <1>12. Space!SumOver(g, w.places) <= Space!SumOver(f, S)
    BY <1>5, <1>6, <1>7, <1>8, SumOfFewer
  <1>13. Space!SumOver(f, S) \in Nat /\ Space!SumOver(g, w.places) \in Nat
    BY <1>4, <1>5, <1>7, SumIsNatural
  <1>14. Space!Produced(S) = w.quantity
    BY <1>9, <1>11, <1>12, <1>13
  <1>15. QED
    BY <1>10, <1>14 DEF S, w

-----------------------------------------------------------------------------
(* Generation: steps                                                       *)

LEMMA ConflictIsMutual ==
  ASSUME NEW c, NEW d, Space!Conflict(c, d)
  PROVE  Space!Conflict(d, c)
  BY DEF Space!Conflict

(* One attempt moves, the commands in other hands and what was checked of  *)
(* them stand.                                                             *)
LEMMA HandsEvolve ==
  ASSUME HandsHold, NEW t \in Attempts, DOMAIN builders' = Attempts,
         \A u \in Attempts \ {t} : builders'[u] = builders[u],
         \A c : CommandFits(c) => CommandFits(c)',
         \A u \in Attempts \ {t} : \A c :
           Working(u) /\ c = Space!Cmd(u) /\ CommandFits(c) /\ CheckStands(c) => CheckStands(c)',
         \/ builders'[t] = Space!Idle
         \/ \E c : builders'[t] = [phase |-> "begun", cmd |-> c] /\ CommandFits(c)'
         \/ \E c : /\ builders'[t] = [phase |-> "checked", cmd |-> c]
                   /\ CommandFits(c)' /\ CheckStands(c)'
                   /\ \A u \in Attempts \ {t} : Working(u) => ~Space!Conflict(c, Space!Cmd(u))
  PROVE  HandsHold'
  <1>1. \A u \in Attempts \ {t} : Working(u)' = Working(u) /\ Space!Cmd(u)' = Space!Cmd(u)
    BY DEF Working, Space!In, Space!Cmd
  <1>2. \A u \in Attempts \ {t} :
          \/ builders'[u] = Space!Idle
          \/ /\ builders'[u] = [phase |-> builders'[u].phase, cmd |-> builders'[u].cmd]
             /\ builders'[u].phase \in {"begun", "checked"} /\ CommandFits(Space!Cmd(u))'
    <2>1. TAKE u \in Attempts \ {t}
    <2>2. PICK c : c = builders[u].cmd
      OBVIOUS
    <2>3. CommandFits(c) => CommandFits(c)'
      OBVIOUS
    <2>4. builders[u] # Space!Idle => /\ builders[u] =
                                           [phase |-> builders[u].phase, cmd |-> builders[u].cmd]
                                      /\ builders[u].phase \in {"begun", "checked"}
                                         /\ CommandFits(c)
      BY <2>2 DEF HandsHold, Space!Cmd
    <2>5. builders'[u].cmd = c
      BY <2>2
    <2>6. builders[u] # Space!Idle => CommandFits(Space!Cmd(u))'
      BY <2>3, <2>4, <2>5 DEF Space!Cmd, CommandFits, RequestFits
    <2>7. QED
      BY <2>4, <2>6
  <1>3. \A u \in Attempts \ {t} : Working(u)' => CheckStands(Space!Cmd(u))'
    <2>1. TAKE u \in Attempts \ {t}
    <2>2. HAVE Working(u)'
    <2>3. PICK c : c = Space!Cmd(u)
      OBVIOUS
    <2>4. Working(u) /\ Space!Cmd(u)' = c
      BY <2>2, <2>3, <1>1
    <2>5. builders[u] # Space!Idle
      BY <2>4 DEF Working, Space!In, Space!Idle
    <2>6. CommandFits(c) /\ CheckStands(c)
      BY <2>3, <2>4, <2>5 DEF HandsHold
    <2>7. CheckStands(c)'
      BY <2>3, <2>4, <2>6
    <2>8. QED
      BY <2>4, <2>7 DEF CheckStands, ProposalStands, WorkIsWhole, PlacesApart
  <1>4. \/ builders'[t] = Space!Idle
        \/ /\ builders'[t] = [phase |-> builders'[t].phase, cmd |-> builders'[t].cmd]
           /\ builders'[t].phase \in {"begun", "checked"} /\ CommandFits(Space!Cmd(t))'
           /\ Working(t)' => CheckStands(Space!Cmd(t))'
           /\ Working(t)' => \A u \in Attempts \ {t} : Working(u) =>
                ~Space!Conflict(Space!Cmd(t)', Space!Cmd(u))
    <2>1. CASE builders'[t] = Space!Idle
      BY <2>1
    <2>2. CASE \E c : builders'[t] = [phase |-> "begun", cmd |-> c] /\ CommandFits(c)'
      <3>1. PICK c : builders'[t] = [phase |-> "begun", cmd |-> c] /\ CommandFits(c)'
        BY <2>2
      <3>2. builders'[t].cmd = c /\ builders'[t].phase = "begun" /\ ~Working(t)'
        BY <3>1 DEF Working, Space!In
      <3>3. CommandFits(Space!Cmd(t))'
        BY <3>1, <3>2 DEF Space!Cmd, CommandFits, RequestFits
      <3>4. QED
        BY <3>1, <3>2, <3>3
    <2>3. CASE \E c : /\ builders'[t] = [phase |-> "checked", cmd |-> c]
                      /\ CommandFits(c)' /\ CheckStands(c)'
                      /\ \A u \in Attempts \ {t} : Working(u) => ~Space!Conflict(c, Space!Cmd(u))
      <3>1. PICK c : /\ builders'[t] = [phase |-> "checked", cmd |-> c]
                     /\ CommandFits(c)' /\ CheckStands(c)'
                     /\ \A u \in Attempts \ {t} : Working(u) => ~Space!Conflict(c, Space!Cmd(u))
        BY <2>3
      <3>2. builders'[t].cmd = c /\ builders'[t].phase = "checked" /\ Space!Cmd(t)' = c
        BY <3>1 DEF Space!Cmd
      <3>3. CommandFits(Space!Cmd(t))'
        BY <3>1, <3>2 DEF Space!Cmd, CommandFits, RequestFits
      <3>4. CheckStands(Space!Cmd(t))'
        BY <3>1, <3>2 DEF CheckStands, ProposalStands, WorkIsWhole, PlacesApart
      <3>5. QED
        BY <3>1, <3>2, <3>3, <3>4
    <2>4. QED
      BY <2>1, <2>2, <2>3
  <1>5. builders'[t] = Space!Idle => ~Working(t)'
    BY DEF Working, Space!In, Space!Idle
  <1>6. ASSUME NEW u \in Attempts, NEW v \in Attempts, u # v, Working(u)', Working(v)'
        PROVE  ~Space!Conflict(Space!Cmd(u)', Space!Cmd(v)')
    <2>1. CASE u = t
      BY <2>1, <1>1, <1>4, <1>5, <1>6
    <2>2. CASE v = t
      <3>1. ~Space!Conflict(Space!Cmd(v)', Space!Cmd(u)')
        BY <2>2, <1>1, <1>4, <1>5, <1>6
      <3>2. QED
        BY <3>1, ConflictIsMutual
    <2>3. CASE u # t /\ v # t
      BY <2>3, <1>1, <1>6 DEF HandsHold
    <2>4. QED
      BY <2>1, <2>2, <2>3
  <1>7. \A u \in Attempts : \/ builders'[u] = Space!Idle
                            \/ /\ builders'[u] =
                                    [phase |-> builders'[u].phase, cmd |-> builders'[u].cmd]
                               /\ builders'[u].phase \in {"begun", "checked"}
                                  /\ CommandFits(Space!Cmd(u))'
    BY <1>2, <1>4
  <1>8. \A u \in Attempts : Working(u)' => CheckStands(Space!Cmd(u))'
    BY <1>3, <1>4, <1>5
  <1>9. \A u, v \in Attempts : u # v /\ Working(u)' /\ Working(v)' =>
          ~Space!Conflict(Space!Cmd(u), Space!Cmd(v))'
    BY <1>6 DEF Space!Conflict, Space!RowsOf, Space!Exclusive, Space!Coordinates
  <1>10. Space!Idle' = Space!Idle
    BY DEF Space!Idle
  <1>11. QED
    BY <1>7, <1>8, <1>9, <1>10 DEF HandsHold

\* Areas come and lose life; where they are and what they measure stays.
TreeGrows ==
  /\ DOMAIN areas \subseteq DOMAIN areas'
  /\ \A a \in DOMAIN areas :
       areas'[a].parent = areas[a].parent /\ areas'[a].measure = areas[a].measure

LEMMA PrimedTreeFacts ==
  ASSUME TreeStands'
  PROVE  /\ IsTree(areas')
         /\ Len(areas') \in Nat /\ DOMAIN areas' = 1..Len(areas')
         /\ \A a \in DOMAIN areas' : areas'[a].measure \in Nat
         /\ IsFiniteSet(DOMAIN areas')
  <1>1. Len(areas') \in Nat /\ DOMAIN areas' = 1..Len(areas')
    BY LenProperties DEF TreeStands
  <1>2. \A a \in DOMAIN areas' : areas'[a] \in Space!Area
    BY <1>1, ElementOfSeq DEF TreeStands
  <1>3. \A a \in DOMAIN areas' : areas'[a].parent \in 0..(a - 1)
    BY <1>1, <1>2 DEF TreeStands, Space!Area
  <1>4. IsTree(areas')
    BY <1>1, <1>3 DEF IsTree
  <1>5. \A a \in DOMAIN areas' : areas'[a].measure \in Nat
    BY <1>2 DEF Space!Area
  <1>6. IsFiniteSet(DOMAIN areas')
    BY <1>1, FS_Interval
  <1>7. QED
    BY <1>1, <1>4, <1>5, <1>6

LEMMA AncestorsAreKept ==
  ASSUME TreeStands, TreeStands', TreeGrows, NEW a \in DOMAIN areas
  PROVE  Space!Ancestors(a)' = Space!Ancestors(a)
  <1>1. Space!Ancestors(a)' = AncestorsIn(areas', a)
    BY DEF Space!Ancestors, AncestorsIn
  <1>2. AncestorsIn(areas', a) = AncestorsIn(areas, a)
    <2>1. IsTree(areas) /\ IsTree(areas')
      BY TreeFacts, PrimedTreeFacts
    <2>2. QED
      BY <2>1, AncestorsStay DEF TreeGrows
  <1>3. QED
    BY <1>1, <1>2, AncestorsAreOfTheTree

LEMMA CommandsStillFit ==
  ASSUME Len(areas) \in Nat, Len(areas') \in Nat, Len(areas) <= Len(areas'),
         DOMAIN areas \subseteq DOMAIN areas', DOMAIN editions \subseteq DOMAIN editions'
  PROVE  \A c : CommandFits(c) => CommandFits(c)'
  <1>1. ASSUME NEW c, CommandFits(c) PROVE CommandFits(c)'
    <2>1. c.kind = "area" => c.parent \in 0..Len(areas')
      BY <1>1 DEF CommandFits
    <2>2. c.kind = "confirm" => RequestFits(c.preview.request)'
      BY <1>1 DEF CommandFits, RequestFits
    <2>3. QED
      BY <1>1, <2>1, <2>2 DEF CommandFits
  <1>2. QED
    BY <1>1

LEMMA ProposalStillStands ==
  ASSUME TreeStands, TreeStands', TreeGrows, NEW p, ProposalStands(p)
  PROVE  ProposalStands(p)'
  <1>1. ASSUME NEW w \in p.proposed PROVE WorkIsWhole(w)'
    <2>1. WorkIsWhole(w) /\ Space!Total(w.places)' = Space!Total(w.places)
      BY DEF ProposalStands, Space!Total
    <2>2. QED
      BY <2>1 DEF WorkIsWhole, TreeGrows
  <1>2. PlacesApart(p.proposed)'
    <2>1. \A w \in p.proposed : \A q \in w.places : q.area \in DOMAIN areas
      BY DEF ProposalStands, WorkIsWhole
    <2>2. \A w \in p.proposed : \A q \in w.places : Space!Ancestors(q.area)' =
            Space!Ancestors(q.area)
      BY <2>1, AncestorsAreKept
    <2>3. QED
      BY <2>2 DEF ProposalStands, PlacesApart
  <1>3. QED
    BY <1>1, <1>2 DEF ProposalStands

(* Producers stay where they are while the tree grows around them.         *)
LEMMA ProducersStay ==
  ASSUME TreeStands, TreeStands', TreeGrows, PlacesHold, Space!OneProducerPerPlace, bindings' =
           bindings
  PROVE  Space!OneProducerPerPlace'
  <1>1. \A b \in bindings : b.area \in DOMAIN areas
    BY DEF PlacesHold
  <1>2. \A b \in bindings : Space!Ancestors(b.area)' = Space!Ancestors(b.area)
    BY <1>1, AncestorsAreKept
  <1>3. QED
    BY <1>2 DEF Space!OneProducerPerPlace

LEMMA WorksStay ==
  ASSUME Space!WorksAddUp, made' = made, bindings' = bindings
  PROVE  Space!WorksAddUp'
  BY DEF Space!WorksAddUp, Space!Produced

(* What commits is what was checked; its attempt ends.                     *)
LEMMA CommitEnds ==
  ASSUME HandsHold, NEW t \in Attempts, NEW kind, Space!Committing(t, kind)
  PROVE  \E c : /\ c = Space!Cmd(t) /\ c.kind = kind /\ CommandFits(c) /\ CheckStands(c)
                   /\ Working(t)
                /\ DOMAIN builders' = Attempts /\ builders'[t] = Space!Idle
                /\ \A u \in Attempts \ {t} :
                     builders'[u] = builders[u] /\ (Working(u) => ~Space!Conflict(c, Space!Cmd(u)))
  <1>1. builders[t] # Space!Idle /\ Working(t)
    BY DEF Space!Committing, Space!In, Space!Idle, Working
  <1>2. CommandFits(Space!Cmd(t)) /\ CheckStands(Space!Cmd(t))
    BY <1>1 DEF HandsHold
  <1>3. \A u \in Attempts \ {t} : Working(u) => ~Space!Conflict(Space!Cmd(t), Space!Cmd(u))
    BY <1>1 DEF HandsHold
  <1>4. DOMAIN builders' = Attempts /\ builders'[t] = Space!Idle
        /\ \A u \in Attempts \ {t} : builders'[u] = builders[u]
    BY DEF Space!Committing, HandsHold
  <1>5. QED
    BY <1>1, <1>2, <1>3, <1>4 DEF Space!Committing

LEMMA PartsMeasureNoMore ==
  ASSUME TreeStands, TreeStands', TreeGrows, NEW x, Space!Children(x)' \subseteq Space!Children(x)
  PROVE  /\ Space!Measured(Space!Children(x))' <= Space!Measured(Space!Children(x))
         /\ Space!Measured(Space!Children(x))' \in Nat /\ Space!Measured(Space!Children(x)) \in Nat
  <1> DEFINE S == Space!Children(x)'
             T == Space!Children(x)
             f == [b \in S |-> areas'[b].measure]
             g == [b \in T |-> areas[b].measure]
  <1>1. IsFiniteSet(T) /\ T \subseteq DOMAIN areas
    BY PartsAreFinite
  <1>2. IsFiniteSet(S) /\ S \subseteq T
    BY <1>1, FS_Subset
  <1>3. \A y \in T : g[y] \in Nat
    BY <1>1, TreeFacts
  <1>4. \A y \in S : f[y] = g[y]
    BY <1>1, <1>2 DEF TreeGrows
  <1>5. Space!Measured(Space!Children(x))' = Space!SumOver(f, S)
        /\ Space!Measured(Space!Children(x)) = Space!SumOver(g, T)
    BY DEF Space!Measured
  <1> HIDE DEF S, T, f, g
  <1>6. Space!SumOver(f, S) <= Space!SumOver(g, T)
    BY <1>1, <1>2, <1>3, <1>4, SumOfPart
  <1>7. Space!SumOver(f, S) \in Nat /\ Space!SumOver(g, T) \in Nat
    BY <1>1, <1>2, <1>3, <1>4, SumIsNatural
  <1>8. QED
    BY <1>5, <1>6, <1>7

LEMMA RetireAreaCommits ==
  ASSUME Space!GenerationAssumption, SpaceInv, NEW t \in Attempts, Space!RetireArea(t)
  PROVE  SpaceInv'
  <1>1. TreeStands /\ PartsFit /\ Catalogued /\ PlacesHold /\ Space!OneProducerPerPlace
        /\ Space!WorksAddUp
        /\ HandsHold
    BY DEF SpaceInv, PlaceRows
  <1>2. PICK c : /\ c = Space!Cmd(t) /\ c.kind = "retire" /\ CommandFits(c) /\ CheckStands(c)
                    /\ Working(t)
                 /\ DOMAIN builders' = Attempts /\ builders'[t] = Space!Idle
                 /\ \A u \in Attempts \ {t} :
                      builders'[u] = builders[u] /\ (Working(u) => ~Space!Conflict(c, Space!Cmd(u)))
    <2>1. Space!Committing(t, "retire")
      BY DEF Space!RetireArea
    <2>2. QED
      BY <2>1, <1>1, CommitEnds
  <1> DEFINE a == c.area
  <1>3. /\ a \in DOMAIN areas /\ Space!Children(a) = {} /\ \A b \in bindings : b.area # a
        /\ areas' = [areas EXCEPT ![a].active = FALSE] /\ scope' = scope + 1
        /\ editions' = editions /\ made' = made /\ bindings' = bindings /\ generated' = generated
    BY <1>2 DEF CommandFits, CheckStands, Space!RetireArea, Space!Committing
  <1> HIDE DEF a
  <1>4. areas' \in Seq(Space!Area) /\ Len(areas') = Len(areas) /\ DOMAIN areas' = DOMAIN areas
    <2>1. [areas[a] EXCEPT !.active = FALSE] \in Space!Area
      <3>1. areas[a] \in Space!Area
        BY <1>1, <1>3, TreeFacts
      <3>2. QED
        BY <3>1 DEF Space!Area
    <2>2. areas' = [areas EXCEPT ![a] = [areas[a] EXCEPT !.active = FALSE]]
      BY <1>3
    <2>3. a \in 1..Len(areas) /\ areas \in Seq(Space!Area)
      BY <1>1, <1>3, TreeFacts DEF TreeStands
    <2>4. QED
      BY <2>1, <2>2, <2>3, ExceptSeq
  <1>5. \A x \in DOMAIN areas :
          /\ areas'[x].parent = areas[x].parent /\ areas'[x].measure = areas[x].measure
          /\ areas'[x].active <=> areas[x].active /\ x # a
    <2>1. TAKE x \in DOMAIN areas
    <2>2. areas[x] \in Space!Area
      BY <1>1, TreeFacts
    <2>3. QED
      BY <2>2, <1>3 DEF Space!Area
  <1>6. TreeGrows
    BY <1>4, <1>5 DEF TreeGrows
  <1>7. TreeStands'
    <2>1. ASSUME NEW x \in DOMAIN areas, areas'[x].active, areas'[x].parent # 0
          PROVE  areas'[areas'[x].parent].active
      <3>1. x \in Space!Active
        BY <2>1, <1>5 DEF Space!Active
      <3>2. areas[x].parent # a
        BY <3>1, <1>3 DEF Space!Children
      <3>3. areas[x].parent \in DOMAIN areas /\ areas[areas[x].parent].active
        BY <2>1, <3>1, <1>1, <1>5, TreeFacts DEF TreeStands, Space!Active
      <3>4. QED
        BY <3>2, <3>3, <1>5
    <2>2. \A x \in DOMAIN areas : areas'[x].parent < x
      BY <1>1, <1>5 DEF TreeStands
    <2>3. QED
      BY <2>1, <2>2, <1>1, <1>4 DEF TreeStands
  <1>8. \A x : Space!Children(x)' \subseteq Space!Children(x)
    BY <1>4, <1>5 DEF Space!Children, Space!Active
  <1>9. PartsFit'
    <2>1. SUFFICES ASSUME NEW x \in DOMAIN areas, areas[x].measure > 0
                   PROVE  Space!Measured(Space!Children(x))' <= areas[x].measure
      BY <1>4, <1>5 DEF PartsFit
    <2>2. Space!Measured(Space!Children(x)) <= areas[x].measure /\ areas[x].measure \in Nat
      BY <2>1, <1>1, TreeFacts DEF PartsFit
    <2>3. QED
      BY <2>2, <1>1, <1>6, <1>7, <1>8, PartsMeasureNoMore
  <1>10. Catalogued'
    BY <1>1, <1>3 DEF Catalogued, MadeWork
  <1>11. PlacesHold'
    BY <1>1, <1>3, <1>4, <1>5 DEF PlacesHold, Space!Binding
  <1>12. Space!OneProducerPerPlace' /\ Space!WorksAddUp'
    BY <1>1, <1>3, <1>6, <1>7, ProducersStay, WorksStay
  <1>13. \A d : CommandFits(d) => CommandFits(d)'
    <2>1. Len(areas) \in Nat /\ Len(areas') \in Nat /\ Len(areas) <= Len(areas')
      BY <1>1, <1>4, TreeFacts
    <2>2. QED
      BY <2>1, <1>3, <1>4, CommandsStillFit
  <1>14. ASSUME NEW u \in Attempts \ {t}, NEW d, Working(u), d = Space!Cmd(u), CommandFits(d),
                  CheckStands(d)
         PROVE  CheckStands(d)'
    <2>1. ~Space!Conflict(c, d)
      BY <1>2, <1>14
    <2>2. CASE d.kind = "area" /\ d.parent # 0
      <3>1. d.parent # a
        BY <2>1, <2>2, <1>2 DEF Space!Conflict, Space!RowsOf, a
      <3>2. d.parent \in DOMAIN areas
        BY <2>2, <1>1, <1>14, TreeFacts DEF CommandFits
      <3>3. /\ Space!Measured(Space!Children(d.parent))' <= Space!Measured(Space!Children(d.parent))
            /\ Space!Measured(Space!Children(d.parent))' \in Nat
               /\ Space!Measured(Space!Children(d.parent)) \in Nat
        BY <1>1, <1>6, <1>7, <1>8, PartsMeasureNoMore
      <3>4. areas[d.parent].measure \in Nat /\ d.measure \in Nat
        BY <2>2, <3>2, <1>1, <1>14, TreeFacts DEF CommandFits
      <3>5. areas'[d.parent].active /\ areas'[d.parent].measure = areas[d.parent].measure
        BY <2>2, <3>1, <3>2, <1>5, <1>14 DEF CheckStands
      <3>6. areas[d.parent].measure = 0 \/ d.measure = 0 \/
              Space!Measured(Space!Children(d.parent)) + d.measure <= areas[d.parent].measure
        BY <2>2, <1>14 DEF CheckStands
      <3>7. areas'[d.parent].measure = 0 \/ d.measure = 0 \/
              Space!Measured(Space!Children(d.parent))' + d.measure <= areas'[d.parent].measure
        BY <3>3, <3>4, <3>5, <3>6
      <3>8. QED
        BY <2>2, <3>5, <3>7 DEF CheckStands
    <2>3. CASE d.kind = "retire"
      <3>1. Space!Children(d.area)' = {}
        BY <2>3, <1>8, <1>14 DEF CheckStands
      <3>2. QED
        BY <2>3, <3>1, <1>3, <1>14 DEF CheckStands
    <2>4. CASE d.kind = "confirm"
      BY <2>4, <1>1, <1>6, <1>7, <1>14, ProposalStillStands DEF CheckStands
    <2>5. CASE d.kind \in {"upsert", "work"} \/ (d.kind = "area" /\ d.parent = 0)
      BY <2>5, <1>3, <1>14 DEF CheckStands
    <2>6. QED
      BY <2>2, <2>3, <2>4, <2>5, <1>14 DEF CommandFits
  <1>15. HandsHold'
    BY <1>1, <1>2, <1>13, <1>14, HandsEvolve
  <1>16. QED
    BY <1>7, <1>9, <1>10, <1>11, <1>12, <1>15 DEF SpaceInv, PlaceRows

(* A work is not taken away: a producer's work and what it adds up to stay *)
(* when works are appended.                                                *)
LEMMA OldWorksStay ==
  ASSUME Space!WorksAddUp, Len(made) \in Nat, DOMAIN made = 1..Len(made), bindings' = bindings,
         \A b \in bindings : b.work \in DOMAIN made,
         \A w \in DOMAIN made : made'[w] = made[w]
  PROVE  Space!WorksAddUp'
  <1>1. ASSUME NEW w \in DOMAIN made', {b \in bindings : b.work = w} # {}
        PROVE  w \in DOMAIN made
    BY <1>1
  <1>2. \A S : Space!Produced(S)' = Space!Produced(S)
    BY DEF Space!Produced
  <1>3. QED
    BY <1>1, <1>2 DEF Space!WorksAddUp

(* Nothing but the works, the versions and the scope moves: places and     *)
(* what was checked stand.                                                 *)
LEMMA AreasAndPlacesStay ==
  ASSUME TreeStands, PartsFit, PlacesHold, Space!OneProducerPerPlace, areas' = areas,
         bindings' = bindings, DOMAIN made \subseteq DOMAIN made',
         \A w \in DOMAIN made : made'[w] = made[w],
         DOMAIN editions \subseteq DOMAIN editions'
  PROVE  /\ TreeStands' /\ PartsFit' /\ PlacesHold' /\ Space!OneProducerPerPlace'
         /\ \A c : CommandFits(c) => CommandFits(c)'
         /\ \A c : CheckStands(c) /\ (c.kind = "upsert" => Len(editions') < MaxVersions) =>
                     CheckStands(c)'
  <1>1. TreeStands' /\ TreeGrows
    BY DEF TreeStands, TreeGrows
  <1>2. \A x : Space!Children(x)' = Space!Children(x)
    BY DEF Space!Children, Space!Active
  <1>3. \A x : Space!Measured(Space!Children(x))' = Space!Measured(Space!Children(x))
    BY <1>2 DEF Space!Measured
  <1>4. PartsFit'
    BY <1>3 DEF PartsFit
  <1>5. PlacesHold' /\ Space!OneProducerPerPlace'
    BY <1>1, ProducersStay DEF PlacesHold
  <1>6. \A c : CommandFits(c) => CommandFits(c)'
    BY TreeFacts, CommandsStillFit
  <1>7. ASSUME NEW c, CheckStands(c), c.kind = "upsert" => Len(editions') < MaxVersions
        PROVE  CheckStands(c)'
    <2>1. c.kind = "confirm" => ProposalStands(c.preview)'
      BY <1>1, <1>7, ProposalStillStands DEF CheckStands
    <2>2. QED
      BY <1>2, <1>3, <1>7, <2>1 DEF CheckStands
  <1>8. QED
    BY <1>1, <1>4, <1>5, <1>6, <1>7

LEMMA UpsertFinishSystemCommits ==
  ASSUME Space!GenerationAssumption, SpaceInv, NEW t \in Attempts, Space!UpsertFinishSystem(t)
  PROVE  SpaceInv'
  <1>1. TreeStands /\ PartsFit /\ Catalogued /\ PlacesHold /\ Space!OneProducerPerPlace
        /\ Space!WorksAddUp
        /\ HandsHold
    BY DEF SpaceInv, PlaceRows
  <1>2. PICK c : /\ c = Space!Cmd(t) /\ c.kind = "upsert" /\ CommandFits(c) /\ CheckStands(c)
                    /\ Working(t)
                 /\ DOMAIN builders' = Attempts /\ builders'[t] = Space!Idle
                 /\ \A u \in Attempts \ {t} :
                      builders'[u] = builders[u] /\ (Working(u) => ~Space!Conflict(c, Space!Cmd(u)))
    <2>1. Space!Committing(t, "upsert")
      BY DEF Space!UpsertFinishSystem
    <2>2. QED
      BY <2>1, <1>1, CommitEnds
  <1>3. /\ areas' = areas /\ made' = made /\ bindings' = bindings /\ scope' = scope
        /\ generated' = generated /\ editions' = Append(editions, c.stages)
        /\ c.stages \in Systems /\ Len(editions) < MaxVersions
    BY <1>2 DEF Space!UpsertFinishSystem, Space!Committing, CommandFits, CheckStands
  <1>4. /\ editions \in Seq(Systems) /\ editions' \in Seq(Systems)
        /\ Len(editions) \in Nat /\ Len(editions') = Len(editions) + 1
        /\ MaxVersions \in Nat
        /\ DOMAIN editions = 1..Len(editions) /\ DOMAIN editions' = 1..Len(editions')
    <2>1. editions \in Seq(Systems)
      BY <1>1 DEF Catalogued
    <2>2. editions' \in Seq(Systems) /\ Len(editions') = Len(editions) + 1
      BY <2>1, <1>3, AppendProperties
    <2>3. QED
      BY <2>1, <2>2, LenProperties DEF Space!GenerationAssumption
  <1>5. Catalogued'
    BY <1>1, <1>3, <1>4 DEF Catalogued, MadeWork
  <1>6. DOMAIN editions \subseteq DOMAIN editions'
    BY <1>4
  <1>7. /\ TreeStands' /\ PartsFit' /\ PlacesHold' /\ Space!OneProducerPerPlace'
        /\ \A d : CommandFits(d) => CommandFits(d)'
        /\ \A d : CheckStands(d) /\ (d.kind = "upsert" => Len(editions') < MaxVersions) =>
                    CheckStands(d)'
    BY <1>1, <1>3, <1>6, AreasAndPlacesStay
  <1>8. \A u \in Attempts \ {t} : \A d :
          Working(u) /\ d = Space!Cmd(u) /\ CommandFits(d) /\ CheckStands(d) => CheckStands(d)'
    BY <1>2, <1>7 DEF Space!Conflict
  <1>9. HandsHold'
    BY <1>1, <1>2, <1>7, <1>8, HandsEvolve
  <1>10. Space!WorksAddUp'
    BY <1>1, <1>3, WorksStay
  <1>11. QED
    BY <1>5, <1>7, <1>9, <1>10 DEF SpaceInv, PlaceRows

LEMMA CreateWorkCommits ==
  ASSUME Space!GenerationAssumption, SpaceInv, NEW t \in Attempts, Space!CreateWork(t)
  PROVE  SpaceInv'
  <1>1. TreeStands /\ PartsFit /\ Catalogued /\ PlacesHold /\ Space!OneProducerPerPlace
        /\ Space!WorksAddUp
        /\ HandsHold
    BY DEF SpaceInv, PlaceRows
  <1>2. PICK c : /\ c = Space!Cmd(t) /\ c.kind = "work" /\ CommandFits(c) /\ CheckStands(c)
                    /\ Working(t)
                 /\ DOMAIN builders' = Attempts /\ builders'[t] = Space!Idle
                 /\ \A u \in Attempts \ {t} :
                      builders'[u] = builders[u] /\ (Working(u) => ~Space!Conflict(c, Space!Cmd(u)))
    <2>1. Space!Committing(t, "work")
      BY DEF Space!CreateWork
    <2>2. QED
      BY <2>1, <1>1, CommitEnds
  <1>3. /\ areas' = areas /\ editions' = editions /\ bindings' = bindings /\ scope' = scope + 1
        /\ generated' = generated /\ made' = Append(made, [op |-> c.op, quantity |-> 1])
        /\ c.op \in Operations
    BY <1>2 DEF Space!CreateWork, Space!Committing, CommandFits
  <1>4. /\ made' \in Seq(MadeWork) /\ Len(made) \in Nat
        /\ DOMAIN made = 1..Len(made) /\ DOMAIN made \subseteq DOMAIN made'
        /\ \A w \in DOMAIN made : made'[w] = made[w]
    <2>1. made \in Seq(MadeWork) /\ [op |-> c.op, quantity |-> 1] \in MadeWork
      BY <1>1, <1>3 DEF Catalogued, MadeWork, Space!GenerationAssumption
    <2>2. /\ made' \in Seq(MadeWork) /\ Len(made') = Len(made) + 1
          /\ \A w \in 1..Len(made) : made'[w] = made[w]
      BY <2>1, <1>3, AppendProperties
    <2>3. Len(made) \in Nat /\ DOMAIN made = 1..Len(made) /\ DOMAIN made' = 1..Len(made')
      BY <2>1, <2>2, LenProperties
    <2>4. QED
      BY <2>2, <2>3
  <1>5. Catalogued'
    BY <1>1, <1>3, <1>4 DEF Catalogued
  <1>6. /\ TreeStands' /\ PartsFit' /\ PlacesHold' /\ Space!OneProducerPerPlace'
        /\ \A d : CommandFits(d) => CommandFits(d)'
        /\ \A d : CheckStands(d) /\ (d.kind = "upsert" => Len(editions') < MaxVersions) =>
                    CheckStands(d)'
    BY <1>1, <1>3, <1>4, AreasAndPlacesStay
  <1>7. \A u \in Attempts \ {t} : \A d :
          Working(u) /\ d = Space!Cmd(u) /\ CommandFits(d) /\ CheckStands(d) => CheckStands(d)'
    BY <1>3, <1>6 DEF CheckStands
  <1>8. HandsHold'
    BY <1>1, <1>2, <1>6, <1>7, HandsEvolve
  <1>9. Space!WorksAddUp'
    BY <1>1, <1>3, <1>4, OldWorksStay DEF PlacesHold
  <1>10. QED
    BY <1>5, <1>6, <1>8, <1>9 DEF SpaceInv, PlaceRows

LEMMA PartsMeasureNatural ==
  ASSUME TreeStands, NEW x
  PROVE  Space!Measured(Space!Children(x)) \in Nat
  <1> DEFINE S == Space!Children(x)
             f == [b \in S |-> areas[b].measure]
  <1>1. IsFiniteSet(S) /\ \A b \in S : f[b] \in Nat
    BY PartsAreFinite, TreeFacts
  <1>2. Space!Measured(Space!Children(x)) = Space!SumOver(f, S)
    BY DEF Space!Measured
  <1> HIDE DEF S, f
  <1>3. QED
    BY <1>1, <1>2, SumIsNatural

(* A part more is the last area and adds its measure to its parent's parts. *)
LEMMA OnePartMore ==
  ASSUME TreeStands, NEW n, n \in Space!Area, n.active, n.parent \in 0..Len(areas),
         areas' = Append(areas, n), NEW N, N = Len(areas) + 1
  PROVE  /\ areas' \in Seq(Space!Area) /\ Len(areas) \in Nat /\ Len(areas') = Len(areas) + 1
         /\ DOMAIN areas \subseteq DOMAIN areas' /\ DOMAIN areas' = 1..N
         /\ \A x \in DOMAIN areas : areas'[x] = areas[x]
         /\ areas'[N] = n
         /\ \A x : x # n.parent => Space!Children(x)' = Space!Children(x)
         /\ Space!Children(N)' = {}
         /\ Space!Measured(Space!Children(n.parent))' =
              Space!Measured(Space!Children(n.parent)) + n.measure
  <1>1. areas \in Seq(Space!Area) /\ Len(areas) \in Nat /\ DOMAIN areas = 1..Len(areas)
    BY TreeFacts DEF TreeStands
  <1>2. /\ areas' \in Seq(Space!Area) /\ Len(areas') = N
        /\ \A x \in 1..Len(areas) : areas'[x] = areas[x]
        /\ areas'[N] = n
    BY <1>1, AppendProperties
  <1>3. DOMAIN areas' = 1..N
    BY <1>2, LenProperties
  <1>4. N \notin DOMAIN areas /\ DOMAIN areas' = DOMAIN areas \cup {N}
    BY <1>1, <1>3
  <1>5. \A x \in DOMAIN areas : areas'[x] = areas[x]
    BY <1>1, <1>2
  <1>6. \A x \in DOMAIN areas : areas[x].parent # N
    BY <1>1, TreeFacts
  <1>7. n.parent # N
    BY <1>1
  <1>8. areas' \in Seq(Space!Area) /\ areas'[N] = n
    BY <1>2
  <1>9. \A x : Space!Children(x)' = IF x = n.parent THEN Space!Children(x)
          \cup {N} ELSE Space!Children(x)
    BY <1>4, <1>5, <1>8 DEF Space!Children, Space!Active
  <1>10. Space!Children(N)' = {}
    BY <1>6, <1>7, <1>9 DEF Space!Children, Space!Active
  <1>11. Space!Measured(Space!Children(n.parent))' =
           Space!Measured(Space!Children(n.parent)) + n.measure
    <2> DEFINE S == Space!Children(n.parent)
               T == S \cup {N}
               f == [b \in T |-> areas'[b].measure]
               g == [b \in S |-> areas[b].measure]
    <2>1. IsFiniteSet(S) /\ S \subseteq DOMAIN areas /\ N \notin S
      BY <1>4, PartsAreFinite
    <2>2. \A x \in S : f[x] \in Nat /\ f[x] = g[x]
      BY <1>5, <2>1, TreeFacts
    <2>3. f[N] = n.measure /\ n.measure \in Nat
      BY <1>8 DEF Space!Area
    <2>4. Space!Measured(Space!Children(n.parent)) = Space!SumOver(g, S)
      BY DEF Space!Measured
    <2>5. Space!Measured(Space!Children(n.parent))' = Space!SumOver(f, T)
      BY <1>9 DEF Space!Measured
    <2> HIDE DEF S, f, g
    <2>6. Space!SumOver(f, T) = Space!SumOver(f, S) + f[N]
      BY <2>1, <2>2, <2>3, SumOfOneMore
    <2>7. Space!SumOver(f, S) = Space!SumOver(g, S)
      BY <2>2, SumOfTheSame
    <2>8. QED
      BY <2>3, <2>4, <2>5, <2>6, <2>7
  <1>12. QED
    BY <1>1, <1>2, <1>3, <1>4, <1>5, <1>7, <1>9, <1>10, <1>11

LEMMA CreateAreaScopeCommits ==
  ASSUME Space!GenerationAssumption, SpaceInv, NEW t \in Attempts, Space!CreateAreaScope(t)
  PROVE  SpaceInv'
  <1>1. TreeStands /\ PartsFit /\ Catalogued /\ PlacesHold /\ Space!OneProducerPerPlace
        /\ Space!WorksAddUp
        /\ HandsHold
    BY DEF SpaceInv, PlaceRows
  <1>2. PICK c : /\ c = Space!Cmd(t) /\ c.kind = "area" /\ CommandFits(c) /\ CheckStands(c)
                    /\ Working(t)
                 /\ DOMAIN builders' = Attempts /\ builders'[t] = Space!Idle
                 /\ \A u \in Attempts \ {t} :
                      builders'[u] = builders[u] /\ (Working(u) => ~Space!Conflict(c, Space!Cmd(u)))
    <2>1. Space!Committing(t, "area")
      BY DEF Space!CreateAreaScope
    <2>2. QED
      BY <2>1, <1>1, CommitEnds
  <1> DEFINE n == [parent |-> c.parent, measure |-> c.measure, active |-> TRUE]
  <1>0. PICK N : N = Len(areas) + 1
    OBVIOUS
  <1>3. /\ areas' = Append(areas, n) /\ Len(areas) < MaxAreas
        /\ editions' = editions /\ made' = made /\ bindings' = bindings /\ scope' = scope
        /\ generated' = generated
        /\ c.parent \in 0..Len(areas) /\ c.measure \in Nat
    BY <1>2 DEF Space!CreateAreaScope, Space!Committing, CommandFits
  <1>4. n \in Space!Area /\ n.active /\ n.parent = c.parent /\ n.measure = c.measure
    <2>1. c.parent \in 0..MaxAreas
      BY <1>1, <1>3, TreeFacts DEF Space!GenerationAssumption
    <2>2. QED
      BY <1>3, <2>1 DEF Space!Area
  <1> HIDE DEF n
  <1>5. /\ areas' \in Seq(Space!Area) /\ Len(areas) \in Nat /\ Len(areas') = Len(areas) + 1
        /\ DOMAIN areas \subseteq DOMAIN areas' /\ DOMAIN areas' = 1..N
        /\ \A x \in DOMAIN areas : areas'[x] = areas[x]
        /\ areas'[N] = n
        /\ \A x : x # c.parent => Space!Children(x)' = Space!Children(x)
        /\ Space!Children(N)' = {}
        /\ Space!Measured(Space!Children(c.parent))' =
             Space!Measured(Space!Children(c.parent)) + c.measure
    BY <1>0, <1>1, <1>3, <1>4, OnePartMore
  <1>6. DOMAIN areas = 1..Len(areas) /\ DOMAIN areas' = DOMAIN areas \cup {N}
        /\ N \notin DOMAIN areas
    BY <1>0, <1>1, <1>5, TreeFacts
  <1>7. TreeGrows
    BY <1>5 DEF TreeGrows
  <1>8. c.parent = 0 \/ (c.parent \in DOMAIN areas /\ areas[c.parent].active)
    BY <1>2, <1>3, <1>6 DEF CheckStands
  <1>9. TreeStands'
    <2>1. ASSUME NEW x \in DOMAIN areas
          PROVE  /\ areas'[x].parent < x
                 /\ areas'[x].active /\ areas'[x].parent # 0 => areas'[areas'[x].parent].active
      BY <1>1, <1>5, TreeFacts DEF TreeStands
    <2>2. /\ areas'[N].parent < N
          /\ areas'[N].parent # 0 => areas'[areas'[N].parent].active
      BY <1>0, <1>3, <1>4, <1>5, <1>8
    <2>3. Len(areas') <= MaxAreas
      BY <1>3, <1>5 DEF Space!GenerationAssumption
    <2>4. QED
      BY <2>1, <2>2, <2>3, <1>5, <1>6 DEF TreeStands
  <1>10. \A x : x # c.parent => Space!Measured(Space!Children(x))' =
           Space!Measured(Space!Children(x))
    <2>1. TAKE x
    <2>2. HAVE x # c.parent
    <2>3. Space!Children(x)' = Space!Children(x) /\ Space!Children(x) \subseteq DOMAIN areas
      BY <1>1, <1>5, <2>2, PartsAreFinite
    <2>4. [b \in Space!Children(x) |-> areas'[b].measure] =
            [b \in Space!Children(x) |-> areas[b].measure]
      BY <1>5, <2>3
    <2>5. QED
      BY <2>3, <2>4 DEF Space!Measured
  <1>11. PartsFit'
    <2>1. SUFFICES ASSUME NEW x \in DOMAIN areas', areas'[x].measure > 0
                   PROVE  Space!Measured(Space!Children(x))' <= areas'[x].measure
      BY DEF PartsFit
    <2>2. CASE x = N
      <3>1. Space!Measured(Space!Children(N))' = 0
        <4> DEFINE f == [b \in {} |-> areas'[b].measure]
                   g == [b \in {0} |-> 0]
        <4>1. Space!Measured(Space!Children(N))' = Space!SumOver(f, {})
          BY <1>5 DEF Space!Measured
        <4>2. Space!SumOver(g, {}) = 0
          BY SumOfOne
        <4> HIDE DEF f, g
        <4>3. Space!SumOver(f, {}) = Space!SumOver(g, {})
          BY SumOfTheSame
        <4>4. QED
          BY <4>1, <4>2, <4>3
      <3>2. n.measure \in Nat
        BY <1>3, <1>4
      <3>3. QED
        BY <2>2, <3>1, <3>2, <1>5
    <2>3. CASE x \in DOMAIN areas /\ x # c.parent
      BY <2>1, <2>3, <1>1, <1>5, <1>10 DEF PartsFit
    <2>4. CASE x \in DOMAIN areas /\ x = c.parent
      <3>1. areas[x].measure \in Nat /\ c.parent # 0 /\ areas[x].measure > 0
            /\ areas'[x].measure = areas[x].measure
        BY <2>1, <2>4, <1>1, <1>5, <1>6, TreeFacts
      <3>2. c.measure = 0 \/ Space!Measured(Space!Children(x)) + c.measure <= areas[x].measure
        BY <2>4, <3>1, <1>2 DEF CheckStands
      <3>3. Space!Measured(Space!Children(x)) <= areas[x].measure
        BY <2>4, <3>1, <1>1 DEF PartsFit
      <3>4. Space!Measured(Space!Children(x)) \in Nat
        BY <1>1, PartsMeasureNatural
      <3>5. QED
        BY <2>4, <3>1, <3>2, <3>3, <3>4, <1>3, <1>5
    <2>5. QED
      BY <2>1, <2>2, <2>3, <2>4, <1>6
  <1>12. Catalogued'
    BY <1>1, <1>3 DEF Catalogued, MadeWork
  <1>13. PlacesHold'
    BY <1>1, <1>3, <1>5 DEF PlacesHold, Space!Binding
  <1>14. Space!OneProducerPerPlace' /\ Space!WorksAddUp'
    BY <1>1, <1>3, <1>7, <1>9, ProducersStay, WorksStay
  <1>15. \A d : CommandFits(d) => CommandFits(d)'
    <2>1. Len(areas) \in Nat /\ Len(areas') \in Nat /\ Len(areas) <= Len(areas')
      BY <1>5
    <2>2. QED
      BY <2>1, <1>3, <1>5, CommandsStillFit
  <1>16. ASSUME NEW u \in Attempts \ {t}, NEW d, Working(u), d = Space!Cmd(u), CommandFits(d),
                  CheckStands(d)
         PROVE  CheckStands(d)'
    <2>1. ~Space!Conflict(c, d)
      BY <1>2, <1>16
    <2>2. CASE d.kind = "area" /\ d.parent # 0
      <3>1. d.parent # c.parent
        BY <2>1, <2>2, <1>2 DEF Space!Conflict, Space!RowsOf
      <3>2. d.parent \in DOMAIN areas
        BY <2>2, <1>6, <1>16 DEF CommandFits
      <3>3. areas'[d.parent] = areas[d.parent]
            /\ Space!Measured(Space!Children(d.parent))' = Space!Measured(Space!Children(d.parent))
        BY <3>1, <3>2, <1>5, <1>10
      <3>4. QED
        BY <2>2, <3>3, <1>16 DEF CheckStands
    <2>3. CASE d.kind = "retire"
      <3>1. d.area # c.parent
        BY <2>1, <2>3, <1>2, <1>6, <1>16 DEF Space!Conflict, Space!RowsOf, CommandFits
      <3>2. Space!Children(d.area)' = Space!Children(d.area)
        BY <3>1, <1>5
      <3>3. QED
        BY <2>3, <3>2, <1>3, <1>16 DEF CheckStands
    <2>4. CASE d.kind = "confirm"
      BY <2>4, <1>1, <1>7, <1>9, <1>16, ProposalStillStands DEF CheckStands
    <2>5. CASE d.kind \in {"upsert", "work"} \/ (d.kind = "area" /\ d.parent = 0)
      BY <2>5, <1>3, <1>16 DEF CheckStands
    <2>6. QED
      BY <2>2, <2>3, <2>4, <2>5, <1>16 DEF CommandFits
  <1>17. HandsHold'
    BY <1>1, <1>2, <1>15, <1>16, HandsEvolve
  <1>18. QED
    BY <1>9, <1>11, <1>12, <1>13, <1>14, <1>17 DEF SpaceInv, PlaceRows

-----------------------------------------------------------------------------
(* Generation: a confirmation keeps the invariant                          *)

\* The work made of the i-th work proposed.
WorkMade(p, i) ==
  [op |-> Space!SetToSeq(p.proposed)[i].op, quantity |-> Space!SetToSeq(p.proposed)[i].quantity]

(* Each work proposed becomes one work, after those there were.            *)
LEMMA WorksWritten ==
  ASSUME NEW p, ProposalStands(p), made \in Seq(MadeWork),
         made' = made \o [i \in DOMAIN Space!SetToSeq(p.proposed) |->
              [op |-> Space!SetToSeq(p.proposed)[i].op,
               quantity |-> Space!SetToSeq(p.proposed)[i].quantity]]
  PROVE  /\ made' \in Seq(MadeWork) /\ Len(made) \in Nat /\ Cardinality(p.proposed) \in Nat
         /\ DOMAIN made = 1..Len(made)
         /\ DOMAIN made' = 1..(Len(made) + Cardinality(p.proposed))
         /\ \A w \in DOMAIN made : made'[w] = made[w]
         /\ \A i \in WorkNumbers(p) : made'[Len(made) + i] = WorkMade(p, i)
  <1> DEFINE n == Cardinality(p.proposed)
             added == [i \in 1..n |-> WorkMade(p, i)]
  <1>1. n \in Nat /\ DOMAIN Space!SetToSeq(p.proposed) = 1..n
    BY WorksInOrder DEF WorkNumbers
  <1>2. made' = made \o added
    BY <1>1 DEF WorkMade
  <1>3. \A i \in 1..n : WorkMade(p, i) \in MadeWork
    BY WorksInOrder DEF WorkMade, MadeWork, WorkNumbers, ProposalStands, WorkIsWhole
  <1> HIDE DEF n
  <1>4. added \in Seq(MadeWork) /\ Len(added) = n /\ \A i \in 1..n : added[i] = WorkMade(p, i)
    BY <1>1, <1>3
  <1> HIDE DEF added
  <1>5. /\ made' \in Seq(MadeWork) /\ Len(made') = Len(made) + n
        /\ \A i \in 1..Len(made') : made'[i] =
             IF i <= Len(made) THEN made[i] ELSE added[i - Len(made)]
    <2> DEFINE all == made \o added
    <2>1. /\ all \in Seq(MadeWork) /\ Len(all) = Len(made) + Len(added)
          /\ \A i \in 1..(Len(made) + Len(added)) : all[i] =
               IF i <= Len(made) THEN made[i] ELSE added[i - Len(made)]
      BY <1>4, ConcatProperties
    <2> HIDE DEF all
    <2>2. made' = all
      BY <1>2 DEF all
    <2>3. QED
      BY <1>4, <2>1, <2>2
  <1>6. Len(made) \in Nat /\ DOMAIN made = 1..Len(made) /\ DOMAIN made' = 1..Len(made')
    BY <1>5, LenProperties
  <1>7. \A w \in DOMAIN made : made'[w] = made[w]
    BY <1>1, <1>5, <1>6
  <1>8. ASSUME NEW i \in 1..n PROVE made'[Len(made) + i] = WorkMade(p, i)
    <2>1. Len(made) + i \in 1..Len(made') /\ ~(Len(made) + i <= Len(made))
          /\ (Len(made) + i) - Len(made) = i
      BY <1>1, <1>5, <1>6
    <2>2. QED
      BY <2>1, <1>4, <1>5
  <1>9. QED
    BY <1>1, <1>5, <1>6, <1>7, <1>8 DEF n, WorkNumbers

(* What is written is of the works made, the areas and the version there    *)
(* are, and no two works share a number.                                   *)
LEMMA PlacesWrittenFit ==
  ASSUME Space!GenerationAssumption, TreeStands, Catalogued, NEW p, ProposalStands(p),
         p.request.version \in DOMAIN editions, NEW b \in Space!NewBindings(p)
  PROVE  /\ b \in Space!Binding /\ b.area \in DOMAIN areas
         /\ b.scope = "MAIN" => b.basis = areas[b.area].measure
         /\ \E i \in WorkNumbers(p) : b.work = Len(made) + i
  <1>1. PICK i \in WorkNumbers(p) : \E q \in PlacesOf(p, i) : b = NewPlace(p, i, q)
    BY PlacesWritten
  <1>2. PICK q \in PlacesOf(p, i) : b = NewPlace(p, i, q)
    BY <1>1
  <1> DEFINE w == Space!SetToSeq(p.proposed)[i]
  <1>3. WorkIsWhole(w) /\ q \in w.places
    BY WorksInOrder DEF ProposalStands, PlacesOf
  <1>4. /\ b = [work |-> Len(made) + i, key |-> w.key, area |-> q.area,
                version |-> p.request.version, op |-> w.op, scope |-> w.scope,
                basis |-> q.quantity]
    BY <1>2 DEF NewPlace
  <1> HIDE DEF w
  <1>5. /\ w.key \in Keys /\ w.op \in Operations /\ w.scope \in {"MAIN", "LOCAL"}
        /\ q.area \in DOMAIN areas /\ q.quantity \in Nat
        /\ w.scope = "MAIN" => q.quantity = areas[q.area].measure
    BY <1>3 DEF WorkIsWhole
  <1>6. q.area \in 1..MaxAreas
    <2>1. Len(areas) \in Nat /\ DOMAIN areas = 1..Len(areas) /\ Len(areas) <= MaxAreas
          /\ MaxAreas \in Nat
      BY TreeFacts DEF TreeStands, Space!GenerationAssumption
    <2>2. QED
      BY <2>1, <1>5
  <1>7. p.request.version \in 1..MaxVersions
    <2>1. Len(editions) \in Nat /\ DOMAIN editions = 1..Len(editions)
          /\ Len(editions) <= MaxVersions /\ MaxVersions \in Nat
      BY LenProperties DEF Catalogued, Space!GenerationAssumption
    <2>2. QED
      BY <2>1
  <1>8. Len(made) + i \in Nat
    BY WorksInOrder, LenProperties DEF WorkNumbers, Catalogued
  <1>9. QED
    BY <1>4, <1>5, <1>6, <1>7, <1>8 DEF Space!Binding

LEMMA ConfirmGenerationCommits ==
  ASSUME Space!GenerationAssumption, SpaceInv, NEW t \in Attempts, Space!ConfirmGeneration(t)
  PROVE  SpaceInv'
  <1>1. TreeStands /\ PartsFit /\ Catalogued /\ PlacesHold /\ Space!OneProducerPerPlace
        /\ Space!WorksAddUp
        /\ HandsHold
    BY DEF SpaceInv, PlaceRows
  <1>2. PICK c : /\ c = Space!Cmd(t) /\ c.kind = "confirm" /\ CommandFits(c) /\ CheckStands(c)
                    /\ Working(t)
                 /\ DOMAIN builders' = Attempts /\ builders'[t] = Space!Idle
                 /\ \A u \in Attempts \ {t} :
                      builders'[u] = builders[u] /\ (Working(u) => ~Space!Conflict(c, Space!Cmd(u)))
    <2>1. Space!Committing(t, "confirm")
      BY DEF Space!ConfirmGeneration
    <2>2. QED
      BY <2>1, <1>1, CommitEnds
  <1>3. PICK p : p = c.preview
    OBVIOUS
  <1>4. PICK new : new = Space!NewBindings(p)
    OBVIOUS
  <1>5. /\ areas' = areas /\ editions' = editions /\ generated' = generated
        /\ Space!Admits(t, new) /\ bindings' = bindings \cup new
        /\ made' = made \o [i \in DOMAIN Space!SetToSeq(p.proposed) |->
              [op |-> Space!SetToSeq(p.proposed)[i].op,
               quantity |-> Space!SetToSeq(p.proposed)[i].quantity]]
        /\ scope' = scope + Cardinality(p.proposed) + Cardinality(new)
    BY <1>2, <1>3, <1>4 DEF Space!ConfirmGeneration, Space!Committing, Space!Cardinality,
       Cardinality
  <1>6. ProposalStands(p) /\ RequestFits(p.request)
    BY <1>2, <1>3 DEF CommandFits, CheckStands
  <1>7. IsFiniteSet(new) /\ Cardinality(new) \in Nat
    BY <1>4, <1>6, PlacesWrittenAreFinite, FS_CardinalityType
  <1>8. /\ made' \in Seq(MadeWork) /\ Len(made) \in Nat /\ Cardinality(p.proposed) \in Nat
        /\ DOMAIN made = 1..Len(made)
        /\ DOMAIN made' = 1..(Len(made) + Cardinality(p.proposed))
        /\ \A w \in DOMAIN made : made'[w] = made[w]
        /\ \A i \in WorkNumbers(p) : made'[Len(made) + i] = WorkMade(p, i)
    BY <1>1, <1>5, <1>6, WorksWritten DEF Catalogued
  <1>9. \A b \in new : /\ b \in Space!Binding /\ b.area \in DOMAIN areas
                       /\ b.scope = "MAIN" => b.basis = areas[b.area].measure
                       /\ \E i \in WorkNumbers(p) : b.work = Len(made) + i
    BY <1>1, <1>4, <1>6, PlacesWrittenFit DEF RequestFits
  <1>10. Catalogued'
    BY <1>1, <1>5, <1>7, <1>8 DEF Catalogued
  <1>11. TreeStands' /\ TreeGrows
    BY <1>1, <1>5 DEF TreeStands, TreeGrows
  <1>12. \A x : Space!Children(x)' = Space!Children(x)
    BY <1>5 DEF Space!Children, Space!Active
  <1>13. \A x : Space!Measured(Space!Children(x))' = Space!Measured(Space!Children(x))
    BY <1>5, <1>12 DEF Space!Measured
  <1>14. PartsFit'
    BY <1>1, <1>5, <1>13 DEF PartsFit
  <1>15. PlacesHold'
    <2>1. IsFiniteSet(bindings')
      BY <1>1, <1>5, <1>7, FS_Union DEF PlacesHold
    <2>2. DOMAIN made \subseteq DOMAIN made'
      BY <1>8
    <2>3. \A b \in new : b.work \in DOMAIN made' /\ areas[b.area].active
      BY <1>5, <1>8, <1>9 DEF Space!Admits, WorkNumbers
    <2>4. ASSUME NEW b \in bindings'
          PROVE  /\ b \in Space!Binding /\ b.work \in DOMAIN made'
                 /\ b.area \in DOMAIN areas /\ areas[b.area].active
                 /\ b.scope = "MAIN" => b.basis = areas[b.area].measure
      BY <1>1, <1>5, <1>9, <2>2, <2>3 DEF PlacesHold
    <2>5. QED
      BY <2>1, <2>4, <1>5 DEF PlacesHold, Space!Binding
  <1>16. Space!OneProducerPerPlace'
    <2>1. \A x : Space!Ancestors(x)' = Space!Ancestors(x)
      BY <1>5 DEF Space!Ancestors
    <2>2. SUFFICES ASSUME NEW b \in bindings', NEW d \in bindings', b.key = d.key, b # d
                   PROVE  ~(b.area = d.area \/ b.area \in Space!Ancestors(d.area))
      BY <2>1 DEF Space!OneProducerPerPlace
    <2>3. CASE b \in bindings /\ d \in bindings
      BY <2>2, <2>3, <1>1 DEF Space!OneProducerPerPlace
    <2>4. CASE b \in new /\ d \in new
      BY <2>2, <2>4, <1>4, <1>6, PlacesWrittenAreApart
    <2>5. CASE b \in bindings /\ d \in new
      BY <2>2, <2>5, <1>5 DEF Space!Admits, Space!Overlaps
    <2>6. CASE b \in new /\ d \in bindings
      BY <2>2, <2>6, <1>5 DEF Space!Admits, Space!Overlaps
    <2>7. QED
      BY <2>2, <2>3, <2>4, <2>5, <2>6, <1>5
  <1>17. Space!WorksAddUp'
    <2>1. \A S : Space!Produced(S)' = Space!Produced(S)
      BY DEF Space!Produced
    <2>2. ASSUME NEW w \in DOMAIN made'
          PROVE  LET places == {b \in bindings' : b.work = w} IN
                 places # {} =>
                   /\ \A b, d \in places : /\ b.key = d.key /\ b.scope = d.scope
                                           /\ b.op = made'[w].op
                   /\ Space!Produced(places) = made'[w].quantity
      <3>1. CASE w \in DOMAIN made
        <4>1. {b \in bindings' : b.work = w} = {b \in bindings : b.work = w}
          <5>1. \A b \in new : b.work # w
            BY <3>1, <1>8, <1>9 DEF WorkNumbers
          <5>2. QED
            BY <5>1, <1>5
        <4>2. made'[w] = made[w]
          BY <3>1, <1>8
        <4>3. QED
          BY <3>1, <4>1, <4>2, <1>1 DEF Space!WorksAddUp
      <3>2. CASE w \notin DOMAIN made
        <4>1. PICK i \in WorkNumbers(p) : w = Len(made) + i
          <5>1. w - Len(made) \in 1..Cardinality(p.proposed) /\ w = Len(made) + (w - Len(made))
            BY <2>2, <3>2, <1>8
          <5>2. QED
            BY <5>1 DEF WorkNumbers
        <4>2. {b \in bindings' : b.work = w} = {b \in Space!NewBindings(p) : b.work = Len(made) + i}
          BY <3>2, <4>1, <1>1, <1>4, <1>5 DEF PlacesHold
        <4>3. made'[w] = WorkMade(p, i)
          BY <4>1, <1>8
        <4>4. /\ Space!Produced({b \in Space!NewBindings(p) : b.work = Len(made) + i}) =
                   Space!SetToSeq(p.proposed)[i].quantity
              /\ \A b \in Space!NewBindings(p) : b.work = Len(made) + i =>
                   /\ b.key = Space!SetToSeq(p.proposed)[i].key /\ b.scope =
                        Space!SetToSeq(p.proposed)[i].scope
                   /\ b.op = Space!SetToSeq(p.proposed)[i].op
          BY <1>6, <1>8, NewWorkAddsUp
        <4>5. WorkMade(p, i).quantity = Space!SetToSeq(p.proposed)[i].quantity
              /\ WorkMade(p, i).op = Space!SetToSeq(p.proposed)[i].op
          BY DEF WorkMade
        <4>6. QED
          BY <4>2, <4>3, <4>4, <4>5
      <3>3. QED
        BY <3>1, <3>2
    <2>3. QED
      BY <2>1, <2>2 DEF Space!WorksAddUp
  <1>18. \A d : CommandFits(d) => CommandFits(d)'
    BY <1>1, <1>5, TreeFacts, CommandsStillFit
  <1>19. ASSUME NEW u \in Attempts \ {t}, NEW d, Working(u), d = Space!Cmd(u), CommandFits(d),
                  CheckStands(d)
         PROVE  CheckStands(d)'
    <2>1. d.kind = "retire"
      BY <1>2, <1>19 DEF Space!Conflict, Space!Coordinates, Space!Exclusive
    <2>2. \A b \in new : b.area # d.area
      BY <2>1, <1>5, <1>19 DEF Space!Admits, Working
    <2>3. QED
      BY <2>1, <2>2, <1>5, <1>12, <1>19 DEF CheckStands
  <1>20. HandsHold'
    BY <1>1, <1>2, <1>18, <1>19, HandsEvolve
  <1>21. QED
    BY <1>10, <1>11, <1>14, <1>15, <1>16, <1>17, <1>20 DEF SpaceInv, PlaceRows

-----------------------------------------------------------------------------
(* Generation: what is asked, checked and refused                          *)

LEMMA RowsOfSpaceStay ==
  ASSUME PlaceRows, generated' \in 0..MaxGenerating, UNCHANGED Space!rows
  PROVE  /\ PlaceRows'
         /\ \A c : CommandFits(c) => CommandFits(c)'
         /\ \A c : CheckStands(c) => CheckStands(c)'
  <1>1. TreeStands /\ PartsFit /\ Catalogued /\ PlacesHold /\ Space!OneProducerPerPlace
        /\ Space!WorksAddUp
    BY DEF PlaceRows
  <1>2. areas' = areas /\ editions' = editions /\ made' = made /\ bindings' = bindings /\ scope' =
          scope
    BY DEF Space!rows
  <1>3. /\ TreeStands' /\ PartsFit' /\ PlacesHold' /\ Space!OneProducerPerPlace'
        /\ \A c : CommandFits(c) => CommandFits(c)'
        /\ \A c : CheckStands(c) /\ (c.kind = "upsert" => Len(editions') < MaxVersions) =>
                    CheckStands(c)'
    BY <1>1, <1>2, AreasAndPlacesStay
  <1>4. Catalogued'
    BY <1>1, <1>2 DEF Catalogued, MadeWork
  <1>5. Space!WorksAddUp'
    BY <1>1, <1>2, WorksStay
  <1>6. \A c : CheckStands(c) => CheckStands(c)'
    BY <1>2, <1>3 DEF CheckStands
  <1>7. QED
    BY <1>3, <1>4, <1>5, <1>6 DEF PlaceRows

(* An attempt begins with a command that fits.                             *)
LEMMA CommandBegins ==
  ASSUME Space!GenerationAssumption, SpaceInv, NEW t \in Attempts, NEW c, CommandFits(c),
           Space!Count,
         builders' = [builders EXCEPT ![t] = [phase |-> "begun", cmd |-> c]], UNCHANGED Space!rows
  PROVE  SpaceInv'
  <1>1. PlaceRows /\ HandsHold
    BY DEF SpaceInv
  <1>2. generated' \in 0..MaxGenerating
    BY <1>1 DEF Space!Count, PlaceRows, Catalogued, Space!GenerationAssumption
  <1>3. PlaceRows' /\ (\A d : CommandFits(d) => CommandFits(d)')
        /\ \A d : CheckStands(d) => CheckStands(d)'
    BY <1>1, <1>2, RowsOfSpaceStay
  <1>4. /\ DOMAIN builders' = Attempts /\ builders'[t] = [phase |-> "begun", cmd |-> c]
        /\ \A u \in Attempts \ {t} : builders'[u] = builders[u]
    BY <1>1 DEF HandsHold
  <1>5. HandsHold'
    BY <1>1, <1>3, <1>4, HandsEvolve
  <1>6. QED
    BY <1>3, <1>5 DEF SpaceInv

LEMMA PreviewGenerationKeeps ==
  ASSUME Space!GenerationAssumption, SpaceInv, NEW t \in Attempts, NEW r \in Space!Requests,
         Space!PreviewGeneration(t, r)
  PROVE  SpaceInv'
  <1> DEFINE c == [kind |-> "confirm", preview |-> Space!Preview(r)]
  <1>1. RequestFits(r)
    <2>1. PICK v \in DOMAIN editions,
               L \in {{}} \cup {{[key |-> k, area |-> a, quantity |-> q]} :
                      k \in Space!LocalKeys, a \in Space!Active, q \in Stated},
               b \in BOOLEAN :
            \E S, I :
              r = [version |-> v, areas |-> S, include |-> I, local |-> L, perArea |-> b]
      BY DEF Space!Requests
    <2>2. \A l \in L : l.quantity \in Nat
      BY DEF Space!GenerationAssumption
    <2>3. r.version = v /\ r.local = L /\ r.perArea = b
      BY <2>1
    <2>4. QED
      BY <2>2, <2>3 DEF RequestFits
  <1>2. CommandFits(c)
    <2>1. c.kind = "confirm" /\ c.preview.request = r
      BY DEF Space!Preview
    <2> HIDE DEF c
    <2>2. QED
      BY <1>1, <2>1 DEF CommandFits
  <1>3. Space!Count /\ builders' = [builders EXCEPT ![t] = [phase |-> "begun", cmd |-> c]]
        /\ UNCHANGED Space!rows
    BY DEF Space!PreviewGeneration
  <1> HIDE DEF c
  <1>4. QED
    BY <1>2, <1>3, CommandBegins

LEMMA SendKeeps ==
  ASSUME Space!GenerationAssumption, SpaceInv, NEW t \in Attempts, NEW c \in Space!NewCommand,
           Space!Send(t, c)
  PROVE  SpaceInv'
  <1>1. CommandFits(c)
    <2>1. DOMAIN areas = 1..Len(areas) /\ Len(areas) \in Nat
      BY TreeFacts DEF SpaceInv, PlaceRows
    <2>2. CASE \E p \in {0} \cup DOMAIN areas, m \in Measures :
                 c = [kind |-> "area", parent |-> p, measure |-> m]
      BY <2>1, <2>2 DEF CommandFits, Space!GenerationAssumption
    <2>3. CASE \E a \in DOMAIN areas : c = [kind |-> "retire", area |-> a]
      BY <2>3 DEF CommandFits
    <2>4. CASE \E s \in Systems : c = [kind |-> "upsert", stages |-> s]
      BY <2>4 DEF CommandFits
    <2>5. CASE \E o \in Operations : c = [kind |-> "work", op |-> o]
      BY <2>5 DEF CommandFits
    <2>6. QED
      BY <2>2, <2>3, <2>4, <2>5 DEF Space!NewCommand
  <1>2. QED
    BY <1>1, CommandBegins DEF Space!Send

(* What is locked and checked stands: a fresh preview is of whole works    *)
(* that are apart, and no one else holds what it conflicts with.           *)
LEMMA GenerationIsChecked ==
  ASSUME Space!GenerationAssumption, SpaceInv, NEW t \in Attempts, Space!LockAndCheck(t)
  PROVE  SpaceInv'
  <1>1. PlaceRows /\ HandsHold /\ TreeStands /\ Catalogued /\ generated \in 0..MaxGenerating
    BY DEF SpaceInv, PlaceRows, Catalogued
  <1>2. PICK c : c = Space!Cmd(t)
    OBVIOUS
  <1>3. /\ builders[t] = [phase |-> "begun", cmd |-> c] /\ CommandFits(c)
        /\ DOMAIN builders = Attempts
    BY <1>1, <1>2 DEF HandsHold, Space!LockAndCheck, Space!In, Space!Idle, Space!Cmd
  <1>4. /\ UNCHANGED Space!rows /\ generated' = generated
        /\ builders' = [builders EXCEPT ![t].phase = "checked"]
        /\ Space!Allowed(c)
        /\ \A u \in Attempts \ {t} : Working(u) => ~Space!Conflict(c, Space!Cmd(u))
    BY <1>2 DEF Space!LockAndCheck, Space!LocksAreFree, Working
  <1>5. /\ DOMAIN builders' = Attempts /\ builders'[t] = [phase |-> "checked", cmd |-> c]
        /\ \A u \in Attempts \ {t} : builders'[u] = builders[u]
    BY <1>3, <1>4
  <1>6. CheckStands(c)
    <2>1. CASE c.kind = "area"
      BY <2>1, <1>4 DEF Space!Allowed, CheckStands
    <2>2. CASE c.kind = "retire"
      BY <2>2, <1>4 DEF Space!Allowed, CheckStands
    <2>3. CASE c.kind = "upsert"
      BY <2>3, <1>4 DEF Space!Allowed, CheckStands
    <2>4. CASE c.kind = "work"
      BY <2>4 DEF CheckStands
    <2>5. CASE c.kind = "confirm"
      <3>1. RequestFits(c.preview.request)
        BY <2>5, <1>3 DEF CommandFits
      <3>2. c.preview = Space!Preview(c.preview.request) /\ c.preview.blockers = {}
        BY <2>5, <1>4 DEF Space!Allowed
      <3>3. ProposalStands(c.preview)
        BY <3>1, <3>2, <1>1, PreviewStands
      <3>4. QED
        BY <2>5, <3>3 DEF CheckStands
    <2>6. QED
      BY <2>1, <2>2, <2>3, <2>4, <2>5, <1>3 DEF CommandFits
  <1>7. PlaceRows' /\ (\A d : CommandFits(d) => CommandFits(d)')
        /\ \A d : CheckStands(d) => CheckStands(d)'
    BY <1>1, <1>4, RowsOfSpaceStay
  <1>8. HandsHold'
    BY <1>1, <1>3, <1>4, <1>5, <1>6, <1>7, HandsEvolve
  <1>9. QED
    BY <1>7, <1>8 DEF SpaceInv

LEMMA GenerationIsRefused ==
  ASSUME Space!GenerationAssumption, SpaceInv, NEW t \in Attempts, Space!Refuse(t)
  PROVE  SpaceInv'
  <1>1. PlaceRows /\ HandsHold /\ generated \in 0..MaxGenerating
    BY DEF SpaceInv, PlaceRows, Catalogued
  <1>2. UNCHANGED Space!rows /\ generated' = generated /\ builders' = [builders EXCEPT ![t] =
          Space!Idle]
    BY DEF Space!Refuse
  <1>3. PlaceRows' /\ (\A d : CommandFits(d) => CommandFits(d)')
        /\ \A d : CheckStands(d) => CheckStands(d)'
    BY <1>1, <1>2, RowsOfSpaceStay
  <1>4. /\ DOMAIN builders' = Attempts /\ builders'[t] = Space!Idle
        /\ \A u \in Attempts \ {t} : builders'[u] = builders[u]
    BY <1>1, <1>2 DEF HandsHold
  <1>5. HandsHold'
    BY <1>1, <1>3, <1>4, HandsEvolve
  <1>6. QED
    BY <1>3, <1>5 DEF SpaceInv

-----------------------------------------------------------------------------
(* Generation: the invariant                                               *)

LEMMA SpaceBegins ==
  ASSUME Space!GenerationAssumption, Space!Init
  PROVE  SpaceInv
  <1>1. TreeStands
    <2>1. \A a \in DOMAIN areas : /\ areas[a].parent < a
                                  /\ areas[a].parent # 0 => areas[areas[a].parent].active
      BY DEF Space!Init, Space!GenerationAssumption
    <2>2. QED
      BY <2>1 DEF TreeStands, Space!Init, Space!GenerationAssumption
  <1>2. PartsFit
    <2>1. SUFFICES ASSUME NEW a \in DOMAIN areas, areas[a].measure > 0
                   PROVE  Space!Measured(Space!Children(a)) <= areas[a].measure
      BY DEF PartsFit
    <2> DEFINE parts == {b \in DOMAIN areas : areas[b].parent = a}
               f == [b \in parts |-> areas[b].measure]
               g == [b \in Space!Children(a) |-> areas[b].measure]
               S == Space!Children(a)
    <2>2. Space!SumOver(f, parts) <= areas[a].measure
      BY <2>1 DEF Space!Init, Space!GenerationAssumption
    <2>3. S \subseteq parts /\ parts \subseteq DOMAIN areas
      BY DEF Space!Children, Space!Active
    <2>4. IsFiniteSet(parts)
      BY <1>1, <2>3, PartsAreFinite, FS_Subset
    <2>5. \A b \in parts : f[b] \in Nat
      BY <1>1, TreeFacts
    <2>6. \A b \in S : g[b] = f[b]
      BY <2>3
    <2>7. Space!Measured(S) = Space!SumOver(g, S)
      BY DEF Space!Measured
    <2>8. areas[a].measure \in Nat
      BY <1>1, TreeFacts
    <2> HIDE DEF f, g, parts, S
    <2>9. Space!SumOver(g, S) <= Space!SumOver(f, parts)
      BY <2>3, <2>4, <2>5, <2>6, SumOfPart
    <2>10. Space!SumOver(f, parts) \in Nat /\ Space!SumOver(g, S) \in Nat
      BY <2>3, <2>4, <2>5, <2>6, SumIsNatural, FS_Subset
    <2>11. QED
      BY <2>2, <2>7, <2>8, <2>9, <2>10 DEF S
  <1>3. Catalogued
    BY DEF Space!Init, Catalogued, Space!GenerationAssumption
  <1>4. PlacesHold /\ Space!OneProducerPerPlace /\ Space!WorksAddUp
    BY FS_EmptySet DEF Space!Init, PlacesHold, Space!OneProducerPerPlace, Space!WorksAddUp
  <1>5. HandsHold
    BY DEF Space!Init, HandsHold, Working, Space!In, Space!Idle
  <1>6. QED
    BY <1>1, <1>2, <1>3, <1>4, <1>5 DEF SpaceInv, PlaceRows

LEMMA SpaceStep ==
  ASSUME Space!GenerationAssumption, SpaceInv, [Space!Next]_(Space!vars)
  PROVE  SpaceInv'
  <1>1. CASE UNCHANGED Space!vars
    <2>1. PlaceRows /\ HandsHold /\ generated \in 0..MaxGenerating
      BY DEF SpaceInv, PlaceRows, Catalogued
    <2>2. UNCHANGED Space!rows /\ generated' = generated /\ builders' = builders
      BY <1>1 DEF Space!vars
    <2>3. PlaceRows' /\ (\A d : CommandFits(d) => CommandFits(d)')
          /\ \A d : CheckStands(d) => CheckStands(d)'
      BY <2>1, <2>2, RowsOfSpaceStay
    <2>4. HandsHold'
      BY <2>1, <2>2, <2>3 DEF HandsHold, Working, Space!In, Space!Cmd, Space!Conflict,
         Space!RowsOf, Space!Coordinates, Space!Exclusive
    <2>5. QED
      BY <2>3, <2>4 DEF SpaceInv
  <1>2. ASSUME NEW t \in Attempts, Space!Ask(t) PROVE SpaceInv'
    BY <1>2, PreviewGenerationKeeps, SendKeeps DEF Space!Ask
  <1>3. ASSUME NEW t \in Attempts, Space!Handle(t) PROVE SpaceInv'
    BY <1>3, GenerationIsChecked, GenerationIsRefused, CreateAreaScopeCommits, RetireAreaCommits,
       UpsertFinishSystemCommits, CreateWorkCommits, ConfirmGenerationCommits DEF Space!Handle
  <1>4. QED
    BY <1>1, <1>2, <1>3 DEF Space!Next

(* The inductive invariant says what a reader of the rows relies on.       *)
LEMMA SpaceIsSound ==
  ASSUME Space!GenerationAssumption, SpaceInv
  PROVE  Space!TypeOK /\ Space!OneProducerPerPlace /\ Space!SpaceIsCountedOnce /\ Space!WorksAddUp
         /\ Space!PlacesStayAlive
  <1>1. TreeStands /\ PartsFit /\ Catalogued /\ PlacesHold /\ Space!OneProducerPerPlace
        /\ Space!WorksAddUp
    BY DEF SpaceInv, PlaceRows
  <1>2. Space!TypeOK
    <2>1. \A v \in DOMAIN editions : editions[v] \in Systems
      BY <1>1, ElementOfSeq, LenProperties DEF Catalogued
    <2>2. \A w \in DOMAIN made : made[w].op \in Operations /\ made[w].quantity \in 1..MaxQuantity
      <3>1. \A w \in DOMAIN made : made[w] \in MadeWork
        BY <1>1, ElementOfSeq, LenProperties DEF Catalogued
      <3>2. QED
        BY <3>1 DEF MadeWork
    <2>3. QED
      BY <2>1, <2>2, <1>1 DEF Space!TypeOK, TreeStands, PlacesHold, Catalogued
  <1>3. Space!SpaceIsCountedOnce
    BY <1>1, SpaceIsCounted
  <1>4. Space!PlacesStayAlive
    BY <1>1 DEF Space!PlacesStayAlive, PlacesHold, TreeStands, Space!Active
  <1>5. QED
    BY <1>1, <1>2, <1>3, <1>4

(* What stands of a checked command while others commit: the parts of a    *)
(* measured area fit with the one to come, an area to retire has neither   *)
(* parts nor producers, the works to generate are whole and apart.         *)
THEOREM SpaceInvariance ==
  ASSUME Space!GenerationAssumption
  PROVE  Space!Spec => []SpaceInv
  <1>1. Space!Init => SpaceInv
    BY SpaceBegins
  <1>2. SpaceInv /\ [Space!Next]_(Space!vars) => SpaceInv'
    BY SpaceStep
  <1>3. QED
    BY <1>1, <1>2, PTL DEF Space!Spec, Space!vars

(* One obligation has one producer, space is counted once, a work is the   *)
(* sum of its places and places stay alive, whatever finish systems are    *)
(* published and however previews, confirmations, new areas, retirements   *)
(* and other works interleave (gpr2-r05-generation.ts, infra/032, 034).    *)
THEOREM PlacesHaveOneProducer ==
  ASSUME Space!GenerationAssumption
  PROVE  Space!Spec => []SpaceHasOneProducer
  <1>1. SpaceInv => SpaceHasOneProducer
    BY SpaceIsSound DEF SpaceHasOneProducer
  <1>2. QED
    BY <1>1, SpaceInvariance, PTL

-----------------------------------------------------------------------------
(* Catalogue: the inductive invariant                                      *)

InHand(t) == Types!In(t, "checked")

\* A proposal knew its type's unit: a correction moves the version.
ProposalsKnow ==
  \A p \in DOMAIN proposals : LET i == proposals[p].type IN
    /\ i \in DOMAIN types
    /\ proposals[p].typeVersion <= types[i].version
    /\ proposals[p].typeVersion = types[i].version => proposals[p].unit = types[i].unit

CatalogueRows ==
  /\ types \in Seq(Types!Type) /\ Len(types) <= MaxTypes
  /\ \A i \in DOMAIN types : types[i].alias \in {0} \cup DOMAIN types
  /\ proposals \in Seq(Types!Proposal)
  /\ uses \subseteq Types!Use /\ \A u \in uses : u.type \in DOMAIN types
  /\ curated \in 0..MaxCataloguing

\* What a client names is there.
CommandIsKnown(cmd) ==
  /\ cmd.kind \in {"create", "propose", "approve", "reject", "use", "correct"}
  /\ cmd.kind = "create" => cmd.owner \in Objects /\ cmd.unit \in Measurements
  /\ cmd.kind = "propose" => cmd.type \in DOMAIN types
  /\ cmd.kind = "approve" => cmd.proposal \in DOMAIN proposals /\ cmd.alias \in {0}
       \cup DOMAIN types
  /\ cmd.kind = "reject" => cmd.proposal \in DOMAIN proposals
  /\ cmd.kind = "use" => cmd.use \in Types!Use /\ cmd.use.type \in DOMAIN types
  /\ cmd.kind = "correct" => cmd.type \in DOMAIN types /\ cmd.unit \in Measurements

\* What still holds, when a command commits, of what was checked.  The unit of
\* the corporate type of an alias may have been corrected meanwhile.
CheckHolds(cmd) ==
  /\ cmd.kind = "approve" => LET p == proposals[cmd.proposal] IN
       /\ p.status = "PENDING" /\ ~Types!IsCorporate(p.type)
       /\ types[p.type].version = p.typeVersion
       /\ cmd.alias # 0 => Types!IsCorporate(cmd.alias)
  /\ cmd.kind = "reject" => proposals[cmd.proposal].status = "PENDING"
  /\ cmd.kind = "use" => Types!MayUse(cmd.use)
  /\ cmd.kind = "correct" => ~Types!Referenced(cmd.type)

CuratorsHold ==
  /\ DOMAIN curators = Attempts
  /\ \A t \in Attempts :
       \/ curators[t] = [phase |-> "idle"]
       \/ /\ curators[t] = [phase |-> curators[t].phase, cmd |-> curators[t].cmd]
          /\ curators[t].phase \in {"begun", "checked"}
          /\ CommandIsKnown(Types!Cmd(t))
  /\ \A t \in Attempts : InHand(t) => CheckHolds(Types!Cmd(t))
  /\ \A t, u \in Attempts : t # u /\ InHand(t) /\ InHand(u) =>
       ~Types!Conflict(Types!Cmd(t), Types!Cmd(u))

CatalogueStands ==
  /\ CatalogueRows /\ ProposalsKnow
  /\ Types!TypesStayInTheirObject /\ Types!StagesMeasureInTheirUnit /\ Types!PublishedByOneProposal
CatalogueInv == CatalogueStands /\ CuratorsHold

-----------------------------------------------------------------------------
(* Catalogue: what grows and what stands                                   *)

Approvals(i) ==
  {p \in DOMAIN proposals : proposals[p].type = i
  /\ proposals[p].status \in {"PROMOTED", "ALIASED"}}

\* Types and proposals are never taken away, a proposal keeps its type, and a
\* corporate type stays corporate.
CatalogueGrows ==
  /\ DOMAIN types \subseteq DOMAIN types' /\ DOMAIN proposals \subseteq DOMAIN proposals'
  /\ \A p \in DOMAIN proposals : proposals'[p].type = proposals[p].type
  /\ \A i \in DOMAIN types : types[i].owner = Corporate => types'[i].owner = Corporate

LEMMA CatalogueFacts ==
  ASSUME CatalogueRows
  PROVE  /\ Len(types) \in Nat /\ DOMAIN types = 1..Len(types)
         /\ Len(proposals) \in Nat /\ DOMAIN proposals = 1..Len(proposals)
         /\ \A i \in DOMAIN types :
              /\ types[i] \in Types!Type /\ types[i].version \in Nat \ {0}
                 /\ types[i].unit \in Measurements
         /\ \A p \in DOMAIN proposals :
              /\ proposals[p] \in Types!Proposal /\ proposals[p].typeVersion \in Nat \ {0}
  <1>1. types \in Seq(Types!Type) /\ proposals \in Seq(Types!Proposal)
    BY DEF CatalogueRows
  <1>2. \A i \in DOMAIN types : types[i] \in Types!Type
    BY <1>1, LenProperties, ElementOfSeq
  <1>3. \A p \in DOMAIN proposals : proposals[p] \in Types!Proposal
    BY <1>1, LenProperties, ElementOfSeq
  <1>4. QED
    BY <1>1, <1>2, <1>3, LenProperties DEF Types!Type, Types!Proposal

LEMMA PublishedStays ==
  ASSUME Types!PublishedByOneProposal, DOMAIN types \subseteq DOMAIN types',
         \A i \in DOMAIN types : types[i].alias \in {0} \cup DOMAIN types,
         \A i \in DOMAIN types : /\ types'[i].alias = types[i].alias
                                 /\ types'[i].owner = types[i].owner
                                 /\ types'[i].origin = types[i].origin,
         \A i \in DOMAIN types' \ DOMAIN types :
           types'[i].alias = 0 /\ types'[i].owner = types'[i].origin /\ Approvals(i) = {},
         \A i : Approvals(i)' = Approvals(i),
         \A p \in DOMAIN proposals : proposals'[p].alias = proposals[p].alias
  PROVE  Types!PublishedByOneProposal'
  <1>1. SUFFICES ASSUME NEW i \in DOMAIN types'
        PROVE  LET moved == types'[i].alias # 0 \/ types'[i].owner # types'[i].origin
               IN  /\ moved <=> \E p \in Approvals(i)' :
                        Approvals(i)' = {p} /\ proposals'[p].alias = types'[i].alias
                   /\ ~moved => Approvals(i)' = {}
                   /\ types'[i].alias # 0 =>
                        types'[i].owner # Corporate /\ types'[types'[i].alias].owner = Corporate
    BY DEF Types!PublishedByOneProposal, Approvals, Types!IsCorporate
  <1>2. Approvals(i)' = Approvals(i) /\ Approvals(i) \subseteq DOMAIN proposals
    BY DEF Approvals
  <1>3. CASE i \in DOMAIN types
    <2>1. LET moved == types[i].alias # 0 \/ types[i].owner # types[i].origin
          IN  /\ moved <=> \E p \in Approvals(i) :
                   Approvals(i) = {p} /\ proposals[p].alias = types[i].alias
              /\ ~moved => Approvals(i) = {}
              /\ types[i].alias # 0 =>
                   types[i].owner # Corporate /\ types[types[i].alias].owner = Corporate
      BY <1>3 DEF Types!PublishedByOneProposal, Approvals, Types!IsCorporate
    <2>2. types[i].alias # 0 => types'[types[i].alias].owner = Corporate
      BY <1>3, <2>1
    <2>3. \A p \in Approvals(i) : proposals'[p].alias = proposals[p].alias
      BY <1>2
    <2>4. QED
      BY <1>2, <1>3, <2>1, <2>2, <2>3
  <1>4. CASE i \notin DOMAIN types
    BY <1>1, <1>2, <1>4
  <1>5. QED
    BY <1>3, <1>4

LEMMA KnownStays ==
  ASSUME CatalogueGrows
  PROVE  \A c : CommandIsKnown(c) => CommandIsKnown(c)'
  BY DEF CatalogueGrows, CommandIsKnown

LEMMA LocksStay ==
  ASSUME CatalogueGrows
  PROVE  \A c, d : CommandIsKnown(c) /\ CommandIsKnown(d) /\ ~Types!Conflict(c, d) =>
           ~Types!Conflict(c, d)'
  <1>1. ASSUME NEW c, CommandIsKnown(c)
        PROVE  Types!TypesLocked(c)' = Types!TypesLocked(c) /\ Types!ProposalsLocked(c)' =
                 Types!ProposalsLocked(c)
    BY <1>1 DEF CatalogueGrows, CommandIsKnown, Types!TypesLocked, Types!ProposalsLocked
  <1>2. QED
    BY <1>1 DEF Types!Conflict

LEMMA LocksAreMutual ==
  ASSUME NEW c, NEW d, Types!Conflict(c, d)
  PROVE  Types!Conflict(d, c)
  BY DEF Types!Conflict

(* A check stands while nobody writes the rows it holds.                   *)
LEMMA ChecksStay ==
  ASSUME CatalogueRows, ProposalsKnow, CatalogueGrows, NEW d, CommandIsKnown(d), CheckHolds(d),
         \A i \in Types!TypesLocked(d) \cap DOMAIN types : types'[i] = types[i],
         \A p \in Types!ProposalsLocked(d) : proposals'[p] = proposals[p],
         d.kind = "correct" => \A u \in uses' : u.type = d.type => u \in uses
  PROVE  CheckHolds(d)'
  <1>1. CASE d.kind = "approve"
    <2>1. d.proposal \in DOMAIN proposals /\ d.alias \in {0} \cup DOMAIN types
      BY <1>1 DEF CommandIsKnown
    <2>2. proposals'[d.proposal] = proposals[d.proposal]
      BY <1>1 DEF Types!ProposalsLocked
    <2>3. proposals[d.proposal].type \in Types!TypesLocked(d) \cap DOMAIN types
      BY <1>1, <2>1 DEF Types!TypesLocked, ProposalsKnow
    <2>4. types'[proposals[d.proposal].type] = types[proposals[d.proposal].type]
      BY <2>3
    <2>5. d.alias # 0 => types'[d.alias].owner = Corporate
      BY <1>1, <2>1 DEF CheckHolds, Types!IsCorporate, CatalogueGrows
    <2>6. QED
      BY <1>1, <2>2, <2>4, <2>5 DEF CheckHolds, Types!IsCorporate
  <1>2. CASE d.kind = "reject"
    BY <1>2 DEF CheckHolds, Types!ProposalsLocked
  <1>3. CASE d.kind = "use"
    <2>1. types'[d.use.type] = types[d.use.type]
      BY <1>3 DEF Types!TypesLocked, CommandIsKnown
    <2>2. QED
      BY <1>3, <2>1 DEF CheckHolds, Types!MayUse
  <1>4. CASE d.kind = "correct"
    BY <1>4 DEF CheckHolds, Types!Referenced
  <1>5. CASE d.kind \in {"create", "propose"}
    BY <1>5 DEF CheckHolds
  <1>6. QED
    BY <1>1, <1>2, <1>3, <1>4, <1>5 DEF CommandIsKnown

(* One attempt moves; the commands in other hands and their checks stand.  *)
LEMMA CuratorsEvolve ==
  ASSUME CuratorsHold, CatalogueGrows, NEW t \in Attempts, DOMAIN curators' = Attempts,
         \A u \in Attempts \ {t} : curators'[u] = curators[u],
         \A u \in Attempts \ {t} : \A c :
           InHand(u) /\ c = Types!Cmd(u) /\ CommandIsKnown(c) /\ CheckHolds(c) => CheckHolds(c)',
         \/ curators'[t] = [phase |-> "idle"]
         \/ \E c : curators'[t] = [phase |-> "begun", cmd |-> c] /\ CommandIsKnown(c)
         \/ \E c : /\ curators'[t] = [phase |-> "checked", cmd |-> c]
                   /\ CommandIsKnown(c) /\ CheckHolds(c)'
                   /\ \A u \in Attempts \ {t} : InHand(u) => ~Types!Conflict(c, Types!Cmd(u))
  PROVE  CuratorsHold'
  <1>1. \A u \in Attempts \ {t} : InHand(u)' = InHand(u) /\ Types!Cmd(u)' = Types!Cmd(u)
    BY DEF InHand, Types!In, Types!Cmd
  <1>2. \A u \in Attempts : InHand(u) => CommandIsKnown(Types!Cmd(u)) /\ CheckHolds(Types!Cmd(u))
    BY DEF CuratorsHold, InHand, Types!In
  <1>3. \A c : CommandIsKnown(c) => CommandIsKnown(c)'
    BY KnownStays
  <1>4. \A c, d : CommandIsKnown(c) /\ CommandIsKnown(d) /\ ~Types!Conflict(c, d) =>
          ~Types!Conflict(c, d)'
    BY LocksStay
  <1>5. ASSUME NEW u \in Attempts \ {t}
        PROVE  /\ \/ curators'[u] = [phase |-> "idle"]
                  \/ /\ curators'[u] = [phase |-> curators'[u].phase, cmd |-> curators'[u].cmd]
                     /\ curators'[u].phase \in {"begun", "checked"} /\ CommandIsKnown(Types!Cmd(u))'
               /\ InHand(u)' => CheckHolds(Types!Cmd(u))'
    <2>1. PICK c : c = Types!Cmd(u)
      OBVIOUS
    <2>2. Types!Cmd(u)' = c /\ curators'[u] = curators[u]
      BY <2>1, <1>1
    <2>3. \/ curators[u] = [phase |-> "idle"]
          \/ /\ curators[u] = [phase |-> curators[u].phase, cmd |-> curators[u].cmd]
             /\ curators[u].phase \in {"begun", "checked"} /\ CommandIsKnown(c)'
      BY <2>1, <1>3 DEF CuratorsHold
    <2>4. InHand(u)' => CheckHolds(c)'
      BY <2>1, <1>1, <1>2
    <2>5. CommandIsKnown(c)' => CommandIsKnown(Types!Cmd(u))'
      BY <2>2 DEF CommandIsKnown
    <2>6. CheckHolds(c)' => CheckHolds(Types!Cmd(u))'
      BY <2>2 DEF CheckHolds
    <2>7. QED
      BY <2>2, <2>3, <2>4, <2>5, <2>6
  <1>6. /\ \/ curators'[t] = [phase |-> "idle"]
           \/ /\ curators'[t] = [phase |-> curators'[t].phase, cmd |-> curators'[t].cmd]
              /\ curators'[t].phase \in {"begun", "checked"} /\ CommandIsKnown(Types!Cmd(t))'
        /\ InHand(t)' => CheckHolds(Types!Cmd(t))'
        /\ InHand(t)' => \A u \in Attempts \ {t} : InHand(u) =>
             ~Types!Conflict(Types!Cmd(t), Types!Cmd(u))'
    <2>1. CASE curators'[t] = [phase |-> "idle"]
      BY <2>1 DEF InHand, Types!In
    <2>2. CASE \E c : curators'[t] = [phase |-> "begun", cmd |-> c] /\ CommandIsKnown(c)
      <3>1. PICK c : curators'[t] = [phase |-> "begun", cmd |-> c] /\ CommandIsKnown(c)
        BY <2>2
      <3>2. CommandIsKnown(c)' /\ Types!Cmd(t)' = c /\ ~InHand(t)'
        BY <3>1, <1>3 DEF Types!Cmd, InHand, Types!In
      <3>3. CommandIsKnown(Types!Cmd(t))'
        BY <3>2 DEF CommandIsKnown
      <3>4. QED
        BY <3>1, <3>2, <3>3
    <2>3. CASE \E c : /\ curators'[t] = [phase |-> "checked", cmd |-> c]
                      /\ CommandIsKnown(c) /\ CheckHolds(c)'
                      /\ \A u \in Attempts \ {t} : InHand(u) => ~Types!Conflict(c, Types!Cmd(u))
      <3>1. PICK c : /\ curators'[t] = [phase |-> "checked", cmd |-> c]
                     /\ CommandIsKnown(c) /\ CheckHolds(c)'
                     /\ \A u \in Attempts \ {t} : InHand(u) => ~Types!Conflict(c, Types!Cmd(u))
        BY <2>3
      <3>2. CommandIsKnown(c)' /\ Types!Cmd(t)' = c
        BY <3>1, <1>3 DEF Types!Cmd
      <3>3. CommandIsKnown(Types!Cmd(t))' /\ CheckHolds(Types!Cmd(t))'
        BY <3>1, <3>2 DEF CommandIsKnown, CheckHolds
      <3>4. ASSUME NEW u \in Attempts \ {t}, InHand(u)
                     PROVE ~Types!Conflict(Types!Cmd(t), Types!Cmd(u))'
        <4>1. PICK d : d = Types!Cmd(u)
          OBVIOUS
        <4>2. CommandIsKnown(d) /\ Types!Cmd(u)' = d
          BY <3>4, <4>1, <1>1, <1>2
        <4>3. ~Types!Conflict(c, d)'
          BY <3>1, <3>4, <4>1, <4>2, <1>4
        <4>4. QED
          BY <3>2, <4>2, <4>3 DEF Types!Conflict, Types!TypesLocked, Types!ProposalsLocked
      <3>5. QED
        BY <3>1, <3>3, <3>4
    <2>4. QED
      BY <2>1, <2>2, <2>3
  <1>7. ASSUME NEW u \in Attempts, NEW v \in Attempts, u # v, InHand(u)', InHand(v)'
        PROVE  ~Types!Conflict(Types!Cmd(u), Types!Cmd(v))'
    <2>1. CASE u # t /\ v # t
      <3>1. PICK c, d : c = Types!Cmd(u) /\ d = Types!Cmd(v)
        OBVIOUS
      <3>2. Types!Cmd(u)' = c /\ Types!Cmd(v)' = d /\ InHand(u) /\ InHand(v)
        BY <1>1, <1>7, <2>1, <3>1
      <3>3. CommandIsKnown(c) /\ CommandIsKnown(d) /\ ~Types!Conflict(c, d)
        BY <1>2, <1>7, <3>1, <3>2 DEF CuratorsHold
      <3>4. ~Types!Conflict(c, d)'
        BY <3>3, <1>4
      <3>5. QED
        BY <3>2, <3>4 DEF Types!Conflict, Types!TypesLocked, Types!ProposalsLocked
    <2>2. CASE u = t
      BY <1>1, <1>6, <1>7, <2>2
    <2>3. CASE v = t
      <3>1. ~Types!Conflict(Types!Cmd(v), Types!Cmd(u))'
        BY <1>1, <1>6, <1>7, <2>3
      <3>2. QED
        BY <3>1 DEF Types!Conflict
    <2>4. QED
      BY <2>1, <2>2, <2>3
  <1>8. QED
    BY <1>5, <1>6, <1>7 DEF CuratorsHold

(* What commits is what was checked; its attempt ends.                     *)
LEMMA CuratorCommits ==
  ASSUME CuratorsHold, NEW t \in Attempts, NEW kind, Types!Committing(t, kind)
  PROVE  \E c : /\ c = Types!Cmd(t) /\ c.kind = kind /\ CommandIsKnown(c) /\ CheckHolds(c)
                /\ DOMAIN curators' = Attempts /\ curators'[t] = [phase |-> "idle"]
                /\ \A u \in Attempts \ {t} :
                     curators'[u] = curators[u] /\ (InHand(u) => ~Types!Conflict(c, Types!Cmd(u)))
  <1>1. curators[t] # [phase |-> "idle"] /\ InHand(t)
    BY DEF Types!Committing, Types!In, InHand
  <1>2. CommandIsKnown(Types!Cmd(t)) /\ CheckHolds(Types!Cmd(t))
    BY <1>1 DEF CuratorsHold
  <1>3. \A u \in Attempts \ {t} : InHand(u) => ~Types!Conflict(Types!Cmd(t), Types!Cmd(u))
    BY <1>1 DEF CuratorsHold
  <1>4. DOMAIN curators' = Attempts /\ curators'[t] = [phase |-> "idle"]
        /\ \A u \in Attempts \ {t} : curators'[u] = curators[u]
    BY DEF Types!Committing, CuratorsHold
  <1>5. QED
    BY <1>1, <1>2, <1>3, <1>4 DEF Types!Committing
-----------------------------------------------------------------------------
(* Catalogue: the commits                                                  *)

(* A check that conflicts with nothing written stands: the commit keeps    *)
(* the hands in order.                                                     *)
LEMMA CuratorsKept ==
  ASSUME CatalogueRows, ProposalsKnow, CuratorsHold, CatalogueGrows, NEW t \in Attempts, NEW c,
         DOMAIN curators' = Attempts, curators'[t] = [phase |-> "idle"],
         \A u \in Attempts \ {t} :
           curators'[u] = curators[u] /\ (InHand(u) => ~Types!Conflict(c, Types!Cmd(u))),
         \A d : CommandIsKnown(d) /\ CheckHolds(d) /\ ~Types!Conflict(c, d) =>
                  /\ \A i \in Types!TypesLocked(d) \cap DOMAIN types : types'[i] = types[i]
                  /\ \A p \in Types!ProposalsLocked(d) : proposals'[p] = proposals[p]
                  /\ d.kind = "correct" => \A u \in uses' : u.type = d.type => u \in uses
  PROVE  CuratorsHold'
  <1>1. ASSUME NEW u \in Attempts \ {t}, NEW d, InHand(u), d = Types!Cmd(u),
               CommandIsKnown(d), CheckHolds(d)
        PROVE  CheckHolds(d)'
    <2>1. ~Types!Conflict(c, d)
      BY <1>1
    <2>2. /\ \A i \in Types!TypesLocked(d) \cap DOMAIN types : types'[i] = types[i]
          /\ \A p \in Types!ProposalsLocked(d) : proposals'[p] = proposals[p]
          /\ d.kind = "correct" => \A w \in uses' : w.type = d.type => w \in uses
      BY <1>1, <2>1
    <2>3. QED
      BY <1>1, <2>2, ChecksStay
  <1>2. \A u \in Attempts \ {t} : \A d :
          InHand(u) /\ d = Types!Cmd(u) /\ CommandIsKnown(d) /\ CheckHolds(d) => CheckHolds(d)'
    BY <1>1
  <1>3. QED
    BY <1>2, CuratorsEvolve

LEMMA CreationKeepsTheCatalogue ==
  ASSUME Types!TypesAssumption, CatalogueInv, NEW t \in Attempts, Types!CreateObjectWorkType(t)
  PROVE  CatalogueInv'
  <1>1. PICK c : /\ c = Types!Cmd(t) /\ c.kind = "create" /\ CommandIsKnown(c) /\ CheckHolds(c)
                 /\ DOMAIN curators' = Attempts /\ curators'[t] = [phase |-> "idle"]
                 /\ \A u \in Attempts \ {t} :
                      curators'[u] = curators[u] /\ (InHand(u) => ~Types!Conflict(c, Types!Cmd(u)))
    BY CuratorCommits DEF Types!CreateObjectWorkType, CatalogueInv
  <1> DEFINE new == [owner |-> c.owner, origin |-> c.owner, unit |-> c.unit,
                     alias |-> 0, version |-> 1]
  <1>2. /\ types' = Append(types, new) /\ Len(types) < MaxTypes
        /\ proposals' = proposals /\ uses' = uses /\ curated' = curated
    BY <1>1 DEF Types!CreateObjectWorkType, Types!Committing
  <1>3. CatalogueRows /\ ProposalsKnow /\ Types!TypesStayInTheirObject
        /\ Types!StagesMeasureInTheirUnit
        /\ Types!PublishedByOneProposal /\ CuratorsHold
    BY DEF CatalogueInv, CatalogueStands
  <1>4. /\ types \in Seq(Types!Type) /\ Len(types) \in Nat /\ DOMAIN types = 1..Len(types)
        /\ DOMAIN proposals = 1..Len(proposals)
        /\ MaxTypes \in Nat
    BY <1>3, CatalogueFacts DEF CatalogueRows, Types!TypesAssumption
  <1>5. new \in Types!Type
    BY <1>1, <1>4 DEF CommandIsKnown, Types!Type
  <1>6. /\ types' \in Seq(Types!Type) /\ Len(types') = Len(types) + 1
        /\ \A i \in 1..Len(types) : types'[i] = types[i]
        /\ types'[Len(types) + 1] = new
    <2> HIDE DEF new
    <2>1. QED
      BY <1>2, <1>4, <1>5, AppendProperties
  <1>7. DOMAIN types' = DOMAIN types \cup {Len(types) + 1} /\ Len(types) + 1 \notin DOMAIN types
    <2>1. DOMAIN types' = 1..Len(types')
      BY <1>6, LenProperties
    <2>2. QED
      BY <1>4, <1>6, <2>1
  <1>8. \A i \in DOMAIN types : types'[i] = types[i]
    BY <1>4, <1>6
  <1>9. CatalogueGrows
    BY <1>2, <1>7, <1>8 DEF CatalogueGrows
  <1>10. CatalogueRows'
    <2>1. Len(types') <= MaxTypes
      BY <1>2, <1>4, <1>6
    <2>2. \A i \in DOMAIN types' : types'[i].alias \in {0} \cup DOMAIN types'
      BY <1>3, <1>6, <1>7, <1>8 DEF CatalogueRows
    <2>3. \A u \in uses' : u.type \in DOMAIN types'
      BY <1>2, <1>3, <1>7 DEF CatalogueRows
    <2>4. QED
      BY <1>2, <1>3, <1>6, <2>1, <2>2, <2>3 DEF CatalogueRows
  <1>11. ProposalsKnow'
    BY <1>2, <1>3, <1>7, <1>8 DEF ProposalsKnow
  <1>12. Types!TypesStayInTheirObject' /\ Types!StagesMeasureInTheirUnit'
    BY <1>2, <1>3, <1>8 DEF Types!TypesStayInTheirObject, Types!StagesMeasureInTheirUnit,
       CatalogueRows
  <1>13. Types!PublishedByOneProposal'
    <2>1. \A i : Approvals(i)' = Approvals(i)
      BY <1>2 DEF Approvals
    <2>2. Approvals(Len(types) + 1) = {}
      BY <1>3, <1>7 DEF Approvals, ProposalsKnow
    <2>3. \A i \in DOMAIN types' \ DOMAIN types :
            types'[i].alias = 0 /\ types'[i].owner = types'[i].origin /\ Approvals(i) = {}
      BY <1>6, <1>7, <2>2
    <2>4. QED
      BY <1>2, <1>3, <1>7, <1>8, <2>1, <2>3, PublishedStays DEF CatalogueRows
  <1>14. CuratorsHold'
    BY <1>1, <1>2, <1>3, <1>8, <1>9, CuratorsKept
  <1>15. QED
    BY <1>10, <1>11, <1>12, <1>13, <1>14 DEF CatalogueInv, CatalogueStands

LEMMA RequestKeepsTheCatalogue ==
  ASSUME Types!TypesAssumption, CatalogueInv, NEW t \in Attempts, Types!RequestPublication(t)
  PROVE  CatalogueInv'
  <1>1. PICK c : /\ c = Types!Cmd(t) /\ c.kind = "propose" /\ CommandIsKnown(c) /\ CheckHolds(c)
                 /\ DOMAIN curators' = Attempts /\ curators'[t] = [phase |-> "idle"]
                 /\ \A u \in Attempts \ {t} :
                      curators'[u] = curators[u] /\ (InHand(u) => ~Types!Conflict(c, Types!Cmd(u)))
    BY CuratorCommits DEF Types!RequestPublication, CatalogueInv
  <1>2. PICK i, new :
          /\ i = c.type /\ i \in DOMAIN types
          /\ new = [type |-> i, typeVersion |-> types[i].version, unit |-> types[i].unit,
                    alias |-> 0, status |-> "PENDING"]
    BY <1>1 DEF CommandIsKnown
  <1>3. /\ proposals' = Append(proposals, new)
        /\ types' = types /\ uses' = uses /\ curated' = curated
    BY <1>1, <1>2 DEF Types!RequestPublication, Types!Committing
  <1>4. CatalogueRows /\ ProposalsKnow /\ Types!TypesStayInTheirObject
        /\ Types!StagesMeasureInTheirUnit
        /\ Types!PublishedByOneProposal /\ CuratorsHold
    BY DEF CatalogueInv, CatalogueStands
  <1>5. /\ proposals \in Seq(Types!Proposal) /\ Len(proposals) \in Nat
        /\ DOMAIN proposals = 1..Len(proposals) /\ MaxTypes \in Nat
        /\ DOMAIN types = 1..Len(types) /\ Len(types) \in Nat /\ Len(types) <= MaxTypes
        /\ types[i].version \in Nat \ {0} /\ types[i].unit \in Measurements
    BY <1>2, <1>4, CatalogueFacts DEF CatalogueRows, Types!TypesAssumption
  <1>6. new \in Types!Proposal
    BY <1>2, <1>5 DEF Types!Proposal, Types!Ids
  <1>7. /\ proposals' \in Seq(Types!Proposal) /\ Len(proposals') = Len(proposals) + 1
        /\ \A p \in 1..Len(proposals) : proposals'[p] = proposals[p]
        /\ proposals'[Len(proposals) + 1] = new
    BY <1>3, <1>5, <1>6, AppendProperties
  <1>8. /\ DOMAIN proposals' = DOMAIN proposals \cup {Len(proposals) + 1}
        /\ Len(proposals) + 1 \notin DOMAIN proposals
    <2>1. DOMAIN proposals' = 1..Len(proposals')
      BY <1>7, LenProperties
    <2>2. QED
      BY <1>5, <1>7, <2>1
  <1>9. \A p \in DOMAIN proposals : proposals'[p] = proposals[p]
    BY <1>5, <1>7
  <1>10. CatalogueGrows
    BY <1>3, <1>8, <1>9 DEF CatalogueGrows
  <1>11. CatalogueRows'
    BY <1>3, <1>4, <1>7 DEF CatalogueRows
  <1>12. ProposalsKnow'
    <2>1. ASSUME NEW p \in DOMAIN proposals'
          PROVE  LET j == proposals'[p].type IN
                   /\ j \in DOMAIN types /\ proposals'[p].typeVersion <= types[j].version
                   /\ proposals'[p].typeVersion = types[j].version =>
                        proposals'[p].unit = types[j].unit
      <3>1. CASE p \in DOMAIN proposals
        BY <3>1, <1>4, <1>9 DEF ProposalsKnow
      <3>2. CASE p = Len(proposals) + 1
        <4>1. proposals'[p].type = i /\ proposals'[p].typeVersion = types[i].version
              /\ proposals'[p].unit = types[i].unit
          BY <3>2, <1>2, <1>7
        <4>2. QED
          BY <1>2, <1>5, <4>1
      <3>3. QED
        BY <1>8, <3>1, <3>2
    <2>2. QED
      BY <1>3, <2>1 DEF ProposalsKnow
  <1>13. Types!TypesStayInTheirObject' /\ Types!StagesMeasureInTheirUnit'
    BY <1>3, <1>4 DEF Types!TypesStayInTheirObject, Types!StagesMeasureInTheirUnit
  <1>14. Types!PublishedByOneProposal'
    <2>1. \A j : Approvals(j)' = Approvals(j)
      BY <1>2, <1>7, <1>8, <1>9 DEF Approvals
    <2>2. QED
      BY <1>3, <1>4, <1>9, <2>1, PublishedStays DEF CatalogueRows
  <1>15. CuratorsHold'
    <2>1. \A d : CommandIsKnown(d) => \A p \in Types!ProposalsLocked(d) : proposals'[p] =
            proposals[p]
      BY <1>9 DEF CommandIsKnown, Types!ProposalsLocked
    <2>2. QED
      BY <1>1, <1>3, <1>4, <1>10, <2>1, CuratorsKept
  <1>16. QED
    BY <1>11, <1>12, <1>13, <1>14, <1>15 DEF CatalogueInv, CatalogueStands

LEMMA RejectionKeepsTheCatalogue ==
  ASSUME Types!TypesAssumption, CatalogueInv, NEW t \in Attempts, Types!RejectPublication(t)
  PROVE  CatalogueInv'
  <1>1. PICK c : /\ c = Types!Cmd(t) /\ c.kind = "reject" /\ CommandIsKnown(c) /\ CheckHolds(c)
                 /\ DOMAIN curators' = Attempts /\ curators'[t] = [phase |-> "idle"]
                 /\ \A u \in Attempts \ {t} :
                      curators'[u] = curators[u] /\ (InHand(u) => ~Types!Conflict(c, Types!Cmd(u)))
    BY CuratorCommits DEF Types!RejectPublication, CatalogueInv
  <1>2. PICK p : p = c.proposal /\ p \in DOMAIN proposals /\ proposals[p].status = "PENDING"
    BY <1>1 DEF CommandIsKnown, CheckHolds
  <1>3. /\ proposals' = [proposals EXCEPT ![p].status = "REJECTED"]
        /\ types' = types /\ uses' = uses /\ curated' = curated
    BY <1>1, <1>2 DEF Types!RejectPublication, Types!Committing
  <1>4. CatalogueRows /\ ProposalsKnow /\ Types!TypesStayInTheirObject
        /\ Types!StagesMeasureInTheirUnit
        /\ Types!PublishedByOneProposal /\ CuratorsHold
    BY DEF CatalogueInv, CatalogueStands
  <1>5. PICK new : new = [proposals[p] EXCEPT !.status = "REJECTED"]
    OBVIOUS
  <1>6. /\ proposals \in Seq(Types!Proposal) /\ DOMAIN proposals = 1..Len(proposals)
        /\ proposals[p] \in Types!Proposal
    BY <1>2, <1>4, CatalogueFacts DEF CatalogueRows
  <1>7. /\ new \in Types!Proposal /\ new.type = proposals[p].type /\ new.status = "REJECTED"
        /\ new.alias = proposals[p].alias /\ new.typeVersion = proposals[p].typeVersion
        /\ new.unit = proposals[p].unit
    BY <1>5, <1>6 DEF Types!Proposal
  <1>8. proposals' = [proposals EXCEPT ![p] = new]
    BY <1>3, <1>5
  <1>9. /\ proposals' \in Seq(Types!Proposal) /\ DOMAIN proposals' = DOMAIN proposals
        /\ \A q \in DOMAIN proposals : proposals'[q] = IF q = p THEN new ELSE proposals[q]
    BY <1>2, <1>6, <1>7, <1>8, ExceptSeq
  <1>10. CatalogueGrows
    BY <1>3, <1>7, <1>9 DEF CatalogueGrows
  <1>11. CatalogueRows'
    BY <1>3, <1>4, <1>9 DEF CatalogueRows
  <1>12. ProposalsKnow'
    <2>1. \A q \in DOMAIN proposals : /\ proposals'[q].type = proposals[q].type
                                      /\ proposals'[q].typeVersion = proposals[q].typeVersion
                                      /\ proposals'[q].unit = proposals[q].unit
      BY <1>7, <1>9
    <2>2. QED
      BY <1>3, <1>4, <1>9, <2>1 DEF ProposalsKnow
  <1>13. Types!TypesStayInTheirObject' /\ Types!StagesMeasureInTheirUnit'
    BY <1>3, <1>4 DEF Types!TypesStayInTheirObject, Types!StagesMeasureInTheirUnit
  <1>14. Types!PublishedByOneProposal'
    <2>1. \A j : Approvals(j)' = Approvals(j)
      BY <1>2, <1>7, <1>9 DEF Approvals
    <2>2. \A q \in DOMAIN proposals : proposals'[q].alias = proposals[q].alias
      BY <1>7, <1>9
    <2>3. QED
      BY <1>3, <1>4, <2>1, <2>2, PublishedStays DEF CatalogueRows
  <1>15. CuratorsHold'
    <2>1. \A d : CommandIsKnown(d) /\ ~Types!Conflict(c, d) =>
                   \A q \in Types!ProposalsLocked(d) : proposals'[q] = proposals[q]
      BY <1>1, <1>2, <1>9 DEF CommandIsKnown, Types!Conflict, Types!ProposalsLocked
    <2>2. QED
      BY <1>1, <1>3, <1>4, <1>10, <2>1, CuratorsKept
  <1>16. QED
    BY <1>11, <1>12, <1>13, <1>14, <1>15 DEF CatalogueInv, CatalogueStands

LEMMA UseKeepsTheCatalogue ==
  ASSUME Types!TypesAssumption, CatalogueInv, NEW t \in Attempts, Types!NameType(t)
  PROVE  CatalogueInv'
  <1>1. PICK c : /\ c = Types!Cmd(t) /\ c.kind = "use" /\ CommandIsKnown(c) /\ CheckHolds(c)
                 /\ DOMAIN curators' = Attempts /\ curators'[t] = [phase |-> "idle"]
                 /\ \A u \in Attempts \ {t} :
                      curators'[u] = curators[u] /\ (InHand(u) => ~Types!Conflict(c, Types!Cmd(u)))
    BY CuratorCommits DEF Types!NameType, CatalogueInv
  <1>2. /\ uses' = uses \cup {c.use} /\ types' = types /\ proposals' = proposals
        /\ curated' = curated
    BY <1>1 DEF Types!NameType, Types!Committing
  <1>3. CatalogueRows /\ ProposalsKnow /\ Types!TypesStayInTheirObject
        /\ Types!StagesMeasureInTheirUnit
        /\ Types!PublishedByOneProposal /\ CuratorsHold
    BY DEF CatalogueInv, CatalogueStands
  <1>4. c.use \in Types!Use /\ c.use.type \in DOMAIN types /\ Types!MayUse(c.use)
    BY <1>1 DEF CommandIsKnown, CheckHolds
  <1>5. CatalogueGrows
    BY <1>2 DEF CatalogueGrows
  <1>6. CatalogueRows'
    BY <1>2, <1>3, <1>4 DEF CatalogueRows
  <1>7. ProposalsKnow'
    BY <1>2, <1>3 DEF ProposalsKnow
  <1>8. Types!TypesStayInTheirObject' /\ Types!StagesMeasureInTheirUnit'
    BY <1>2, <1>3, <1>4 DEF Types!TypesStayInTheirObject, Types!StagesMeasureInTheirUnit,
       Types!MayUse
  <1>9. Types!PublishedByOneProposal'
    BY <1>2, <1>3 DEF Types!PublishedByOneProposal, Types!IsCorporate
  <1>10. CuratorsHold'
    <2>1. \A d : CommandIsKnown(d) /\ ~Types!Conflict(c, d) /\ d.kind = "correct" =>
                   d.type # c.use.type
      BY <1>1 DEF Types!Conflict, Types!TypesLocked
    <2>2. QED
      BY <1>1, <1>2, <1>3, <1>5, <2>1, CuratorsKept
  <1>11. QED
    BY <1>6, <1>7, <1>8, <1>9, <1>10 DEF CatalogueInv, CatalogueStands
LEMMA CorrectionKeepsTheCatalogue ==
  ASSUME Types!TypesAssumption, CatalogueInv, NEW t \in Attempts, Types!CorrectUnit(t)
  PROVE  CatalogueInv'
  <1>1. PICK c : /\ c = Types!Cmd(t) /\ c.kind = "correct" /\ CommandIsKnown(c) /\ CheckHolds(c)
                 /\ DOMAIN curators' = Attempts /\ curators'[t] = [phase |-> "idle"]
                 /\ \A u \in Attempts \ {t} :
                      curators'[u] = curators[u] /\ (InHand(u) => ~Types!Conflict(c, Types!Cmd(u)))
    BY CuratorCommits DEF Types!CorrectUnit, CatalogueInv
  <1>2. PICK i : i = c.type /\ i \in DOMAIN types /\ c.unit \in Measurements /\ ~Types!Referenced(i)
    BY <1>1 DEF CommandIsKnown, CheckHolds
  <1>3. /\ types' = [types EXCEPT ![i].unit = c.unit, ![i].version = @ + 1]
        /\ proposals' = proposals /\ uses' = uses /\ curated' = curated
    BY <1>1, <1>2 DEF Types!CorrectUnit, Types!Committing
  <1>4. CatalogueRows /\ ProposalsKnow /\ Types!TypesStayInTheirObject
        /\ Types!StagesMeasureInTheirUnit
        /\ Types!PublishedByOneProposal /\ CuratorsHold
    BY DEF CatalogueInv, CatalogueStands
  <1>5. PICK new : new = [types[i] EXCEPT !.unit = c.unit, !.version = types[i].version + 1]
    OBVIOUS
  <1>6. /\ types \in Seq(Types!Type) /\ DOMAIN types = 1..Len(types)
        /\ types[i] \in Types!Type /\ \A j \in DOMAIN types : types[j].version \in Nat \ {0}
    BY <1>2, <1>4, CatalogueFacts DEF CatalogueRows
  <1>7. /\ new \in Types!Type /\ new.owner = types[i].owner /\ new.origin = types[i].origin
        /\ new.alias = types[i].alias /\ new.version = types[i].version + 1
    <2>1. types[i].version + 1 \in Nat \ {0}
      BY <1>2, <1>6
    <2>2. QED
      BY <1>2, <1>5, <1>6, <2>1 DEF Types!Type
  <1>8. types' = [types EXCEPT ![i] = new]
    BY <1>2, <1>3, <1>5, <1>6 DEF Types!Type
  <1>9. /\ types' \in Seq(Types!Type) /\ DOMAIN types' = DOMAIN types /\ Len(types') = Len(types)
        /\ \A j \in DOMAIN types : types'[j] = IF j = i THEN new ELSE types[j]
    BY <1>2, <1>6, <1>7, <1>8, ExceptSeq
  <1>10. \A j \in DOMAIN types : /\ types'[j].alias = types[j].alias
                                 /\ types'[j].owner = types[j].owner
                                 /\ types'[j].origin = types[j].origin
    BY <1>7, <1>9
  <1>11. CatalogueGrows
    BY <1>3, <1>9, <1>10 DEF CatalogueGrows
  <1>12. CatalogueRows'
    BY <1>3, <1>4, <1>9, <1>10 DEF CatalogueRows
  <1>13. ProposalsKnow'
    <2>1. ASSUME NEW p \in DOMAIN proposals
          PROVE  LET j == proposals[p].type IN
                   /\ j \in DOMAIN types' /\ proposals[p].typeVersion <= types'[j].version
                   /\ proposals[p].typeVersion = types'[j].version =>
                        proposals[p].unit = types'[j].unit
      <3>1. PICK j : j = proposals[p].type /\ j \in DOMAIN types
        BY <1>4 DEF ProposalsKnow
      <3>2. proposals[p].typeVersion \in Nat /\ types[j].version \in Nat
        BY <1>4, <3>1, CatalogueFacts
      <3>3. /\ proposals[p].typeVersion <= types[j].version
            /\ proposals[p].typeVersion = types[j].version => proposals[p].unit = types[j].unit
        BY <1>4, <3>1 DEF ProposalsKnow
      <3>4. CASE j = i
        BY <1>7, <1>9, <3>1, <3>2, <3>3, <3>4
      <3>5. CASE j # i
        BY <1>9, <3>1, <3>3, <3>5
      <3>6. QED
        BY <3>4, <3>5
    <2>2. QED
      BY <1>3, <2>1 DEF ProposalsKnow
  <1>14. Types!TypesStayInTheirObject'
    BY <1>3, <1>4, <1>10 DEF Types!TypesStayInTheirObject, CatalogueRows
  <1>15. Types!StagesMeasureInTheirUnit'
    <2>1. \A u \in uses : u.type \in DOMAIN types /\ u.type # i
      BY <1>2, <1>4 DEF Types!Referenced, CatalogueRows
    <2>2. \A u \in uses : types'[u.type] = types[u.type]
      BY <1>9, <2>1
    <2>3. QED
      BY <1>3, <1>4, <2>2 DEF Types!StagesMeasureInTheirUnit
  <1>16. Types!PublishedByOneProposal'
    <2>1. \A j : Approvals(j)' = Approvals(j)
      BY <1>3 DEF Approvals
    <2>2. QED
      BY <1>3, <1>4, <1>9, <1>10, <2>1, PublishedStays DEF CatalogueRows
  <1>17. CuratorsHold'
    <2>1. \A d : CommandIsKnown(d) /\ ~Types!Conflict(c, d) =>
                   \A j \in Types!TypesLocked(d) \cap DOMAIN types : types'[j] = types[j]
      <3>1. \A d : ~Types!Conflict(c, d) => i \notin Types!TypesLocked(d)
        BY <1>1, <1>2 DEF Types!Conflict, Types!TypesLocked
      <3>2. QED
        BY <1>9, <3>1
    <2>2. QED
      BY <1>1, <1>3, <1>4, <1>11, <2>1, CuratorsKept
  <1>18. QED
    BY <1>12, <1>13, <1>14, <1>15, <1>16, <1>17 DEF CatalogueInv, CatalogueStands

LEMMA ApprovalKeepsTheCatalogue ==
  ASSUME Types!TypesAssumption, CatalogueInv, NEW t \in Attempts, Types!ApprovePublication(t)
  PROVE  CatalogueInv'
  <1>1. PICK c : /\ c = Types!Cmd(t) /\ c.kind = "approve" /\ CommandIsKnown(c) /\ CheckHolds(c)
                 /\ DOMAIN curators' = Attempts /\ curators'[t] = [phase |-> "idle"]
                 /\ \A u \in Attempts \ {t} :
                      curators'[u] = curators[u] /\ (InHand(u) => ~Types!Conflict(c, Types!Cmd(u)))
    BY CuratorCommits DEF Types!ApprovePublication, CatalogueInv
  <1>2. CatalogueRows /\ ProposalsKnow /\ Types!TypesStayInTheirObject
        /\ Types!StagesMeasureInTheirUnit
        /\ Types!PublishedByOneProposal /\ CuratorsHold
    BY DEF CatalogueInv, CatalogueStands
  <1>3. PICK p, i, a :
          /\ p = c.proposal /\ p \in DOMAIN proposals /\ a = c.alias /\ a \in {0} \cup DOMAIN types
          /\ i = proposals[p].type /\ i \in DOMAIN types
          /\ proposals[p].status = "PENDING" /\ types[i].owner # Corporate
          /\ types[i].version = proposals[p].typeVersion
          /\ a # 0 => types[a].owner = Corporate
    BY <1>1, <1>2 DEF CommandIsKnown, CheckHolds, Types!IsCorporate, ProposalsKnow
  <1>4. PICK status : status = IF a = 0 THEN "PROMOTED" ELSE "ALIASED"
    OBVIOUS
  <1>5. /\ ~Types!Approved(i)
        /\ proposals' = [proposals EXCEPT ![p].status = status, ![p].alias = a]
        /\ types' = [types EXCEPT ![i].alias = a, ![i].version = @ + 1,
                                  ![i].owner = IF a = 0 THEN Corporate ELSE @]
        /\ uses' = uses /\ curated' = curated
    BY <1>1, <1>3, <1>4 DEF Types!ApprovePublication, Types!Committing
  <1>6. PICK newType, newProposal :
          /\ newProposal = [proposals[p] EXCEPT !.status = status, !.alias = a]
          /\ newType = [types[i] EXCEPT !.alias = a, !.version = types[i].version + 1,
                                        !.owner = IF a = 0 THEN Corporate ELSE types[i].owner]
    OBVIOUS
  <1>7. /\ types \in Seq(Types!Type) /\ DOMAIN types = 1..Len(types) /\ Len(types) \in Nat
        /\ Len(types) <= MaxTypes /\ MaxTypes \in Nat
        /\ types[i] \in Types!Type /\ \A j \in DOMAIN types : types[j].version \in Nat \ {0}
        /\ proposals \in Seq(Types!Proposal) /\ DOMAIN proposals = 1..Len(proposals)
        /\ proposals[p] \in Types!Proposal
    BY <1>2, <1>3, CatalogueFacts DEF CatalogueRows, Types!TypesAssumption
  <1>8. a \in 0..MaxTypes /\ a # i
    BY <1>3, <1>7
  <1>9. /\ newType \in Types!Type /\ newType.origin = types[i].origin /\ newType.alias = a
        /\ newType.version = types[i].version + 1 /\ newType.unit = types[i].unit
        /\ newType.owner = IF a = 0 THEN Corporate ELSE types[i].owner
    <2>1. types[i].version + 1 \in Nat \ {0}
      BY <1>3, <1>7
    <2>2. (IF a = 0 THEN Corporate ELSE types[i].owner) \in Objects \cup {Corporate}
      BY <1>7 DEF Types!Type
    <2>3. QED
      BY <1>6, <1>7, <1>8, <2>1, <2>2 DEF Types!Type
  <1>10. /\ newProposal \in Types!Proposal /\ newProposal.type = i /\ newProposal.alias = a
         /\ newProposal.status = status /\ newProposal.typeVersion = proposals[p].typeVersion
         /\ newProposal.unit = proposals[p].unit
    BY <1>3, <1>4, <1>6, <1>7, <1>8 DEF Types!Proposal
  <1>11. types' = [types EXCEPT ![i] = newType] /\ proposals' = [proposals EXCEPT ![p] =
           newProposal]
    BY <1>3, <1>5, <1>6, <1>7 DEF Types!Type, Types!Proposal
  <1>12. /\ types' \in Seq(Types!Type) /\ DOMAIN types' = DOMAIN types /\ Len(types') = Len(types)
         /\ \A j \in DOMAIN types : types'[j] = IF j = i THEN newType ELSE types[j]
    BY <1>3, <1>7, <1>9, <1>11, ExceptSeq
  <1>13. /\ proposals' \in Seq(Types!Proposal) /\ DOMAIN proposals' = DOMAIN proposals
         /\ \A q \in DOMAIN proposals : proposals'[q] = IF q = p THEN newProposal ELSE proposals[q]
    BY <1>3, <1>7, <1>10, <1>11, ExceptSeq
  <1>14. CatalogueGrows
    BY <1>3, <1>9, <1>10, <1>12, <1>13 DEF CatalogueGrows
  <1>15. CatalogueRows'
    BY <1>2, <1>3, <1>5, <1>9, <1>12, <1>13 DEF CatalogueRows
  <1>16. ProposalsKnow'
    <2>1. ASSUME NEW q \in DOMAIN proposals
          PROVE  LET j == proposals'[q].type IN
                   /\ j \in DOMAIN types' /\ proposals'[q].typeVersion <= types'[j].version
                   /\ proposals'[q].typeVersion = types'[j].version =>
                        proposals'[q].unit = types'[j].unit
      <3>1. PICK j : j = proposals[q].type /\ j \in DOMAIN types
        BY <1>2 DEF ProposalsKnow
      <3>2. /\ proposals'[q].type = j /\ proposals'[q].unit = proposals[q].unit
            /\ proposals'[q].typeVersion = proposals[q].typeVersion
        BY <1>3, <1>10, <1>13, <3>1
      <3>3. proposals[q].typeVersion \in Nat /\ types[j].version \in Nat
        BY <1>2, <3>1, CatalogueFacts
      <3>4. /\ proposals[q].typeVersion <= types[j].version
            /\ proposals[q].typeVersion = types[j].version => proposals[q].unit = types[j].unit
        BY <1>2, <3>1 DEF ProposalsKnow
      <3>5. CASE j = i
        BY <1>9, <1>12, <3>1, <3>2, <3>3, <3>4, <3>5
      <3>6. CASE j # i
        BY <1>12, <3>1, <3>2, <3>4, <3>6
      <3>7. QED
        BY <3>5, <3>6
    <2>2. QED
      BY <1>13, <2>1 DEF ProposalsKnow
  <1>17. Types!TypesStayInTheirObject' /\ Types!StagesMeasureInTheirUnit'
    <2>1. \A j \in DOMAIN types : /\ types'[j].owner \in {Corporate, types[j].owner}
                                  /\ types'[j].unit = types[j].unit
      BY <1>9, <1>12
    <2>2. QED
      BY <1>2, <1>5, <2>1 DEF Types!TypesStayInTheirObject, Types!StagesMeasureInTheirUnit,
         CatalogueRows
  <1>18. Types!PublishedByOneProposal'
    <2>1. Approvals(i) = {} /\ Approvals(i)' = {p}
      <3>1. Approvals(i) = {}
        BY <1>5 DEF Types!Approved, Approvals
      <3>2. \A q \in DOMAIN proposals' :
              proposals'[q].type = i /\ proposals'[q].status \in {"PROMOTED", "ALIASED"} <=> q = p
        <4>1. \A q \in DOMAIN proposals :
                ~(proposals[q].type = i /\ proposals[q].status \in {"PROMOTED", "ALIASED"})
          BY <1>5 DEF Types!Approved
        <4>2. QED
          BY <1>3, <1>4, <1>10, <1>13, <4>1
      <3>3. QED
        BY <1>3, <1>13, <3>1, <3>2 DEF Approvals
    <2>2. \A j : j # i => Approvals(j)' = Approvals(j)
      BY <1>3, <1>10, <1>13 DEF Approvals
    <2>3. types[i].alias = 0 /\ types[i].owner = types[i].origin
      BY <1>2, <1>3, <2>1 DEF Types!PublishedByOneProposal, Approvals
    <2>4. SUFFICES ASSUME NEW j \in DOMAIN types'
          PROVE  LET moved == types'[j].alias # 0 \/ types'[j].owner # types'[j].origin
                 IN  /\ moved <=> \E q \in Approvals(j)' :
                          Approvals(j)' = {q} /\ proposals'[q].alias = types'[j].alias
                     /\ ~moved => Approvals(j)' = {}
                     /\ types'[j].alias # 0 =>
                          types'[j].owner # Corporate /\ types'[types'[j].alias].owner = Corporate
      BY DEF Types!PublishedByOneProposal, Approvals, Types!IsCorporate
    <2>5. CASE j = i
      <3>1. /\ types'[i].alias = a /\ types'[i].origin = types[i].owner
            /\ types'[i].owner = IF a = 0 THEN Corporate ELSE types[i].owner
        BY <1>3, <1>9, <1>12, <2>3
      <3>2. a # 0 => a \in DOMAIN types /\ types'[a] = types[a] /\ types'[a].owner = Corporate
        BY <1>3, <1>8, <1>12
      <3>3. proposals'[p].alias = a
        BY <1>3, <1>10, <1>13
      <3>4. QED
        BY <1>3, <2>1, <2>5, <3>1, <3>2, <3>3
    <2>6. CASE j # i
      <3>1. types'[j] = types[j] /\ Approvals(j)' = Approvals(j) /\ j \in DOMAIN types
        BY <1>12, <2>2, <2>4, <2>6
      <3>2. LET moved == types[j].alias # 0 \/ types[j].owner # types[j].origin
            IN  /\ moved <=> \E q \in Approvals(j) :
                     Approvals(j) = {q} /\ proposals[q].alias = types[j].alias
                /\ ~moved => Approvals(j) = {}
                /\ types[j].alias # 0 =>
                     types[j].owner # Corporate /\ types[types[j].alias].owner = Corporate
        BY <1>2, <3>1 DEF Types!PublishedByOneProposal, Approvals, Types!IsCorporate
      <3>3. \A q \in Approvals(j) : q # p /\ proposals'[q] = proposals[q]
        BY <1>3, <1>13, <2>6 DEF Approvals
      <3>4. types[j].alias # 0 => types'[types[j].alias].owner = Corporate
        BY <1>2, <1>14, <3>1, <3>2 DEF CatalogueRows, CatalogueGrows
      <3>5. QED
        BY <3>1, <3>2, <3>3, <3>4
    <2>7. QED
      BY <2>5, <2>6
  <1>19. CuratorsHold'
    <2>1. \A d : ~Types!Conflict(c, d) => i \notin Types!TypesLocked(d)
          /\ p \notin Types!ProposalsLocked(d)
      BY <1>1, <1>3 DEF Types!Conflict, Types!TypesLocked, Types!ProposalsLocked
    <2>2. \A d : CommandIsKnown(d) => Types!ProposalsLocked(d) \subseteq DOMAIN proposals
      BY DEF CommandIsKnown, Types!ProposalsLocked
    <2>3. ASSUME NEW d, CommandIsKnown(d), ~Types!Conflict(c, d)
          PROVE  /\ \A j \in Types!TypesLocked(d) \cap DOMAIN types : types'[j] = types[j]
                 /\ \A q \in Types!ProposalsLocked(d) : proposals'[q] = proposals[q]
                 /\ uses' = uses
      BY <1>5, <1>12, <1>13, <2>1, <2>2, <2>3
    <2>4. QED
      BY <1>1, <1>2, <1>14, <2>3, CuratorsKept
  <1>20. QED
    BY <1>15, <1>16, <1>17, <1>18, <1>19 DEF CatalogueInv, CatalogueStands
-----------------------------------------------------------------------------
(* Catalogue: the other steps and the theorems                             *)

LEMMA CatalogueRests ==
  ASSUME CatalogueStands, types' = types, proposals' = proposals, uses' = uses,
         curated' \in 0..MaxCataloguing
  PROVE  CatalogueStands'
  <1>1. CatalogueRows'
    BY DEF CatalogueStands, CatalogueRows
  <1>2. ProposalsKnow'
    BY DEF CatalogueStands, ProposalsKnow
  <1>3. Types!TypesStayInTheirObject' /\ Types!StagesMeasureInTheirUnit'
    BY DEF CatalogueStands, Types!TypesStayInTheirObject, Types!StagesMeasureInTheirUnit
  <1>4. Types!PublishedByOneProposal'
    BY DEF CatalogueStands, Types!PublishedByOneProposal, Types!IsCorporate
  <1>5. QED
    BY <1>1, <1>2, <1>3, <1>4 DEF CatalogueStands

LEMMA SendKeepsTheCatalogue ==
  ASSUME Types!TypesAssumption, CatalogueInv, NEW t \in Attempts, NEW cmd \in Types!NewCommand,
           Types!Send(t, cmd)
  PROVE  CatalogueInv'
  <1>1. /\ curators' = [curators EXCEPT ![t] = [phase |-> "begun", cmd |-> cmd]]
        /\ curated' = curated + 1 /\ curated < MaxCataloguing
        /\ types' = types /\ proposals' = proposals /\ uses' = uses
    BY DEF Types!Send
  <1>2. CatalogueStands /\ CuratorsHold /\ CatalogueRows /\ MaxCataloguing \in Nat
    BY DEF CatalogueInv, CatalogueStands, Types!TypesAssumption
  <1>3. CatalogueStands'
    <2>1. curated' \in 0..MaxCataloguing
      BY <1>1, <1>2 DEF CatalogueRows
    <2>2. QED
      BY <1>1, <1>2, <2>1, CatalogueRests
  <1>4. CommandIsKnown(cmd)
    <2>1. DOMAIN types \subseteq Types!Ids
      BY <1>2, CatalogueFacts DEF CatalogueRows, Types!TypesAssumption, Types!Ids
    <2>2. QED
      BY <2>1 DEF Types!NewCommand, CommandIsKnown, Types!Use
  <1>5. CatalogueGrows
    BY <1>1 DEF CatalogueGrows
  <1>6. /\ DOMAIN curators' = Attempts /\ curators'[t] = [phase |-> "begun", cmd |-> cmd]
        /\ \A u \in Attempts \ {t} : curators'[u] = curators[u]
    BY <1>1, <1>2 DEF CuratorsHold
  <1>7. \A d : CheckHolds(d) => CheckHolds(d)'
    BY <1>1 DEF CheckHolds, Types!IsCorporate, Types!MayUse, Types!Referenced
  <1>8. CuratorsHold'
    BY <1>2, <1>4, <1>5, <1>6, <1>7, CuratorsEvolve
  <1>9. QED
    BY <1>3, <1>8 DEF CatalogueInv

LEMMA CheckKeepsTheCatalogue ==
  ASSUME CatalogueInv, NEW t \in Attempts, Types!LockAndCheck(t)
  PROVE  CatalogueInv'
  <1>1. /\ curators' = [curators EXCEPT ![t].phase = "checked"] /\ Types!In(t, "begun")
        /\ types' = types /\ proposals' = proposals /\ uses' = uses /\ curated' = curated
    BY DEF Types!LockAndCheck
  <1>2. CatalogueStands /\ CuratorsHold
    BY DEF CatalogueInv
  <1>3. CatalogueStands'
    BY <1>1, <1>2, CatalogueRests DEF CatalogueStands, CatalogueRows
  <1>4. CatalogueGrows
    BY <1>1 DEF CatalogueGrows
  <1>5. PICK c : c = Types!Cmd(t)
    OBVIOUS
  <1>6. curators[t] = [phase |-> "begun", cmd |-> c] /\ CommandIsKnown(c)
    <2>1. curators[t].phase = "begun" /\ curators[t] # [phase |-> "idle"]
      BY <1>1 DEF Types!In
    <2>2. QED
      BY <1>2, <1>5, <2>1 DEF CuratorsHold, Types!Cmd
  <1>7. /\ DOMAIN curators' = Attempts /\ curators'[t] = [phase |-> "checked", cmd |-> c]
        /\ \A u \in Attempts \ {t} : curators'[u] = curators[u]
    BY <1>1, <1>2, <1>6 DEF CuratorsHold
  <1>8. CheckHolds(c)
    <2>1. Types!Allowed(c)
      BY <1>5 DEF Types!LockAndCheck
    <2>2. QED
      BY <1>6, <2>1 DEF Types!Allowed, CheckHolds, CommandIsKnown, Types!MayApprove
  <1>9. \A u \in Attempts \ {t} : InHand(u) => ~Types!Conflict(c, Types!Cmd(u))
    BY <1>5 DEF Types!LockAndCheck, Types!RowsAreFree, InHand
  <1>10. \A d : CheckHolds(d) => CheckHolds(d)'
    BY <1>1 DEF CheckHolds, Types!IsCorporate, Types!MayUse, Types!Referenced
  <1>11. CuratorsHold'
    BY <1>2, <1>4, <1>6, <1>7, <1>8, <1>9, <1>10, CuratorsEvolve
  <1>12. QED
    BY <1>3, <1>11 DEF CatalogueInv

LEMMA RefusalKeepsTheCatalogue ==
  ASSUME CatalogueInv, NEW t \in Attempts, Types!Refuse(t)
  PROVE  CatalogueInv'
  <1>1. /\ curators' = [curators EXCEPT ![t] = [phase |-> "idle"]]
        /\ types' = types /\ proposals' = proposals /\ uses' = uses /\ curated' = curated
    BY DEF Types!Refuse
  <1>2. CatalogueStands /\ CuratorsHold
    BY DEF CatalogueInv
  <1>3. CatalogueStands'
    BY <1>1, <1>2, CatalogueRests DEF CatalogueStands, CatalogueRows
  <1>4. CatalogueGrows
    BY <1>1 DEF CatalogueGrows
  <1>5. /\ DOMAIN curators' = Attempts /\ curators'[t] = [phase |-> "idle"]
        /\ \A u \in Attempts \ {t} : curators'[u] = curators[u]
    BY <1>1, <1>2 DEF CuratorsHold
  <1>6. \A d : CheckHolds(d) => CheckHolds(d)'
    BY <1>1 DEF CheckHolds, Types!IsCorporate, Types!MayUse, Types!Referenced
  <1>7. CuratorsHold'
    BY <1>2, <1>4, <1>5, <1>6, CuratorsEvolve
  <1>8. QED
    BY <1>3, <1>7 DEF CatalogueInv

LEMMA CatalogueStutters ==
  ASSUME CatalogueInv, UNCHANGED Types!vars
  PROVE  CatalogueInv'
  <1>1. /\ types' = types /\ proposals' = proposals /\ uses' = uses
        /\ curators' = curators /\ curated' = curated
    BY DEF Types!vars
  <1>2. CatalogueStands'
    BY <1>1, CatalogueRests DEF CatalogueInv, CatalogueStands, CatalogueRows
  <1>3. CuratorsHold'
    <2>1. \A c : CommandIsKnown(c)' = CommandIsKnown(c)
      BY <1>1 DEF CommandIsKnown
    <2>2. \A c : CheckHolds(c)' = CheckHolds(c)
      BY <1>1 DEF CheckHolds, Types!IsCorporate, Types!MayUse, Types!Referenced
    <2>3. \A c, d : Types!Conflict(c, d)' = Types!Conflict(c, d)
      BY <1>1 DEF Types!Conflict, Types!TypesLocked, Types!ProposalsLocked
    <2>4. QED
      BY <1>1, <2>1, <2>2, <2>3 DEF CatalogueInv, CuratorsHold, InHand, Types!In, Types!Cmd
  <1>4. QED
    BY <1>2, <1>3 DEF CatalogueInv

LEMMA CatalogueBegins ==
  ASSUME Types!TypesAssumption, Types!Init
  PROVE  CatalogueInv
  <1>1. /\ types = InitialTypes /\ proposals = <<>> /\ uses = {} /\ curated = 0
        /\ curators = [t \in Attempts |-> [phase |-> "idle"]]
    BY DEF Types!Init
  <1>2. /\ types \in Seq(Types!Type) /\ Len(types) <= MaxTypes /\ MaxCataloguing \in Nat
        /\ \A i \in DOMAIN types : types[i].alias = 0 /\ types[i].owner = types[i].origin
    BY <1>1 DEF Types!TypesAssumption
  <1>3. proposals \in Seq(Types!Proposal) /\ DOMAIN proposals = {}
    BY <1>1, EmptySeq
  <1>4. CatalogueRows
    BY <1>1, <1>2, <1>3 DEF CatalogueRows
  <1>5. ProposalsKnow
    BY <1>3 DEF ProposalsKnow
  <1>6. Types!TypesStayInTheirObject /\ Types!StagesMeasureInTheirUnit
    BY <1>1 DEF Types!TypesStayInTheirObject, Types!StagesMeasureInTheirUnit
  <1>7. Types!PublishedByOneProposal
    BY <1>2, <1>3 DEF Types!PublishedByOneProposal
  <1>8. CuratorsHold
    BY <1>1 DEF CuratorsHold, InHand, Types!In
  <1>9. QED
    BY <1>4, <1>5, <1>6, <1>7, <1>8 DEF CatalogueInv, CatalogueStands

LEMMA CatalogueStep ==
  ASSUME Types!TypesAssumption, CatalogueInv, [Types!Next]_(Types!vars)
  PROVE  CatalogueInv'
  <1>1. CASE UNCHANGED Types!vars
    BY <1>1, CatalogueStutters
  <1>2. ASSUME NEW t \in Attempts,
               \/ \E cmd \in Types!NewCommand : Types!Send(t, cmd)
               \/ Types!LockAndCheck(t) \/ Types!Refuse(t)
               \/ Types!CreateObjectWorkType(t) \/ Types!RequestPublication(t)
               \/ Types!ApprovePublication(t) \/ Types!RejectPublication(t)
               \/ Types!NameType(t) \/ Types!CorrectUnit(t)
        PROVE  CatalogueInv'
    BY <1>2, SendKeepsTheCatalogue, CheckKeepsTheCatalogue, RefusalKeepsTheCatalogue,
       CreationKeepsTheCatalogue, RequestKeepsTheCatalogue, ApprovalKeepsTheCatalogue,
       RejectionKeepsTheCatalogue, UseKeepsTheCatalogue, CorrectionKeepsTheCatalogue
  <1>3. QED
    BY <1>1, <1>2 DEF Types!Next

(* Only an approval of its proposal, of what it proposed, or a rejection   *)
(* decides a proposal.                                                     *)
LEMMA DecisionsAreInformed ==
  ASSUME CatalogueInv, [Types!Next]_(Types!vars)
  PROVE  Types!ApprovedAsProposed /\ Types!DecisionsAreFinal
  <1>1. CatalogueRows /\ ProposalsKnow /\ CuratorsHold
    BY DEF CatalogueInv, CatalogueStands
  <1>2. CASE \A p \in DOMAIN proposals : proposals'[p] = proposals[p]
    BY <1>2 DEF Types!ApprovedAsProposed, Types!DecisionsAreFinal
  <1>3. ASSUME NEW t \in Attempts, Types!ApprovePublication(t)
        PROVE  Types!ApprovedAsProposed /\ Types!DecisionsAreFinal
    <2>1. PICK c : c = Types!Cmd(t) /\ c.kind = "approve" /\ CommandIsKnown(c) /\ CheckHolds(c)
      BY <1>1, <1>3, CuratorCommits DEF Types!ApprovePublication
    <2>2. PICK p, i :
            /\ p = c.proposal /\ p \in DOMAIN proposals /\ i = proposals[p].type
            /\ proposals[p].status = "PENDING"
            /\ types[i].version = proposals[p].typeVersion
            /\ types[i].unit = proposals[p].unit
      BY <1>1, <2>1 DEF CommandIsKnown, CheckHolds, ProposalsKnow
    <2>3. \A q \in DOMAIN proposals : q # p => proposals'[q] = proposals[q]
      <3>1. proposals' = [proposals EXCEPT
              ![p].status = IF c.alias = 0 THEN "PROMOTED" ELSE "ALIASED", ![p].alias = c.alias]
        BY <1>3, <2>1, <2>2 DEF Types!ApprovePublication
      <3>2. QED
        BY <3>1
    <2>4. QED
      BY <2>2, <2>3 DEF Types!ApprovedAsProposed, Types!DecisionsAreFinal
  <1>4. ASSUME NEW t \in Attempts, Types!RejectPublication(t)
        PROVE  Types!ApprovedAsProposed /\ Types!DecisionsAreFinal
    <2>1. PICK c : c = Types!Cmd(t) /\ c.kind = "reject" /\ CommandIsKnown(c) /\ CheckHolds(c)
      BY <1>1, <1>4, CuratorCommits DEF Types!RejectPublication
    <2>2. PICK p : p = c.proposal /\ p \in DOMAIN proposals /\ proposals[p].status = "PENDING"
      BY <2>1 DEF CommandIsKnown, CheckHolds
    <2>3. proposals' = [proposals EXCEPT ![p].status = "REJECTED"]
      BY <1>4, <2>1, <2>2 DEF Types!RejectPublication
    <2>4. /\ \A q \in DOMAIN proposals : q # p => proposals'[q] = proposals[q]
          /\ proposals'[p].status = "REJECTED"
      <3>1. proposals[p] \in Types!Proposal
        BY <1>1, <2>2, CatalogueFacts
      <3>2. QED
        BY <2>2, <2>3, <3>1 DEF Types!Proposal
    <2>5. QED
      BY <2>2, <2>4 DEF Types!ApprovedAsProposed, Types!DecisionsAreFinal
  <1>5. ASSUME NEW t \in Attempts, Types!RequestPublication(t)
        PROVE  \A p \in DOMAIN proposals : proposals'[p] = proposals[p]
    <2>1. PICK c : c = Types!Cmd(t) /\ c.kind = "propose" /\ CommandIsKnown(c)
      BY <1>1, <1>5, CuratorCommits DEF Types!RequestPublication
    <2>2. PICK new : proposals' = Append(proposals, new)
      BY <1>5 DEF Types!RequestPublication
    <2>3. QED
      BY <1>1, <2>2, CatalogueFacts DEF CatalogueRows
  <1>6. ASSUME NEW t \in Attempts,
               \/ \E cmd \in Types!NewCommand : Types!Send(t, cmd)
               \/ Types!LockAndCheck(t) \/ Types!Refuse(t) \/ Types!CreateObjectWorkType(t)
               \/ Types!NameType(t) \/ Types!CorrectUnit(t)
        PROVE  proposals' = proposals
    BY <1>6 DEF Types!Send, Types!LockAndCheck, Types!Refuse, Types!CreateObjectWorkType,
       Types!NameType, Types!CorrectUnit
  <1>7. CASE UNCHANGED Types!vars
    BY <1>2, <1>7 DEF Types!vars
  <1>8. QED
    BY <1>2, <1>3, <1>4, <1>5, <1>6, <1>7 DEF Types!Next

\* The inductive invariant of the catalogue: what a command has checked stands
\* until it commits, for the rows it holds are written by nobody else, and a
\* proposal knows the unit its type had at the version it names.
THEOREM CatalogueInvariance ==
  ASSUME Types!TypesAssumption
  PROVE  Types!Spec => []CatalogueInv
  <1>1. Types!Init => CatalogueInv
    BY CatalogueBegins
  <1>2. CatalogueInv /\ [Types!Next]_(Types!vars) => CatalogueInv'
    BY CatalogueStep
  <1>3. QED
    BY <1>1, <1>2, PTL DEF Types!Spec

\* A type is named only where it may be, stages measure in its unit, it is
\* published by exactly one approved proposal, of what was proposed, and a
\* decision is final (gpr2-r05-catalog.ts, infra/034 171-207).
THEOREM TypesStaySound ==
  ASSUME Types!TypesAssumption
  PROVE  Types!Spec => TypesAreSound
  <1>1. CatalogueInv => Types!TypeOK
    <2> SUFFICES ASSUME CatalogueInv PROVE Types!TypeOK
      OBVIOUS
    <2>1. CatalogueRows /\ CuratorsHold
      BY DEF CatalogueInv, CatalogueStands
    <2>2. \A p \in DOMAIN proposals : proposals[p] \in Types!Proposal
      BY <2>1, CatalogueFacts
    <2>3. ASSUME NEW t \in Attempts
          PROVE  Types!In(t, "idle") \/ Types!Cmd(t).kind \in
                   {"create", "propose", "approve", "reject", "use", "correct"}
      <3>1. curators[t] = [phase |-> "idle"] \/ CommandIsKnown(Types!Cmd(t))
        BY <2>1 DEF CuratorsHold
      <3>2. QED
        BY <3>1 DEF CommandIsKnown, Types!In
    <2>4. QED
      BY <2>1, <2>2, <2>3 DEF Types!TypeOK, CatalogueRows
  <1>2. CatalogueInv => /\ Types!TypesStayInTheirObject /\ Types!StagesMeasureInTheirUnit
                        /\ Types!PublishedByOneProposal
    BY DEF CatalogueInv, CatalogueStands
  <1>3. CatalogueInv /\ [Types!Next]_(Types!vars) => Types!ApprovedAsProposed
        /\ Types!DecisionsAreFinal
    BY DecisionsAreInformed
  <1>4. Types!Spec => []CatalogueInv
    BY CatalogueInvariance
  <1>5. Types!vars = cataloguing
    BY DEF Types!vars, cataloguing
  <1>6. QED
    BY <1>1, <1>2, <1>3, <1>4, <1>5, PTL DEF Types!Spec, TypesAreSound
=============================================================================
