-------------------------- MODULE WorkDependencies --------------------------
(***************************************************************************)
(* Works of one object and the finish-to-start dependencies between them   *)
(* (service.ts, dependency-guard.ts, early-work.ts): planning, start,      *)
(* reported quantity, inspection of the whole work and its critical issue. *)
(* Commands share the object's coordination lock, except those that change *)
(* its structure, and lock one work or inspection; what they read of other *)
(* works they read without a lock.  Inspections of portions are in         *)
(* ConstructionControl, sources of the quantity in FactSource.             *)
(***************************************************************************)
EXTENDS Integers, Sequences

CONSTANTS
  Attempts,     \* server processes handling a request
  Works,        \* works of one object
  EarlyWorks,   \* those created without contractor and responsible
  PortionWorks, \* those whose quantity is reported by portions
  Planned,      \* planned quantity of every work
  MaxInspections, \* bound: inspections requested for one work
  MaxRequests   \* bound: commands clients send altogether

\* What the constants satisfy.
WorksAssumption ==
  /\ EarlyWorks \subseteq Works
  /\ PortionWorks \subseteq Works
  /\ Planned \in Nat \ {0}
  /\ MaxInspections \in Nat
  /\ MaxRequests \in Nat

VARIABLES
  works,         \* [Works -> Work]
  inspections,   \* [Works -> Seq(Inspection)] of the whole work, oldest first
  dependencies,  \* set of [pred, succ, acceptance]
  attempts,      \* [Attempts -> Attempt]
  requests       \* commands sent so far

vars == <<works, inspections, dependencies, attempts, requests>>

\* quantity: what the fact resolver reports, of whichever source.
Work ==
  [status : {"PLANNED", "ACTIVE", "COMPLETED"}, quantity : 0..Planned, assigned : BOOLEAN,
   version : Nat]
\* LIVE: waiting, with issues found or in reinspection.  critical: the critical
\* issue of the inspection, which outlives a rejection.
Inspection ==
  [status : {"LIVE", "REJECTED", "ACCEPTED"}, critical : {"NONE", "OPEN", "RESOLVED", "CLOSED"}]
Dependency == [pred : Works, succ : Works, acceptance : BOOLEAN]

WorkCommands == {"complete", "start", "progress", "request"}
InspectionCommands == {"issue", "resolve", "verify", "accept", "reject"}
Command ==
  [kind : WorkCommands \cup InspectionCommands \cup {"portionFact", "dependency"},
   work : Works, pred : Works, id : 0..MaxInspections, quantity : 0..Planned,
   acceptance : BOOLEAN, version : Nat]
Idle == [phase |-> "idle"]
\* coordinated: the object's lock is held.  checked: rows are locked, all read.
Attempt == [phase : {"begun", "coordinated", "checked"}, cmd : Command] \cup {Idle}

In(t, phases) == attempts[t].phase \in phases
Cmd(t) == attempts[t].cmd
Goto(t, phase) == attempts' = [attempts EXCEPT ![t].phase = phase]

Init ==
  /\ works = [w \in Works |->
       [status |-> "PLANNED", quantity |-> 0, assigned |-> w \notin EarlyWorks, version |-> 1]]
  /\ inspections = [w \in Works |-> <<>>]
  /\ dependencies = {}
  /\ attempts = [t \in Attempts |-> Idle]
  /\ requests = 0

-----------------------------------------------------------------------------
\* Structure is written under the EXCLUSIVE lock of the object.
\* Mutated form: dependency() shares the lock like any other writer.
ExclusiveForPlanning(cmd) == cmd.kind = "complete"
Exclusive(cmd) == cmd.kind \in {"dependency", "complete"}

Coordinates(t) == In(t, {"coordinated", "checked"})
LockModeIsFree(t) ==
  \A u \in Attempts \ {t} :
    Coordinates(u) => ~Exclusive(Cmd(t)) /\ ~Exclusive(Cmd(u))

\* Rows locked FOR UPDATE.  A portion fact locks its portion, not the work.
LockedWork(cmd) == IF cmd.kind \in WorkCommands THEN {cmd.work} ELSE {}
LockedInspection(cmd) == IF cmd.kind \in InspectionCommands THEN {<<cmd.work, cmd.id>>} ELSE {}
RowsAreFree(t) ==
  \A u \in Attempts \ {t} : In(u, {"checked"}) =>
    /\ LockedWork(Cmd(t)) \cap LockedWork(Cmd(u)) = {}
    /\ LockedInspection(Cmd(t)) \cap LockedInspection(Cmd(u)) = {}

-----------------------------------------------------------------------------
Is(w, i, status) == inspections[w][i].status = status
Some(w, status) == \E i \in DOMAIN inspections[w] : Is(w, i, status)
Unclosed(w, i) == inspections[w][i].critical \in {"OPEN", "RESOLVED"}
CriticalIssue(w) == \E i \in DOMAIN inspections[w] : Unclosed(w, i)
Complete(w) == works[w].quantity >= Planned

\* WorkTransitionPolicy over the predecessors, each read without a lock.
Admits(d) ==
  /\ Complete(d.pred)
  /\ d.acceptance => Some(d.pred, "ACCEPTED")
  /\ ~CriticalIssue(d.pred)

CanStartWork(w) ==
  /\ works[w].assigned
  /\ \A d \in dependencies : d.succ = w => Admits(d)

\* A fact is frozen by an inspection that is not rejected.
Frozen(w) == Some(w, "LIVE") \/ Some(w, "ACCEPTED")

\* The recursive query collects the successors of v, of those, and so on: the
\* works in every set that holds what depends on v or on its own members.
Edges == {<<d.pred, d.succ>> : d \in dependencies}
HoldsSuccessors(S, v) == \A d \in dependencies : d.pred \in S \cup {v} => d.succ \in S
Follows(v, w) == \A S \in SUBSET Works : HoldsSuccessors(S, v) => w \in S

ClosesCycle(cmd) == cmd.pred = cmd.work \/ Follows(cmd.work, cmd.pred)

\* dependencyAdditionVerdict: production has provably not started.
NotStarted(w) == works[w].status = "PLANNED" /\ works[w].quantity = 0

Allowed(cmd) ==
  LET w == cmd.work
      current == cmd.version = works[w].version
  IN  CASE cmd.kind = "complete" -> current /\ ~works[w].assigned
        [] cmd.kind = "start" -> current /\ works[w].status = "PLANNED" /\ CanStartWork(w)
        [] cmd.kind = "progress" ->
             current /\ w \notin PortionWorks /\ CanStartWork(w) /\ ~Frozen(w)
        [] cmd.kind = "portionFact" -> CanStartWork(w)
        [] cmd.kind = "request" ->
             current /\ w \notin PortionWorks /\ Complete(w) /\ ~Some(w, "ACCEPTED")
        [] cmd.kind \in {"issue", "reject"} -> Is(w, cmd.id, "LIVE")
        [] cmd.kind = "accept" -> Is(w, cmd.id, "LIVE") /\ ~Unclosed(w, cmd.id)
        [] cmd.kind = "resolve" -> inspections[w][cmd.id].critical = "OPEN"
        [] cmd.kind = "verify" -> inspections[w][cmd.id].critical = "RESOLVED"
        [] cmd.kind = "dependency" ->
             /\ NotStarted(w)
             /\ ~ClosesCycle(cmd)
             /\ <<cmd.pred, w>> \notin Edges

-----------------------------------------------------------------------------
NewCommand(kind, w, pred, i, quantity, acceptance) ==
  [kind |-> kind, work |-> w, pred |-> pred, id |-> i, quantity |-> quantity,
   acceptance |-> acceptance, version |-> works[w].version]
Request(t, cmd) ==
  /\ In(t, {"idle"})
  /\ requests < MaxRequests
  /\ attempts' = [attempts EXCEPT ![t] = [phase |-> "begun", cmd |-> cmd]]
  /\ requests' = requests + 1
  /\ UNCHANGED <<works, inspections, dependencies>>

\* What clients ask of a work: a command of its row, of one of its inspections,
\* a quantity of either source, a dependency on another work.
Ask(t, w) ==
  \/ \E kind \in WorkCommands \ {"progress"} : Request(t, NewCommand(kind, w, w, 0, 0, FALSE))
  \/ \E kind \in InspectionCommands : \E i \in DOMAIN inspections[w] :
       Request(t, NewCommand(kind, w, w, i, 0, FALSE))
  \/ \E q \in 0..Planned : Request(t, NewCommand("progress", w, w, 0, q, FALSE))
  \/ w \in PortionWorks /\ \E q \in 0..Planned :
       Request(t, NewCommand("portionFact", w, w, 0, q, FALSE))
  \/ \E v \in Works, a \in BOOLEAN : Request(t, NewCommand("dependency", w, v, 0, 0, a))

Coordinate(t) ==
  /\ In(t, {"begun"})
  /\ LockModeIsFree(t)
  /\ Goto(t, "coordinated")
  /\ UNCHANGED <<works, inspections, dependencies, requests>>

LockAndCheck(t) ==
  /\ In(t, {"coordinated"})
  /\ RowsAreFree(t)
  /\ Allowed(Cmd(t))
  /\ Goto(t, "checked")
  /\ UNCHANGED <<works, inspections, dependencies, requests>>

\* Refused by a guard, by lock_timeout, or ended by a lost connection.
Refuse(t) ==
  /\ ~In(t, {"idle"})
  /\ attempts' = [attempts EXCEPT ![t] = Idle]
  /\ UNCHANGED <<works, inspections, dependencies, requests>>

Committing(t, kind) ==
  /\ In(t, {"checked"})
  /\ Cmd(t).kind = kind
  /\ attempts' = [attempts EXCEPT ![t] = Idle]
  /\ requests' = requests
Write(w, status, quantity, assigned) ==
  works' = [works EXCEPT ![w] =
    [status |-> status, quantity |-> quantity, assigned |-> assigned,
     version |-> works[w].version + 1]]
Inspect(w, i, inspection) == inspections' = [inspections EXCEPT ![w][i] = inspection]

CompletePlanning(t) ==
  /\ Committing(t, "complete")
  /\ LET w == Cmd(t).work IN Write(w, works[w].status, works[w].quantity, TRUE)
  /\ UNCHANGED <<inspections, dependencies>>

Start(t) ==
  /\ Committing(t, "start")
  /\ LET w == Cmd(t).work IN Write(w, "ACTIVE", works[w].quantity, works[w].assigned)
  /\ UNCHANGED <<inspections, dependencies>>

StatusFor(quantity) == IF quantity >= Planned THEN "COMPLETED" ELSE "ACTIVE"

Progress(t) ==
  /\ Committing(t, "progress")
  /\ Write(Cmd(t).work, StatusFor(Cmd(t).quantity), Cmd(t).quantity, works[Cmd(t).work].assigned)
  /\ UNCHANGED <<inspections, dependencies>>

\* The portion's fact is a row of its own: status and version stay.
PortionFact(t) ==
  /\ Committing(t, "portionFact")
  /\ works' = [works EXCEPT ![Cmd(t).work].quantity = Cmd(t).quantity]
  /\ UNCHANGED <<inspections, dependencies>>

\* A unique index admits one live inspection of the whole work: the insert
\* fails when another is live.
RequestInspection(t) ==
  /\ Committing(t, "request")
  /\ LET w == Cmd(t).work
     IN  /\ Len(inspections[w]) < MaxInspections
         /\ ~Some(w, "LIVE")
         /\ inspections' = [inspections EXCEPT ![w] =
              Append(@, [status |-> "LIVE", critical |-> "NONE"])]
         /\ Write(w, works[w].status, works[w].quantity, works[w].assigned)
  /\ UNCHANGED dependencies

\* Every step of an issue makes its inspection live, a rejected one included;
\* so the unique index may refuse it.
IssueStep(t, kind, critical) ==
  /\ Committing(t, kind)
  /\ LET w == Cmd(t).work  i == Cmd(t).id
     IN  /\ Is(w, i, "LIVE") \/ ~Some(w, "LIVE")
         /\ Inspect(w, i, [status |-> "LIVE", critical |-> critical])
  /\ UNCHANGED <<works, dependencies>>

\* The decision also moves the work's version, and so waits for its lock.
Decide(t, kind, status) ==
  /\ Committing(t, kind)
  /\ LET w == Cmd(t).work  i == Cmd(t).id
     IN  /\ \A u \in Attempts \ {t} : In(u, {"checked"}) => w \notin LockedWork(Cmd(u))
         /\ Inspect(w, i, [inspections[w][i] EXCEPT !.status = status])
         /\ Write(w, works[w].status, works[w].quantity, works[w].assigned)
  /\ UNCHANGED dependencies

AddDependency(t) ==
  /\ Committing(t, "dependency")
  /\ dependencies' = dependencies \cup
       {[pred |-> Cmd(t).pred, succ |-> Cmd(t).work, acceptance |-> Cmd(t).acceptance]}
  /\ UNCHANGED <<works, inspections>>

Next ==
  \E t \in Attempts :
    \/ \E w \in Works : Ask(t, w)
    \/ Coordinate(t)
    \/ LockAndCheck(t)
    \/ Refuse(t)
    \/ CompletePlanning(t)
    \/ Start(t)
    \/ Progress(t)
    \/ PortionFact(t)
    \/ RequestInspection(t)
    \/ IssueStep(t, "issue", "OPEN")
    \/ IssueStep(t, "resolve", "RESOLVED")
    \/ IssueStep(t, "verify", "CLOSED")
    \/ Decide(t, "accept", "ACCEPTED")
    \/ Decide(t, "reject", "REJECTED")
    \/ AddDependency(t)

Spec == Init /\ [][Next]_vars

-----------------------------------------------------------------------------
Moves(w) == works[w].status # works'[w].status \/ works[w].quantity # works'[w].quantity

\* Every variable keeps its shape.
TypeOK ==
  /\ works \in [Works -> Work]
  /\ inspections \in [Works -> Seq(Inspection)]
  /\ dependencies \subseteq Dependency
  /\ attempts \in [Attempts -> Attempt]
  /\ requests \in 0..MaxRequests

\* No work waits for itself: dependencies never form a cycle, although each
\* is checked against those committed before it (service.ts:101).
DependenciesAreAcyclic == \A w \in Works : ~Follows(w, w)

\* A dependency is never put in front of work that has begun, by status or by
\* a fact of either source (dependency-guard.ts; service.ts:99-101).
NoDependencyAfterStart ==
  \A d \in dependencies' \ dependencies : NotStarted(d.succ)

\* Whatever is begun or reported on a work that requires the acceptance of a
\* predecessor finds it complete and accepted at the moment it is written,
\* though it was read earlier and without a lock (service.ts:98, 102, 113).
AcceptedPredecessorsStayAccepted ==
  \A d \in dependencies : d.acceptance /\ Moves(d.succ)
     => Complete(d.pred) /\ Some(d.pred, "ACCEPTED")

\* Dependencies order the works, are put in front of untouched work only, and
\* hold whenever a successor moves (service.ts:97-116; dependency-guard.ts).
PrecedenceHolds ==
  /\ [](TypeOK /\ DependenciesAreAcyclic)
  /\ [][NoDependencyAfterStart /\ AcceptedPredecessorsStayAccepted]_vars
=============================================================================
