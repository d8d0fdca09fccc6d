--------------------------- MODULE AllocationCaps ---------------------------
(***************************************************************************)
(* How the approved quantity of one work is spread over its execution      *)
(* units and their portions (service.ts, gpr2-r06a-quantity.ts,            *)
(* gpr2-r06b-allocation.ts, infra/036, 037): plans of units and portions   *)
(* are added under caps, and a whole allocation replaces the previous one  *)
(* until the first fact.  Creations share the coordination lock of the     *)
(* object, a replacement holds it alone.  Triggers repeat the checks of    *)
(* the handlers under the same row locks.                                  *)
(***************************************************************************)
EXTENDS Integers, FiniteSetsExt, SequencesExt

CONSTANTS
  Attempts,        \* server processes handling a request
  Actors,          \* who may replace the allocation
  Keys,            \* idempotency keys of creations
  NoKey,           \* a creation without one
  Quantities,      \* quantities clients send
  InitialCurrents, \* approved quantity of the work, NoQuantity for a legacy work
  NoQuantity,
  Lines,           \* lines of the allocations clients send
  InitialUnits,    \* Seq(Unit)
  InitialPortions, \* Seq(Portion)
  MaxUnits,        \* bound: units of the work
  MaxPortions,     \* bound: portions of the work
  MaxRequests      \* bound: commands clients send altogether

VARIABLES
  current,  \* quantity of the version work_current_quantity points at
  units,    \* work_execution_units
  portions, \* quantity_portions
  versions, \* work_allocation_versions with their lines; the last one is current
  evidence, \* a fact, an inspection or the customer has confirmed a quantity
  live,     \* actors with a session, an active account and the right
  attempts, \* [Attempts -> Attempt]
  requests  \* commands sent so far

rows == <<current, units, portions, versions, evidence>>
vars == <<rows, live, attempts, requests>>

Unit == [plan : Quantities, key : Keys \cup {NoKey}]
Portion == [unit : 1..MaxUnits, plan : Quantities, key : Keys \cup {NoKey}]
\* Lines of an allocation: quantities of some units and of some portions.
IsLines(lines) ==
  /\ DOMAIN lines.units \subseteq 1..MaxUnits /\ Range(lines.units) \subseteq Quantities
  /\ DOMAIN lines.portions \subseteq 1..MaxPortions /\ Range(lines.portions) \subseteq Quantities

\* What the constants satisfy.
AllocationAssumption ==
  /\ Quantities \subseteq Nat \ {0}
  /\ InitialCurrents \subseteq Nat \cup {NoQuantity} /\ NoQuantity \notin Nat
  /\ NoKey \notin Keys
  /\ \A lines \in Lines : IsLines(lines)
  /\ InitialUnits \in Seq(Unit) /\ InitialPortions \in Seq(Portion)
  /\ MaxRequests \in Nat

Idle == [phase |-> "idle"]
In(t, phase) == attempts[t].phase = phase
Cmd(t) == attempts[t].cmd
Goto(t, phase) ==
  /\ attempts' = [attempts EXCEPT ![t].phase = phase]
  /\ UNCHANGED <<rows, live, requests>>

\* recordInitialWorkQuantity gives a new work its current quantity; a legacy
\* work has none.
Init ==
  /\ current \in InitialCurrents
  /\ units = InitialUnits /\ portions = InitialPortions
  /\ versions = <<>>
  /\ evidence = FALSE
  /\ live = Actors
  /\ attempts = [t \in Attempts |-> Idle]
  /\ requests = 0

-----------------------------------------------------------------------------
SumOfPlans(table) == MapThenSumSet(LAMBDA i : table[i].plan, DOMAIN table)
Total(lines) == MapThenSumSet(LAMBDA i : lines[i], DOMAIN lines)
PortionsOf(u) == {p \in DOMAIN portions : portions[p].unit = u}

\* r06b_planned_cap_guard: the plans of units keep within a known quantity.
UnitFits(cmd) == current # NoQuantity => SumOfPlans(units) + cmd.plan <= current

\* QuantityPortionPolicy.fits.
PortionFits(cmd) ==
  MapThenSumSet(LAMBDA p : portions[p].plan, PortionsOf(cmd.unit)) + cmd.plan
    <= units[cmd.unit].plan

\* replaceWorkAllocation and r06b_allocation_validate: lines within the plans,
\* portions within the line of their unit, units within the work's quantity.
LinesFit(lines) ==
  /\ \A u \in DOMAIN lines.units : lines.units[u] <= units[u].plan
  /\ Total(lines.units) <= current
  /\ \A p \in DOMAIN lines.portions :
       portions[p].unit \in DOMAIN lines.units /\ lines.portions[p] <= portions[p].plan
  /\ \A u \in DOMAIN lines.units :
       MapThenSumSet(LAMBDA p : lines.portions[p], PortionsOf(u) \cap DOMAIN lines.portions)
         <= lines.units[u]

\* The session and the user are read again FOR SHARE.  seen: the number of the
\* allocation the client saw.
ReplacementAllowed(cmd) ==
  /\ cmd.actor \in live
  /\ current # NoQuantity
  /\ cmd.seen = Len(versions)
  /\ ~evidence
  /\ LinesFit(cmd.lines)

Fits(cmd) ==
  CASE cmd.kind = "unit" -> UnitFits(cmd)
    [] cmd.kind = "portion" -> PortionFits(cmd)
    [] OTHER -> TRUE

\* Rows a creation with a key has made already.
Creates(cmd) == cmd.kind \in {"unit", "portion"}
Made(cmd) ==
  IF cmd.key = NoKey THEN {}
  ELSE LET table == IF cmd.kind = "unit" THEN units ELSE portions
       IN  {table[i] : i \in {j \in DOMAIN table : table[j].key = cmd.key}}
NewRow(cmd) ==
  IF cmd.kind = "unit" THEN [plan |-> cmd.plan, key |-> cmd.key]
  ELSE [unit |-> cmd.unit, plan |-> cmd.plan, key |-> cmd.key]

-----------------------------------------------------------------------------
Exclusive(cmd) == cmd.kind = "allocate"
LockModeIsFree(t) ==
  \A u \in Attempts \ {t} : ~In(u, "idle") /\ ~In(u, "begun") =>
    ~Exclusive(Cmd(t)) /\ ~Exclusive(Cmd(u))

\* A portion waits for its unit before its key is looked up; a unit only once
\* its row is in, for the pointer to the current quantity, which a legacy work
\* has not.  Mutated form: the key is looked up before the unit is locked.
NothingFirst(cmd) == {}
LockedFirst(cmd) == IF cmd.kind = "portion" THEN {<<"unit", cmd.unit>>} ELSE {}
Locked(cmd) ==
  CASE cmd.kind = "unit" -> IF current = NoQuantity THEN {} ELSE {<<"quantity", 0>>}
    [] cmd.kind = "portion" -> {<<"unit", cmd.unit>>}
    [] OTHER -> {}
Held(u) ==
  CASE In(u, "fresh") -> LockedFirst(Cmd(u)) [] In(u, "checked") -> Locked(Cmd(u)) [] OTHER -> {}
RowsAreFree(t, wanted) == \A u \in Attempts \ {t} : wanted \cap Held(u) = {}
\* An insert also waits for a twin that inserted the same key.
SameKey(a, b) == Creates(a) /\ a.kind = b.kind /\ a.key = b.key /\ a.key # NoKey
KeyIsFree(t) == \A u \in Attempts \ {t} : In(u, "checked") => ~SameKey(Cmd(t), Cmd(u))

-----------------------------------------------------------------------------
\* What clients send: they have a session and see the rows committed.
NewCommand ==
  {[kind |-> "unit", plan |-> q, key |-> k] : q \in Quantities, k \in Keys \cup {NoKey}}
    \cup {[kind |-> "portion", unit |-> u, plan |-> q, key |-> k] :
            u \in DOMAIN units, q \in Quantities, k \in Keys \cup {NoKey}}
    \cup {[kind |-> "fact"] : p \in DOMAIN portions}
    \cup {[kind |-> "allocate", actor |-> a, seen |-> Len(versions), lines |-> lines] :
            a \in live, lines \in {l \in Lines : DOMAIN l.units \subseteq DOMAIN units /\
                                                 DOMAIN l.portions \subseteq DOMAIN portions}}

Request(t, cmd) ==
  /\ In(t, "idle") /\ requests < MaxRequests
  /\ attempts' = [attempts EXCEPT ![t] = [phase |-> "begun", cmd |-> cmd]]
  /\ requests' = requests + 1
  /\ UNCHANGED <<rows, live>>

Coordinate(t) == In(t, "begun") /\ LockModeIsFree(t) /\ Goto(t, "coordinated")

LockAndCheck(t) ==
  /\ In(t, "coordinated") /\ ~Creates(Cmd(t))
  /\ Exclusive(Cmd(t)) => ReplacementAllowed(Cmd(t))
  /\ Goto(t, "checked")

\* The key is looked up and not found.
CheckExisting(t) ==
  /\ In(t, "coordinated") /\ Creates(Cmd(t))
  /\ RowsAreFree(t, LockedFirst(Cmd(t)))
  /\ Made(Cmd(t)) = {}
  /\ Goto(t, "fresh")

\* A portion is summed before its insert, a unit by the trigger of its own: an
\* insert that meets a committed twin fires none.
Inserts(t) == KeyIsFree(t) /\ Made(Cmd(t)) = {}
Summed(t) ==
  /\ In(t, "fresh") /\ RowsAreFree(t, Locked(Cmd(t)))
  /\ Cmd(t).kind = "unit" => Inserts(t)
RefuseForRoom(t) ==
  /\ Summed(t) /\ ~Fits(Cmd(t))
  /\ attempts' = [attempts EXCEPT ![t] = Idle]
  /\ UNCHANGED <<rows, live, requests>>

Insert(t) == Summed(t) /\ Fits(Cmd(t)) /\ Inserts(t) /\ Goto(t, "checked")

\* The key was used, before it was looked up or before the insert: its row is
\* the answer if it is what was asked for.
Replay(t) ==
  /\ \/ In(t, "coordinated") /\ Creates(Cmd(t)) /\ RowsAreFree(t, LockedFirst(Cmd(t)))
     \/ In(t, "fresh") /\ KeyIsFree(t) /\ (Cmd(t).kind = "portion" => Summed(t) /\ Fits(Cmd(t)))
  /\ NewRow(Cmd(t)) \in Made(Cmd(t))
  /\ attempts' = [attempts EXCEPT ![t] = Idle]
  /\ UNCHANGED <<rows, live, requests>>

\* Any other refusal, a crash, a lost connection.
Refuse(t) ==
  /\ ~In(t, "idle")
  /\ attempts' = [attempts EXCEPT ![t] = Idle]
  /\ UNCHANGED <<rows, live, requests>>

Committing(t, kind) ==
  /\ In(t, "checked") /\ Cmd(t).kind = kind
  /\ attempts' = [attempts EXCEPT ![t] = Idle]
  /\ UNCHANGED <<current, live, requests>>

CreateExecutionUnit(t) ==
  /\ Committing(t, "unit") /\ Len(units) < MaxUnits
  /\ units' = Append(units, NewRow(Cmd(t)))
  /\ UNCHANGED <<portions, versions, evidence>>

CreateQuantityPortion(t) ==
  /\ Committing(t, "portion") /\ Len(portions) < MaxPortions
  /\ portions' = Append(portions, NewRow(Cmd(t)))
  /\ UNCHANGED <<units, versions, evidence>>

\* Progress, a portion fact, a decision of construction control or a quantity
\* the customer accepts.
RecordFact(t) ==
  /\ Committing(t, "fact")
  /\ evidence' = TRUE
  /\ UNCHANGED <<units, portions, versions>>

\* r06b_pointer_guard asks for evidence again at the commit.
ReplaceWorkAllocation(t) ==
  /\ Committing(t, "allocate")
  /\ ~evidence
  /\ versions' = Append(versions, Cmd(t).lines)
  /\ UNCHANGED <<units, portions, evidence>>

\* A session ends or a role changes, and comes back; it waits for a replacement
\* that holds both rows FOR SHARE.
SessionIsFree(a) ==
  \A t \in Attempts : In(t, "checked") /\ Exclusive(Cmd(t)) => Cmd(t).actor # a
ChangeRights(a) ==
  /\ SessionIsFree(a)
  /\ live' = (live \cup {a}) \ (live \cap {a})
  /\ UNCHANGED <<rows, attempts, requests>>

Next ==
  \/ \E t \in Attempts :
       \/ \E cmd \in NewCommand : Request(t, cmd)
       \/ Coordinate(t) \/ LockAndCheck(t) \/ CheckExisting(t) \/ Insert(t)
       \/ Replay(t) \/ RefuseForRoom(t) \/ Refuse(t)
       \/ CreateExecutionUnit(t) \/ CreateQuantityPortion(t)
       \/ RecordFact(t) \/ ReplaceWorkAllocation(t)
  \/ \E a \in Actors : ChangeRights(a)

Spec == Init /\ [][Next]_vars

-----------------------------------------------------------------------------
\* Every variable keeps its shape.
TypeOK ==
  /\ units \in Seq(Unit) /\ portions \in Seq(Portion)
  /\ \A v \in DOMAIN versions : IsLines(versions[v])
  /\ evidence \in BOOLEAN /\ live \subseteq Actors
  /\ requests \in 0..MaxRequests

\* However creations interleave, the units of a work with a known quantity plan
\* no more than it and the portions of a unit no more than the unit
\* (infra/037 r06b_planned_cap_guard, service.ts:278-287).
PlansFit ==
  /\ current # NoQuantity => SumOfPlans(units) <= current
  /\ \A u \in DOMAIN units :
       MapThenSumSet(LAMBDA p : portions[p].plan, PortionsOf(u)) <= units[u].plan

\* Every allocation on record, the current one included, fits the plans it
\* spreads, and what it leaves of the work is never negative (readAllocation).
AllocationsFit == \A v \in DOMAIN versions : LinesFit(versions[v])

\* An allocation is replaced only by someone who saw the one it replaces, who
\* still has his session and his right, and before the first fact, although
\* facts, sessions and other replacements come at any time
\* (gpr2-r06b-allocation.ts:20-52).
ReplacementsAreInformed ==
  versions' # versions =>
    /\ Len(versions') = Len(versions) + 1
    /\ ~evidence
    /\ \E t \in Attempts : In(t, "checked") /\ attempts'[t] = Idle /\ Exclusive(Cmd(t))
         /\ Cmd(t).seen = Len(versions) /\ Cmd(t).actor \in live

\* Who sends a creation again under its key is never refused for want of room,
\* however full the unit is by then and although the twin may have committed
\* after the request came in (service.ts:252-264, 278-283).
RetriesFindTheirRow ==
  \A t \in Attempts : RefuseForRoom(t) => NewRow(Cmd(t)) \notin Made(Cmd(t))
=============================================================================
