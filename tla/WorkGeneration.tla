---------------------------- MODULE WorkGeneration ----------------------------
(***************************************************************************)
(* Generating the works of one object from one finish type                 *)
(* (gpr2-r05-generation.ts, domain/gpr2/r05.ts, infra/030..035): a preview *)
(* is computed from a snapshot and confirmed later, while areas are added  *)
(* and retired, new versions of the finish system are published and other  *)
(* works are created.  Measures are in the unit of the stages, 0 when an   *)
(* area has none; a key keeps its unit, see WorkTypes.                     *)
(***************************************************************************)
EXTENDS Integers, FiniteSetsExt, SequencesExt, Totals

CONSTANTS
  Attempts,     \* server processes handling a request
  Operations,   \* what a stage does: a work type
  Keys,         \* occurrence keys
  NoKey,        \* of a blocker that is about no stage
  Systems,      \* contents a version may have: sets of stages with distinct keys
  Measures,     \* measures of areas created, 0 for none
  Stated,       \* local quantities a client states
  InitialAreas, \* Seq(Area)
  MaxQuantity,  \* largest quantity of a work (WORK_QUANTITY_MAX)
  MaxAreas,     \* bound: areas altogether
  MaxVersions,  \* bound: versions of the finish system
  MaxCommands   \* bound: previews and commands altogether

VARIABLES
  areas,    \* object_area_scopes
  versions, \* published versions of the finish system, the last one current
  works,    \* Seq([op, quantity])
  bindings, \* work_scope_bindings
  scope,    \* work_scope_state.scope_version
  attempts, \* [Attempts -> Attempt]
  commands

rows == <<areas, versions, works, bindings, scope>>
vars == <<rows, attempts, commands>>

Area == [parent : 0..MaxAreas, measure : Nat, active : BOOLEAN]
Stage == [key : Keys, op : Operations, scope : {"MAIN", "LOCAL"}, required : BOOLEAN]
Binding == [work : Nat, key : Keys, area : 1..MaxAreas, version : 1..MaxVersions,
            op : Operations, scope : {"MAIN", "LOCAL"}, basis : Nat]

\* What the constants satisfy.
GenerationAssumption ==
  /\ NoKey \notin Keys
  /\ \A system \in Systems :
       /\ system \subseteq Stage /\ system # {} /\ IsFiniteSet(system)
       /\ \A s, r \in system : s.key = r.key => s = r
  /\ InitialAreas \in Seq(Area) /\ Len(InitialAreas) <= MaxAreas
  /\ \A a \in DOMAIN InitialAreas : LET parent == InitialAreas[a].parent IN
       parent < a /\ (parent # 0 => InitialAreas[parent].active)
  /\ \A a \in DOMAIN InitialAreas : InitialAreas[a].measure > 0 =>
       LET parts == {b \in DOMAIN InitialAreas : InitialAreas[b].parent = a}
       IN  SumOver([b \in parts |-> InitialAreas[b].measure], parts) <= InitialAreas[a].measure
  /\ Measures \subseteq Nat /\ Stated \subseteq Nat \ {0}
  /\ MaxQuantity \in Nat \ {0}
  /\ MaxAreas \in Nat /\ MaxVersions \in Nat /\ MaxCommands \in Nat

Idle == [phase |-> "idle"]
In(t, phase) == attempts[t].phase = phase
Cmd(t) == attempts[t].cmd

Init ==
  /\ areas = InitialAreas
  /\ versions = <<>> /\ works = <<>> /\ bindings = {} /\ scope = 0
  /\ attempts = [t \in Attempts |-> Idle]
  /\ commands = 0

-----------------------------------------------------------------------------
\* The tree of areas.  A parent is older than its children.
Active == {a \in DOMAIN areas : areas[a].active}
Children(a) == {b \in Active : areas[b].parent = a}
Ancestors(a) ==
  LET up[b \in DOMAIN areas] ==
        IF areas[b].parent = 0 THEN {} ELSE {areas[b].parent} \cup up[areas[b].parent]
  IN  up[a]
Within(a) == {b \in Active : b = a \/ a \in Ancestors(b)}
Leaves(a) == {b \in Within(a) : Children(b) = {}}

\* What areas measure together.
Measured(S) == SumOver([b \in S |-> areas[b].measure], S)

Overlaps(a, b) == a = b \/ a \in Ancestors(b) \/ b \in Ancestors(a)

\* areaCoverageGaps: measured areas whose known children do not measure the same.
\* Mutated form: what the leaves leave out is not noticed.
NoGaps(root) == {}
Gaps(root) ==
  LET effective[a \in DOMAIN areas] ==
        IF areas[a].measure > 0 THEN areas[a].measure
        ELSE IF \E b \in Children(a) : effective[b] = 0 THEN 0
        ELSE SumOver(effective, Children(a))
  IN  {a \in Within(root) :
         /\ Children(a) # {} /\ areas[a].measure > 0
         /\ \A b \in Children(a) : effective[b] > 0
         /\ SumOver(effective, Children(a)) # areas[a].measure}

-----------------------------------------------------------------------------
\* computeGenerationPreview.  A request selects areas, takes optional stages in
\* and states quantities of local stages: local is a set of [key, area, quantity].
Included(r) == {s \in versions[r.version] : s.required \/ s.key \in r.include}
Selected(r) == UNION {Leaves(a) : a \in r.areas}
Producers(key, a) == {b \in bindings : b.key = key /\ b.area = a}
StatedFor(r, key, a) == {l \in r.local : l.key = key /\ l.area = a}

Compatible(b, s) == b.key = s.key /\ b.op = s.op /\ b.scope = s.scope

\* The leaves an included stage applies to: a local one where it is stated or held.
Applicable(r, s) ==
  {a \in Selected(r) : s.scope = "MAIN" \/ StatedFor(r, s.key, a) # {} \/ Producers(s.key, a) # {}}
\* A leaf's obligation without a producer is proposed or blocked.
Open(r, s) == {a \in Applicable(r, s) : Producers(s.key, a) = {}}
Quantity(r, s, a) ==
  IF s.scope = "MAIN" THEN areas[a].measure
  ELSE (CHOOSE l \in StatedFor(r, s.key, a) : TRUE).quantity
Total(quantities) == SumOver([q \in quantities |-> q.quantity], quantities)

StageBlockers(r, s) ==
  UNION {
    {<<"COVERAGE", s.key, a>> : a \in UNION {IF s.scope = "MAIN" THEN Gaps(x) ELSE {} : x \in r.areas}},
    {<<"INCOMPATIBLE", s.key, a>> : a \in {x \in Applicable(r, s) :
       \E b \in Producers(s.key, x) : ~Compatible(b, s)}},
    {<<"QUANTITY_CHANGED", s.key, a>> : a \in {x \in Applicable(r, s) :
       /\ s.scope = "LOCAL"
       /\ \E b \in Producers(s.key, x), l \in StatedFor(r, s.key, x) : b.basis # l.quantity}},
    {<<"PRODUCER_EXISTS", s.key, a>> : a \in {x \in Open(r, s) :
       \E b \in bindings : b.key = s.key /\ Overlaps(b.area, x)}},
    {<<"QUANTITY_MISSING", s.key, a>> : a \in {x \in Open(r, s) : Quantity(r, s, x) = 0}},
    IF s.scope = "LOCAL" /\ s.required /\ Applicable(r, s) = {}
    THEN {<<"QUANTITY_MISSING", s.key, 0>>} ELSE {}}

\* Works proposed: one per stage, or one per stage and area.
ProposedWork(r, s, places) ==
  LET quantities == {[area |-> a, quantity |-> Quantity(r, s, a)] : a \in places}
  IN  [key |-> s.key, op |-> s.op, scope |-> s.scope, quantity |-> Total(quantities),
       places |-> quantities]
Proposed(r) ==
  UNION {IF r.perArea THEN {ProposedWork(r, s, {a}) : a \in Open(r, s)}
         ELSE IF Open(r, s) = {} THEN {} ELSE {ProposedWork(r, s, Open(r, s))} : s \in Included(r)}

Blockers(r) ==
  LET found == UNION {
        IF r.version = Len(versions) THEN {} ELSE {<<"STALE", NoKey, 0>>},
        {<<"AREA_OVERLAP", NoKey, a>> : a \in {x \in r.areas : Ancestors(x) \cap r.areas # {}}},
        UNION {StageBlockers(r, s) : s \in Included(r)},
        {<<"OUT_OF_RANGE", w.key, 0>> : w \in {x \in Proposed(r) : x.quantity > MaxQuantity}},
        {<<"NOT_IN_SCOPE", l.key, l.area>> : l \in {x \in r.local :
           ~\E s \in Included(r) : s.key = x.key /\ s.scope = "LOCAL" /\ x.area \in Selected(r)}}}
  IN  IF found = {} /\ Proposed(r) = {} THEN {<<"NOTHING", NoKey, 0>>} ELSE found

Bound(w) == \E b \in bindings : b.work = w
\* What the fingerprint covers.
Preview(r) ==
  [request |-> r, scope |-> scope, proposed |-> Proposed(r), blockers |-> Blockers(r),
   existing |-> UNION {Producers(s.key, a) : s \in Included(r), a \in Selected(r)},
   legacy |-> \E w \in DOMAIN works : ~Bound(w) /\ \E s \in Included(r) : s.op = works[w].op]

-----------------------------------------------------------------------------
\* Quantities are stated of stages that are local in some version.
LocalKeys ==
  {s.key : s \in UNION {{x \in versions[v] : x.scope = "LOCAL"} : v \in DOMAIN versions}}
Requests ==
  {[version |-> v, areas |-> S, include |-> I, local |-> L, perArea |-> p] :
     v \in DOMAIN versions, S \in UNION {kSubset(n, Active) : n \in 1..2},
     I \in SUBSET {s.key : s \in UNION {{x \in versions[w] : ~x.required} : w \in DOMAIN versions}},
     L \in {{}} \cup {{[key |-> k, area |-> a, quantity |-> q]} :
                      k \in LocalKeys, a \in Active, q \in Stated},
     p \in BOOLEAN}
\* References outside the version are refused before anything is computed.
InScope(r) == r.include \subseteq {s.key : s \in {x \in versions[r.version] : ~x.required}}

NewCommand ==
  UNION {
    {[kind |-> "area", parent |-> p, measure |-> m] : p \in {0} \cup DOMAIN areas, m \in Measures},
    {[kind |-> "retire", area |-> a] : a \in DOMAIN areas},
    {[kind |-> "upsert", stages |-> system] : system \in Systems},
    {[kind |-> "work", op |-> o] : o \in Operations}}

\* writer-registry: works are created under the EXCLUSIVE lock of the object;
\* retirement is maintenance outside the application and takes no object lock.
Exclusive(cmd) == cmd.kind \in {"work", "confirm"}
Coordinates(cmd) == cmd.kind # "retire"

\* Rows written or locked: an area and its parent, the finish type.
\* Mutated form: siblings are not serialised on their parent.
RowsOfNewArea(cmd) == IF cmd.kind = "retire" THEN {cmd.area} ELSE {}
RowsOf(cmd) ==
  CASE cmd.kind = "area" -> {cmd.parent} \ {0}
    [] cmd.kind = "retire" -> {cmd.area}
    [] OTHER -> {}
Conflict(c, d) ==
  \/ Coordinates(c) /\ Coordinates(d) /\ (Exclusive(c) \/ Exclusive(d))
  \/ RowsOf(c) \cap RowsOf(d) # {}
  \/ c.kind = d.kind /\ c.kind = "upsert"
LocksAreFree(t, cmd) == \A u \in Attempts \ {t} : In(u, "checked") => ~Conflict(cmd, Cmd(u))

\* gpr2_area_scope_guard, gpr2_area_scope_producer_guard, confirmGeneration.
Allowed(cmd) ==
  CASE cmd.kind = "area" -> Len(areas) < MaxAreas /\ (cmd.parent # 0 =>
         /\ areas[cmd.parent].active
         /\ areas[cmd.parent].measure = 0 \/ cmd.measure = 0 \/
            Measured(Children(cmd.parent)) + cmd.measure <= areas[cmd.parent].measure)
    [] cmd.kind = "retire" -> areas[cmd.area].active /\ Children(cmd.area) = {} /\
         \A b \in bindings : b.area # cmd.area
    [] cmd.kind = "upsert" -> Len(versions) < MaxVersions
    [] cmd.kind = "work" -> TRUE
    [] cmd.kind = "confirm" ->
         /\ cmd.preview = Preview(cmd.preview.request)
         /\ cmd.preview.blockers = {}

-----------------------------------------------------------------------------
Count == commands < MaxCommands /\ commands' = commands + 1

\* A READ ONLY snapshot: the client keeps what it saw.
PreviewGeneration(t, r) ==
  /\ In(t, "idle") /\ Count
  /\ InScope(r)
  /\ Preview(r).blockers = {} \* another one is not worth confirming
  /\ attempts' = [attempts EXCEPT ![t] =
       [phase |-> "begun", cmd |-> [kind |-> "confirm", preview |-> Preview(r)]]]
  /\ UNCHANGED rows

Send(t, cmd) ==
  /\ In(t, "idle") /\ Count
  /\ attempts' = [attempts EXCEPT ![t] = [phase |-> "begun", cmd |-> cmd]]
  /\ UNCHANGED rows

LockAndCheck(t) ==
  /\ In(t, "begun")
  /\ LocksAreFree(t, Cmd(t))
  /\ Allowed(Cmd(t))
  /\ attempts' = [attempts EXCEPT ![t].phase = "checked"]
  /\ UNCHANGED <<rows, commands>>

\* Refused by a guard, an index or a trigger, or ended by a lost connection.
Refuse(t) ==
  /\ ~In(t, "idle")
  /\ attempts' = [attempts EXCEPT ![t] = Idle]
  /\ UNCHANGED <<rows, commands>>

Committing(t, kind) ==
  /\ In(t, "checked")
  /\ Cmd(t).kind = kind
  /\ attempts' = [attempts EXCEPT ![t] = Idle]
  /\ commands' = commands

CreateAreaScope(t) ==
  /\ Committing(t, "area") /\ Len(areas) < MaxAreas
  /\ areas' = Append(areas, [parent |-> Cmd(t).parent, measure |-> Cmd(t).measure, active |-> TRUE])
  /\ UNCHANGED <<versions, works, bindings, scope>>

RetireArea(t) ==
  /\ Committing(t, "retire")
  /\ areas' = [areas EXCEPT ![Cmd(t).area].active = FALSE]
  /\ scope' = scope + 1
  /\ UNCHANGED <<versions, works, bindings>>

UpsertFinishSystem(t) ==
  /\ Committing(t, "upsert")
  /\ versions' = Append(versions, Cmd(t).stages)
  /\ UNCHANGED <<areas, works, bindings, scope>>

CreateWork(t) ==
  /\ Committing(t, "work")
  /\ works' = Append(works, [op |-> Cmd(t).op, quantity |-> 1])
  /\ scope' = scope + 1
  /\ UNCHANGED <<areas, versions, bindings>>

NewBindings(p) ==
  LET proposed == SetToSeq(p.proposed)
  IN  UNION {{[work |-> Len(works) + i, key |-> proposed[i].key, area |-> q.area,
               version |-> p.request.version, op |-> proposed[i].op,
               scope |-> proposed[i].scope, basis |-> q.quantity] :
                q \in proposed[i].places} : i \in DOMAIN proposed}

\* The triggers of work_scope_bindings: the area, locked FOR SHARE, is active, and
\* no producer of the key holds it, what contains it or what it contains.
Admits(t, S) ==
  \A b \in S :
    /\ areas[b.area].active
    /\ \A u \in Attempts \ {t} :
         In(u, "checked") /\ Cmd(u).kind = "retire" => Cmd(u).area # b.area
    /\ ~\E c \in bindings : c.key = b.key /\ Overlaps(c.area, b.area)

ConfirmGeneration(t) ==
  /\ Committing(t, "confirm")
  /\ LET p == Cmd(t).preview
         new == NewBindings(p)
     IN  /\ Admits(t, new)
         /\ bindings' = bindings \cup new
         /\ works' = works \o [i \in DOMAIN SetToSeq(p.proposed) |->
              [op |-> SetToSeq(p.proposed)[i].op, quantity |-> SetToSeq(p.proposed)[i].quantity]]
         /\ scope' = scope + Cardinality(p.proposed) + Cardinality(new)
  /\ UNCHANGED <<areas, versions>>

Ask(t) ==
  \/ \E r \in Requests : PreviewGeneration(t, r)
  \/ \E cmd \in NewCommand : Send(t, cmd)
Handle(t) ==
  \/ LockAndCheck(t) \/ Refuse(t)
  \/ CreateAreaScope(t) \/ RetireArea(t) \/ UpsertFinishSystem(t)
  \/ CreateWork(t) \/ ConfirmGeneration(t)
Next == \E t \in Attempts : Ask(t) \/ Handle(t)

Spec == Init /\ [][Next]_vars

-----------------------------------------------------------------------------
TypeOK ==
  /\ areas \in Seq(Area) /\ Len(areas) <= MaxAreas
  /\ \A v \in DOMAIN versions : versions[v] \in Systems
  /\ \A w \in DOMAIN works : works[w].op \in Operations /\ works[w].quantity \in 1..MaxQuantity
  /\ \A b \in bindings : b \in Binding /\ b.work \in DOMAIN works
  /\ scope \in Nat /\ commands \in 0..MaxCommands

\* One obligation has one producer: no two works produce the same key on the
\* same area or on an area and a part of it, in whichever order areas, versions
\* and generations came (infra/032).
OneProducerPerPlace ==
  \A b, c \in bindings : b.key = c.key /\ b # c => ~(b.area = c.area \/ b.area \in Ancestors(c.area))

\* The quantity of places together.
Produced(places) == SumOver([b \in places |-> b.basis], places)

\* Space is counted once: the parts of a measured area never measure more than
\* it, and main works on it and its parts never add up to more (infra/034 NEW-01).
SpaceIsCountedOnce ==
  \A a \in DOMAIN areas : areas[a].measure > 0 =>
    /\ Measured(Children(a)) <= areas[a].measure
    /\ \A k \in Keys : LET here == {b \in bindings : b.key = k /\ b.scope = "MAIN" /\
                                      b.area \in {a} \cup Children(a)}
                       IN  Produced(here) <= areas[a].measure

\* A work does one operation and its quantity is the sum of its places' quantities.
WorksAddUp ==
  \A w \in DOMAIN works : LET places == {b \in bindings : b.work = w} IN
    places # {} =>
      /\ \A b, c \in places : b.key = c.key /\ b.scope = c.scope /\ b.op = works[w].op
      /\ Produced(places) = works[w].quantity

\* Areas with a producer and parents of active areas are active, though
\* retirement is outside the object's lock (infra/034 NEW-03).
PlacesStayAlive ==
  /\ \A b \in bindings : areas[b.area].active
  /\ \A a \in Active : areas[a].parent # 0 => areas[areas[a].parent].active

Generated(t) == Cmd(t).preview.request
Confirms(t) == In(t, "checked") /\ Cmd(t).kind = "confirm" /\ bindings' # bindings /\
               attempts'[t] = Idle

\* What is generated is what the client previewed and what a preview would
\* say at the moment of the commit: the current version, the same areas,
\* producers and warnings; only the scope version may have moved, with an area
\* retired elsewhere.
ConfirmedAsPreviewed ==
  \A t \in Attempts : Confirms(t) =>
     Cmd(t).preview.blockers = {} /\ Cmd(t).preview = [Preview(Generated(t)) EXCEPT !.scope = Cmd(t).preview.scope]

\* A generation leaves nothing of the selection out: of a measured area all of
\* its measure is produced by every main stage taken in.
GeneratedSpaceIsWhole ==
  \A t \in Attempts : Confirms(t) =>
     \A s \in Included(Generated(t)), a \in Generated(t).areas :
       s.scope = "MAIN" /\ areas[a].measure > 0 =>
         Produced({b \in bindings' : b.key = s.key /\ b.area \in Within(a)}) = areas[a].measure

\* After a generation every required stage of the version has, wherever it
\* applies, a producer that does what this version says, not what the key
\* meant in an earlier one; a local one applies somewhere.
RequiredStagesAreProduced ==
  \A t \in Attempts : Confirms(t) =>
     \A s \in Included(Generated(t)) :
       LET places == {a \in Selected(Generated(t)) :
             \E b \in bindings' : b.key = s.key /\ b.area = a /\ b.op = s.op /\ b.scope = s.scope}
       IN  IF s.scope = "MAIN" THEN places = Selected(Generated(t))
           ELSE s.required => places # {}
=============================================================================
