----------------------------- MODULE MCPlanning -----------------------------
(***************************************************************************)
(* What is planned for an object, in scenes: the works and what must come  *)
(* before them; the production schedule, its drafts and baselines; the     *)
(* assessment of a baseline; the caps on what is planned of a work's       *)
(* quantity; and where works come from: the catalogue of their types, the  *)
(* templates and systems of finishing, the generation of works from a      *)
(* system.  A command of one reads only rows of another that are final: an *)
(* approved revision, a published type or template; so one runs at a time. *)
(***************************************************************************)
EXTENDS Planning, TLC

CONSTANTS
  t1, t2, t3,       \* server processes; the last one works alone
  c1, c2, c3,       \* works with dependencies
  w1, w2, u1,       \* works, and a unit of the first
  e1, e2, e3,       \* entries of an approved revision
  a1, k1,           \* who allocates, a key of a creation
  NoQuantity,       \* of a work without an approved quantity
  o1, o2, corporate, m2, pcs,  \* objects, no object, units of measure
  template, f1, s1, s2, putty, thin, thick,
  plaster, paint, walls, slopes

VARIABLES
  scene, hands, commands, versions,
  plan, fact, today,
  current, lots, portions, evidence, live, asked,
  rowVersion, systems, decisions

assessed == <<plan, fact, today>>
allocated == <<current, lots, portions, evidence, live, asked>>
templates == <<rowVersion, systems, decisions>>
planning ==
  <<hands, commands, versions, assessed, allocated, templates>>
mcVars == <<scene, vars, drafting, generating, cataloguing, planning>>

UnitOfFirst == [u \in {u1} |-> w1]

Entry == INSTANCE ScheduleAssessment WITH
  Entries <- {e1}, WorkOf <- [e \in {e1} |-> w1],
  Starts <- {0, 2}, Lengths <- {0, 1, 3, 5}, Planned <- 7, MaxFact <- 8, MaxDay <- 9

Whole == INSTANCE ScheduleAssessment WITH
  Entries <- {e1, e2, e3}, WorkOf <- [e \in {e1, e2, e3} |-> IF e = e1 THEN w1 ELSE w2],
  Starts <- {0}, Lengths <- {0, 2}, Planned <- 2, MaxFact <- 3, MaxDay <- 4

(* Units and portions added under a quantity of two; none is known of a    *)
(* legacy work.                                                            *)
Caps == INSTANCE AllocationCaps WITH
  Attempts <- {t1, t2}, Actors <- {}, Keys <- {k1}, Quantities <- {1, 2}, Lines <- {},
  InitialCurrents <- {2, NoQuantity}, InitialUnits <- <<>>, InitialPortions <- <<>>,
  MaxUnits <- 2, MaxPortions <- 2, MaxRequests <- 4,
  attempts <- hands, requests <- asked, units <- lots

(* Allocations within and beyond the line of a unit, the unit's plan, the  *)
(* work's quantity, and of a portion without its unit.                     *)
Split(us, ps) == [units |-> us, portions |-> ps]
SentLines ==
  {Split(<<q>>, ps) : q \in {1, 2}, ps \in {<<>>, <<1, 1>>}}
    \cup {Split(<<2, 1>>, <<>>), Split(<<2, 2>>, <<>>), Split(<<>>, <<1>>)}
OfPlan(q) == [plan |-> q, key |-> NoKey]
PartOfFirst == [unit |-> 1, plan |-> 1, key |-> NoKey]
Allocations == INSTANCE AllocationCaps WITH
  Attempts <- {t1, t2}, Actors <- {a1}, Keys <- {}, Quantities <- {1, 2}, Lines <- SentLines,
  InitialCurrents <- {3}, InitialUnits <- <<OfPlan(2), OfPlan(1)>>,
  InitialPortions <- <<PartOfFirst, PartOfFirst>>,
  MaxUnits <- 2, MaxPortions <- 2, MaxRequests <- 4,
  attempts <- hands, requests <- asked, units <- lots

TwoAttempts == {t1, t2}

(* One corporate type to begin with; either object may have one of its own. *)
OneType ==
  <<[owner |-> corporate, origin |-> corporate, unit |-> m2, alias |-> 0, version |-> 1]>>

(* One template of up to two stages, one finish type, two subjects; the    *)
(* systems sent inherit, override, add, exclude and forget.                *)
Occ(k, c, from, reason) == [key |-> k, content |-> c, from |-> from, reason |-> reason]
St(k, c) == [key |-> k, content |-> c]
MCDrafts == {{St(plaster, thin)}, {St(plaster, thin), St(putty, thin)}}
MCUpserts ==
  {[stages |-> {Occ(plaster, thin, plaster, FALSE)}, excluded |-> {}],
   [stages |-> {Occ(plaster, thin, plaster, FALSE)}, excluded |-> {putty}],
   [stages |-> {Occ(plaster, thick, plaster, FALSE), Occ(putty, thin, 0, FALSE)}, excluded |-> {}],
   [stages |-> {Occ(plaster, thick, plaster, TRUE), Occ(putty, thin, putty, FALSE)}, excluded |-> {}],
   [stages |-> {Occ(plaster, thin, plaster, FALSE), Occ(putty, thick, plaster, TRUE)},
    excluded |-> {putty}],
   [stages |-> {Occ(plaster, thin, 0, FALSE)}, excluded |-> {}]}

Templates == INSTANCE FinishTemplates WITH
  Attempts <- TwoAttempts, Templates <- {template}, FinishTypes <- {f1}, Subjects <- {s1, s2},
  Keys <- {plaster, putty}, Contents <- {thin, thick}, Drafts <- MCDrafts,
  Upserts <- MCUpserts, MaxCommands <- 6,
  attempts <- hands

(* An area of two of which one is known; a key may do one operation or the *)
(* other, a local stage be required, optional or become a main one.        *)
Main(k, o, required) == [key |-> k, op |-> o, scope |-> "MAIN", required |-> required]
Local(k, o, required) == [key |-> k, op |-> o, scope |-> "LOCAL", required |-> required]
HalfHouse ==
  <<[parent |-> 0, measure |-> 2, active |-> TRUE], [parent |-> 1, measure |-> 1, active |-> TRUE]>>

MainSystems == {{Main(walls, plaster, TRUE)}, {Main(walls, paint, TRUE)}}
LocalSystems ==
  {{Main(walls, plaster, TRUE), Local(slopes, plaster, FALSE)}, {Local(walls, plaster, TRUE)}}
MCSystems == MainSystems \cup LocalSystems

ASSUME PlanningHolds == PlanningAssumption
ASSUME EntryHolds == Entry!AssessmentAssumption
ASSUME WholeHolds == Whole!AssessmentAssumption
ASSUME CapsHold == Caps!AllocationAssumption
ASSUME AllocationsHold == Allocations!AllocationAssumption
ASSUME TemplatesHold == Templates!TemplatesAssumption

-----------------------------------------------------------------------------
NotAssessed == plan = 0 /\ fact = 0 /\ today = 0
NotAllocated ==
  current = 0 /\ lots = 0 /\ portions = 0 /\ evidence = 0 /\ live = 0 /\ asked = 0
NoTemplates == rowVersion = 0 /\ systems = 0 /\ decisions = 0
NothingPlanned == NotAssessed /\ NotAllocated
NothingToPlan == NoTemplates /\ commands = 0

PlanInit ==
  /\ NothingToPlan
  /\ \/ /\ NotAllocated /\ hands = 0 /\ versions = 0
        /\ (scene = "entry" /\ Entry!Init) \/ (scene = "whole" /\ Whole!Init)
     \/ /\ NotAssessed
        /\ (scene = "caps" /\ Caps!Init) \/ (scene = "allocations" /\ Allocations!Init)

TemplatesInit == scene = "templates" /\ NothingPlanned /\ Templates!Init

WorksInit ==
  /\ scene \in {"precedence", "acceptance", "network", "race", "chains", "areas", "main", "local",
                "types"}
  /\ NothingPlanned /\ NothingToPlan /\ versions = 0 /\ hands = 0

MCInit == Init /\ GPR!Init /\ Space!Init /\ Types!Init /\
          (WorksInit \/ PlanInit \/ TemplatesInit)

(* Every command, about the first two works.                               *)
PrecedenceNext ==
  /\ scene = "precedence" /\ Next
  /\ requests' <= 5
  /\ \A t \in Attempts : ~In(t, {"idle"})' => c3 \notin {Cmd(t).work, Cmd(t).pred}'

(* The second work is inspected, and the third waits for its acceptance.   *)
AcceptanceNext ==
  /\ scene = "acceptance" /\ Next
  /\ dependencies' # {} \/ requests' <= 1
  /\ \A t \in Attempts : ~In(t, {"idle"})' =>
       \/ Cmd(t).work' = c2 /\ Cmd(t).kind' \in InspectionCommands \cup {"progress", "request"}
       \/ Cmd(t).work' = c3 /\ Cmd(t).kind' \in {"start", "portionFact"}
       \/ /\ Cmd(t).work' = c3 /\ Cmd(t).kind' = "dependency"
          /\ Cmd(t).pred' = c2 /\ Cmd(t).acceptance'

(* Dependencies among three works.                                         *)
NetworkNext ==
  /\ scene = "network" /\ Next
  /\ requests' <= 3
  /\ \A t \in Attempts : ~In(t, {"idle"})' => Cmd(t).kind' = "dependency"

WorksNext ==
  /\ PrecedenceNext \/ AcceptanceNext \/ NetworkNext
  /\ UNCHANGED <<scene, drafting, generating, cataloguing, planning>>

(* Every command of the schedule, about one work and its unit.             *)
RaceNext ==
  /\ scene = "race" /\ GPR!Next
  /\ \A t \in Attempts : ~GPR!In(t, {"idle"})' => GPR!Cmd(t).scope' # w2

(* One draft of two works and a unit, in one order or another.             *)
ChainsNext ==
  /\ scene = "chains" /\ GPR!Next
  /\ Len(revisions') <= 1 /\ reasons' = <<>>
  /\ \A t \in Attempts : ~GPR!In(t, {"idle"})' => GPR!Cmd(t).plan' = 1

DraftsNext == (RaceNext \/ ChainsNext) /\ UNCHANGED <<scene, vars, generating, cataloguing, planning>>

Generates(stages) ==
  \A t \in Attempts :
    ~Space!In(t, "idle")' /\ Space!Cmd(t).kind' = "upsert" => Space!Cmd(t).stages' \in stages

(* The tree of areas alone: siblings that race for what is left of their   *)
(* parent, parts of an area that has no measure, retirement.               *)
AreasNext ==
  /\ scene = "areas" /\ Space!Next
  /\ generated' <= 3
  /\ \A t \in Attempts : ~Space!In(t, "idle")' => Space!Cmd(t).kind' \in {"area", "retire"}

(* Where works are generated, one area of measure 1 is added.              *)
OneAreaMore ==
  /\ Len(areas') <= 3
  /\ \A t \in Attempts :
       ~Space!In(t, "idle")' /\ Space!Cmd(t).kind' = "area" => Space!Cmd(t).measure' = 1

(* Main stages only, by two processes.                                     *)
MainNext == scene = "main" /\ Space!Next /\ OneAreaMore /\ Generates(MainSystems)

(* Local stages as well, one command after the other.                      *)
LocalNext ==
  /\ scene = "local"
  /\ IF \A t \in Attempts : Space!In(t, "idle")
     THEN generated < MaxGenerating - 1 /\ \E t \in Attempts : Space!Ask(t)
     ELSE \E t \in Attempts : Space!Handle(t)
  /\ OneAreaMore /\ Generates(LocalSystems)

SpaceNext ==
  /\ AreasNext \/ MainNext \/ LocalNext
  /\ UNCHANGED <<scene, vars, drafting, cataloguing, planning>>

TypesNext ==
  scene = "types" /\ Types!Next /\ UNCHANGED <<scene, vars, drafting, generating, planning>>

Others == UNCHANGED <<scene, vars, drafting, generating, cataloguing>>
Plan == Others /\ UNCHANGED <<commands, templates>>
Assesses == Plan /\ UNCHANGED <<hands, versions, allocated>>
Allocates == Plan /\ UNCHANGED assessed
Prepares == Others /\ UNCHANGED <<assessed, allocated>>

EntryNext == scene = "entry" /\ Entry!Next /\ Assesses
WholeNext == scene = "whole" /\ Whole!Next /\ Assesses
CapsNext == scene = "caps" /\ Caps!Next /\ Allocates
AllocationsNext == scene = "allocations" /\ Allocations!Next /\ Allocates
TemplatesNext == scene = "templates" /\ Templates!Next /\ Prepares

MCNext ==
  \/ WorksNext
  \/ DraftsNext \/ SpaceNext \/ EntryNext \/ WholeNext \/ CapsNext \/ AllocationsNext
  \/ TypesNext \/ TemplatesNext

MCSpec == MCInit /\ [][MCNext]_mcVars

Symmetry == Permutations({t1, t2}) \cup Permutations({s1, s2})

-----------------------------------------------------------------------------
\* The delay of an entry, computed without a division, is the distance to the
\* last day on which the linear plan asked for no more than is done; overdue
\* entries are never on track (packages/domain/schedule.ts:225-232).  Without
\* reports a delay grows by a day every day, and reporting more work never
\* makes an entry later.  The object's conclusion covers every entry of every
\* work, once each.
AssessmentIsSound ==
  [][/\ scene = "entry" =>
          /\ Entry!TypeOK'
          /\ Entry!DelayIsTheDistanceToThePlan' /\ Entry!OverdueIsNeverOnTrack'
          /\ Entry!DelayGrowsDaily /\ Entry!ReportingNeverDelays
     /\ scene = "whole" => Whole!ConclusionCoversEveryEntry']_mcVars

\* Plans of units and portions keep within the quantity above them and every
\* allocation on record fits them; an allocation is replaced by someone who saw
\* it, keeps his right and comes before the first fact; a retried creation is
\* never refused for want of room (gpr2-r06b-allocation.ts, infra/037).
AllocationsAreCapped ==
  [][/\ scene = "caps" => Caps!TypeOK /\ Caps!PlansFit' /\ Caps!RetriesFindTheirRow
     /\ scene = "allocations" =>
          Allocations!AllocationsFit' /\ Allocations!ReplacementsAreInformed]_mcVars

\* Versions of templates and systems follow each other, nothing of a published
\* template disappears silently from a system, what is called inherited is an
\* exact copy, and the decisions about a legacy subject form one line; every
\* published version of a template and every version of a system is final.
TemplatesAreSound ==
  [][scene = "templates" =>
       /\ Templates!TypeOK'
       /\ Templates!VersionsFollowEachOther' /\ Templates!ProvenanceIsWhole'
       /\ Templates!InheritedIsExact' /\ Templates!OneCurrentRecord'
       /\ Templates!PublishedIsFinal]_mcVars

\* What is generated is what the client previewed and what a preview would say
\* now, and it leaves out no measured space and no required stage
\* (gpr2/r05-generation.ts:116-118).
GeneratedAsPreviewed ==
  [][/\ scene = "main" =>
          Space!ConfirmedAsPreviewed /\ Space!GeneratedSpaceIsWhole
     /\ scene = "local" => Space!RequiredStagesAreProduced]_mcVars
=============================================================================
