------------------------------ MODULE Planning ------------------------------
(***************************************************************************)
(* What is planned for one object: its works with what must come before    *)
(* them, the production schedule, the catalogue of work types, and the     *)
(* areas for which works are generated.  They share the server's           *)
(* processes; the schedule reads of the works only which units they have,  *)
(* and each has variables of its own.                                      *)
(***************************************************************************)
EXTENDS WorkDependencies

CONSTANTS
  Scheduled,                  \* works the schedule may plan
  Units, WorkOf, Plans, NoScope, MaxRevisions, MaxReasons,  \* of the schedule
  MaxDrafting,                \* bound: commands about the schedule altogether
  Operations, Keys, NoKey, Systems, Measures, Stated, InitialAreas,  \* of the generation
  MaxQuantity, MaxAreas, MaxVersions,
  MaxGenerating,              \* bound: previews and commands about areas altogether
  Objects, Corporate, Measurements, InitialTypes, MaxTypes,  \* of the catalogue
  MaxCataloguing              \* bound: commands about types altogether

VARIABLES
  revisions, units, reasons, clerks, sent,
  areas, editions, made, bindings, scope, builders, generated,
  types, proposals, uses, curators, curated

drafting == <<revisions, units, reasons, clerks, sent>>
generating == <<areas, editions, made, bindings, scope, builders, generated>>
cataloguing == <<types, proposals, uses, curators, curated>>

\* The production schedule (docs/gpr-1-production-schedule.md).
GPR == INSTANCE Schedule WITH
  Works <- Scheduled, MaxRequests <- MaxDrafting, attempts <- clerks, requests <- sent

\* Areas and the works generated for them (docs/gpr-2-r05-contract.md, R05).
Space == INSTANCE WorkGeneration WITH
  MaxCommands <- MaxGenerating,
  versions <- editions, works <- made, attempts <- builders, commands <- generated

\* The catalogue of work types (docs/gpr-2-r05-contract.md).
Types == INSTANCE WorkTypes WITH
  Units <- Measurements, MaxCommands <- MaxCataloguing,
  attempts <- curators, commands <- curated

\* What the constants satisfy.
PlanningAssumption ==
  /\ WorksAssumption /\ GPR!ScheduleAssumption
  /\ Space!GenerationAssumption /\ Types!TypesAssumption

-----------------------------------------------------------------------------
\* A draft corrects the baseline in force, a reason explains a delay of a
\* scope that the baseline it names plans, and no revision plans a work twice
\* or has a chain of predecessors that leaves it or closes on itself.  The
\* draft that was looked at is approved as it was seen, a revision that is no
\* draft keeps its entries, and no work with units is approved as a whole
\* (schedule-service.ts, infra/036).
RevisionsAreSound ==
  /\ [](/\ GPR!TypeOK /\ GPR!DraftCorrectsTheBaseline
        /\ GPR!ReasonsExplainABaseline /\ GPR!RevisionsAreConsistent)
  /\ [][/\ GPR!SameDraftAsSeen /\ GPR!HistoryIsFrozen
        /\ GPR!WholeWorksHaveNoUnits]_drafting

\* A place has one producer of a stage, space is measured once, places with a
\* producer stay alive, and a work's quantity is the sum of its places'
\* (infra/032:75-123, infra/034:76, 122-139).
SpaceHasOneProducer ==
  /\ Space!TypeOK
  /\ Space!OneProducerPerPlace
  /\ Space!SpaceIsCountedOnce
  /\ Space!WorksAddUp
  /\ Space!PlacesStayAlive

\* A work type is named only where it may be, stages measure in its unit, and
\* it becomes corporate or an alias by exactly one approved proposal, however
\* proposals, corrections and first uses interleave; an administrator approves
\* what was proposed, and a decision is final (infra/034 171-207).
TypesAreSound ==
  /\ [](/\ Types!TypeOK /\ Types!TypesStayInTheirObject
        /\ Types!StagesMeasureInTheirUnit /\ Types!PublishedByOneProposal)
  /\ [][Types!ApprovedAsProposed /\ Types!DecisionsAreFinal]_cataloguing
=============================================================================
