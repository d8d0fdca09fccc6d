-------------------------------- MODULE Site --------------------------------
(***************************************************************************)
(* The figures of one object's site: the construction control of a portion *)
(* and the source of a work's facts.  They share the server's processes,   *)
(* and meet in the code only through rows that each module has in it; each *)
(* has variables of its own.                                               *)
(***************************************************************************)
EXTENDS ConstructionControl

CONSTANTS
  Amounts,         \* quantities reported of a work or a portion of it
  InitialModes, InitialActuals, Target, MaxPortions,  \* of the figures
  MaxReports       \* bound: commands about the figures altogether

VARIABLES mode, switchedAt, actual, progress, units, portions, sources, sent, now

figures == <<mode, switchedAt, actual, progress, units, portions, sources, sent, now>>

Figures == INSTANCE FactSource WITH
  Quantities <- Amounts, MaxRequests <- MaxReports, attempts <- sources, requests <- sent

\* What the constants satisfy.
SiteAssumption == ControlAssumption /\ Figures!FactAssumption

-----------------------------------------------------------------------------
\* A work counts legacy progress or portions, never both, and no quantity
\* reported before its source was settled is lost; what the resolver says of
\* the present is what is known, the day a work was completed opens the run of
\* days that count as complete, and what the resolver says of a past instant
\* does not change when later facts commit (gpr2/fact-resolver.ts, infra/026).
FiguresAreKept ==
  /\ [](/\ Figures!TypeOK /\ Figures!SourcesDoNotMix
         /\ Figures!NoFigureIsLost /\ Figures!CurrentIsKnownNow
         /\ Figures!CompletionStartsTheRun)
  /\ [][Figures!ThePastIsStable]_figures
=============================================================================
