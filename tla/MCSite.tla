------------------------------- MODULE MCSite -------------------------------
(***************************************************************************)
(* A site for TLC, in scenes: every behaviour stays in the scene it starts *)
(* in, and what is not of the scene stands still.                          *)
(***************************************************************************)
EXTENDS Site, TLC

CONSTANTS
  t1, t2  \* server processes

VARIABLE scene

siteVars == <<scene, vars, figures>>

ASSUME SiteHolds == SiteAssumption

SiteInit ==
  /\ Init
  /\ Figures!Init
  /\ \/ scene \in {"control", "issues"} /\ mode = "UNCLASSIFIED" /\ actual = 0
     \/ scene = "figures"

(* Two processes and both kinds of inspection, a command less.             *)
ControlNext ==
  /\ scene = "control" /\ Next
  /\ requests' < MaxRequests

(* One command at a time and one kind of inspection: what an issue can     *)
(* still do to an accepted inspection.                                     *)
IssuesNext ==
  /\ scene = "issues" /\ Next
  /\ \A t, u \in Attempts : In(t, "idle")' \/ In(u, "idle")' \/ t = u
  /\ \A t \in Attempts : ~In(t, "idle")' => Cmd(t).type' # "INTERNAL_SC"

FiguresNext == scene = "figures" /\ Figures!Next

SiteNext ==
  /\ \/ (ControlNext \/ IssuesNext) /\ UNCHANGED figures
     \/ FiguresNext /\ UNCHANGED vars
  /\ UNCHANGED scene

SiteSpec == SiteInit /\ [][SiteNext]_siteVars

Symmetry == Permutations({t1, t2})
=============================================================================
