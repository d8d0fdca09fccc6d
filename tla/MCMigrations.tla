---------------------------- MODULE MCMigrations ----------------------------
(***************************************************************************)
(* What deploys the database: the runner of migrations, and the scan that  *)
(* decides which of them are additive.  One of the two runs at a time, the *)
(* other stands still.                                                     *)
(***************************************************************************)
EXTENDS Migrations, TLC

CONSTANTS p1, p2, f1, f2, r1

VARIABLE scene

scanning == <<chain, work, live, trial, file, scanned, hidden, upserted>>
mcVars == <<scene, vars, scanning>>

(* A plain run, one that names the second version, one that stops at it, a *)
(* boot that names it all the same, and a plan.                            *)
Migrate(mode, allow, through) ==
  [plan |-> FALSE, mode |-> mode, allow |-> allow, through |-> through]
DeployCommands ==
  {Migrate("explicit", {}, 3), Migrate("explicit", {2}, 3), Migrate("explicit", {}, 2),
   Migrate("boot", {2, 3}, 3), [Migrate("explicit", {}, 3) EXCEPT !.plan = TRUE]}

EveryKind ==
  {"function", "table", "view", "trigger", "event", "operator", "call", "insert", "read",
   "operate", "grant"}

(* Files of one statement of every kind; files of two whose bindings are   *)
(* named; and a file of two whose bindings nothing has to name, with one   *)
(* of one statement after it.                                              *)
KindsOf(chosen) ==
  CASE chosen = "files" -> Kinds
    [] chosen = "batches" -> {"function", "trigger", "call", "insert"}
    [] chosen = "bindings" -> {"function", "event", "operator", "operate"}
StatementsOf(chosen) ==
  IF chosen = "files" \/ (chosen = "bindings" /\ scanned > 0) THEN 1 ELSE 2
FilesOf(chosen) == IF chosen = "files" THEN 3 ELSE 2

ASSUME RunnerHolds == MigrationAssumption
ASSUME ScanHolds == ScanAssumption

MCInit ==
  /\ Init /\ Scan!Init
  /\ \/ scene = "runner"
     \/ scene \in {"files", "batches", "bindings"} /\ columns = "none"

RunnerNext == scene = "runner" /\ Next /\ UNCHANGED <<scene, scanning>>
ScanNext ==
  /\ scene # "runner"
  /\ \/ scanned < FilesOf(scene) /\ \E class \in {"additive", "contract"} : Scan!Open(class)
     \/ /\ file # Scan!NoFile /\ file.statements < StatementsOf(scene)
        /\ \E kind \in KindsOf(scene) : \E s \in Scan!Statement(kind) : Scan!Walk(s)
     \/ Scan!Accept
     \/ Scan!Refuse
  /\ UNCHANGED <<scene, vars>>

MCNext == RunnerNext \/ ScanNext

MCSpec == MCInit /\ [][MCNext]_mcVars

Symmetry == Permutations({p1, p2}) \cup Permutations({f1, f2})
=============================================================================
