----------------------------- MODULE Migrations -----------------------------
(***************************************************************************)
(* What deploys the database: the runner of migrations, and the scan that  *)
(* decides which of the files it reads are additive.                       *)
(***************************************************************************)
EXTENDS MigrationRunner

CONSTANTS
  Functions, Tables, Kinds,  \* what statements are about, and of what kind
  MaxStatements, MaxFiles    \* bounds of a scanned chain

VARIABLES chain, work, live, trial, file, scanned, hidden, upserted

Scan == INSTANCE MigrationChain WITH files <- scanned

\* What the constants of the scan satisfy.
ScanAssumption == Scan!ChainAssumption

\* No statement of an accepted additive file names what runs a body hidden from
\* the scan, and what runs unnamed is harmless where the file ends; none but a
\* read fires a trigger that rewrites rows by what it names; what is called
\* untainted reaches no armed body (scripts/migration-runner.ts:445-449, 619-671).
HiddenBodiesDoNotRun == Scan!AdditiveIsHarmless
=============================================================================
