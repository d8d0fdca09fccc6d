--------------------------- MODULE MigrationRunner ---------------------------
(***************************************************************************)
(* Controlled execution of the numbered migrations of infra/               *)
(* (scripts/migration-runner.ts, migrate.ts).  The files change between    *)
(* deployments; every process reads the files of its own checkout, then    *)
(* plans and applies what the ledger lacks in one transaction under one    *)
(* advisory lock.  What makes a file additive is in MigrationChain.        *)
(***************************************************************************)
EXTENDS Integers, Sequences, SequencesExt

CONSTANTS
  Runners,      \* processes that migrate or show a plan
  LastVersion,  \* bound: highest version a file may have
  LegacyLast,   \* files up to it are pinned by the manifest
  MaxContent,   \* bound: edits of one file
  MaxCommits,   \* bound: changes of the repository
  MaxRuns,      \* bound: processes started altogether
  Commands,     \* command lines tried
  None,         \* no file, no row
  NoChecksum    \* a row that holds only the version

\* What the constants satisfy.  Files are sorted by name, and run in that order;
\* with versions of three digits, as in infra/, it is the order of the versions.
MigrationAssumption ==
  /\ LastVersion \in 0..999
  /\ LegacyLast \in 0..LastVersion
  /\ MaxContent \in Nat
  /\ MaxCommits \in Nat
  /\ MaxRuns \in Nat
  /\ Commands \subseteq
       [plan : BOOLEAN, mode : {"explicit", "boot"}, allow : SUBSET (1..LastVersion),
        through : 1..LastVersion]
  /\ None # NoChecksum /\ {None, NoChecksum} \cap (0..MaxContent) = {}

VARIABLES
  files,     \* [Versions -> File or None], the repository's infra/
  ledger,    \* [Versions -> checksum, NoChecksum or None], schema_migrations
  columns,   \* of schema_migrations: no table, without checksum, complete
  ran,       \* Seq([version, content, class, named]), every migration committed
  runners,   \* [Runners -> what the process holds]
  starts,    \* processes started so far
  commits    \* changes of the repository so far

vars == <<files, ledger, columns, ran, runners, starts, commits>>
database == <<ledger, columns, ran>>

Versions == 1..LastVersion
Contents == 0..MaxContent   \* a checksum stands for the content it was taken of
File == [class : {"legacy", "additive", "contract"}, content : Contents]
Directory == [Versions -> File \cup {None}]
Run == [version : Versions, content : Contents, class : {"legacy", "additive", "contract"},
        named : BOOLEAN]

\* read: migrate() has its files.  applying: the lock is held, the plan made,
\* done of it executed, in order.  asked, described, shown: planAgainstLedger.
Idle == [phase |-> "idle"]
In(p, phase) == runners[p].phase = phase
Become(p, r) == runners' = [runners EXCEPT ![p] = r]

\* A database that the previous runner, which recorded only versions, left.
Init ==
  /\ files = [v \in Versions |->
       IF v <= LegacyLast THEN [class |-> "legacy", content |-> 0] ELSE None]
  /\ \E n \in 0..LegacyLast :
       /\ ledger = [v \in Versions |-> IF v <= n THEN NoChecksum ELSE None]
       /\ columns = IF n = 0 THEN "none" ELSE "plain"
       /\ ran = [v \in 1..n |-> [version |-> v, content |-> 0, class |-> "legacy", named |-> FALSE]]
  /\ runners = [p \in Runners |-> Idle]
  /\ starts = 0
  /\ commits = 0

-----------------------------------------------------------------------------
\* Commits to the repository: in any order, whatever is applied already.
Change(v, file) ==
  /\ commits < MaxCommits /\ commits' = commits + 1
  /\ files' = [files EXCEPT ![v] = file]
  /\ UNCHANGED <<database, runners, starts>>

AddFile(v, class) == files[v] = None /\ Change(v, [class |-> class, content |-> 0])

EditFile(v) ==
  /\ files[v] # None /\ files[v].content < MaxContent
  /\ Change(v, [files[v] EXCEPT !.content = @ + 1])

\* A file taken back, or the checkout of another branch.
RemoveFile(v) == files[v] # None /\ Change(v, None)

-----------------------------------------------------------------------------
Present(dir) == {v \in Versions : dir[v] # None}

\* readMigrationFiles: a legacy file must be the one the manifest pins.
ManifestHolds(dir) == \A v \in 1..LegacyLast : dir[v] # None => dir[v].content = 0

\* MIGRATION_CHANGED_AFTER_APPLY, for legacy files as for the others.
ChangedAfterApply(dir, known) ==
  \E v \in Present(dir) : known[v] \in Contents /\ known[v] # dir[v].content

\* Mutated form: a contract file is passed over and not refused.
PendingAdditive(dir, known, opts) ==
  {v \in Present(dir) : known[v] = None /\ v <= opts.through
     /\ (dir[v].class = "contract" => v \in opts.allow)}
Pending(dir, known, opts) == {v \in Present(dir) : known[v] = None /\ v <= opts.through}

\* MIGRATION_GAP.
Gap(dir, known, opts) ==
  \E v \in Pending(dir, known, opts), w \in Versions : known[w] # None /\ v < w

\* MIGRATION_CONTRACT_IN_BOOT, MIGRATION_CONTRACT_NOT_ALLOWED.
ContractRefused(dir, known, opts) ==
  \E v \in Pending(dir, known, opts) :
    dir[v].class = "contract" /\ (opts.mode = "boot" \/ v \notin opts.allow)

Refused(dir, known, opts) ==
  \/ ChangedAfterApply(dir, known)
  \/ Gap(dir, known, opts)
  \/ ContractRefused(dir, known, opts)

-----------------------------------------------------------------------------
\* A process starts and reads its checkout, to migrate or to show a plan.
Start(p) ==
  /\ In(p, "idle") /\ starts < MaxRuns
  /\ ManifestHolds(files)
  /\ \E opts \in Commands :
       Become(p, [phase |-> IF opts.plan THEN "asked" ELSE "read", dir |-> files, opts |-> opts])
  /\ starts' = starts + 1
  /\ UNCHANGED <<files, database, commits>>

LockIsFree(p) == \A q \in Runners \ {p} : ~In(q, "applying")

\* The advisory lock, the ledger as committed by whoever held it, the plan.
Plan(p) ==
  /\ In(p, "read") /\ LockIsFree(p)
  /\ LET r == runners[p] IN
       /\ ~Refused(r.dir, ledger, r.opts)
       /\ Become(p, [phase |-> "applying", dir |-> r.dir, opts |-> r.opts, done |-> <<>>,
                     plan |-> Pending(r.dir, ledger, r.opts)])
  /\ UNCHANGED <<files, database, starts, commits>>

\* What of the plan was not executed yet.
Left(r) == r.plan \ ToSet(r.done)

\* The next file, by number, and its row, inside the transaction.
Apply(p) ==
  /\ In(p, "applying")
  /\ \E v \in Left(runners[p]) :
       /\ \A w \in Left(runners[p]) : v <= w
       /\ Become(p, [runners[p] EXCEPT !.done = Append(@, v)])
  /\ UNCHANGED <<files, database, starts, commits>>

\* Mutated form: the checksum is taken of the file as it is when the row is written.
ChecksumNow(r, v) == IF files[v] = None THEN r.dir[v].content ELSE files[v].content
ChecksumOf(r, v) == r.dir[v].content

\* What is known of a migration that r executed.
RunOf(r, v) ==
  [version |-> v, content |-> r.dir[v].content, class |-> r.dir[v].class,
   named |-> r.opts.mode = "explicit" /\ v \in r.opts.allow]

Commit(p) ==
  LET r == runners[p] IN
  /\ In(p, "applying") /\ Left(r) = {}
  /\ ledger' = [v \in Versions |-> IF v \in r.plan THEN ChecksumOf(r, v) ELSE ledger[v]]
  /\ ran' = ran \o [i \in DOMAIN r.done |-> RunOf(r, r.done[i])]
  /\ columns' = "full"
  /\ Become(p, Idle)
  /\ UNCHANGED <<files, starts, commits>>

\* A refused plan, a failing file, a crash: the transaction leaves nothing.
Stop(p) ==
  /\ ~In(p, "idle")
  /\ Become(p, Idle)
  /\ UNCHANGED <<files, database, starts, commits>>

-----------------------------------------------------------------------------
\* planAgainstLedger: three statements, no transaction and no lock.
Describe(p) ==
  /\ In(p, "asked")
  /\ Become(p, [phase |-> "described", dir |-> runners[p].dir, opts |-> runners[p].opts,
                known |-> columns])
  /\ UNCHANGED <<files, database, starts, commits>>

RowsSeen(known) ==
  CASE known = "none" -> [v \in Versions |-> None]
    [] known = "plain" -> [v \in Versions |-> IF ledger[v] = None THEN None ELSE NoChecksum]
    [] known = "full" -> ledger

Show(p) ==
  /\ In(p, "described")
  /\ LET r == runners[p]
         seen == RowsSeen(r.known) IN
       /\ ~Refused(r.dir, seen, r.opts)
       /\ Become(p, [phase |-> "shown",
                     unverified |-> {v \in Present(r.dir) : seen[v] = NoChecksum}])
  /\ UNCHANGED <<files, database, starts, commits>>

Next ==
  \/ \E v \in (LegacyLast + 1)..LastVersion, class \in {"additive", "contract"} : AddFile(v, class)
  \/ \E v \in Versions : EditFile(v)
  \/ \E v \in (LegacyLast + 1)..LastVersion : RemoveFile(v)
  \/ \E p \in Runners :
       \/ Start(p) \/ Plan(p) \/ Apply(p) \/ Commit(p) \/ Stop(p)
       \/ Describe(p) \/ Show(p)

Spec == Init /\ [][Next]_vars

-----------------------------------------------------------------------------
Reading == [phase : {"read", "asked"}, dir : Directory, opts : Commands]
Working == [phase : {"applying"}, dir : Directory, opts : Commands, plan : SUBSET Versions,
            done : Seq(Versions)]
Looking == [phase : {"described"}, dir : Directory, opts : Commands,
            known : {"none", "plain", "full"}]
Told == [phase : {"shown"}, unverified : SUBSET Versions]

\* Every variable holds a value of its type.
TypeOK ==
  /\ files \in Directory
  /\ ledger \in [Versions -> Contents \cup {None, NoChecksum}]
  /\ columns \in {"none", "plain", "full"}
  /\ ran \in Seq(Run)
  /\ runners \in [Runners -> {Idle} \cup Reading \cup Working \cup Looking \cup Told]
  /\ starts \in 0..MaxRuns /\ commits \in 0..MaxCommits

\* No migration runs twice and none runs after one of a later version, whatever
\* files appear between deployments and however many processes start at once.
RunInOrder == \A i, j \in DOMAIN ran : i < j => ran[i].version < ran[j].version

\* A recorded checksum is that of the text that ran, a row stands for a
\* migration that ran and every migration that ran has its row.
LedgerTellsWhatRan ==
  /\ \A v \in Versions : ledger[v] # None => \E i \in DOMAIN ran : ran[i].version = v
  /\ \A i \in DOMAIN ran : ledger[ran[i].version] \in {ran[i].content, NoChecksum}

\* A contract migration only ever runs by explicit order that names it, in
\* whatever company of other pending files.
ContractsAreNamed == \A i \in DOMAIN ran : ran[i].class = "contract" => ran[i].named

\* Who finishes has the whole of its release in the ledger, up to the version
\* asked for: nothing pending is passed over silently.
ReleaseIsComplete ==
  \A p \in Runners :
     In(p, "applying") /\ columns' = "full" /\ ran' # ran /\ runners'[p] = Idle =>
       \A v \in Present(runners[p].dir) :
         v <= runners[p].opts.through => ledger'[v] # None

\* Whoever adds to the ledger has, for every version whose checksum is recorded,
\* the very text that ran: an edited history is never built upon.
HistoryIsUnedited ==
  \A p \in Runners :
     In(p, "applying") /\ ran' # ran /\ runners'[p] = Idle =>
       \A v \in Present(runners[p].dir) :
         ledger[v] \in Contents => ledger[v] = runners[p].dir[v].content

\* Migrations run once, in order and, when they contract, by name; a recorded
\* checksum is of the text that ran (scripts/migration-runner.ts).
LedgerIsTrue == TypeOK /\ RunInOrder /\ LedgerTellsWhatRan /\ ContractsAreNamed

\* Who finishes has the whole release in the ledger, and nobody adds to a
\* history that was edited after it ran (scripts/migration-runner.ts).
DeploymentsAreWhole == [][ReleaseIsComplete /\ HistoryIsUnedited]_vars
=============================================================================
