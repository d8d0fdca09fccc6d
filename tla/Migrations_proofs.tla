------------------------- MODULE Migrations_proofs -------------------------
(***************************************************************************)
(* What the ledger of migrations says, for every number of processes,      *)
(* versions, edits and command lines.  A process that applies is alone     *)
(* with the ledger (Applying), so what it planned is still what the ledger *)
(* lacks when it commits.  Then what the scan of a chain keeps out, for    *)
(* every set of names and kinds of statements.                             *)
(***************************************************************************)
EXTENDS Migrations, SequenceTheorems, TLAPS

-----------------------------------------------------------------------------
\* One process holds the advisory lock.
OneApplies == \A p, q \in Runners : In(p, "applying") /\ In(q, "applying") => p = q

\* The plan is the one the committed ledger calls for, no refusal would meet it
\* now, and what is done of it was done in order.
Planned(r, known) ==
  /\ r.done \in Seq(r.plan)
  /\ r.plan = Pending(r.dir, known, r.opts)
  /\ ~Refused(r.dir, known, r.opts)
  /\ \A i, j \in DOMAIN r.done : i < j => r.done[i] < r.done[j]
  /\ \A i \in DOMAIN r.done, v \in Left(r) : r.done[i] < v

Applying == \A p \in Runners : In(p, "applying") => Planned(runners[p], ledger)

\* The inductive invariant.
IInv ==
  /\ TypeOK
  /\ OneApplies
  /\ Applying
  /\ RunInOrder
  /\ LedgerTellsWhatRan
  /\ ContractsAreNamed

-----------------------------------------------------------------------------
(* What a process holds while it applies.                                  *)
LEMMA ProcessAtWork ==
  ASSUME TypeOK, NEW p \in Runners, In(p, "applying")
  PROVE  runners[p] \in Working
  BY DEF TypeOK, In, Idle, Reading, Working, Looking, Told

(* A version of a plan has a file and no row, and no later version has one. *)
LEMMA PlannedVersions ==
  ASSUME MigrationAssumption, TypeOK, NEW p \in Runners, In(p, "applying"),
         Planned(runners[p], ledger)
  PROVE  /\ runners[p].plan \subseteq Versions
         /\ \A v \in runners[p].plan :
              runners[p].dir[v] \in File /\ ledger[v] = None
         /\ \A v \in runners[p].plan, w \in Versions : ledger[w] # None => w < v
         /\ ToSet(runners[p].done) \subseteq runners[p].plan
  <1>1. runners[p] \in Working
    BY ProcessAtWork
  <1>2. runners[p].dir \in Directory /\ runners[p].done \in Seq(runners[p].plan)
    BY <1>1 DEF Planned, Working
  <1>3. runners[p].plan \subseteq Versions
    BY DEF Planned, Pending, Present
  <1>4. ASSUME NEW v \in runners[p].plan
        PROVE  /\ runners[p].dir[v] \in File /\ ledger[v] = None
               /\ \A w \in Versions : ledger[w] # None => w < v
    <2>1. v \in Versions /\ runners[p].dir[v] # None /\ ledger[v] = None
      BY DEF Planned, Pending, Present
    <2>2. runners[p].dir[v] \in File
      BY <1>2, <2>1 DEF Directory
    <2>3. \A w \in Versions : ledger[w] # None => ~(v < w)
      BY DEF Planned, Refused, Gap
    <2>4. QED
      BY <2>1, <2>2, <2>3 DEF Versions, MigrationAssumption
  <1>5. ToSet(runners[p].done) \subseteq runners[p].plan
    BY <1>2 DEF ToSet
  <1>6. QED
    BY <1>3, <1>4, <1>5

(* Every migration that ran has its row. *)
LEMMA RanIsRecorded ==
  ASSUME MigrationAssumption, TypeOK, LedgerTellsWhatRan, NEW i \in DOMAIN ran
  PROVE  ran[i] \in Run /\ ran[i].version \in Versions /\ ledger[ran[i].version] # None
  <1>1. ran[i] \in Run
    BY DEF TypeOK
  <1>2. ran[i].version \in Versions /\ ran[i].content \in Contents
    BY <1>1 DEF Run
  <1>3. ledger[ran[i].version] \in {ran[i].content, NoChecksum}
    BY DEF LedgerTellsWhatRan
  <1>4. QED
    BY <1>1, <1>2, <1>3 DEF MigrationAssumption, Contents

(* A process that moves without touching the ledger disturbs nothing, as   *)
(* long as it plans alone.                                                 *)
LEMMA RunnerMoves ==
  ASSUME IInv, NEW p \in Runners, NEW r \in {Idle} \cup Reading \cup Working \cup Looking \cup Told,
         Become(p, r),
         r.phase = "applying" => Planned(r, ledger) /\ LockIsFree(p),
         UNCHANGED <<files, database, commits>>, starts' \in 0..MaxRuns
  PROVE  IInv'
  <1>1. /\ DOMAIN runners' = Runners /\ runners'[p] = r
        /\ \A q \in Runners \ {p} : runners'[q] = runners[q]
    BY DEF Become, IInv, TypeOK
  <1>2. ledger' = ledger /\ columns' = columns /\ ran' = ran /\ files' = files
        /\ commits' = commits
    BY DEF database
  <1>3. TypeOK'
    <2>1. runners' \in [Runners -> {Idle} \cup Reading \cup Working \cup Looking \cup Told]
      BY DEF Become, IInv, TypeOK
    <2>2. QED
      BY <1>2, <2>1 DEF IInv, TypeOK
  <1>4. OneApplies'
    BY <1>1 DEF IInv, OneApplies, In, LockIsFree
  <1>5. Applying'
    <2>1. SUFFICES ASSUME NEW q \in Runners, In(q, "applying")'
                   PROVE  Planned(runners'[q], ledger)
      BY <1>2 DEF Applying, Planned, Refused, ChangedAfterApply, Gap, ContractRefused, Pending
    <2>2. QED
      BY <1>1, <2>1 DEF IInv, Applying, In
  <1>6. RunInOrder' /\ LedgerTellsWhatRan' /\ ContractsAreNamed'
    BY <1>2 DEF IInv, RunInOrder, LedgerTellsWhatRan, ContractsAreNamed
  <1>7. QED
    BY <1>3, <1>4, <1>5, <1>6 DEF IInv

(* The repository changes under nobody's hands: a process read its own.    *)
LEMMA RepositoryMoves ==
  ASSUME MigrationAssumption, IInv, NEW v \in Versions, NEW changed \in File \cup {None},
         Change(v, changed)
  PROVE  IInv'
  <1>1. /\ ledger' = ledger /\ columns' = columns /\ ran' = ran
        /\ runners' = runners /\ starts' = starts
    BY DEF Change, database
  <1>2. files' \in Directory
    BY DEF Change, IInv, TypeOK, Directory
  <1>3. TypeOK'
    <2>1. commits' \in 0..MaxCommits
      BY DEF Change, IInv, TypeOK, MigrationAssumption
    <2>2. QED
      BY <1>1, <1>2, <2>1 DEF IInv, TypeOK
  <1>4. OneApplies' /\ Applying'
    BY <1>1 DEF IInv, OneApplies, Applying, In, Planned, Refused, ChangedAfterApply, Gap,
                ContractRefused, Pending, Left
  <1>5. RunInOrder' /\ LedgerTellsWhatRan' /\ ContractsAreNamed'
    BY <1>1 DEF IInv, RunInOrder, LedgerTellsWhatRan, ContractsAreNamed
  <1>6. QED
    BY <1>3, <1>4, <1>5 DEF IInv

(* A sequence and one element more.                                        *)
LEMMA Appended ==
  ASSUME NEW S, NEW s \in Seq(S), NEW v \in S
  PROVE  /\ Append(s, v) \in Seq(S)
         /\ Len(s) + 1 \in DOMAIN Append(s, v) /\ Append(s, v)[Len(s) + 1] = v
         /\ \A i \in DOMAIN s : i \in DOMAIN Append(s, v) /\ Append(s, v)[i] = s[i]
         /\ \A i \in DOMAIN Append(s, v) : i \in DOMAIN s \/ i = Len(s) + 1
  <1>1. Len(s) \in Nat /\ DOMAIN s = 1..Len(s)
    OBVIOUS
  <1>2. Append(s, v) \in Seq(S) /\ Len(Append(s, v)) = Len(s) + 1
    OBVIOUS
  <1>3. DOMAIN Append(s, v) = 1..(Len(s) + 1)
    BY <1>2
  <1>4. Append(s, v)[Len(s) + 1] = v /\ \A i \in 1..Len(s) : Append(s, v)[i] = s[i]
    OBVIOUS
  <1>5. QED
    BY <1>1, <1>2, <1>3, <1>4

(* The next version goes behind what is done and before what is left.      *)
LEMMA ApplyStep ==
  ASSUME MigrationAssumption, IInv, NEW p \in Runners, Apply(p)
  PROVE  IInv'
  <1> DEFINE r == runners[p]
  <1>1. In(p, "applying") /\ r \in Working /\ Planned(r, ledger)
    BY ProcessAtWork DEF Apply, IInv, Applying
  <1>2. PICK v \in Left(r) : /\ \A w \in Left(r) : v <= w
                             /\ Become(p, [r EXCEPT !.done = Append(@, v)])
    BY DEF Apply
  <1>3. r.plan \subseteq Versions
    BY <1>1, PlannedVersions DEF IInv
  <1>4. r.done \in Seq(r.plan) /\ v \in r.plan
    BY <1>1, <1>2 DEF Planned, Left
  <1> DEFINE done == Append(r.done, v)
             new == [r EXCEPT !.done = Append(@, v)]
  <1>5. /\ done \in Seq(r.plan)
        /\ \A i \in DOMAIN done :
             \/ i \in DOMAIN r.done /\ done[i] = r.done[i]
             \/ i = Len(r.done) + 1 /\ done[i] = v
    <2>1. Append(r.done, v) \in Seq(r.plan)
      BY <1>4, Appended
    <2>2. Append(r.done, v)[Len(r.done) + 1] = v
      BY <1>4, Appended
    <2>3. \A i \in DOMAIN r.done : Append(r.done, v)[i] = r.done[i]
      BY <1>4, Appended
    <2>4. \A i \in DOMAIN Append(r.done, v) : i \in DOMAIN r.done \/ i = Len(r.done) + 1
      BY <1>4, Appended
    <2>5. QED
      BY <2>1, <2>2, <2>3, <2>4
  <1>6. /\ new.phase = r.phase /\ new.dir = r.dir /\ new.opts = r.opts
        /\ new.plan = r.plan /\ new.done = done
    BY <1>1 DEF Working
  <1>7. Left(new) \subseteq Left(r) \ {v}
    <2>1. \E i \in DOMAIN done : done[i] = v
      <3>1. Len(r.done) + 1 \in DOMAIN done /\ done[Len(r.done) + 1] = v
        BY <1>4, Appended
      <3>2. QED
        BY <3>1
    <2>2. ToSet(r.done) \subseteq ToSet(done)
      <3>1. \A i \in DOMAIN r.done : i \in DOMAIN done /\ done[i] = r.done[i]
        BY <1>4, Appended
      <3>2. QED
        BY <3>1 DEF ToSet
    <2>3. QED
      BY <1>6, <2>1, <2>2 DEF Left, ToSet
  <1>8. Planned(new, ledger)
    <2>1. new.plan = Pending(new.dir, ledger, new.opts) /\ ~Refused(new.dir, ledger, new.opts)
      BY <1>1, <1>6 DEF Planned
    <2>2. \A i \in DOMAIN r.done : r.done[i] < v
      BY <1>1 DEF Planned
    <2>3. \A i, j \in DOMAIN done : i < j => done[i] < done[j]
      <3>1. TAKE i, j \in DOMAIN done
      <3>2. HAVE i < j
      <3>3. i \in DOMAIN r.done /\ done[i] = r.done[i]
        BY <1>4, <1>5, <3>2
      <3>4. CASE j \in DOMAIN r.done /\ done[j] = r.done[j]
        BY <1>1, <3>2, <3>3, <3>4 DEF Planned
      <3>5. CASE j = Len(r.done) + 1 /\ done[j] = v
        BY <2>2, <3>3, <3>5
      <3>6. QED
        BY <1>5, <3>4, <3>5
    <2>4. \A i \in DOMAIN done, w \in Left(new) : done[i] < w
      <3>1. TAKE i \in DOMAIN done, w \in Left(new)
      <3>2. w \in Left(r) /\ w # v /\ w \in Versions /\ v \in Versions
        BY <1>3, <1>4, <1>7 DEF Left
      <3>3. v < w
        BY <1>2, <3>2 DEF Versions, MigrationAssumption
      <3>4. CASE i \in DOMAIN r.done /\ done[i] = r.done[i]
        BY <1>1, <3>2, <3>4 DEF Planned
      <3>5. CASE i = Len(r.done) + 1 /\ done[i] = v
        BY <3>3, <3>5
      <3>6. QED
        BY <1>5, <3>4, <3>5
    <2>5. QED
      BY <1>5, <1>6, <2>1, <2>3, <2>4 DEF Planned
  <1>9. new \in Working
    <2>1. done \in Seq(Versions)
      BY <1>1, <1>3, <1>4, Appended DEF Working
    <2> HIDE DEF done
    <2>2. [r EXCEPT !.done = done] \in Working
      BY <1>1, <2>1 DEF Working
    <2>3. QED
      BY <2>2 DEF done
  <1>10. LockIsFree(p)
    BY <1>1 DEF IInv, OneApplies, LockIsFree
  <1>11. Become(p, new) /\ UNCHANGED <<files, database, commits>> /\ starts' \in 0..MaxRuns
    BY <1>2 DEF Apply, IInv, TypeOK
  <1> HIDE DEF new
  <1>12. QED
    BY <1>8, <1>9, <1>10, <1>11, RunnerMoves

(* The lock, the ledger as it is, and nothing done yet.                    *)
LEMMA PlanStep ==
  ASSUME IInv, NEW p \in Runners, Plan(p)
  PROVE  IInv'
  <1> DEFINE r == runners[p]
             new == [phase |-> "applying", dir |-> r.dir, opts |-> r.opts, done |-> <<>>,
                     plan |-> Pending(r.dir, ledger, r.opts)]
  <1>1. In(p, "read") /\ LockIsFree(p) /\ ~Refused(r.dir, ledger, r.opts)
    BY DEF Plan
  <1>2. r \in Reading
    BY <1>1 DEF IInv, TypeOK, In, Idle, Reading, Working, Looking, Told
  <1>3. new \in Working
    <2>1. Pending(r.dir, ledger, r.opts) \subseteq Versions
      BY DEF Pending, Present
    <2>2. QED
      BY <1>2, <2>1 DEF Working, Reading
  <1>4. Planned(new, ledger)
    BY <1>1 DEF Planned
  <1>5. Become(p, new) /\ UNCHANGED <<files, database, commits>> /\ starts' \in 0..MaxRuns
    BY DEF Plan, IInv, TypeOK
  <1> HIDE DEF new
  <1>6. QED
    BY <1>1, <1>3, <1>4, <1>5, RunnerMoves

(* What a process reads or shows binds nobody.                             *)
LEMMA ReaderStep ==
  ASSUME MigrationAssumption, IInv, NEW p \in Runners,
         Start(p) \/ Stop(p) \/ Describe(p) \/ Show(p)
  PROVE  IInv'
  <1>1. CASE Start(p)
    <2>1. PICK opts \in Commands :
            Become(p, [phase |-> IF opts.plan THEN "asked" ELSE "read",
                       dir |-> files, opts |-> opts])
      BY <1>1 DEF Start
    <2> DEFINE new == [phase |-> IF opts.plan THEN "asked" ELSE "read",
                       dir |-> files, opts |-> opts]
    <2>2. new \in Reading /\ new.phase # "applying"
      BY DEF Reading, IInv, TypeOK
    <2>3. UNCHANGED <<files, database, commits>> /\ starts' \in 0..MaxRuns
      BY <1>1 DEF Start, IInv, TypeOK, MigrationAssumption
    <2> HIDE DEF new
    <2>4. QED
      BY <2>1, <2>2, <2>3, RunnerMoves DEF new
  <1>2. CASE Stop(p)
    <2>1. Become(p, Idle) /\ UNCHANGED <<files, database, commits>> /\ starts' \in 0..MaxRuns
      BY <1>2 DEF Stop, IInv, TypeOK
    <2>2. Idle.phase # "applying"
      BY DEF Idle
    <2>3. QED
      BY <2>1, <2>2, RunnerMoves
  <1>3. CASE Describe(p)
    <2> DEFINE new == [phase |-> "described", dir |-> runners[p].dir,
                       opts |-> runners[p].opts, known |-> columns]
    <2>1. runners[p] \in Reading
      BY <1>3 DEF Describe, IInv, TypeOK, In, Idle, Reading, Working, Looking, Told
    <2>2. new \in Looking /\ new.phase # "applying"
      BY <2>1 DEF Looking, Reading, IInv, TypeOK
    <2>3. Become(p, new) /\ UNCHANGED <<files, database, commits>> /\ starts' \in 0..MaxRuns
      BY <1>3 DEF Describe, IInv, TypeOK
    <2> HIDE DEF new
    <2>4. QED
      BY <2>2, <2>3, RunnerMoves
  <1>4. CASE Show(p)
    <2> DEFINE new == [phase |-> "shown",
                       unverified |-> {v \in Present(runners[p].dir) :
                                         RowsSeen(runners[p].known)[v] = NoChecksum}]
    <2>1. new \in Told /\ new.phase # "applying"
      BY DEF Told, Present
    <2>2. Become(p, new) /\ UNCHANGED <<files, database, commits>> /\ starts' \in 0..MaxRuns
      BY <1>4 DEF Show, IInv, TypeOK
    <2> HIDE DEF new
    <2>3. QED
      BY <2>1, <2>2, RunnerMoves
  <1>5. QED
    BY <1>1, <1>2, <1>3, <1>4

(* What a commit writes: a row for each version of the plan, and behind    *)
(* what ran before exactly what was done, in the order it was done in.     *)
LEMMA CommitWrites ==
  ASSUME MigrationAssumption, IInv, NEW p \in Runners, Commit(p)
  PROVE  /\ In(p, "applying") /\ Planned(runners[p], ledger)
         /\ ToSet(runners[p].done) = runners[p].plan
         /\ ran' \in Seq(Run)
         /\ \A i \in DOMAIN ran : i \in DOMAIN ran' /\ ran'[i] = ran[i]
         /\ \A k \in DOMAIN runners[p].done :
              /\ Len(ran) + k \in DOMAIN ran'
              /\ ran'[Len(ran) + k] = RunOf(runners[p], runners[p].done[k])
         /\ \A i \in DOMAIN ran' :
              i \in DOMAIN ran \/ \E k \in DOMAIN runners[p].done : i = Len(ran) + k
         /\ \A v \in Versions :
              ledger'[v] = IF v \in runners[p].plan THEN runners[p].dir[v].content ELSE ledger[v]
  <1> DEFINE r == runners[p]
             new == [k \in DOMAIN r.done |-> RunOf(r, r.done[k])]
  <1>1. In(p, "applying") /\ Planned(r, ledger) /\ r \in Working
    BY ProcessAtWork DEF Commit, IInv, Applying
  <1>2. /\ r.plan \subseteq Versions /\ \A v \in r.plan : r.dir[v] \in File
        /\ ToSet(r.done) \subseteq r.plan
    BY <1>1, PlannedVersions DEF IInv
  <1>3. ToSet(r.done) = r.plan
    BY <1>2 DEF Commit, Left
  <1>4. \A v \in r.plan : RunOf(r, v) \in Run
    BY <1>2 DEF RunOf, Run, File
  <1>5. r.done \in Seq(r.plan) /\ ran \in Seq(Run)
    BY <1>1 DEF Planned, IInv, TypeOK
  <1>6. DOMAIN r.done = 1..Len(r.done) /\ Len(r.done) \in Nat
    BY <1>5
  <1>7. \A k \in DOMAIN r.done : r.done[k] \in r.plan
    BY <1>5
  <1>8. new \in Seq(Run) /\ Len(new) = Len(r.done)
    <2>1. new \in [1..Len(r.done) -> Run]
      BY <1>4, <1>6, <1>7
    <2>2. QED
      BY <1>6, <2>1
  <1>9. ran' = ran \o new
    BY DEF Commit
  <1>10. \A k \in DOMAIN r.done : new[k] = RunOf(r, r.done[k])
    OBVIOUS
  <1>11. \A v \in Versions :
           ledger'[v] = IF v \in r.plan THEN r.dir[v].content ELSE ledger[v]
    BY DEF Commit, ChecksumOf
  <1> HIDE DEF new
  <1>12. /\ ran' \in Seq(Run) /\ DOMAIN ran' = 1..(Len(ran) + Len(new))
         /\ Len(ran) \in Nat /\ DOMAIN ran = 1..Len(ran)
         /\ \A i \in 1..(Len(ran) + Len(new)) :
              ran'[i] = IF i <= Len(ran) THEN ran[i] ELSE new[i - Len(ran)]
    <2>1. /\ ran' \in Seq(Run) /\ Len(ran') = Len(ran) + Len(new)
          /\ \A i \in 1..(Len(ran) + Len(new)) :
               ran'[i] = IF i <= Len(ran) THEN ran[i] ELSE new[i - Len(ran)]
      BY <1>5, <1>8, <1>9, ConcatProperties
    <2>2. QED
      BY <1>5, <2>1
  <1>13. DOMAIN ran' = 1..(Len(ran) + Len(r.done))
    BY <1>8, <1>9, <1>12
  <1>14. \A i \in DOMAIN ran : i \in DOMAIN ran' /\ ran'[i] = ran[i]
    BY <1>6, <1>8, <1>9, <1>12, <1>13
  <1>15. ASSUME NEW k \in DOMAIN r.done
         PROVE  Len(ran) + k \in DOMAIN ran' /\ ran'[Len(ran) + k] = RunOf(r, r.done[k])
    <2>1. k \in Nat /\ k >= 1 /\ k <= Len(r.done)
      BY <1>6
    <2>2. /\ Len(ran) + k \in 1..(Len(ran) + Len(new)) /\ ~(Len(ran) + k <= Len(ran))
          /\ (Len(ran) + k) - Len(ran) = k
      BY <2>1, <1>6, <1>8, <1>12
    <2>3. ran'[Len(ran) + k] = new[k]
      BY <2>2, <1>9, <1>12
    <2>4. QED
      BY <2>2, <2>3, <1>8, <1>10, <1>13
  <1>16. ASSUME NEW i \in DOMAIN ran', i \notin DOMAIN ran
         PROVE  \E k \in DOMAIN r.done : i = Len(ran) + k
    <2>1. i - Len(ran) \in 1..Len(r.done) /\ i = Len(ran) + (i - Len(ran))
      BY <1>6, <1>12, <1>13, <1>16
    <2>2. QED
      BY <2>1, <1>6
  <1>17. QED
    BY <1>1, <1>3, <1>9, <1>11, <1>12, <1>14, <1>15, <1>16

(* What was planned is recorded as it ran, behind everything before it.    *)
LEMMA CommitStep ==
  ASSUME MigrationAssumption, IInv, NEW p \in Runners, Commit(p)
  PROVE  IInv'
  <1> DEFINE r == runners[p]
             fresh(v) == RunOf(r, v)
  <1>1. /\ In(p, "applying") /\ Planned(r, ledger) /\ r \in Working
        /\ ToSet(r.done) = r.plan
    BY CommitWrites, ProcessAtWork DEF IInv
  <1>2. /\ r.plan \subseteq Versions
        /\ \A v \in r.plan : r.dir[v] \in File /\ ledger[v] = None
        /\ \A v \in r.plan, w \in Versions : ledger[w] # None => w < v
    BY <1>1, PlannedVersions DEF IInv
  <1>3. \A i \in DOMAIN ran : /\ i \in DOMAIN ran' /\ ran'[i] = ran[i]
                              /\ ran[i].version \in Versions
                              /\ ledger[ran[i].version] # None
    BY CommitWrites, RanIsRecorded DEF IInv
  <1>4. \A k \in DOMAIN r.done : /\ r.done[k] \in r.plan
                                 /\ Len(ran) + k \in DOMAIN ran'
                                 /\ ran'[Len(ran) + k] = RunOf(r, r.done[k])
    BY <1>1, CommitWrites DEF Planned
  <1>5. \A i \in DOMAIN ran' : i \in DOMAIN ran \/ \E k \in DOMAIN r.done : i = Len(ran) + k
    BY CommitWrites
  <1>6. \A v \in Versions :
          ledger'[v] = IF v \in r.plan THEN r.dir[v].content ELSE ledger[v]
    BY CommitWrites
  <1>7. \A v \in r.plan : /\ RunOf(r, v).version = v
                          /\ RunOf(r, v).content = r.dir[v].content
                          /\ RunOf(r, v).class = r.dir[v].class
                          /\ RunOf(r, v).named = (r.opts.mode = "explicit" /\ v \in r.opts.allow)
                          /\ r.dir[v].content \in Contents /\ r.dir[v].content # None
    BY <1>2 DEF RunOf, File, MigrationAssumption, Contents
  <1>8. /\ DOMAIN runners' = Runners /\ runners'[p] = Idle
        /\ \A q \in Runners \ {p} : runners'[q] = runners[q]
    BY DEF Commit, Become, IInv, TypeOK
  <1>9. \A q \in Runners : ~In(q, "applying")'
    BY <1>1, <1>8 DEF IInv, OneApplies, In, Idle
  <1>10. TypeOK'
    <2>1. ran' \in Seq(Run)
      BY CommitWrites
    <2>2. ledger' \in [Versions -> Contents \cup {None, NoChecksum}]
      <3>1. ledger' = [v \in Versions |-> IF v \in r.plan THEN ChecksumOf(r, v) ELSE ledger[v]]
        BY DEF Commit
      <3>2. \A v \in Versions : ledger'[v] \in Contents \cup {None, NoChecksum}
        BY <1>6, <1>7 DEF IInv, TypeOK
      <3>3. QED
        BY <3>1, <3>2
    <2>3. runners' \in [Runners -> {Idle} \cup Reading \cup Working \cup Looking \cup Told]
      BY DEF Commit, Become, IInv, TypeOK
    <2>4. /\ columns' = "full" /\ files' = files /\ starts' = starts /\ commits' = commits
      BY DEF Commit
    <2>5. QED
      BY <2>1, <2>2, <2>3, <2>4 DEF IInv, TypeOK
  <1>11. OneApplies' /\ Applying'
    BY <1>9 DEF OneApplies, Applying
  <1>12. RunInOrder'
    <2>1. SUFFICES ASSUME NEW i \in DOMAIN ran', NEW j \in DOMAIN ran', i < j
                   PROVE  ran'[i].version < ran'[j].version
      BY DEF RunInOrder
    <2>2. DOMAIN ran = 1..Len(ran) /\ Len(ran) \in Nat
          /\ r.done \in Seq(r.plan) /\ DOMAIN r.done = 1..Len(r.done) /\ Len(r.done) \in Nat
      BY <1>1 DEF IInv, TypeOK, Planned
    <2>3. CASE i \in DOMAIN ran /\ j \in DOMAIN ran
      BY <1>3, <2>1, <2>3 DEF IInv, RunInOrder
    <2>4. ASSUME i \in DOMAIN ran, NEW k \in DOMAIN r.done, j = Len(ran) + k
          PROVE  ran'[i].version < ran'[j].version
      BY <1>2, <1>3, <1>4, <1>7, <2>4
    <2>5. ASSUME NEW k \in DOMAIN r.done, i = Len(ran) + k, j \in DOMAIN ran
          PROVE  FALSE
      BY <2>1, <2>2, <2>5
    <2>6. ASSUME NEW k \in DOMAIN r.done, i = Len(ran) + k,
                 NEW l \in DOMAIN r.done, j = Len(ran) + l
          PROVE  ran'[i].version < ran'[j].version
      <3>1. k < l
        BY <2>1, <2>2, <2>6
      <3>2. r.done[k] < r.done[l]
        BY <1>1, <3>1 DEF Planned
      <3>3. QED
        BY <1>4, <1>7, <2>6, <3>2
    <2>7. QED
      BY <1>5, <2>3, <2>4, <2>5, <2>6
  <1>13. LedgerTellsWhatRan'
    <2>1. ASSUME NEW v \in Versions, ledger'[v] # None
          PROVE  \E i \in DOMAIN ran' : ran'[i].version = v
      <3>1. CASE v \in r.plan
        <4>1. PICK k \in DOMAIN r.done : r.done[k] = v
          BY <1>1, <3>1 DEF ToSet
        <4>2. QED
          BY <1>4, <1>7, <4>1
      <3>2. CASE v \notin r.plan
        BY <1>3, <1>6, <2>1, <3>2 DEF IInv, LedgerTellsWhatRan
      <3>3. QED
        BY <3>1, <3>2
    <2>2. ASSUME NEW i \in DOMAIN ran'
          PROVE  ledger'[ran'[i].version] \in {ran'[i].content, NoChecksum}
      <3>1. CASE i \in DOMAIN ran
        <4>1. ran[i].version \notin r.plan
          BY <1>2, <1>3, <3>1
        <4>2. QED
          BY <1>3, <1>6, <3>1, <4>1 DEF IInv, LedgerTellsWhatRan
      <3>2. ASSUME NEW k \in DOMAIN r.done, i = Len(ran) + k
            PROVE  ledger'[ran'[i].version] = ran'[i].content
        BY <1>2, <1>4, <1>6, <1>7, <3>2
      <3>3. QED
        BY <1>5, <3>1, <3>2
    <2>3. QED
      BY <2>1, <2>2 DEF LedgerTellsWhatRan
  <1>14. ContractsAreNamed'
    <2>1. SUFFICES ASSUME NEW i \in DOMAIN ran', ran'[i].class = "contract"
                   PROVE  ran'[i].named
      BY DEF ContractsAreNamed
    <2>2. CASE i \in DOMAIN ran
      BY <1>3, <2>1, <2>2 DEF IInv, ContractsAreNamed
    <2>3. ASSUME NEW k \in DOMAIN r.done, i = Len(ran) + k
          PROVE  ran'[i].named
      <3>1. r.done[k] \in r.plan /\ ran'[i] = RunOf(r, r.done[k])
            /\ r.dir[r.done[k]].class = "contract"
        BY <1>4, <1>7, <2>1, <2>3
      <3>2. ~(r.opts.mode = "boot") /\ r.done[k] \in r.opts.allow
        BY <1>1, <3>1 DEF Planned, Refused, ContractRefused
      <3>3. r.opts.mode = "explicit"
        BY <1>1, <3>2 DEF Working, MigrationAssumption
      <3>4. QED
        BY <1>7, <3>1, <3>2, <3>3
    <2>4. QED
      BY <1>5, <2>2, <2>3
  <1>15. QED
    BY <1>10, <1>11, <1>12, <1>13, <1>14 DEF IInv

(* The old database holds a prefix of the legacy migrations, in order.     *)
LEMMA InitHolds ==
  ASSUME MigrationAssumption, Init
  PROVE  IInv
  <1>1. PICK n \in 0..LegacyLast :
          /\ ledger = [v \in Versions |-> IF v <= n THEN NoChecksum ELSE None]
          /\ columns = IF n = 0 THEN "none" ELSE "plain"
          /\ ran = [v \in 1..n |-> [version |-> v, content |-> 0, class |-> "legacy",
                                    named |-> FALSE]]
    BY DEF Init
  <1>2. n \in Nat /\ 1..n \subseteq Versions /\ 0 \in Contents
    BY <1>1 DEF MigrationAssumption, Versions, Contents
  <1>3. DOMAIN ran = 1..n
    BY <1>1
  <1>4. \A v \in 1..n : /\ ran[v] \in Run /\ ran[v].version = v /\ ran[v].content = 0
                        /\ ran[v].class = "legacy"
    BY <1>1, <1>2 DEF Run
  <1>5. \A p \in Runners : ~In(p, "applying")
    BY DEF Init, In, Idle
  <1>6. TypeOK
    <2>1. ran \in Seq(Run)
      BY <1>1, <1>2, <1>4
    <2>2. files \in Directory
      <3>1. [class |-> "legacy", content |-> 0] \in File
        BY <1>2 DEF File
      <3>2. QED
        BY <3>1 DEF Init, Directory
    <2>3. ledger \in [Versions -> Contents \cup {None, NoChecksum}]
      BY <1>1
    <2>4. /\ columns \in {"none", "plain", "full"}
          /\ runners \in [Runners -> {Idle} \cup Reading \cup Working \cup Looking \cup Told]
          /\ starts \in 0..MaxRuns /\ commits \in 0..MaxCommits
      BY <1>1 DEF Init, MigrationAssumption
    <2>5. QED
      BY <2>1, <2>2, <2>3, <2>4 DEF TypeOK
  <1>7. OneApplies /\ Applying
    BY <1>5 DEF OneApplies, Applying
  <1>8. RunInOrder /\ ContractsAreNamed
    BY <1>2, <1>3, <1>4 DEF RunInOrder, ContractsAreNamed
  <1>9. LedgerTellsWhatRan
    <2>1. ASSUME NEW v \in Versions, ledger[v] # None
          PROVE  \E i \in DOMAIN ran : ran[i].version = v
      <3>1. v \in 1..n
        BY <1>1, <1>2, <2>1 DEF Versions, MigrationAssumption
      <3>2. QED
        BY <1>3, <1>4, <3>1
    <2>2. \A i \in DOMAIN ran : ledger[ran[i].version] = NoChecksum
      <3>1. TAKE i \in DOMAIN ran
      <3>2. i \in Versions /\ i <= n /\ ran[i].version = i
        BY <1>2, <1>3, <1>4
      <3>3. ledger[i] = NoChecksum
        BY <1>1, <3>2
      <3>4. QED
        BY <3>2, <3>3
    <2>3. QED
      BY <2>1, <2>2 DEF LedgerTellsWhatRan
  <1>10. QED
    BY <1>6, <1>7, <1>8, <1>9 DEF IInv

(* Every step keeps the invariant.                                         *)
LEMMA StepHolds ==
  ASSUME MigrationAssumption, IInv, [Next]_vars
  PROVE  IInv'
  <1>1. ASSUME NEW v \in (LegacyLast + 1)..LastVersion, NEW class \in {"additive", "contract"},
               AddFile(v, class)
        PROVE  IInv'
    <2>1. v \in Versions /\ [class |-> class, content |-> 0] \in File
      BY DEF Versions, File, Contents, MigrationAssumption
    <2>2. QED
      BY <1>1, <2>1, RepositoryMoves DEF AddFile
  <1>2. ASSUME NEW v \in Versions, EditFile(v)
        PROVE  IInv'
    <2>1. files[v] \in File
      BY <1>2 DEF EditFile, IInv, TypeOK, Directory
    <2> DEFINE changed == [files[v] EXCEPT !.content = @ + 1]
    <2>2. changed \in File
      BY <1>2, <2>1 DEF EditFile, File, Contents, MigrationAssumption
    <2>3. Change(v, changed)
      BY <1>2 DEF EditFile
    <2> HIDE DEF changed
    <2>4. QED
      BY <2>2, <2>3, RepositoryMoves
  <1>3. ASSUME NEW v \in (LegacyLast + 1)..LastVersion, RemoveFile(v)
        PROVE  IInv'
    <2>1. v \in Versions
      BY DEF Versions, MigrationAssumption
    <2>2. QED
      BY <1>3, <2>1, RepositoryMoves DEF RemoveFile
  <1>4. ASSUME NEW p \in Runners, Plan(p)
        PROVE  IInv'
    BY <1>4, PlanStep
  <1>5. ASSUME NEW p \in Runners, Apply(p)
        PROVE  IInv'
    BY <1>5, ApplyStep
  <1>6. ASSUME NEW p \in Runners, Commit(p)
        PROVE  IInv'
    BY <1>6, CommitStep
  <1>7. ASSUME NEW p \in Runners, Start(p) \/ Stop(p) \/ Describe(p) \/ Show(p)
        PROVE  IInv'
    BY <1>7, ReaderStep
  <1>8. CASE UNCHANGED vars
    BY <1>8 DEF vars, database, IInv, TypeOK, OneApplies, Applying, Planned, Refused,
                ChangedAfterApply, Gap, ContractRefused, Pending, Left, In, RunInOrder,
                LedgerTellsWhatRan, ContractsAreNamed
  <1>9. QED
    BY <1>1, <1>2, <1>3, <1>4, <1>5, <1>6, <1>7, <1>8 DEF Next

-----------------------------------------------------------------------------
(* The inductive invariant, for every number of processes, files, edits    *)
(* and command lines (scripts/migration-runner.ts).                        *)
THEOREM Invariance ==
  ASSUME MigrationAssumption
  PROVE  Spec => []IInv
  <1>1. Init => IInv
    BY InitHolds
  <1>2. IInv /\ [Next]_vars => IInv'
    BY StepHolds
  <1>3. QED
    BY <1>1, <1>2, PTL DEF Spec

(* Migrations run once and in the order of their versions, contract ones   *)
(* only when named; the ledger has a row exactly for what ran, with the    *)
(* checksum of the very text that ran (scripts/migration-runner.ts,        *)
(* applyMigrations).                                                       *)
THEOREM LedgerStaysTrue ==
  ASSUME MigrationAssumption
  PROVE  Spec => []LedgerIsTrue
  <1>1. IInv => LedgerIsTrue
    BY DEF IInv, LedgerIsTrue
  <1>2. QED
    BY <1>1, Invariance, PTL

(* Who commits is the one who planned under the lock.                      *)
LEMMA OnlyCommitEnds ==
  ASSUME IInv, [Next]_vars, NEW p \in Runners, In(p, "applying"), ran' # ran,
         runners'[p] = Idle
  PROVE  Commit(p)
  <1>1. \E q \in Runners : Commit(q)
    BY DEF Next, vars, database, AddFile, EditFile, RemoveFile, Change, Start, Plan, Apply, Stop,
           Describe, Show
  <1>2. PICK q \in Runners : Commit(q)
    BY <1>1
  <1>3. In(q, "applying")
    BY <1>2 DEF Commit
  <1>4. QED
    BY <1>2, <1>3 DEF IInv, OneApplies

(* A step that ends in the ledger completes its release, on a history      *)
(* nobody edited.                                                          *)
LEMMA CommitCompletes ==
  ASSUME MigrationAssumption, IInv, [Next]_vars
  PROVE  ReleaseIsComplete /\ HistoryIsUnedited
  <1>1. SUFFICES ASSUME NEW p \in Runners, In(p, "applying"), ran' # ran,
                        runners'[p] = Idle, NEW v \in Present(runners[p].dir)
                 PROVE  /\ v <= runners[p].opts.through => ledger'[v] # None
                        /\ ledger[v] \in Contents => ledger[v] = runners[p].dir[v].content
    BY DEF ReleaseIsComplete, HistoryIsUnedited
  <1>2. Commit(p)
    BY <1>1, OnlyCommitEnds
  <1>3. /\ Planned(runners[p], ledger) /\ v \in Versions
        /\ \A w \in Versions : ledger'[w] = IF w \in runners[p].plan
                                 THEN runners[p].dir[w].content ELSE ledger[w]
    BY <1>2, CommitWrites DEF Present
  <1>4. ASSUME v <= runners[p].opts.through
        PROVE  ledger'[v] # None
    <2>1. CASE v \in runners[p].plan
      <3>1. runners[p].dir[v] \in File
        BY <1>1, <1>3, <2>1, PlannedVersions DEF IInv
      <3>2. QED
        BY <1>3, <2>1, <3>1 DEF File, Contents, MigrationAssumption
    <2>2. CASE v \notin runners[p].plan
      BY <1>1, <1>3, <1>4, <2>2 DEF Planned, Pending
    <2>3. QED
      BY <2>1, <2>2
  <1>5. ledger[v] \in Contents => ledger[v] = runners[p].dir[v].content
    BY <1>1, <1>3 DEF Planned, Refused, ChangedAfterApply
  <1>6. QED
    BY <1>4, <1>5

(* Who commits has the whole of its release in the ledger, and adds to no  *)
(* history whose recorded text differs from its own (planMigrations).      *)
THEOREM DeploymentsStayWhole ==
  ASSUME MigrationAssumption
  PROVE  Spec => DeploymentsAreWhole
  <1>1. IInv /\ [Next]_vars => [ReleaseIsComplete /\ HistoryIsUnedited]_vars
    BY CommitCompletes
  <1>2. QED
    BY <1>1, Invariance, PTL DEF Spec, DeploymentsAreWhole

-----------------------------------------------------------------------------
(* The scan of a chain.  What the scanner knows of a chain covers what is  *)
(* in the database (Mirrors), and the names that it does not call tainted  *)
(* are a set that calls and fires nothing outside itself.                  *)

\* Every call or firing of a relation is a mention, and every body that changes
\* or rewrites rows and every binding is known.  Triggers are of relations.
Mirrors(c, d) ==
  /\ \A n \in Scan!Names : d.uses[n] \cup d.fires[n] \subseteq c.mentions[n] \cup {n}
  /\ \A f \in Functions : d.body[f] = "armed" => f \in c.armed
  /\ \A f \in Functions : d.body[f] = "upsert" => f \in c.upsertTriggerFunctions
  /\ d.events \subseteq c.eventFunctions
  /\ d.operators \subseteq c.implicitMentions
  /\ \A f \in Functions : d.fires[f] = {}

\* What each kind of statement is about.
IsStatement(s) ==
  /\ s.kind \in Scan!AllKinds /\ s.names \subseteq Scan!Names
  /\ s.kind = "function" => s.name \in Functions /\ s.flavour \in Scan!Flavours
  /\ s.kind \in {"table", "view", "trigger"} => s.name \in Tables /\ s.names \subseteq Functions
  /\ s.kind \in {"event", "operator"} => s.names \subseteq Functions

\* A file under way has run nothing hidden that a statement names.
IsFile(f) ==
  /\ f \in [class : {"additive", "contract"}, statements : Nat, plain : BOOLEAN,
            armed : BOOLEAN, hidden : BOOLEAN, implied : BOOLEAN, upserted : BOOLEAN]
  /\ ~f.hidden /\ ~f.upserted
  /\ f.class = "contract" => ~f.implied

\* The inductive invariant of the scan.
ScanInv ==
  /\ Scan!TypeOK
  /\ Mirrors(chain, live) /\ Mirrors(work, trial)
  /\ file = Scan!NoFile \/ (IsFile(file) /\ scanned < MaxFiles)
  /\ ~hidden /\ ~upserted

-----------------------------------------------------------------------------
(* The tainted names are a tainting set, and the least one.                *)
LEMMA TaintedIsClosed ==
  ASSUME NEW c, NEW seeds \in SUBSET Scan!Names
  PROVE  /\ Scan!taintedFrom(c, seeds) \subseteq Scan!Names
         /\ Scan!Tainting(c, seeds, Scan!taintedFrom(c, seeds))
  <1> DEFINE T == Scan!taintedFrom(c, seeds)
  <1>1. T \subseteq Scan!Names /\ seeds \subseteq T
    BY DEF Scan!taintedFrom, Scan!Tainting
  <1>2. ASSUME NEW n \in Scan!Names, c.mentions[n] \cap T # {}
        PROVE  n \in T
    <2>1. PICK m \in c.mentions[n] : m \in T
      BY <1>2
    <2>2. ASSUME NEW set \in SUBSET Scan!Names, Scan!Tainting(c, seeds, set)
          PROVE  n \in set
      BY <2>1, <2>2 DEF Scan!taintedFrom, Scan!Tainting
    <2>3. QED
      BY <2>2 DEF Scan!taintedFrom
  <1>3. QED
    BY <1>1, <1>2 DEF Scan!Tainting

LEMMA TaintedIsLeast ==
  ASSUME NEW c, NEW seeds, NEW set \in SUBSET Scan!Names, Scan!Tainting(c, seeds, set)
  PROVE  Scan!taintedFrom(c, seeds) \subseteq set
  BY DEF Scan!taintedFrom

(* Roots that are not tainted run nothing that is.                         *)
LEMMA UntaintedRunsNothing ==
  ASSUME NEW c, NEW d, NEW seeds \in SUBSET Scan!Names, NEW flavour,
         NEW roots \in SUBSET Scan!Names,
         c.mentions \in [Scan!Names -> SUBSET Scan!Names],
         \A n \in Scan!Names : d.uses[n] \cup d.fires[n] \subseteq c.mentions[n] \cup {n},
         \A f \in Functions : d.body[f] = flavour => f \in seeds,
         roots \cap Scan!taintedFrom(c, seeds) = {}
  PROVE  Scan!Bodies(d, roots, flavour) = {}
  <1> DEFINE T == Scan!taintedFrom(c, seeds)
             Safe == Scan!Names \ T
  <1>1. Scan!Tainting(c, seeds, T)
    BY TaintedIsClosed
  <1>2. \A n \in Scan!Names : n \in Safe => c.mentions[n] \subseteq Safe
    BY <1>1 DEF Scan!Tainting
  <1>3. Scan!Calling(d, roots, Safe)
    BY <1>2 DEF Scan!Calling
  <1>4. Scan!Executed(d, roots) \subseteq Safe
    BY <1>3 DEF Scan!Executed
  <1>5. Safe \cap seeds = {}
    BY <1>1 DEF Scan!Tainting
  <1>6. QED
    BY <1>4, <1>5 DEF Scan!Bodies

(* What the database has of a chain that is covered is of its type.        *)
LEMMA Covered ==
  ASSUME NEW c \in Scan!Chain, NEW d \in Scan!Database, Mirrors(c, d),
         NEW roots \in SUBSET Scan!Names
  PROVE  /\ roots \cap Scan!taintedNames(c) = {} => Scan!Bodies(d, roots, "armed") = {}
         /\ roots \cap Scan!taintedFrom(c, c.upsertTriggerFunctions) = {}
              => Scan!Bodies(d, roots, "upsert") = {}
  <1>1. /\ c.mentions \in [Scan!Names -> SUBSET Scan!Names]
        /\ c.armed \subseteq Scan!Names /\ c.upsertTriggerFunctions \subseteq Scan!Names
    BY DEF Scan!Chain, Scan!Names
  <1>2. QED
    BY <1>1, UntaintedRunsNothing DEF Mirrors, Scan!taintedNames

-----------------------------------------------------------------------------
(* Statements are what each kind says.                                     *)
LEMMA StatementKnown ==
  ASSUME ScanAssumption, NEW kind \in Kinds, NEW s \in Scan!Statement(kind)
  PROVE  IsStatement(s)
  <1>1. kind \in Scan!AllKinds
    BY DEF ScanAssumption, Scan!ChainAssumption
  <1>2. CASE kind = "function"
    BY <1>1, <1>2 DEF Scan!Statement, IsStatement, Scan!AllKinds, Scan!Names
  <1>3. CASE kind \in {"table", "view"}
    BY <1>1, <1>3 DEF Scan!Statement, IsStatement, Scan!AllKinds, Scan!Names
  <1>4. CASE kind = "trigger"
    BY <1>1, <1>4 DEF Scan!Statement, IsStatement, Scan!AllKinds, Scan!Names
  <1>5. CASE kind \in {"event", "operator", "call"}
    BY <1>1, <1>5 DEF Scan!Statement, IsStatement, Scan!AllKinds, Scan!Names
  <1>6. CASE kind \in {"insert", "read"}
    BY <1>1, <1>6 DEF Scan!Statement, IsStatement, Scan!AllKinds, Scan!Names
  <1>7. CASE kind = "grant"
    BY <1>1, <1>7 DEF Scan!Statement, IsStatement, Scan!AllKinds, Scan!Names
  <1>8. CASE kind = "operate"
    BY <1>1, <1>8 DEF Scan!Statement, IsStatement, Scan!AllKinds, Scan!Names
  <1>9. QED
    BY <1>1, <1>2, <1>3, <1>4, <1>5, <1>6, <1>7, <1>8 DEF Scan!AllKinds

(* A column of names in which one row is written.                          *)
LEMMA RowWritten ==
  ASSUME NEW S, NEW V, NEW f \in [S -> V], NEW x \in S, NEW value \in V
  PROVE  /\ [f EXCEPT ![x] = value] \in [S -> V]
         /\ \A n \in S : [f EXCEPT ![x] = value][n] = IF n = x THEN value ELSE f[n]
  OBVIOUS

(* The columns of what the scanner and the database know.                  *)
LEMMA Columns ==
  /\ \A c \in Scan!Chain :
       /\ c.mentions \in [Scan!Names -> SUBSET Scan!Names]
       /\ c.armed \subseteq Functions /\ c.upsertTriggerFunctions \subseteq Functions
       /\ c.eventFunctions \subseteq Functions /\ c.implicitMentions \subseteq Functions
  /\ \A d \in Scan!Database :
       /\ d.uses \in [Scan!Names -> SUBSET Scan!Names]
       /\ d.fires \in [Scan!Names -> SUBSET Functions]
       /\ d.body \in [Functions -> Scan!Flavours]
       /\ d.events \subseteq Functions /\ d.operators \subseteq Functions
  BY DEF Scan!Chain, Scan!Database

(* A statement is absorbed and executed: the scanner still covers the      *)
(* database, whatever of a name was known before.                          *)
LEMMA StatementCovered ==
  ASSUME ScanAssumption, NEW c \in Scan!Chain, NEW d \in Scan!Database, Mirrors(c, d),
         NEW s, IsStatement(s)
  PROVE  /\ Scan!absorb(c, s) \in Scan!Chain
         /\ Scan!Redefined(d, s) \in Scan!Database
         /\ Mirrors(Scan!absorb(c, s), Scan!Redefined(d, s))
  <1>1. CASE s.kind = "function"
    <2>1. PICK m, u, b : /\ m = [c.mentions EXCEPT ![s.name] = s.names \ {s.name}]
                         /\ u = [d.uses EXCEPT ![s.name] = s.names]
                         /\ b = [d.body EXCEPT ![s.name] = s.flavour]
      OBVIOUS
    <2>2. PICK a, w : /\ a = IF s.flavour = "armed" THEN c.armed \cup {s.name}
                              ELSE c.armed \ {s.name}
                      /\ w = IF s.flavour = "upsert" THEN c.upsertTriggerFunctions \cup {s.name}
                              ELSE c.upsertTriggerFunctions \ {s.name}
      OBVIOUS
    <2>3. /\ s.name \in Scan!Names /\ s.name \in Functions /\ s.flavour \in Scan!Flavours
          /\ s.names \in SUBSET Scan!Names /\ s.names \ {s.name} \in SUBSET Scan!Names
      BY <1>1 DEF IsStatement, Scan!Names
    <2>4. /\ m \in [Scan!Names -> SUBSET Scan!Names]
          /\ \A n \in Scan!Names : m[n] = IF n = s.name THEN s.names \ {s.name} ELSE c.mentions[n]
      BY <2>1, <2>3, Columns, RowWritten
    <2>5. /\ u \in [Scan!Names -> SUBSET Scan!Names]
          /\ \A n \in Scan!Names : u[n] = IF n = s.name THEN s.names ELSE d.uses[n]
      BY <2>1, <2>3, Columns, RowWritten
    <2>6. /\ b \in [Functions -> Scan!Flavours]
          /\ \A f \in Functions : b[f] = IF f = s.name THEN s.flavour ELSE d.body[f]
      BY <2>1, <2>3, Columns, RowWritten
    <2>7. Scan!absorb(c, s) = [c EXCEPT !.mentions = m, !.armed = a, !.upsertTriggerFunctions = w]
      BY <1>1, <2>1, <2>2 DEF Scan!absorb, Scan!absorbFunction
    <2>8. Scan!Redefined(d, s) = [d EXCEPT !.uses = u, !.body = b]
      BY <1>1, <2>1 DEF Scan!Redefined, Scan!Database
    <2>9. a \subseteq Functions /\ w \subseteq Functions
      BY <2>2, <2>3, Columns
    <2>10. PICK k, e : k = Scan!absorb(c, s) /\ e = Scan!Redefined(d, s)
      OBVIOUS
    <2>11. /\ k \in Scan!Chain /\ k.mentions = m /\ k.armed = a
           /\ k.upsertTriggerFunctions = w /\ k.eventFunctions = c.eventFunctions
           /\ k.implicitMentions = c.implicitMentions
      BY <2>4, <2>7, <2>9, <2>10 DEF Scan!Chain
    <2>12. /\ e \in Scan!Database /\ e.uses = u /\ e.fires = d.fires /\ e.body = b
           /\ e.events = d.events /\ e.operators = d.operators
      BY <2>5, <2>6, <2>8, <2>10 DEF Scan!Database
    <2>13. d.fires[s.name] = {}
      BY <2>3 DEF Mirrors
    <2>14. \A n \in Scan!Names : u[n] \cup d.fires[n] \subseteq m[n] \cup {n}
      BY <2>4, <2>5, <2>13 DEF Mirrors
    <2>15. /\ \A f \in Functions : b[f] = "armed" => f \in a
           /\ \A f \in Functions : b[f] = "upsert" => f \in w
      BY <2>2, <2>6 DEF Mirrors
    <2>16. Mirrors(k, e)
      BY <2>11, <2>12, <2>14, <2>15 DEF Mirrors
    <2>17. QED
      BY <2>10, <2>11, <2>12, <2>16
  <1>2. CASE s.kind \in {"table", "view"}
    <2>1. PICK m, u : /\ m = [c.mentions EXCEPT ![s.name] = c.mentions[s.name] \cup s.names]
                      /\ u = [d.uses EXCEPT ![s.name] = d.uses[s.name] \cup s.names]
      OBVIOUS
    <2>2. s.name \in Scan!Names /\ s.names \subseteq Functions /\ s.names \subseteq Scan!Names
      BY <1>2 DEF IsStatement, Scan!Names
    <2>3. /\ c.mentions[s.name] \cup s.names \in SUBSET Scan!Names
          /\ d.uses[s.name] \cup s.names \in SUBSET Scan!Names
      BY <2>2, Columns
    <2>4. /\ m \in [Scan!Names -> SUBSET Scan!Names]
          /\ \A n \in Scan!Names :
               m[n] = IF n = s.name THEN c.mentions[s.name] \cup s.names ELSE c.mentions[n]
      BY <2>1, <2>2, <2>3, Columns, RowWritten
    <2>5. /\ u \in [Scan!Names -> SUBSET Scan!Names]
          /\ \A n \in Scan!Names :
               u[n] = IF n = s.name THEN d.uses[s.name] \cup s.names ELSE d.uses[n]
      BY <2>1, <2>2, <2>3, Columns, RowWritten
    <2>6. PICK k, e : k = Scan!absorb(c, s) /\ e = Scan!Redefined(d, s)
      OBVIOUS
    <2>7. k = [c EXCEPT !.mentions = m] /\ e = [d EXCEPT !.uses = u]
      BY <1>2, <2>1, <2>6 DEF Scan!absorb, Scan!Redefined
    <2>8. /\ k \in Scan!Chain /\ k.mentions = m /\ k.armed = c.armed
          /\ k.upsertTriggerFunctions = c.upsertTriggerFunctions
          /\ k.eventFunctions = c.eventFunctions /\ k.implicitMentions = c.implicitMentions
      BY <2>4, <2>7 DEF Scan!Chain
    <2>9. /\ e \in Scan!Database /\ e.uses = u /\ e.fires = d.fires /\ e.body = d.body
          /\ e.events = d.events /\ e.operators = d.operators
      BY <2>5, <2>7 DEF Scan!Database
    <2>10. \A n \in Scan!Names : u[n] \cup d.fires[n] \subseteq m[n] \cup {n}
      BY <2>4, <2>5 DEF Mirrors
    <2>11. Mirrors(k, e)
      BY <2>8, <2>9, <2>10 DEF Mirrors
    <2>12. QED
      BY <2>6, <2>8, <2>9, <2>11
  <1>3. CASE s.kind = "trigger"
    <2>1. PICK m, u : /\ m = [c.mentions EXCEPT ![s.name] = c.mentions[s.name] \cup s.names]
                      /\ u = [d.fires EXCEPT ![s.name] = d.fires[s.name] \cup s.names]
      OBVIOUS
    <2>2. s.name \in Scan!Names /\ s.names \subseteq Functions /\ s.names \subseteq Scan!Names
      BY <1>3 DEF IsStatement, Scan!Names
    <2>3. /\ c.mentions[s.name] \cup s.names \in SUBSET Scan!Names
          /\ d.fires[s.name] \cup s.names \in SUBSET Functions
      BY <2>2, Columns
    <2>4. /\ m \in [Scan!Names -> SUBSET Scan!Names]
          /\ \A n \in Scan!Names :
               m[n] = IF n = s.name THEN c.mentions[s.name] \cup s.names ELSE c.mentions[n]
      BY <2>1, <2>2, <2>3, Columns, RowWritten
    <2>5. /\ u \in [Scan!Names -> SUBSET Functions]
          /\ \A n \in Scan!Names :
               u[n] = IF n = s.name THEN d.fires[s.name] \cup s.names ELSE d.fires[n]
      BY <2>1, <2>2, <2>3, Columns, RowWritten
    <2>6. PICK k, e : k = Scan!absorb(c, s) /\ e = Scan!Redefined(d, s)
      OBVIOUS
    <2>7. k = [c EXCEPT !.mentions = m] /\ e = [d EXCEPT !.fires = u]
      BY <1>3, <2>1, <2>6 DEF Scan!absorb, Scan!Redefined
    <2>8. /\ k \in Scan!Chain /\ k.mentions = m /\ k.armed = c.armed
          /\ k.upsertTriggerFunctions = c.upsertTriggerFunctions
          /\ k.eventFunctions = c.eventFunctions /\ k.implicitMentions = c.implicitMentions
      BY <2>4, <2>7 DEF Scan!Chain
    <2>9. /\ e \in Scan!Database /\ e.fires = u /\ e.uses = d.uses /\ e.body = d.body
          /\ e.events = d.events /\ e.operators = d.operators
      BY <2>5, <2>7 DEF Scan!Database
    <2>10. \A n \in Scan!Names : u[n] \cup d.uses[n] \subseteq m[n] \cup {n}
      BY <2>4, <2>5 DEF Mirrors
    <2>11. \A f \in Functions : u[f] = {}
      <3>1. s.name \notin Functions
        BY <1>3 DEF IsStatement, ScanAssumption, Scan!ChainAssumption
      <3>2. QED
        BY <2>5, <3>1 DEF Mirrors, Scan!Names
    <2>12. Mirrors(k, e)
      BY <2>8, <2>9, <2>10, <2>11 DEF Mirrors
    <2>13. QED
      BY <2>6, <2>8, <2>9, <2>12
  <1>4. CASE s.kind = "event"
    <2>1. /\ Scan!absorb(c, s) = [c EXCEPT !.eventFunctions = @ \cup s.names]
          /\ Scan!Redefined(d, s) = [d EXCEPT !.events = @ \cup s.names]
      BY <1>4 DEF Scan!absorb, Scan!Redefined
    <2>2. QED
      BY <1>4, <2>1 DEF Scan!Chain, Scan!Database, Mirrors, IsStatement, Scan!Names
  <1>5. CASE s.kind = "operator"
    <2>1. /\ Scan!absorb(c, s) = [c EXCEPT !.implicitMentions = @ \cup s.names]
          /\ Scan!Redefined(d, s) = [d EXCEPT !.operators = @ \cup s.names]
      BY <1>5 DEF Scan!absorb, Scan!Redefined
    <2>2. QED
      BY <1>5, <2>1 DEF Scan!Chain, Scan!Database, Mirrors, IsStatement, Scan!Names
  <1>6. CASE s.kind \notin {"function", "table", "view", "trigger", "event", "operator"}
    BY <1>6 DEF Scan!absorb, Scan!Redefined
  <1>7. QED
    BY <1>1, <1>2, <1>3, <1>4, <1>5, <1>6

(* A relation that is made over untainted names taints nothing.            *)
LEMMA HarmlessDefinition ==
  ASSUME ScanAssumption, NEW c \in Scan!Chain, NEW s, IsStatement(s),
         s.kind \in {"table", "view"}, NEW seeds \in SUBSET Scan!Names,
         s.names \cap Scan!taintedFrom(c, seeds) = {}
  PROVE  s.names \cap Scan!taintedFrom(Scan!absorb(c, s), seeds) = {}
  <1> DEFINE T == Scan!taintedFrom(c, seeds)
             k == Scan!absorb(c, s)
  <1>1. k = [c EXCEPT !.mentions[s.name] = @ \cup s.names]
    BY DEF Scan!absorb
  <1>2. T \in SUBSET Scan!Names /\ Scan!Tainting(c, seeds, T)
    BY TaintedIsClosed
  <1>3. ASSUME NEW n \in Scan!Names
        PROVE  k.mentions[n] \cap T = c.mentions[n] \cap T
    BY <1>1 DEF Scan!Chain, IsStatement, Scan!Names
  <1>4. Scan!Tainting(k, seeds, T)
    BY <1>2, <1>3 DEF Scan!Tainting
  <1>5. Scan!taintedFrom(k, seeds) \subseteq T
    BY <1>2, <1>4, TaintedIsLeast
  <1>6. QED
    BY <1>5

(* What an accepted statement names runs no hidden body and, unless it is  *)
(* a read, fires no trigger that rewrites rows.                            *)
LEMMA StatementIsHarmless ==
  ASSUME ScanAssumption, NEW c \in Scan!Chain, NEW d \in Scan!Database, Mirrors(c, d),
         NEW s, IsStatement(s),
         Scan!Mentioned(s) \cap Scan!taintedNames(c) = {}, ~Scan!Fires(c, s),
         NEW k, k = Scan!absorb(c, s), NEW e, e = Scan!Redefined(d, s)
  PROVE  /\ Scan!Bodies(e, Scan!Evaluated(e, s), "armed") = {}
         /\ s.kind # "read" => Scan!Bodies(e, Scan!Evaluated(e, s), "upsert") = {}
  <1>1. k \in Scan!Chain /\ e \in Scan!Database /\ Mirrors(k, e)
    BY StatementCovered
  <1> DEFINE roots == Scan!Evaluated(e, s)
  <1>2. c.armed \subseteq Scan!Names /\ c.upsertTriggerFunctions \subseteq Scan!Names
    BY DEF Scan!Chain, Scan!Names
  <1>3. CASE s.kind \in {"table", "view"}
    <2>1. roots = s.names /\ roots \in SUBSET Scan!Names
      BY <1>3 DEF Scan!Evaluated, IsStatement
    <2>2. s.names \cap Scan!taintedNames(c) = {}
      BY <1>3 DEF Scan!Mentioned
    <2>3. /\ k.armed = c.armed /\ k.upsertTriggerFunctions = c.upsertTriggerFunctions
          /\ s.names \cap Scan!taintedFrom(c, c.upsertTriggerFunctions) = {}
      BY <1>3 DEF Scan!absorb, Scan!Fires, Scan!Chain
    <2>4. roots \cap Scan!taintedNames(k) = {}
      BY <1>2, <1>3, <2>1, <2>2, <2>3, HarmlessDefinition DEF Scan!taintedNames
    <2>5. roots \cap Scan!taintedFrom(k, k.upsertTriggerFunctions) = {}
      BY <1>2, <1>3, <2>1, <2>3, HarmlessDefinition
    <2>6. QED
      BY <1>1, <2>1, <2>4, <2>5, Covered
  <1>4. CASE s.kind = "call"
    <2>1. k = c /\ e = d /\ roots = s.names /\ roots \in SUBSET Scan!Names
      BY <1>4 DEF Scan!absorb, Scan!Redefined, Scan!Evaluated, IsStatement
    <2>2. roots \cap Scan!taintedNames(c) = {}
      BY <1>4, <2>1 DEF Scan!Mentioned
    <2>3. roots \cap Scan!taintedFrom(c, c.upsertTriggerFunctions) = {}
      BY <1>4, <2>1 DEF Scan!Fires
    <2>4. QED
      BY <1>1, <2>1, <2>2, <2>3, Covered
  <1>5. CASE s.kind \in {"read", "insert"}
    <2>1. k = c /\ e = d /\ s.names \subseteq Scan!Names
      BY <1>5 DEF Scan!absorb, Scan!Redefined, IsStatement
    <2>2. roots \subseteq UNION {d.uses[n] \cup d.fires[n] : n \in s.names}
      BY <1>5, <2>1 DEF Scan!Evaluated
    <2>3. roots \in SUBSET Scan!Names
      <3>1. \A n \in s.names : d.uses[n] \subseteq Scan!Names /\ d.fires[n] \subseteq Scan!Names
        BY <2>1, Columns DEF Scan!Names
      <3>2. QED
        BY <2>2, <3>1
    <2>4. \A n \in s.names : d.uses[n] \cup d.fires[n] \subseteq c.mentions[n] \cup {n}
      BY <2>1 DEF Mirrors
    <2>5. roots \cap Scan!taintedNames(c) = {}
      <3>1. Scan!Tainting(c, c.armed, Scan!taintedNames(c))
        BY <1>2, TaintedIsClosed DEF Scan!taintedNames
      <3>2. s.names \cap Scan!taintedNames(c) = {}
        BY <1>5 DEF Scan!Mentioned
      <3>3. QED
        BY <2>1, <2>2, <2>4, <3>1, <3>2 DEF Scan!Tainting
    <2>6. s.kind = "insert" => roots \cap Scan!taintedFrom(c, c.upsertTriggerFunctions) = {}
      <3> DEFINE U == Scan!taintedFrom(c, c.upsertTriggerFunctions)
      <3>1. Scan!Tainting(c, c.upsertTriggerFunctions, U)
        BY <1>2, TaintedIsClosed
      <3>2. s.kind = "insert" => s.names \cap U = {}
        BY DEF Scan!Fires
      <3>3. QED
        BY <2>1, <2>2, <2>4, <3>1, <3>2 DEF Scan!Tainting
    <2>7. QED
      BY <1>1, <1>5, <2>1, <2>3, <2>5, <2>6, Covered
  <1>6. CASE s.kind \notin {"table", "view", "call", "read", "insert"}
    <2>1. roots = {}
      BY <1>6 DEF Scan!Evaluated
    <2>2. QED
      BY <1>1, <2>1, Covered
  <1>7. QED
    BY <1>3, <1>4, <1>5, <1>6

-----------------------------------------------------------------------------
(* An accepted statement leaves nothing hidden behind it.                  *)
LEMMA WalkStep ==
  ASSUME ScanAssumption, ScanInv, NEW s, IsStatement(s), Scan!Walk(s)
  PROVE  ScanInv'
  <1>1. /\ work \in Scan!Chain /\ trial \in Scan!Database /\ Mirrors(work, trial)
        /\ work' = Scan!absorb(work, s) /\ trial' = Scan!Redefined(trial, s)
        /\ IsFile(file) /\ scanned < MaxFiles
    BY DEF ScanInv, Scan!TypeOK, Scan!Walk
  <1>2. work' \in Scan!Chain /\ trial' \in Scan!Database /\ Mirrors(work', trial')
    BY <1>1, StatementCovered
  <1>3. PICK w, e : w = work' /\ e = trial'
    OBVIOUS
  <1>4. file.class = "additive" =>
          /\ Scan!Bodies(e, Scan!Evaluated(e, s), "armed") = {}
          /\ s.kind # "read" => Scan!Bodies(e, Scan!Evaluated(e, s), "upsert") = {}
    <2>1. SUFFICES ASSUME file.class = "additive"
                   PROVE  /\ Scan!Bodies(e, Scan!Evaluated(e, s), "armed") = {}
                          /\ s.kind # "read"
                               => Scan!Bodies(e, Scan!Evaluated(e, s), "upsert") = {}
      OBVIOUS
    <2>2. Scan!Mentioned(s) \cap Scan!taintedNames(work) = {} /\ ~Scan!Fires(work, s)
      BY <2>1 DEF Scan!Walk, Scan!StatementAccepted
    <2>3. w = Scan!absorb(work, s) /\ e = Scan!Redefined(trial, s)
      BY <1>1, <1>3
    <2>4. QED
      BY <1>1, <2>2, <2>3, StatementIsHarmless
  <1>5. PICK named, implied, rewrote \in BOOLEAN :
          /\ named = (file.class = "additive" /\ Scan!Bodies(e, Scan!Evaluated(e, s), "armed") # {})
          /\ implied = (file.class = "additive" /\ Scan!Bodies(e, Scan!Implied(e, s), "armed") # {})
          /\ rewrote = (/\ s.kind # "read"
                        /\ file.class = "additive"
                        /\ Scan!Bodies(e, Scan!Evaluated(e, s), "upsert") # {})
    OBVIOUS
  <1>6. file' = [file EXCEPT !.statements = @ + 1,
                             !.plain = @ /\ Scan!DefinitionOnly(s),
                             !.armed = @ \/ Scan!Arms(s),
                             !.hidden = @ \/ named,
                             !.implied = @ \/ implied,
                             !.upserted = @ \/ rewrote]
    BY <1>3, <1>5 DEF Scan!Walk, Scan!Ran
  <1>7. ~named /\ ~rewrote /\ (file.class = "contract" => ~implied)
    BY <1>4, <1>5
  <1>8. Scan!DefinitionOnly(s) \in BOOLEAN /\ Scan!Arms(s) \in BOOLEAN
    BY DEF Scan!DefinitionOnly, Scan!Arms
  <1>9. IsFile(file')
    <2>1. PICK plain, armed, stays, more, again \in BOOLEAN :
            /\ plain = (file.plain /\ Scan!DefinitionOnly(s))
            /\ armed = (file.armed \/ Scan!Arms(s))
            /\ stays = (file.hidden \/ named)
            /\ more = (file.implied \/ implied)
            /\ again = (file.upserted \/ rewrote)
      OBVIOUS
    <2>2. ~stays /\ ~again /\ (file.class = "contract" => ~more)
      BY <1>1, <1>7, <2>1 DEF IsFile
    <2>3. file' = [file EXCEPT !.statements = @ + 1, !.plain = plain, !.armed = armed,
                               !.hidden = stays, !.implied = more, !.upserted = again]
      BY <1>6, <2>1
    <2>4. PICK class, count : class = file.class /\ count = file.statements + 1
      OBVIOUS
    <2>5. /\ class \in {"additive", "contract"} /\ count \in Nat
          /\ class = "contract" => ~more
      BY <1>1, <2>2, <2>4 DEF IsFile
    <2>6. PICK f : f = file'
      OBVIOUS
    <2>7. f = [class |-> class, statements |-> count, plain |-> plain, armed |-> armed,
               hidden |-> stays, implied |-> more, upserted |-> again]
      BY <1>1, <2>3, <2>4, <2>6 DEF IsFile
    <2>8. f \in [class : {"additive", "contract"}, statements : Nat, plain : BOOLEAN,
                 armed : BOOLEAN, hidden : BOOLEAN, implied : BOOLEAN, upserted : BOOLEAN]
      BY <2>5, <2>7
    <2>9. f.hidden = stays /\ f.upserted = again /\ f.class = class /\ f.implied = more
      BY <2>7
    <2>10. ~f.hidden /\ ~f.upserted /\ (f.class = "contract" => ~f.implied)
      BY <2>2, <2>5, <2>9
    <2>11. QED
      BY <2>6, <2>8, <2>10 DEF IsFile
  <1>10. /\ chain' = chain /\ live' = live /\ scanned' = scanned
         /\ hidden' = hidden /\ upserted' = upserted
    BY DEF Scan!Walk
  <1>11. file' # Scan!NoFile
    BY <1>9 DEF IsFile, Scan!NoFile
  <1>12. QED
    BY <1>1, <1>2, <1>9, <1>10, <1>11 DEF ScanInv, Scan!TypeOK, Mirrors, IsFile

(* Nothing is known and nothing is there at first.                         *)
LEMMA ScanInitially == ASSUME ScanAssumption, Scan!Init PROVE ScanInv
  <1>1. PICK none, bodies : /\ none = [n \in Scan!Names |-> {}]
                            /\ bodies = [f \in Functions |-> "plain"]
    OBVIOUS
  <1>2. /\ none \in [Scan!Names -> SUBSET Scan!Names] /\ none \in [Scan!Names -> SUBSET Functions]
        /\ bodies \in [Functions -> Scan!Flavours]
    BY <1>1 DEF Scan!Flavours
  <1>3. /\ chain = [mentions |-> none, armed |-> {}, upsertTriggerFunctions |-> {},
                    eventFunctions |-> {}, implicitMentions |-> {}]
        /\ live = [uses |-> none, fires |-> none, body |-> bodies, events |-> {},
                   operators |-> {}]
    BY <1>1 DEF Scan!Init, Scan!emptyChain
  <1>4. chain \in Scan!Chain /\ live \in Scan!Database
    BY <1>2, <1>3 DEF Scan!Chain, Scan!Database
  <1>5. Mirrors(chain, live)
    <2>1. \A f \in Functions : bodies[f] = "plain" /\ none[f] = {}
      BY <1>1 DEF Scan!Names
    <2>2. \A n \in Scan!Names : none[n] = {}
      BY <1>1
    <2>3. QED
      BY <1>3, <2>1, <2>2 DEF Mirrors
  <1>6. QED
    BY <1>4, <1>5 DEF Scan!Init, ScanInv, Scan!TypeOK, ScanAssumption, Scan!ChainAssumption

(* A file of which the bindings are looked at last leaves none that runs   *)
(* an armed body.                                                          *)
LEMMA AcceptStep ==
  ASSUME ScanAssumption, ScanInv, Scan!Accept
  PROVE  ScanInv'
  <1>1. /\ work \in Scan!Chain /\ trial \in Scan!Database /\ Mirrors(work, trial)
        /\ IsFile(file) /\ scanned < MaxFiles
    BY DEF ScanInv, Scan!TypeOK, Scan!Accept
  <1>2. file.class = "additive" => ~Scan!Bound(trial)
    <2>1. trial.events \cup trial.operators \in SUBSET Scan!Names
      BY <1>1 DEF Scan!Database, Scan!Names
    <2>2. file.class = "additive" =>
            (trial.events \cup trial.operators) \cap Scan!taintedNames(work) = {}
      BY <1>1 DEF Scan!Accept, Scan!FileAccepted, Mirrors
    <2>3. QED
      BY <1>1, <2>1, <2>2, Covered DEF Scan!Bound
  <1>3. ~hidden' /\ ~upserted'
    BY <1>1, <1>2 DEF Scan!Accept, ScanInv, IsFile
  <1>4. QED
    BY <1>1, <1>3 DEF Scan!Accept, ScanInv, Scan!TypeOK, Mirrors, ScanAssumption,
                      Scan!ChainAssumption

(* Every step of the scan keeps the invariant.                             *)
LEMMA ScanStep ==
  ASSUME ScanAssumption, ScanInv, [Scan!Next]_(Scan!vars)
  PROVE  ScanInv'
  <1>1. CASE UNCHANGED Scan!vars
    BY <1>1 DEF Scan!vars, ScanInv, Scan!TypeOK, Mirrors, IsFile
  <1>2. CASE \E class \in {"additive", "contract"} : Scan!Open(class)
    <2>1. PICK class \in {"additive", "contract"} : Scan!Open(class)
      BY <1>2
    <2>2. IsFile(file') /\ scanned < MaxFiles
      BY <2>1 DEF Scan!Open, IsFile
    <2>3. file' # Scan!NoFile
      BY <2>2 DEF IsFile, Scan!NoFile
    <2>4. QED
      BY <2>1, <2>2, <2>3 DEF Scan!Open, ScanInv, Scan!TypeOK, Mirrors
  <1>3. CASE \E kind \in Kinds : \E s \in Scan!Statement(kind) : Scan!Walk(s)
    BY <1>3, StatementKnown, WalkStep
  <1>4. CASE Scan!Accept
    BY <1>4, AcceptStep
  <1>5. CASE Scan!Refuse
    BY <1>5 DEF Scan!Refuse, ScanInv, Scan!TypeOK, Mirrors
  <1>6. QED
    BY <1>1, <1>2, <1>3, <1>4, <1>5 DEF Scan!Next

(* The inductive invariant of the scan: for every set of functions, tables *)
(* and kinds of statements, and chains of any length.                      *)
THEOREM ScanInvariance ==
  ASSUME ScanAssumption
  PROVE  Scan!Spec => []ScanInv
  <1>1. Scan!Init => ScanInv
    BY ScanInitially
  <1>2. ScanInv /\ [Scan!Next]_(Scan!vars) => ScanInv'
    BY ScanStep
  <1>3. QED
    BY <1>1, <1>2, PTL DEF Scan!Spec

(* No statement of an accepted additive file names what runs a hidden body *)
(* that changes data, and what runs unnamed is harmless where the file     *)
(* ends; none but a read fires a trigger that rewrites rows by what it     *)
(* names; and what the scan calls untainted reaches no armed body (RV-07,  *)
(* scripts/migration-runner.ts:445-449, 619-671).                          *)
THEOREM AdditiveFilesStayHarmless ==
  ASSUME ScanAssumption
  PROVE  Scan!Spec => []HiddenBodiesDoNotRun
  <1>1. ScanInv => HiddenBodiesDoNotRun
    <2>1. SUFFICES ASSUME ScanInv, NEW n \in Scan!Names \ Scan!taintedNames(chain)
                   PROVE  Scan!Bodies(live, {n}, "armed") = {}
      BY DEF ScanInv, HiddenBodiesDoNotRun, Scan!AdditiveIsHarmless,
             Scan!HiddenBodiesDoNotRun, Scan!UpsertsDoNotFire, Scan!UntaintedIsHarmless
    <2>2. {n} \in SUBSET Scan!Names /\ {n} \cap Scan!taintedNames(chain) = {}
      OBVIOUS
    <2>3. QED
      BY <2>1, <2>2, Covered DEF ScanInv, Scan!TypeOK
  <1>2. QED
    BY <1>1, ScanInvariance, PTL
=============================================================================
