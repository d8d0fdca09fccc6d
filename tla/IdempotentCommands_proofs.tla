---------------------- MODULE IdempotentCommands_proofs ----------------------
(***************************************************************************)
(* The older ledger for any number of actors, keys, operations and         *)
(* concurrent attempts: type correctness, what the row locks and the       *)
(* claims keep apart although commands take them in different orders, the  *)
(* safety properties these imply, and the refinement of OnceOnly.          *)
(***************************************************************************)
EXTENDS IdempotentCommands, FiniteSetTheorems, TLAPS

-----------------------------------------------------------------------------
(* Attempts *)

Running == {"begun", "locked", "claimed", "checked"}

\* An attempt that is not idle carries a command.
LEMMA AttemptShape ==
  ASSUME TypeOK, NEW t \in Attempts
  PROVE  /\ attempts[t].phase \in Phases \cup {"answering", "idle"}
         /\ attempts[t].phase = "idle" <=> attempts[t] = Idle
         /\ attempts[t].phase # "idle" =>
              /\ attempts[t].cmd \in Commands
              /\ attempts[t].cmd.key # NoKey =>
                   /\ attempts[t].cmd \in KeyedCommands
                   /\ KeyOf(attempts[t].cmd) \in LedgerKeys
         /\ attempts[t].phase = "answering" => attempts[t].result \in Responses
<1>1. attempts[t] \in Attempt
  BY DEF TypeOK
<1>2. attempts[t].phase # "idle" => attempts[t].cmd \in Commands
  BY <1>1 DEF Attempt, Idle
<1>3. \A cmd \in Commands : cmd.key # NoKey =>
        cmd \in KeyedCommands /\ KeyOf(cmd) \in LedgerKeys
  BY DEF Commands, KeyedCommands, KeyOf, LedgerKeys
<1> QED
  BY <1>1, <1>2, <1>3 DEF Attempt, Idle, Phases

\* What a step that takes attempt t from its command to a phase leaves.
LEMMA Gone ==
  ASSUME TypeOK, NEW t \in Attempts, NEW phase \in Phases, ~In(t, {"idle"}), Goto(t, phase)
  PROVE  /\ attempts' \in [Attempts -> Attempt]
         /\ attempts'[t] = [phase |-> phase, cmd |-> attempts[t].cmd]
         /\ attempts'[t].phase = phase /\ attempts'[t].cmd = attempts[t].cmd
         /\ \A u \in Attempts \ {t} : attempts'[u] = attempts[u]
<1>1. [phase |-> phase, cmd |-> attempts[t].cmd] \in Attempt
  BY AttemptShape DEF In, Attempt
<1> QED
  BY <1>1 DEF Goto, Cmd, TypeOK

LEMMA Answered ==
  ASSUME TypeOK, NEW t \in Attempts, NEW result \in Responses, ~In(t, {"idle"}),
         AnswerWith(t, result)
  PROVE  /\ attempts' \in [Attempts -> Attempt]
         /\ attempts'[t] = [phase |-> "answering", cmd |-> attempts[t].cmd, result |-> result]
         /\ attempts'[t].phase = "answering" /\ attempts'[t].cmd = attempts[t].cmd
         /\ \A u \in Attempts \ {t} : attempts'[u] = attempts[u]
<1>1. [phase |-> "answering", cmd |-> attempts[t].cmd, result |-> result] \in Attempt
  BY AttemptShape DEF In, Attempt
<1> QED
  BY <1>1 DEF AnswerWith, Cmd, TypeOK

LEMMA Ended ==
  ASSUME TypeOK, NEW t \in Attempts, attempts' = [attempts EXCEPT ![t] = Idle]
  PROVE  /\ attempts' \in [Attempts -> Attempt]
         /\ attempts'[t] = Idle
         /\ \A u \in Attempts \ {t} : attempts'[u] = attempts[u]
BY DEF Attempt, TypeOK

\* Both ways out of a replay.
LEMMA Replayed ==
  ASSUME TypeOK, NEW t \in Attempts, Replay(t)
  PROVE  /\ attempts' \in [Attempts -> Attempt]
         /\ \A u \in Attempts \ {t} : attempts'[u] = attempts[u]
         /\ attempts[t].cmd \in KeyedCommands
         /\ \/ attempts'[t] = [phase |-> "refused", cmd |-> attempts[t].cmd]
            \/ /\ SameCommand(LedgerRow(t), attempts[t].cmd)
               /\ attempts'[t] = [phase |-> "answering", cmd |-> attempts[t].cmd,
                                  result |-> LedgerRow(t).response]
<1>1. ~In(t, {"idle"})
  BY DEF Replay, AtClaim, In
<1>2. attempts[t].cmd \in KeyedCommands /\ KeyOf(attempts[t].cmd) \in LedgerKeys
  BY <1>1, AttemptShape DEF Replay, Keyed, Cmd, In
<1>3. LedgerRow(t) \in LedgerRows \ {NoRow}
  BY <1>2 DEF Replay, LedgerRow, Cmd, TypeOK
<1>4. LedgerRow(t).response \in Responses
  BY <1>3 DEF LedgerRows
<1>5. CASE SameCommand(LedgerRow(t), Cmd(t)) /\ AnswerWith(t, LedgerRow(t).response)
  BY <1>1, <1>2, <1>4, <1>5, Answered DEF Cmd
<1>6. CASE Goto(t, "refused")
  BY <1>1, <1>2, <1>6, Gone DEF Phases
<1> QED
  BY <1>5, <1>6 DEF Replay

-----------------------------------------------------------------------------
(* Requests bound commits: every commit ends a request that ran. *)

Pending == {t \in Attempts : attempts[t].phase \in Running}
RequestsCover == commits + Cardinality(Pending) <= requests

LEMMA PendingIsFinite ==
  IsFiniteSet(Pending) /\ Cardinality(Pending) \in Nat
BY CommandsAssumption, FS_Subset, FS_CardinalityType DEF Pending

\* A step that starts nothing and commits nothing.
LEMMA NothingStarts ==
  ASSUME TypeOK, RequestsCover, UNCHANGED <<commits, requests>>,
         \A t \in Attempts : attempts'[t].phase \in Running => attempts[t].phase \in Running
  PROVE  RequestsCover'
<1>1. Pending' \subseteq Pending
  BY DEF Pending
<1>2. Cardinality(Pending') <= Cardinality(Pending) /\ Cardinality(Pending') \in Nat
  BY <1>1, PendingIsFinite, FS_Subset, FS_CardinalityType
<1> QED
  BY <1>2, PendingIsFinite DEF RequestsCover, TypeOK

\* A step of attempt t that starts nothing and commits nothing.
LEMMA OneMoves ==
  ASSUME TypeOK, RequestsCover, UNCHANGED <<commits, requests>>, NEW t \in Attempts,
         \A u \in Attempts \ {t} : attempts'[u] = attempts[u],
         attempts'[t].phase \in Running => attempts[t].phase \in Running
  PROVE  RequestsCover'
BY NothingStarts

LEMMA RoomToCommit ==
  ASSUME TypeOK, RequestsCover, NEW t \in Attempts, In(t, {"checked"})
  PROVE  commits + 1 \in Responses
<1>1. t \in Pending
  BY DEF Pending, Running, In
<1>2. Cardinality(Pending) # 0
  BY <1>1, PendingIsFinite, FS_EmptySet
<1> QED
  BY <1>2, PendingIsFinite, CommandsAssumption DEF RequestsCover, Responses, TypeOK

LEMMA CoverInitially == Init => RequestsCover
<1> SUFFICES ASSUME Init PROVE RequestsCover
  OBVIOUS
<1>1. Pending = {}
  BY DEF Init, Pending, Running, Idle
<1> QED
  BY <1>1, FS_EmptySet DEF Init, RequestsCover

LEMMA CoverStep == TypeOK /\ RequestsCover /\ [Next]_vars => RequestsCover'
<1> SUFFICES ASSUME TypeOK, RequestsCover, [Next]_vars PROVE RequestsCover'
  OBVIOUS
<1>1. CASE UNCHANGED vars
  BY <1>1, NothingStarts DEF vars
<1>2. ASSUME NEW t \in Attempts, Lock(t) PROVE RequestsCover'
  BY <1>2, Gone, OneMoves DEF Lock, In, Phases, Running
<1>3. ASSUME NEW t \in Attempts, Claim(t) PROVE RequestsCover'
  BY <1>3, Gone, OneMoves DEF Claim, AtClaim, In, Phases, Running
<1>4. ASSUME NEW t \in Attempts, Replay(t) PROVE RequestsCover'
  <2>1. UNCHANGED <<commits, requests>>
    BY <1>4 DEF Replay
  <2>2. attempts'[t].phase \in {"refused", "answering"}
    <3>1. [phase |-> "refused", cmd |-> attempts[t].cmd].phase = "refused"
      OBVIOUS
    <3>2. [phase |-> "answering", cmd |-> attempts[t].cmd,
           result |-> LedgerRow(t).response].phase = "answering"
      OBVIOUS
    <3> QED
      BY <1>4, <3>1, <3>2, Replayed
  <2> QED
    BY <1>4, <2>1, <2>2, Replayed, OneMoves DEF Running
<1>5. ASSUME NEW t \in Attempts, Check(t) PROVE RequestsCover'
  BY <1>5, Gone, OneMoves DEF Check, In, Phases, Running
<1>6. ASSUME NEW t \in Attempts, Commit(t) PROVE RequestsCover'
  <2>1. commits' = commits + 1 /\ requests' = requests /\ AnswerWith(t, commits + 1)
    BY <1>6 DEF Commit
  <2>2. commits + 1 \in Responses /\ ~In(t, {"idle"})
    BY <1>6, RoomToCommit DEF Commit, In
  <2>3. t \in Pending
    BY <1>6 DEF Commit, Pending, Running, In
  <2>4. Pending' = Pending \ {t}
    <3>1. attempts'[t].phase = "answering" /\ \A u \in Attempts \ {t} : attempts'[u] = attempts[u]
      BY <2>1, <2>2 DEF AnswerWith, TypeOK
    <3> QED
      BY <3>1 DEF Pending, Running
  <2>5. Cardinality(Pending') = Cardinality(Pending) - 1
    BY <2>3, <2>4, PendingIsFinite, FS_RemoveElement
  <2> QED
    BY <2>1, <2>5, PendingIsFinite DEF RequestsCover, TypeOK
<1>7. ASSUME NEW t \in Attempts, Answer(t) \/ Refuse(t) \/ Crash(t) PROVE RequestsCover'
  BY <1>7, Ended, OneMoves DEF Answer, Refuse, Crash, Idle, Running
<1>8. ASSUME NEW t \in Attempts, NEW cmd \in Commands, Request(t, cmd) PROVE RequestsCover'
  <2>1. commits' = commits /\ requests' = requests + 1
    BY <1>8 DEF Request
  <2>2. Pending' = Pending \cup {t} /\ t \notin Pending
    BY <1>8 DEF Request, Pending, Running, In, TypeOK
  <2>3. Cardinality(Pending') = Cardinality(Pending) + 1
    BY <2>2, PendingIsFinite, FS_AddElement
  <2> QED
    BY <2>1, <2>3, PendingIsFinite DEF RequestsCover, TypeOK
<1>9. CASE Correct
  BY <1>9, NothingStarts DEF Correct
<1> QED
  BY <1>1, <1>2, <1>3, <1>4, <1>5, <1>6, <1>7, <1>8, <1>9 DEF Next, Step

-----------------------------------------------------------------------------
(* Type correctness *)

LEMMA TypeInitially == Init => TypeOK
BY CommandsAssumption DEF Init, TypeOK, Attempt, LedgerRows, Rows

\* Every operation leaves the rows well typed.
LEMMA CorrectedType ==
  ASSUME rows \in Rows
  PROVE  [rows EXCEPT !.accepted = TRUE, !.package = rows.package + 1] \in Rows
<1>1. rows.package + 1 \in Nat
  BY DEF Rows
<1> QED
  BY <1>1 DEF Rows

LEMMA WrittenType ==
  ASSUME rows \in Rows, NEW op
  PROVE  Written(op) \in Rows
<1>1. /\ rows.portion + 1 \in Nat
      /\ rows.package + 1 \in Nat
      /\ rows.case + 1 \in Nat
  BY DEF Rows
<1>2. [rows EXCEPT !.portion = rows.portion + 1] \in Rows
  BY <1>1 DEF Rows
<1>3. [rows EXCEPT !.locked = TRUE, !.case = rows.case + 1] \in Rows
  BY <1>1 DEF Rows
<1>4. [rows EXCEPT !.locked = FALSE, !.accepted = FALSE, !.case = rows.case + 1,
                   !.package = rows.package + 1] \in Rows
  BY <1>1 DEF Rows
<1>5. [rows EXCEPT !.case = rows.case + 1] \in Rows
  BY <1>1 DEF Rows
<1> QED
  BY <1>2, <1>3, <1>4, <1>5 DEF Written

LEMMA TypeStep == TypeOK /\ RequestsCover /\ [Next]_vars => TypeOK'
<1> SUFFICES ASSUME TypeOK, RequestsCover, [Next]_vars PROVE TypeOK'
  OBVIOUS
<1>1. CASE UNCHANGED vars
  BY <1>1 DEF vars, TypeOK
<1>2. ASSUME NEW t \in Attempts, Lock(t) PROVE TypeOK'
  BY <1>2, Gone DEF Lock, In, Phases, TypeOK
<1>3. ASSUME NEW t \in Attempts, Claim(t) PROVE TypeOK'
  BY <1>3, Gone DEF Claim, AtClaim, In, Phases, TypeOK
<1>4. ASSUME NEW t \in Attempts, Replay(t) PROVE TypeOK'
  BY <1>4, Replayed DEF Replay, TypeOK
<1>5. ASSUME NEW t \in Attempts, Check(t) PROVE TypeOK'
  BY <1>5, Gone DEF Check, In, Phases, TypeOK
<1>6. ASSUME NEW t \in Attempts, Commit(t) PROVE TypeOK'
  <2> DEFINE cmd == attempts[t].cmd
             response == commits + 1
  <2>1. ~In(t, {"idle"}) /\ cmd \in Commands /\ response \in Responses
    BY <1>6, AttemptShape, RoomToCommit DEF Commit, In
  <2>2. attempts' \in [Attempts -> Attempt]
    BY <1>6, <2>1, Answered DEF Commit
  <2>3. ledger' \in [LedgerKeys -> LedgerRows]
    <3>1. [createdBy |-> cmd.actor, payload |-> cmd.input, response |-> response] \in LedgerRows
      BY <2>1 DEF LedgerRows, Commands
    <3> QED
      BY <1>6, <3>1 DEF Commit, Complete, Cmd, TypeOK
  <2>4. rows' \in Rows
    BY <1>6, WrittenType DEF Commit, TypeOK
  <2>5. effects' \subseteq [cmd : Commands, result : Responses]
    <3>1. [cmd |-> cmd, result |-> response] \in [cmd : Commands, result : Responses]
      BY <2>1
    <3> QED
      BY <1>6, <3>1 DEF Commit, Cmd, TypeOK
  <2>6. commits' \in 0..MaxRequests
    BY <1>6, <2>1 DEF Commit, Responses
  <2> QED
    BY <1>6, <2>2, <2>3, <2>4, <2>5, <2>6 DEF Commit, TypeOK
<1>7. ASSUME NEW t \in Attempts, Answer(t) PROVE TypeOK'
  <2>1. [cmd |-> Cmd(t), result |-> attempts[t].result] \in [cmd : Commands, result : Responses]
    BY <1>7, AttemptShape DEF Answer, In, Cmd
  <2> QED
    BY <1>7, <2>1, Ended DEF Answer, TypeOK
<1>8. ASSUME NEW t \in Attempts, Refuse(t) \/ Crash(t) PROVE TypeOK'
  BY <1>8, Ended DEF Refuse, Crash, TypeOK
<1>9. ASSUME NEW t \in Attempts, NEW cmd \in Commands, Request(t, cmd) PROVE TypeOK'
  <2>1. [phase |-> "begun", cmd |-> cmd] \in Attempt
    BY DEF Attempt, Phases
  <2> QED
    BY <1>9, <2>1, CommandsAssumption DEF Request, TypeOK
<1>10. CASE Correct
  <2>1. rows' \in Rows
    BY <1>10, CorrectedType DEF Correct, TypeOK
  <2> QED
    BY <1>10, <2>1 DEF Correct, TypeOK
<1> QED
  BY <1>1, <1>2, <1>3, <1>4, <1>5, <1>6, <1>7, <1>8, <1>9, <1>10 DEF Next, Step

-----------------------------------------------------------------------------
(* Rows *)

\* No two attempts hold one row, and what a checked command was checked
\* against is still there when it writes.
RowLocks ==
  /\ \A t, u \in Attempts : t # u => Locks(t) \cap Locks(u) = {}
  /\ \A t \in Attempts : In(t, {"checked"}) => Admits(attempts[t].cmd)

\* The locks of an attempt are those of its phase and operation.
LEMMA LocksOfPhase ==
  ASSUME TypeOK, NEW t \in Attempts
  PROVE  /\ In(t, {"locked", "claimed"}) => Locks(t) = LockedFirst(attempts[t].cmd.op)
         /\ In(t, {"checked"}) => Locks(t) = LockedAtWrite(attempts[t].cmd.op)
         /\ ~In(t, {"locked", "claimed", "checked"}) => Locks(t) = {}
BY DEF Locks, In, Cmd

\* Locks are only added to between the first of them and the write.
LEMMA LocksGrow == \A op : LockedFirst(op) \subseteq LockedAtWrite(op)
BY DEF LockedFirst, LockedAtWrite

\* Whatever attempt t does to its locks, if it writes nothing and what it
\* takes was free, nobody shares a row.
LEMMA OneTakes ==
  ASSUME TypeOK, RowLocks, rows' = rows, NEW t \in Attempts,
         \A u \in Attempts \ {t} : attempts'[u] = attempts[u],
         Locks(t)' \subseteq Locks(t) \/ CanLock(t, Locks(t)'),
         attempts'[t].phase = "checked" => Admits(attempts'[t].cmd)
  PROVE  RowLocks'
<1>1. \A u \in Attempts \ {t} : Locks(u)' = Locks(u)
  BY DEF Locks, In, Cmd
<1>2. \A u \in Attempts \ {t} : Locks(t)' \cap Locks(u)' = {}
  BY <1>1 DEF RowLocks, CanLock
<1>3. \A u, v \in Attempts : u # v => Locks(u)' \cap Locks(v)' = {}
  BY <1>1, <1>2 DEF RowLocks
<1>4. \A u \in Attempts : In(u, {"checked"})' => Admits(attempts'[u].cmd)
  BY DEF RowLocks, In
<1>5. \A cmd : Admits(cmd)' = Admits(cmd)
  BY DEF Admits
<1> QED
  BY <1>3, <1>4, <1>5 DEF RowLocks

\* It holds nothing afterwards.
LEMMA OneReleases ==
  ASSUME TypeOK, RowLocks, rows' = rows, NEW t \in Attempts,
         \A u \in Attempts \ {t} : attempts'[u] = attempts[u],
         attempts'[t].phase \notin {"locked", "claimed", "checked"}
  PROVE  RowLocks'
<1>1. Locks(t)' = {}
  BY DEF Locks, In
<1> QED
  BY <1>1, OneTakes

LEMMA RowLocksInitially == Init => RowLocks
BY DEF Init, RowLocks, Locks, In, Idle

\* What a checked command reads, only the holder of its row writes.
LEMMA AdmittedStays ==
  ASSUME TypeOK, NEW cmd \in Commands, NEW op \in AllOperations, Admits(cmd),
         LockedAtWrite(op) \cap LockedAtWrite(cmd.op) = {}, rows' = Written(op)
  PROVE  Admits(cmd)'
<1>1. rows \in Rows
  BY DEF TypeOK
<1>2. CASE "package" \in LockedAtWrite(cmd.op)
  <2>1. op = "PORTION_FACT"
    BY <1>2 DEF LockedAtWrite, AllOperations
  <2>2. rows' = [rows EXCEPT !.portion = rows.portion + 1]
    BY <2>1 DEF Written
  <2>3. /\ rows'.package = rows.package /\ rows'.case = rows.case
        /\ rows'.locked = rows.locked /\ rows'.accepted = rows.accepted
    BY <1>1, <2>2 DEF Rows
  <2> QED
    BY <1>2, <2>3 DEF Admits, LockedAtWrite
<1>3. CASE "package" \notin LockedAtWrite(cmd.op)
  <2>1. cmd.op = "PORTION_FACT"
    BY <1>3 DEF LockedAtWrite
  <2>2. op \notin {"PORTION_FACT", "CUSTOMER_ACCEPTED_QUANTITY"}
    BY <2>1 DEF LockedAtWrite
  <2>3. rows'.portion = rows.portion
    BY <1>1, <2>2 DEF Written, Rows
  <2> QED
    BY <2>1, <2>3 DEF Admits
<1> QED
  BY <1>2, <1>3

LEMMA RowLocksStep == TypeOK /\ RowLocks /\ [Next]_vars => RowLocks'
<1> SUFFICES ASSUME TypeOK, RowLocks, [Next]_vars PROVE RowLocks'
  OBVIOUS
<1>1. CASE UNCHANGED vars
  BY <1>1 DEF vars, RowLocks, Locks, In, Cmd, Admits
<1>2. ASSUME NEW t \in Attempts, Lock(t) PROVE RowLocks'
  <2>1. CASE Goto(t, "locked")
    <3>1. attempts'[t].phase = "locked" /\ attempts'[t].cmd = attempts[t].cmd
      BY <1>2, <2>1, Gone DEF Lock, In, Phases
    <3>2. Locks(t)' = LockedFirst(Cmd(t).op)
      BY <3>1 DEF Locks, In, Cmd
    <3> QED
      BY <1>2, <2>1, <3>1, <3>2, Gone, OneTakes DEF Lock, In, Phases
  <2>2. CASE Goto(t, "refused")
    <3>1. attempts'[t].phase = "refused"
      BY <1>2, <2>2, Gone DEF Lock, In, Phases
    <3> QED
      BY <1>2, <2>2, <3>1, Gone, OneReleases DEF Lock, In, Phases
  <2> QED
    BY <1>2, <2>1, <2>2 DEF Lock
<1>3. ASSUME NEW t \in Attempts, Claim(t) PROVE RowLocks'
  <2>1. ~In(t, {"idle"}) /\ Goto(t, "claimed") /\ rows' = rows
    BY <1>3 DEF Claim, AtClaim, In
  <2>2. /\ attempts'[t].phase = "claimed" /\ attempts'[t].cmd = attempts[t].cmd
        /\ \A u \in Attempts \ {t} : attempts'[u] = attempts[u]
    BY <2>1, Gone DEF Phases
  <2>3. Locks(t)' = LockedFirst(Cmd(t).op)
    BY <2>2 DEF Locks, In, Cmd
  <2>4. Locks(t)' \subseteq Locks(t)
    BY <1>3, <2>3, LocksOfPhase DEF Claim, AtClaim, In, Cmd
  <2> QED
    BY <2>1, <2>2, <2>4, OneTakes
<1>4. ASSUME NEW t \in Attempts, Replay(t) PROVE RowLocks'
  <2>1. attempts'[t].phase \notin {"locked", "claimed", "checked"}
    <3>1. [phase |-> "refused", cmd |-> attempts[t].cmd].phase = "refused"
      OBVIOUS
    <3>2. [phase |-> "answering", cmd |-> attempts[t].cmd,
           result |-> LedgerRow(t).response].phase = "answering"
      OBVIOUS
    <3> QED
      BY <1>4, <3>1, <3>2, Replayed
  <2> QED
    BY <1>4, <2>1, Replayed, OneReleases DEF Replay
<1>5. ASSUME NEW t \in Attempts, Check(t) PROVE RowLocks'
  <2>0. ~In(t, {"idle"}) /\ rows' = rows
    BY <1>5 DEF Check, In
  <2>1. CASE Admits(Cmd(t)) /\ Goto(t, "checked")
    <3>1. /\ attempts'[t].phase = "checked" /\ attempts'[t].cmd = attempts[t].cmd
          /\ \A u \in Attempts \ {t} : attempts'[u] = attempts[u]
      BY <2>0, <2>1, Gone DEF Phases
    <3>2. Locks(t)' = LockedAtWrite(Cmd(t).op)
      BY <3>1 DEF Locks, In, Cmd
    <3>3. CanLock(t, Locks(t)')
      BY <1>5, <3>2 DEF Check
    <3> QED
      BY <2>0, <2>1, <3>1, <3>3, OneTakes DEF Cmd
  <2>2. CASE Goto(t, "refused")
    <3>1. /\ attempts'[t].phase = "refused"
          /\ \A u \in Attempts \ {t} : attempts'[u] = attempts[u]
      BY <2>0, <2>2, Gone DEF Phases
    <3> QED
      BY <2>0, <3>1, OneReleases
  <2> QED
    BY <1>5, <2>1, <2>2 DEF Check
<1>6. ASSUME NEW t \in Attempts, Commit(t) PROVE RowLocks'
  <2>1. /\ attempts'[t].phase = "answering"
        /\ \A u \in Attempts \ {t} : attempts'[u] = attempts[u]
    BY <1>6 DEF Commit, AnswerWith, TypeOK
  <2>2. Locks(t)' = {} /\ \A u \in Attempts \ {t} : Locks(u)' = Locks(u)
    BY <2>1 DEF Locks, In, Cmd
  <2>3. \A u, v \in Attempts : u # v => Locks(u)' \cap Locks(v)' = {}
    BY <2>2 DEF RowLocks
  <2>4. ASSUME NEW u \in Attempts, In(u, {"checked"})' PROVE Admits(attempts[u].cmd)'
    <3>1. u # t /\ In(u, {"checked"}) /\ attempts'[u] = attempts[u]
      BY <2>1, <2>4 DEF In
    <3>2. /\ attempts[u].cmd \in Commands /\ attempts[u].cmd.op \in AllOperations
          /\ attempts[t].cmd \in Commands /\ attempts[t].cmd.op \in AllOperations
      BY <1>6, <3>1, AttemptShape, CommandsAssumption DEF Commit, In, Commands
    <3>3. LockedAtWrite(attempts[t].cmd.op) \cap LockedAtWrite(attempts[u].cmd.op) = {}
      BY <1>6, <3>1, LocksOfPhase DEF Commit, RowLocks
    <3>4. Admits(attempts[u].cmd) /\ rows' = Written(attempts[t].cmd.op)
      BY <1>6, <3>1 DEF Commit, RowLocks, Cmd
    <3>5. \A cmd \in Commands : cmd = attempts[u].cmd => Admits(cmd)'
      BY <3>2, <3>3, <3>4, AdmittedStays
    <3> QED
      BY <3>1, <3>2, <3>5
  <2> QED
    BY <2>3, <2>4 DEF RowLocks
<1>7. ASSUME NEW t \in Attempts, Answer(t) \/ Refuse(t) \/ Crash(t) PROVE RowLocks'
  BY <1>7, Ended, OneReleases DEF Answer, Refuse, Crash, Idle
<1>8. ASSUME NEW t \in Attempts, NEW cmd \in Commands, Request(t, cmd) PROVE RowLocks'
  <2>1. /\ attempts'[t].phase = "begun" /\ rows' = rows
        /\ \A u \in Attempts \ {t} : attempts'[u] = attempts[u]
    BY <1>8 DEF Request, TypeOK
  <2> QED
    BY <2>1, OneReleases
<1>9. CASE Correct
  <2>1. attempts' = attempts
    BY <1>9 DEF Correct
  <2>2. \A u \in Attempts : Locks(u)' = Locks(u)
    BY <2>1 DEF Locks, In, Cmd
  <2>3. ASSUME NEW u \in Attempts, In(u, {"checked"}) PROVE Admits(attempts[u].cmd)'
    <3>1. "package" \notin LockedAtWrite(attempts[u].cmd.op)
      BY <1>9, <2>3, LocksOfPhase DEF Correct
    <3>2. attempts[u].cmd.op = "PORTION_FACT"
      BY <3>1 DEF LockedAtWrite
    <3>3. rows'.portion = rows.portion
      BY <1>9 DEF Correct, Rows, TypeOK
    <3> QED
      BY <2>1, <2>3, <3>2, <3>3 DEF RowLocks, Admits
  <2> QED
    BY <2>1, <2>2, <2>3 DEF RowLocks, In
<1> QED
  BY <1>1, <1>2, <1>3, <1>4, <1>5, <1>6, <1>7, <1>8, <1>9 DEF Next, Step

-----------------------------------------------------------------------------
(* Claims *)

\* A claim that an attempt holds is its alone, and no committed row is under
\* it: what makes the row it will commit the first of its key.
Claims ==
  \A t \in Attempts : HoldsClaim(t) =>
    /\ LedgerRow(t) = NoRow
    /\ \A u \in Attempts \ {t} :
         HoldsClaim(u) => KeyOf(attempts[u].cmd) # KeyOf(attempts[t].cmd)

LEMMA ClaimsInitially == Init => Claims
BY DEF Init, Claims, HoldsClaim, In, Idle

\* The moved attempt ends up where it holds no claim.
LEMMA ClaimReleased ==
  ASSUME TypeOK, Claims, NEW t \in Attempts,
         ledger' = ledger, \A u \in Attempts \ {t} : attempts'[u] = attempts[u],
         attempts'[t].phase \notin {"claimed", "checked"}
  PROVE  Claims'
BY DEF Claims, HoldsClaim, Keyed, LedgerRow, In, Cmd

\* The moved attempt keeps its claim and its command.
LEMMA ClaimKept ==
  ASSUME TypeOK, Claims, NEW t \in Attempts, HoldsClaim(t) \/ ~Keyed(t),
         ledger' = ledger, \A u \in Attempts \ {t} : attempts'[u] = attempts[u],
         attempts'[t].cmd = attempts[t].cmd
  PROVE  Claims'
BY DEF Claims, HoldsClaim, Keyed, LedgerRow, In, Cmd

\* A replay holds no claim, before or after.
LEMMA ReplayPhase ==
  ASSUME TypeOK, NEW t \in Attempts, Replay(t)
  PROVE  attempts'[t].phase \in {"refused", "answering"}
<1>1. [phase |-> "refused", cmd |-> attempts[t].cmd].phase = "refused"
  OBVIOUS
<1>2. [phase |-> "answering", cmd |-> attempts[t].cmd,
       result |-> LedgerRow(t).response].phase = "answering"
  OBVIOUS
<1> QED
  BY <1>1, <1>2, Replayed

LEMMA ClaimsStep == TypeOK /\ RequestsCover /\ Claims /\ [Next]_vars => Claims'
<1> SUFFICES ASSUME TypeOK, RequestsCover, Claims, [Next]_vars PROVE Claims'
  OBVIOUS
<1>1. CASE UNCHANGED vars
  BY <1>1 DEF vars, Claims, HoldsClaim, Keyed, LedgerRow, In, Cmd
<1>2. ASSUME NEW t \in Attempts, Lock(t) PROVE Claims'
  <2>1. ~In(t, {"idle"}) /\ ledger' = ledger
    BY <1>2 DEF Lock, In
  <2>2. /\ attempts'[t].phase \in {"locked", "refused"}
        /\ \A u \in Attempts \ {t} : attempts'[u] = attempts[u]
    BY <1>2, <2>1, Gone DEF Lock, Phases
  <2> QED
    BY <2>1, <2>2, ClaimReleased
<1>3. ASSUME NEW t \in Attempts, Claim(t) PROVE Claims'
  <2>1. ~In(t, {"idle"}) /\ ledger' = ledger /\ Goto(t, "claimed")
    BY <1>3 DEF Claim, AtClaim, In
  <2>2. /\ attempts'[t].phase = "claimed" /\ attempts'[t].cmd = attempts[t].cmd
        /\ \A u \in Attempts \ {t} : attempts'[u] = attempts[u]
    BY <2>1, Gone DEF Phases
  <2> QED
    BY <1>3, <2>1, <2>2 DEF Claim, ClaimIsFree, Claims, HoldsClaim, Keyed, LedgerRow, In, Cmd
<1>4. ASSUME NEW t \in Attempts, Replay(t) PROVE Claims'
  BY <1>4, ReplayPhase, Replayed, ClaimReleased DEF Replay
<1>5. ASSUME NEW t \in Attempts, Check(t) PROVE Claims'
  <2>1. ~In(t, {"idle"}) /\ ledger' = ledger /\ (HoldsClaim(t) \/ ~Keyed(t))
    BY <1>5 DEF Check, HoldsClaim, In
  <2>2. /\ attempts'[t].cmd = attempts[t].cmd
        /\ \A u \in Attempts \ {t} : attempts'[u] = attempts[u]
    BY <1>5, <2>1, Gone DEF Check, Phases
  <2> QED
    BY <2>1, <2>2, ClaimKept
<1>6. ASSUME NEW t \in Attempts, Commit(t) PROVE Claims'
  <2>1. /\ attempts'[t].phase = "answering"
        /\ \A u \in Attempts \ {t} : attempts'[u] = attempts[u]
    BY <1>6 DEF Commit, AnswerWith, TypeOK
  <2>2. CASE Keyed(t)
    <3>1. HoldsClaim(t)
      BY <1>6, <2>2 DEF Commit, HoldsClaim, In
    <3>2. \A k \in LedgerKeys : k # KeyOf(attempts[t].cmd) => ledger'[k] = ledger[k]
      BY <1>6, <2>2 DEF Commit, Complete, Cmd, TypeOK
    <3>3. ASSUME NEW u \in Attempts \ {t}, HoldsClaim(u) PROVE LedgerRow(u)' = NoRow
      <4>1. KeyOf(attempts[u].cmd) \in LedgerKeys
        BY <3>3, AttemptShape DEF HoldsClaim, Keyed, In, Cmd
      <4> QED
        BY <2>1, <3>1, <3>2, <3>3, <4>1 DEF Claims, LedgerRow, Cmd
    <3> QED
      BY <2>1, <3>3 DEF Claims, HoldsClaim, Keyed, In, Cmd
  <2>3. CASE ~Keyed(t)
    BY <1>6, <2>1, <2>3, ClaimReleased DEF Commit, Complete
  <2> QED
    BY <2>2, <2>3
<1>7. ASSUME NEW t \in Attempts, Answer(t) \/ Refuse(t) \/ Crash(t) PROVE Claims'
  BY <1>7, Ended, ClaimReleased DEF Answer, Refuse, Crash, Idle
<1>8. ASSUME NEW t \in Attempts, NEW cmd \in Commands, Request(t, cmd) PROVE Claims'
  BY <1>8, ClaimReleased DEF Request, TypeOK
<1>9. CASE Correct
  BY <1>9 DEF Correct, Claims, HoldsClaim, Keyed, LedgerRow, In, Cmd
<1> QED
  BY <1>1, <1>2, <1>3, <1>4, <1>5, <1>6, <1>7, <1>8, <1>9 DEF Next, Step

-----------------------------------------------------------------------------
(* Effects, the ledger and the answers *)

\* A ledger row is the record of exactly one effect, with its input, its actor
\* and its response.
LedgerIsTruthful ==
  /\ \A e \in effects : e.cmd.key # NoKey =>
       ledger[KeyOf(e.cmd)] =
         [createdBy |-> e.cmd.actor, payload |-> e.cmd.input, response |-> e.result]
  /\ \A k \in LedgerKeys : ledger[k] # NoRow =>
       \E e \in effects : e.cmd.key # NoKey /\ KeyOf(e.cmd) = k

\* The version a command was checked against is behind its row for good.
EffectsPast ==
  \A e \in effects :
    /\ "portion" \in CheckedRow(e.cmd.op) => e.cmd.input < rows.portion
    /\ "case" \in CheckedRow(e.cmd.op) => e.cmd.input < rows.case

\* What an attempt is about to answer was committed.
AnswersPending ==
  \A t \in Attempts : In(t, {"answering"}) =>
    [cmd |-> attempts[t].cmd, result |-> attempts[t].result] \in effects

\* Nobody is told of an effect that was not made, nor of another's.
AnswersAreTrue == answers \subseteq effects

\* No key ever has two effects, whatever twins, crashes and retries interleave.
OneEffectPerKey ==
  \A e, f \in effects :
    e.cmd.key # NoKey /\ KeyOf(e.cmd) = KeyOf(f.cmd) => e = f

History ==
  /\ LedgerIsTruthful
  /\ EffectsPast
  /\ VersionsAreUsedOnce
  /\ AnswersPending
  /\ AnswersAreTrue

LEMMA HistoryInitially == Init => History
<1> SUFFICES ASSUME Init PROVE History
  OBVIOUS
<1> QED
  BY DEF Init, History, LedgerIsTruthful, EffectsPast, VersionsAreUsedOnce, AnswersPending,
         AnswersAreTrue, In, Idle

\* A row tells what its command's effect was.
LEMMA RowTellsTheEffect ==
  ASSUME TypeOK, LedgerIsTruthful, NEW cmd \in KeyedCommands,
         ledger[KeyOf(cmd)] # NoRow, SameCommand(ledger[KeyOf(cmd)], cmd)
  PROVE  [cmd |-> cmd, result |-> ledger[KeyOf(cmd)].response] \in effects
<1>1. KeyOf(cmd) \in LedgerKeys
  BY DEF KeyOf, LedgerKeys, KeyedCommands
<1>2. PICK e \in effects : e.cmd.key # NoKey /\ KeyOf(e.cmd) = KeyOf(cmd)
  BY <1>1 DEF LedgerIsTruthful
<1>3. e \in [cmd : Commands, result : Responses]
  BY DEF TypeOK
<1>4. ledger[KeyOf(cmd)] =
        [createdBy |-> e.cmd.actor, payload |-> e.cmd.input, response |-> e.result]
  BY <1>2 DEF LedgerIsTruthful
<1>5. e.cmd.actor = cmd.actor /\ e.cmd.input = cmd.input /\ ledger[KeyOf(cmd)].response = e.result
  BY <1>4 DEF SameCommand
<1>6. e.cmd = cmd
  BY <1>2, <1>3, <1>5 DEF KeyOf, Commands, KeyedCommands
<1> QED
  BY <1>3, <1>5, <1>6

\* The row of an effect is no absent row.
LEMMA RowOfAnEffect ==
  ASSUME TypeOK, LedgerIsTruthful, NEW e \in effects, e.cmd.key # NoKey
  PROVE  ledger[KeyOf(e.cmd)] # NoRow /\ SameCommand(ledger[KeyOf(e.cmd)], e.cmd)
<1>1. e.result \in Responses
  BY DEF TypeOK
<1>2. e.result # 0
  BY <1>1, CommandsAssumption DEF Responses
<1>3. ledger[KeyOf(e.cmd)] =
        [createdBy |-> e.cmd.actor, payload |-> e.cmd.input, response |-> e.result]
  BY DEF LedgerIsTruthful
<1>4. ledger[KeyOf(e.cmd)].response = e.result
  BY <1>3
<1> QED
  BY <1>2, <1>3, <1>4 DEF NoRow, SameCommand

\* Steps that commit nothing.
LEMMA QuietStep ==
  ASSUME TypeOK, History, UNCHANGED <<ledger, effects, answers>>,
         rows'.portion = rows.portion, rows'.case = rows.case,
         \A t \in Attempts : attempts'[t] = attempts[t] \/ attempts'[t].phase # "answering"
           \/ [cmd |-> attempts'[t].cmd, result |-> attempts'[t].result] \in effects
  PROVE  History'
<1>1. LedgerIsTruthful' /\ VersionsAreUsedOnce' /\ AnswersAreTrue'
  BY DEF History, LedgerIsTruthful, VersionsAreUsedOnce, AnswersAreTrue
<1>2. EffectsPast'
  BY DEF History, EffectsPast
<1>3. AnswersPending'
  BY DEF History, AnswersPending, In
<1> QED
  BY <1>1, <1>2, <1>3 DEF History

LEMMA OneQuiet ==
  ASSUME TypeOK, History, UNCHANGED <<rows, ledger, effects, answers>>, NEW t \in Attempts,
         \A u \in Attempts \ {t} : attempts'[u] = attempts[u],
         attempts'[t].phase # "answering"
  PROVE  History'
BY QuietStep

\* The rows a committed operation leaves: versions only grow, and the one its
\* command was checked against has grown.
LEMMA VersionsGrow ==
  ASSUME TypeOK, NEW cmd \in Commands, Admits(cmd), rows' = Written(cmd.op)
  PROVE  /\ rows'.portion \in Nat /\ rows.portion <= rows'.portion
         /\ rows'.case \in Nat /\ rows.case <= rows'.case
         /\ "portion" \in CheckedRow(cmd.op) =>
              cmd.input = rows.portion /\ rows.portion < rows'.portion
         /\ "case" \in CheckedRow(cmd.op) =>
              cmd.input = rows.case /\ rows.case < rows'.case
<1>1. rows \in Rows /\ rows.portion \in Nat /\ rows.case \in Nat
  BY DEF TypeOK, Rows
<1>2. CASE cmd.op \in {"PORTION_FACT", "CUSTOMER_ACCEPTED_QUANTITY"}
  <2>1. rows'.portion = rows.portion + 1 /\ rows'.case = rows.case
    BY <1>1, <1>2 DEF Written, Rows
  <2> QED
    BY <1>1, <1>2, <2>1 DEF CheckedRow, Admits
<1>3. CASE cmd.op \notin {"PORTION_FACT", "CUSTOMER_ACCEPTED_QUANTITY"}
  <2>1. rows'.portion = rows.portion /\ rows'.case = rows.case + 1
    BY <1>1, <1>3 DEF Written, Rows
  <2> QED
    BY <1>1, <1>3, <2>1 DEF CheckedRow, Admits
<1> QED
  BY <1>2, <1>3

LEMMA HistoryStep ==
  TypeOK /\ RequestsCover /\ RowLocks /\ Claims /\ History /\ [Next]_vars => History'
<1> SUFFICES ASSUME TypeOK, RequestsCover, RowLocks, Claims, History, [Next]_vars
             PROVE  History'
  OBVIOUS
<1>1. CASE UNCHANGED vars
  BY <1>1, QuietStep DEF vars
<1>2. ASSUME NEW t \in Attempts, Lock(t) PROVE History'
  <2>1. ~In(t, {"idle"}) /\ UNCHANGED <<rows, ledger, effects, answers>>
    BY <1>2 DEF Lock, In
  <2>2. /\ attempts'[t].phase \in {"locked", "refused"}
        /\ \A u \in Attempts \ {t} : attempts'[u] = attempts[u]
    BY <1>2, <2>1, Gone DEF Lock, Phases
  <2> QED
    BY <2>1, <2>2, OneQuiet
<1>3. ASSUME NEW t \in Attempts, Claim(t) PROVE History'
  <2>1. ~In(t, {"idle"}) /\ UNCHANGED <<rows, ledger, effects, answers>> /\ Goto(t, "claimed")
    BY <1>3 DEF Claim, AtClaim, In
  <2>2. /\ attempts'[t].phase = "claimed"
        /\ \A u \in Attempts \ {t} : attempts'[u] = attempts[u]
    BY <2>1, Gone DEF Phases
  <2> QED
    BY <2>1, <2>2, OneQuiet
<1>4. ASSUME NEW t \in Attempts, Replay(t) PROVE History'
  <2>1. /\ UNCHANGED <<rows, ledger, effects, answers>>
        /\ \A u \in Attempts \ {t} : attempts'[u] = attempts[u]
        /\ attempts[t].cmd \in KeyedCommands
    BY <1>4, Replayed DEF Replay
  <2>2. CASE attempts'[t] = [phase |-> "refused", cmd |-> attempts[t].cmd]
    BY <2>1, <2>2, OneQuiet
  <2>3. CASE /\ SameCommand(LedgerRow(t), attempts[t].cmd)
             /\ attempts'[t] = [phase |-> "answering", cmd |-> attempts[t].cmd,
                                result |-> LedgerRow(t).response]
    <3>1. [cmd |-> attempts[t].cmd, result |-> LedgerRow(t).response] \in effects
      BY <1>4, <2>1, <2>3, RowTellsTheEffect DEF Replay, History, LedgerRow, Cmd
    <3>2. attempts'[t].cmd = attempts[t].cmd /\ attempts'[t].result = LedgerRow(t).response
      BY <2>3
    <3> QED
      BY <2>1, <3>1, <3>2, QuietStep
  <2> QED
    BY <1>4, <2>2, <2>3, Replayed
<1>5. ASSUME NEW t \in Attempts, Check(t) PROVE History'
  <2>1. ~In(t, {"idle"}) /\ UNCHANGED <<rows, ledger, effects, answers>>
    BY <1>5 DEF Check, In
  <2>2. /\ attempts'[t].phase \in {"checked", "refused"}
        /\ \A u \in Attempts \ {t} : attempts'[u] = attempts[u]
    BY <1>5, <2>1, Gone DEF Check, Phases
  <2> QED
    BY <2>1, <2>2, OneQuiet
<1>6. ASSUME NEW t \in Attempts, Commit(t) PROVE History'
  <2> DEFINE cmd == attempts[t].cmd
             response == commits + 1
             new == [cmd |-> cmd, result |-> response]
  <2>1. /\ cmd \in Commands /\ cmd.input \in Nat /\ Admits(cmd)
        /\ response \in Responses /\ rows' = Written(cmd.op)
    BY <1>6, AttemptShape, RoomToCommit, CommandsAssumption
    DEF Commit, In, Commands, RowLocks, Cmd
  <2>2. effects' = effects \cup {new} /\ answers' = answers
    BY <1>6 DEF Commit, Cmd
  <2>3. AnswerWith(t, response) /\ Complete(t, response)
    BY <1>6 DEF Commit
  <2>4. \A e \in effects : /\ e.cmd \in Commands /\ e.cmd.input \in Nat
                           /\ "portion" \in CheckedRow(e.cmd.op) => e.cmd.input < rows.portion
                           /\ "case" \in CheckedRow(e.cmd.op) => e.cmd.input < rows.case
    BY CommandsAssumption DEF TypeOK, Commands, History, EffectsPast
  <2>5. rows.portion \in Nat /\ rows.case \in Nat
    BY DEF TypeOK, Rows
  <2>6. EffectsPast'
    <3>1. \A e \in effects : /\ "portion" \in CheckedRow(e.cmd.op) => e.cmd.input < rows'.portion
                             /\ "case" \in CheckedRow(e.cmd.op) => e.cmd.input < rows'.case
      BY <2>1, <2>4, <2>5, VersionsGrow
    <3>2. /\ "portion" \in CheckedRow(new.cmd.op) => new.cmd.input < rows'.portion
          /\ "case" \in CheckedRow(new.cmd.op) => new.cmd.input < rows'.case
      BY <2>1, VersionsGrow
    <3> QED
      BY <2>2, <3>1, <3>2 DEF EffectsPast
  <2>7. VersionsAreUsedOnce'
    <3>1. \A op : CheckedRow(op) \subseteq {"portion", "case"}
      BY DEF CheckedRow
    <3>2. ASSUME NEW e \in effects, CheckedRow(e.cmd.op) \cap CheckedRow(cmd.op) # {}
          PROVE  e.cmd.input # cmd.input
      <4>1. CASE "portion" \in CheckedRow(e.cmd.op) /\ "portion" \in CheckedRow(cmd.op)
        BY <2>1, <2>4, <2>5, <4>1, VersionsGrow
      <4>2. CASE "case" \in CheckedRow(e.cmd.op) /\ "case" \in CheckedRow(cmd.op)
        BY <2>1, <2>4, <2>5, <4>2, VersionsGrow
      <4> QED
        BY <3>1, <3>2, <4>1, <4>2
    <3>3. new.cmd = cmd
      OBVIOUS
    <3> HIDE DEF new, cmd
    <3> QED
      BY <2>2, <3>2, <3>3 DEF VersionsAreUsedOnce, History
  <2>8. AnswersPending'
    <3>1. /\ attempts'[t] = [phase |-> "answering", cmd |-> cmd, result |-> response]
          /\ \A u \in Attempts \ {t} : attempts'[u] = attempts[u]
      BY <2>3 DEF AnswerWith, Cmd, TypeOK
    <3>2. attempts'[t].cmd = cmd /\ attempts'[t].result = response
      BY <3>1
    <3> QED
      BY <2>2, <3>1, <3>2 DEF AnswersPending, History, In
  <2>9. AnswersAreTrue'
    BY <2>2 DEF AnswersAreTrue, History
  <2>10. LedgerIsTruthful'
    <3>1. CASE Keyed(t)
      <4>1. KeyOf(cmd) \in LedgerKeys /\ ledger[KeyOf(cmd)] = NoRow
        BY <1>6, <3>1, AttemptShape DEF Commit, Claims, HoldsClaim, Keyed, LedgerRow, In, Cmd
      <4>2. ledger' = [ledger EXCEPT ![KeyOf(cmd)] =
              [createdBy |-> cmd.actor, payload |-> cmd.input, response |-> response]]
        BY <2>3, <3>1 DEF Complete, Cmd
      <4>3. \A e \in effects : e.cmd.key # NoKey =>
              KeyOf(e.cmd) # KeyOf(cmd) /\ KeyOf(e.cmd) \in LedgerKeys
        <5>1. \A e \in effects : e.cmd.key # NoKey => ledger[KeyOf(e.cmd)] # NoRow
          BY RowOfAnEffect DEF History
        <5> QED
          BY <2>4, <4>1, <5>1 DEF KeyOf, LedgerKeys, Commands
      <4>4. \A e \in effects' : e.cmd.key # NoKey =>
              ledger'[KeyOf(e.cmd)] =
                [createdBy |-> e.cmd.actor, payload |-> e.cmd.input, response |-> e.result]
        BY <2>2, <4>1, <4>2, <4>3 DEF History, LedgerIsTruthful, TypeOK
      <4>5. \A k \in LedgerKeys : ledger'[k] # NoRow =>
              \E e \in effects' : e.cmd.key # NoKey /\ KeyOf(e.cmd) = k
        <5>1. ASSUME NEW k \in LedgerKeys, k # KeyOf(cmd), ledger'[k] # NoRow
              PROVE  \E e \in effects' : e.cmd.key # NoKey /\ KeyOf(e.cmd) = k
          BY <2>2, <4>2, <5>1 DEF History, LedgerIsTruthful, TypeOK
        <5>2. new \in effects' /\ new.cmd.key # NoKey /\ KeyOf(new.cmd) = KeyOf(cmd)
          BY <2>2, <3>1 DEF Keyed, Cmd
        <5> QED
          BY <5>1, <5>2
      <4> QED
        BY <4>4, <4>5 DEF LedgerIsTruthful
    <3>2. CASE ~Keyed(t)
      BY <2>2, <2>3, <3>2 DEF History, LedgerIsTruthful, Complete, Keyed, Cmd
    <3> QED
      BY <3>1, <3>2
  <2> QED
    BY <2>6, <2>7, <2>8, <2>9, <2>10 DEF History
<1>7. ASSUME NEW t \in Attempts, Answer(t) PROVE History'
  <2>1. UNCHANGED <<rows, ledger, effects>>
    BY <1>7 DEF Answer
  <2>2. AnswersAreTrue'
    BY <1>7 DEF Answer, History, AnswersPending, AnswersAreTrue, Cmd
  <2>3. AnswersPending'
    BY <1>7 DEF Answer, History, AnswersPending, In, Idle, TypeOK
  <2> QED
    BY <2>1, <2>2, <2>3 DEF History, LedgerIsTruthful, EffectsPast, VersionsAreUsedOnce
<1>8. ASSUME NEW t \in Attempts, Refuse(t) \/ Crash(t) PROVE History'
  BY <1>8, Ended, OneQuiet DEF Refuse, Crash, Idle
<1>9. ASSUME NEW t \in Attempts, NEW cmd \in Commands, Request(t, cmd) PROVE History'
  BY <1>9, OneQuiet DEF Request, TypeOK
<1>10. CASE Correct
  <2>1. rows'.portion = rows.portion /\ rows'.case = rows.case
    BY <1>10 DEF Correct, Rows, TypeOK
  <2> QED
    BY <1>10, <2>1, QuietStep DEF Correct
<1> QED
  BY <1>1, <1>2, <1>3, <1>4, <1>5, <1>6, <1>7, <1>8, <1>9, <1>10 DEF Next, Step

-----------------------------------------------------------------------------
(* The invariant and what it implies *)

IInv == TypeOK /\ RequestsCover /\ RowLocks /\ Claims /\ History

\* The inductive invariant: what attempts hold of rows and keys, what a checked
\* command may rely on, and what the history and the ledger tell of each other.
THEOREM Invariance == Spec => []IInv
<1>1. Init => IInv
  BY TypeInitially, CoverInitially, RowLocksInitially, ClaimsInitially, HistoryInitially DEF IInv
<1>2. IInv /\ [Next]_vars => IInv'
  BY TypeStep, CoverStep, RowLocksStep, ClaimsStep, HistoryStep DEF IInv
<1> QED
  BY <1>1, <1>2, PTL DEF Spec

\* Every variable keeps its type, whatever attempts and crashes interleave.
THEOREM TypeCorrectness == Spec => []TypeOK
<1>1. IInv => TypeOK
  BY DEF IInv
<1> QED
  BY <1>1, Invariance, PTL

\* Commands that claim before or after their locks never consume one version of
\* a row twice.
THEOREM NoVersionIsUsedTwice == Spec => []VersionsAreUsedOnce
<1>1. IInv => VersionsAreUsedOnce
  BY DEF IInv, History
<1> QED
  BY <1>1, Invariance, PTL

\* A committed ledger row is the record of exactly one effect.
THEOREM LedgerTruth == Spec => []LedgerIsTruthful
<1>1. IInv => LedgerIsTruthful
  BY DEF IInv, History
<1> QED
  BY <1>1, Invariance, PTL

\* Two effects under a key would have to share its row: the row names actor,
\* input and response, so they are one.
LEMMA OneRowOneEffect == TypeOK /\ LedgerIsTruthful => OneEffectPerKey
<1> SUFFICES ASSUME TypeOK, LedgerIsTruthful, NEW e \in effects, NEW f \in effects,
                    e.cmd.key # NoKey, KeyOf(e.cmd) = KeyOf(f.cmd)
             PROVE  e = f
  BY DEF OneEffectPerKey
<1>1. /\ e \in [cmd : Commands, result : Responses]
      /\ f \in [cmd : Commands, result : Responses]
  BY DEF TypeOK
<1>2. f.cmd.key # NoKey
  BY DEF KeyOf
<1>3. e.cmd.actor = f.cmd.actor /\ e.cmd.input = f.cmd.input /\ e.result = f.result
  <2>1. /\ ledger[KeyOf(e.cmd)] =
             [createdBy |-> e.cmd.actor, payload |-> e.cmd.input, response |-> e.result]
        /\ ledger[KeyOf(f.cmd)] =
             [createdBy |-> f.cmd.actor, payload |-> f.cmd.input, response |-> f.result]
    BY <1>2 DEF LedgerIsTruthful
  <2> QED
    BY <2>1
<1>4. e.cmd = f.cmd
  BY <1>1, <1>3 DEF KeyOf, Commands
<1> QED
  BY <1>1, <1>3, <1>4

\* A versioned command that took effect under a key is never refused when it is
\* sent again under that key: only the one that passes its gate before it
\* claims may be.
THEOREM RetriesFindTheirRow == Spec => VersionedRetriesAreReplayed
<1> DEFINE A == \A t \in Attempts :
                  RefusedThoughDone(t) => Cmd(t).op = "CUSTOMER_ACCEPTED_QUANTITY"
<1>1. IInv /\ [Next]_vars => [A]_vars
  <2> SUFFICES ASSUME IInv, Next, NEW t \in Attempts, RefusedThoughDone(t)
               PROVE  Cmd(t).op = "CUSTOMER_ACCEPTED_QUANTITY"
    OBVIOUS
  <2>1. TypeOK /\ LedgerIsTruthful /\ Claims
    BY DEF IInv, History
  <2>2. /\ attempts[t].phase # "refused" /\ attempts'[t].phase = "refused"
        /\ attempts'[t] # attempts[t]
        /\ Keyed(t)
    BY DEF RefusedThoughDone, In
  <2>3. LedgerRow(t) # NoRow /\ SameCommand(LedgerRow(t), Cmd(t))
    BY <2>1, RowOfAnEffect DEF RefusedThoughDone, LedgerRow, Keyed
  <2>4. ~Claim(t) /\ ~Commit(t) /\ ~Answer(t) /\ ~Refuse(t) /\ ~Crash(t)
    <3>1. ~Claim(t)
      BY <2>1, <2>2, Gone DEF Claim, AtClaim, In, Phases
    <3>2. ~Commit(t)
      BY <2>1, <2>2 DEF Commit, AnswerWith, TypeOK
    <3>3. ~Answer(t) /\ ~Refuse(t) /\ ~Crash(t)
      BY <2>1, <2>2, Ended DEF Answer, Refuse, Crash, Idle
    <3> QED
      BY <3>1, <3>2, <3>3
  <2>5. \A cmd \in Commands : ~Request(t, cmd)
    BY <2>1, <2>2 DEF Request, TypeOK
  <2>6. ~Replay(t)
    <3>1. Replay(t) => AnswerWith(t, LedgerRow(t).response)
      BY <2>3 DEF Replay
    <3> QED
      BY <2>1, <2>2, <3>1 DEF AnswerWith, TypeOK
  <2>7. ~Check(t)
    <3>1. Check(t) => HoldsClaim(t)
      BY <2>2 DEF Check, HoldsClaim, In
    <3> QED
      BY <2>1, <2>3, <3>1 DEF Claims
  <2>8. CASE Lock(t)
    <3>1. Goto(t, "locked") => attempts'[t].phase = "locked"
      BY <2>1 DEF Goto, TypeOK
    <3>2. ~Gate(Cmd(t).op)
      BY <2>2, <2>8, <3>1 DEF Lock
    <3> QED
      BY <3>2 DEF Gate
  <2>9. \A u \in Attempts \ {t} : ~Step(u) /\ ~Crash(u) /\ \A cmd \in Commands : ~Request(u, cmd)
    <3> SUFFICES ASSUME NEW u \in Attempts \ {t},
                        Step(u) \/ Crash(u) \/ \E cmd \in Commands : Request(u, cmd)
                 PROVE  attempts'[t] = attempts[t]
      BY <2>2
    <3> QED
      BY <2>1 DEF Step, Lock, Claim, Replay, Check, Commit, Answer, Refuse, Crash, Request,
                  Goto, AnswerWith, TypeOK
  <2>10. ~Correct
    BY <2>2 DEF Correct
  <2> QED
    BY <2>4, <2>5, <2>6, <2>7, <2>8, <2>9, <2>10 DEF Next, Step
<1> QED
  BY <1>1, Invariance, PTL DEF Spec, VersionedRetriesAreReplayed

-----------------------------------------------------------------------------
(* Refinement *)

LEMMA DoneWhenCommitted ==
  ASSUME IInv, NEW t \in Attempts, Commit(t), Keyed(t)
  PROVE  \E r \in KeyedCommands : Once!Do(r)
<1> DEFINE cmd == attempts[t].cmd
           result == commits + 1
           new == [cmd |-> cmd, result |-> result]
<1>1. cmd \in KeyedCommands /\ result \in Responses /\ effects' = effects \cup {new}
  BY RoomToCommit, AttemptShape DEF IInv, Commit, In, Keyed, Cmd
<1>2. \A e \in effects : e.cmd.key # NoKey => KeyOf(e.cmd) # KeyOf(cmd)
  <2>1. ledger[KeyOf(cmd)] = NoRow
    BY DEF IInv, Claims, HoldsClaim, In, LedgerRow, Commit, Cmd
  <2>2. \A e \in effects : e.cmd.key # NoKey => ledger[KeyOf(e.cmd)] # NoRow
    BY RowOfAnEffect DEF IInv, History
  <2> HIDE DEF cmd
  <2> QED
    BY <2>1, <2>2
<1>3. \A q \in KeyedCommands : q.key # NoKey
  BY CommandsAssumption DEF KeyedCommands
<1>4. \A q \in KeyedCommands : KeyOf(q) = KeyOf(cmd) => ResultsOf(effects)[q] = {}
  BY <1>2, <1>3 DEF ResultsOf
<1>5. ResultsOf(effects') = [ResultsOf(effects) EXCEPT ![cmd] = {result}]
  <2>1. ASSUME NEW q \in KeyedCommands, q # cmd
        PROVE  ResultsOf(effects')[q] = ResultsOf(effects)[q]
    BY <1>1, <2>1 DEF ResultsOf
  <2>2. ResultsOf(effects')[cmd] = {result}
    <3>1. {f \in effects' : f.cmd = cmd} = {new}
      BY <1>1, <1>2, <1>3
    <3>2. ResultsOf(effects')[cmd] = {e.result : e \in {f \in effects' : f.cmd = cmd}}
      BY <1>1 DEF ResultsOf
    <3>3. new.result = result
      OBVIOUS
    <3> HIDE DEF new, result
    <3> QED
      BY <3>1, <3>2, <3>3
  <2>3. /\ ResultsOf(effects') = [q \in KeyedCommands |-> ResultsOf(effects')[q]]
        /\ ResultsOf(effects) = [q \in KeyedCommands |-> ResultsOf(effects)[q]]
    BY DEF ResultsOf
  <2> HIDE DEF cmd, result, new
  <2> QED
    BY <1>1, <2>1, <2>2, <2>3
<1>6. answers' = answers
  BY DEF Commit
<1>7. Once!Do(cmd)
  BY <1>1, <1>4, <1>5, <1>6 DEF Once!Do
<1> QED
  BY <1>1, <1>7

LEMMA ToldWhenAnswered ==
  ASSUME IInv, NEW t \in Attempts, Answer(t), Keyed(t)
  PROVE  \E r \in KeyedCommands : Once!Tell(r)
<1> DEFINE cmd == attempts[t].cmd
           new == [cmd |-> cmd, result |-> attempts[t].result]
<1>1. cmd \in KeyedCommands /\ new \in effects /\ answers' = answers \cup {new}
  BY AttemptShape DEF IInv, History, AnswersPending, Answer, In, Keyed, Cmd
<1>2. \A e \in effects : e.cmd = cmd => e = new
  <2>1. cmd.key # NoKey
    BY DEF Keyed, Cmd
  <2>2. OneEffectPerKey
    BY OneRowOneEffect DEF IInv, History
  <2> QED
    BY <1>1, <2>1, <2>2 DEF OneEffectPerKey
<1>3. ResultsOf(effects)[cmd] = {new.result}
  BY <1>1, <1>2 DEF ResultsOf
<1>4. \A e \in answers : e.cmd = cmd => e = new
  BY <1>2 DEF IInv, History, AnswersAreTrue
<1>5. ResultsOf(answers') = [ResultsOf(answers) EXCEPT ![cmd] = {new.result}]
  <2>1. ASSUME NEW q \in KeyedCommands, q # cmd
        PROVE  ResultsOf(answers')[q] = ResultsOf(answers)[q]
    BY <1>1, <2>1 DEF ResultsOf
  <2>2. ResultsOf(answers')[cmd] = {new.result}
    BY <1>1, <1>4 DEF ResultsOf
  <2>3. /\ ResultsOf(answers') = [q \in KeyedCommands |-> ResultsOf(answers')[q]]
        /\ ResultsOf(answers) = [q \in KeyedCommands |-> ResultsOf(answers)[q]]
    BY DEF ResultsOf
  <2> HIDE DEF cmd, new
  <2> QED
    BY <1>1, <2>1, <2>2, <2>3
<1>6. effects' = effects
  BY DEF Answer
<1>7. Once!Tell(cmd)
  BY <1>1, <1>3, <1>5, <1>6 DEF Once!Tell
<1> QED
  BY <1>1, <1>7

\* A command without a key leaves no trace the client could repeat.
LEMMA UnkeyedIsStutter ==
  ASSUME NEW history, NEW new, new.cmd.key = NoKey
  PROVE  ResultsOf(history \cup {new}) = ResultsOf(history)
<1>1. new.cmd \notin KeyedCommands
  BY CommandsAssumption DEF KeyedCommands
<1> QED
  BY <1>1 DEF ResultsOf

\* The older ledger implements the promise of an Idempotency-Key, in whatever
\* order its commands lock, check and claim.
THEOREM Implementation == Spec => KeepsThePromise
<1>1. Init => Once!Init
  BY DEF Init, Once!Init, ResultsOf
<1>2. IInv /\ [Next]_vars => [Once!Next]_(Once!vars)
  <2> SUFFICES ASSUME IInv, [Next]_vars PROVE [Once!Next]_(Once!vars)
    OBVIOUS
  <2>1. ASSUME NEW t \in Attempts, Commit(t) PROVE [Once!Next]_(Once!vars)
    <3>1. CASE Keyed(t)
      BY <2>1, <3>1, DoneWhenCommitted DEF Once!Next
    <3>2. CASE ~Keyed(t)
      BY <2>1, <3>2, UnkeyedIsStutter DEF Commit, Keyed, Once!vars
    <3> QED
      BY <3>1, <3>2
  <2>2. ASSUME NEW t \in Attempts, Answer(t) PROVE [Once!Next]_(Once!vars)
    <3>1. CASE Keyed(t)
      BY <2>2, <3>1, ToldWhenAnswered DEF Once!Next
    <3>2. CASE ~Keyed(t)
      BY <2>2, <3>2, UnkeyedIsStutter DEF Answer, Keyed, Once!vars
    <3> QED
      BY <3>1, <3>2
  <2>3. CASE \A t \in Attempts : ~Commit(t) /\ ~Answer(t)
    <3>1. UNCHANGED <<effects, answers>>
      BY <2>3 DEF Next, Step, Lock, Claim, Replay, Check, Refuse, Crash, Request, Correct, vars
    <3> QED
      BY <3>1 DEF Once!vars, ResultsOf
  <2> QED
    BY <2>1, <2>2, <2>3
<1> QED
  BY <1>1, <1>2, Invariance, PTL DEF Spec, KeepsThePromise, Once!Spec
=============================================================================
