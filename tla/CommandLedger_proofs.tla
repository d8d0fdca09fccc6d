------------------------ MODULE CommandLedger_proofs ------------------------
(***************************************************************************)
(* The GPR-2 ledger keeps its promise for any number of actors, keys,      *)
(* aggregates and concurrent attempts: type correctness, one inductive     *)
(* invariant, the safety properties it implies and the refinement.         *)
(***************************************************************************)
EXTENDS CommandLedger, TLAPS

-----------------------------------------------------------------------------
(* Attempts *)

\* An attempt that runs or answers carries a command.
LEMMA AttemptShape ==
  ASSUME TypeOK, NEW t \in Attempts
  PROVE  /\ attempts[t].phase \in RunningPhases \cup {"answering", "idle"}
         /\ attempts[t].phase = "idle" <=> attempts[t] = Idle
         /\ attempts[t].phase # "idle" =>
              /\ attempts[t].cmd \in Commands
              /\ attempts[t].cmd.key # NoKey =>
                   /\ attempts[t].cmd \in KeyedCommands
                   /\ KeyOf(attempts[t].cmd) \in LedgerKeys
         /\ attempts[t].phase = "answering" => attempts[t].result \in Results
<1>1. attempts[t] \in Attempt
  BY DEF TypeOK
<1>2. attempts[t].phase # "idle" => attempts[t].cmd \in Commands
  BY <1>1 DEF Attempt, Idle
<1>3. \A cmd \in Commands : cmd.key # NoKey =>
        cmd \in KeyedCommands /\ KeyOf(cmd) \in LedgerKeys
  BY DEF Commands, KeyedCommands, KeyOf, LedgerKeys
<1> QED
  BY <1>1, <1>2, <1>3 DEF Attempt, Idle, RunningPhases

-----------------------------------------------------------------------------
(* Type correctness *)

LEMMA TypeInitially == Init => TypeOK
<1> SUFFICES ASSUME Init PROVE TypeOK
  OBVIOUS
<1> QED
  BY LedgerAssumption DEF Init, TypeOK, Attempt, Rows

\* Every step types the attempt it moves.
LEMMA Moved ==
  ASSUME TypeOK, NEW t \in Attempts, NEW new \in Attempt,
         attempts' = [attempts EXCEPT ![t] = new]
  PROVE  attempts' \in [Attempts -> Attempt]
BY DEF TypeOK

LEMMA Gone ==
  ASSUME TypeOK, NEW t \in Attempts, NEW phase \in RunningPhases,
         attempts[t].phase # "idle", Goto(t, phase)
  PROVE  attempts' \in [Attempts -> Attempt]
BY AttemptShape, Moved DEF Goto, Attempt

LEMMA Answered ==
  ASSUME TypeOK, NEW t \in Attempts, NEW result \in Results,
         attempts[t].phase # "idle", AnswerWith(t, result)
  PROVE  attempts' \in [Attempts -> Attempt]
BY AttemptShape, Moved DEF AnswerWith, Attempt

LEMMA Refused ==
  ASSUME TypeOK, NEW t \in Attempts, Refuse(t)
  PROVE  attempts' \in [Attempts -> Attempt]
BY Moved DEF Refuse, Attempt

LEMMA ReplayedType ==
  ASSUME TypeOK, NEW t \in Attempts, attempts[t].phase # "idle", ReplayOrMismatch(t)
  PROVE  attempts' \in [Attempts -> Attempt]
<1>1. Row(t) \in Rows
  BY AttemptShape DEF ReplayOrMismatch, Keyed, Row, TypeOK
<1>2. Row(t).result \in Results
  BY <1>1 DEF ReplayOrMismatch, Rows
<1> QED
  BY <1>2, Answered, Refused DEF ReplayOrMismatch

\* A row that an attempt holds is its alone and still at the version it saw:
\* what makes the applied version the expected one plus one.
RowLocks ==
  \A t \in Attempts : HoldsRow(t) =>
    /\ version[attempts[t].cmd.scope] = attempts[t].cmd.expected
    /\ \A u \in Attempts \ {t} :
         HoldsRow(u) => attempts[u].cmd.scope # attempts[t].cmd.scope

\* The version a checked command is about to apply.
LEMMA AppliedVersion ==
  ASSUME TypeOK, RowLocks, NEW t \in Attempts, In(t, {"checked"})
  PROVE  /\ attempts[t].cmd \in Commands
         /\ version[attempts[t].cmd.scope] = attempts[t].cmd.expected
         /\ attempts[t].cmd.expected + 1 \in Results
         /\ attempts[t].cmd.expected + 1 \in Nat
<1>1. attempts[t].cmd \in Commands
  BY AttemptShape DEF In
<1>2. attempts[t].cmd.expected \in Expected /\ attempts[t].cmd.expected \in Nat
  BY <1>1, LedgerAssumption DEF Commands
<1>3. version[attempts[t].cmd.scope] = attempts[t].cmd.expected
  BY DEF RowLocks, HoldsRow
<1> QED
  BY <1>1, <1>2, <1>3 DEF Results

LEMMA TypeStep == TypeOK /\ RowLocks /\ [Next]_vars => TypeOK'
<1> SUFFICES ASSUME TypeOK, RowLocks, [Next]_vars PROVE TypeOK'
  OBVIOUS
<1>1. CASE UNCHANGED vars
  BY <1>1 DEF vars, TypeOK
<1>2. ASSUME NEW t \in Attempts, Permission(t) PROVE TypeOK'
  BY <1>2, Gone, Refused DEF Permission, In, RunningPhases, TypeOK
<1>3. ASSUME NEW t \in Attempts, Lookup(t) PROVE TypeOK'
  BY <1>3, ReplayedType DEF Lookup, In, TypeOK
<1>4. ASSUME NEW t \in Attempts, Begin(t) PROVE TypeOK'
  BY <1>4, Gone DEF Begin, In, RunningPhases, TypeOK
<1>5. ASSUME NEW t \in Attempts, Authorize(t) PROVE TypeOK'
  BY <1>5, Gone, Refused DEF Authorize, In, RunningPhases, TypeOK
<1>6. ASSUME NEW t \in Attempts, Claim(t) PROVE TypeOK'
  BY <1>6, Gone DEF Claim, In, RunningPhases, TypeOK
<1>7. ASSUME NEW t \in Attempts, Replay(t) PROVE TypeOK'
  BY <1>7, ReplayedType DEF Replay, In, TypeOK
<1>8. ASSUME NEW t \in Attempts, LockAndCheck(t) PROVE TypeOK'
  BY <1>8, Gone, Refused DEF LockAndCheck, In, RunningPhases, TypeOK
<1>9. ASSUME NEW t \in Attempts, Answer(t) PROVE TypeOK'
  <2>1. attempts' \in [Attempts -> Attempt]
    BY <1>9, Refused DEF Answer, Refuse
  <2>2. [cmd |-> attempts[t].cmd, result |-> attempts[t].result] \in [cmd : Commands, result : Results]
    BY <1>9, AttemptShape DEF Answer, In
  <2> QED
    BY <1>9, <2>1, <2>2 DEF Answer, TypeOK
<1>10. ASSUME NEW t \in Attempts, Crash(t) PROVE TypeOK'
  BY <1>10, Refused DEF Crash, Refuse, TypeOK
<1>11. ASSUME NEW t \in Attempts, NEW cmd \in Commands, Request(t, cmd) PROVE TypeOK'
  <2>1. [phase |-> "received", cmd |-> cmd] \in Attempt
    BY DEF Attempt, RunningPhases
  <2> QED
    BY <1>11, <2>1, Moved, LedgerAssumption DEF Request, TypeOK
<1>12. ASSUME NEW a \in Actors, ChangeRights(a) PROVE TypeOK'
  BY <1>12 DEF ChangeRights, TypeOK
<1>13. ASSUME NEW t \in Attempts, Commit(t) PROVE TypeOK'
  <2> DEFINE cmd == attempts[t].cmd
             result == cmd.expected + 1
  <2>1. /\ cmd \in Commands /\ version[cmd.scope] = cmd.expected
        /\ result \in Results /\ result \in Nat
    BY <1>13, AppliedVersion DEF Commit
  <2>2. version' = [version EXCEPT ![cmd.scope] = result]
    BY <1>13, <2>1 DEF Commit
  <2>3. effects' = effects \cup {[cmd |-> cmd, result |-> result]}
    BY <1>13, <2>1 DEF Commit
  <2>4. AnswerWith(t, result) /\ RecordResult(t, result)
    BY <1>13, <2>1 DEF Commit
  <2>5. attempts' \in [Attempts -> Attempt]
    BY <1>13, <2>1, <2>4, Answered DEF Commit, In
  <2>6. ledger' \in [LedgerKeys -> Rows]
    <3>1. [fingerprint |-> cmd.expected, result |-> result] \in Rows
      BY <2>1 DEF Rows, Commands
    <3> QED
      BY <2>4, <3>1 DEF RecordResult, TypeOK
  <2>7. version' \in [Scopes -> Nat]
    BY <2>1, <2>2 DEF TypeOK
  <2>8. effects' \subseteq [cmd : Commands, result : Results]
    <3>1. [cmd |-> cmd, result |-> result] \in [cmd : Commands, result : Results]
      BY <2>1
    <3> QED
      BY <2>3, <3>1 DEF TypeOK
  <2>9. UNCHANGED <<rights, requests, answers>>
    BY <1>13 DEF Commit
  <2> QED
    BY <2>5, <2>6, <2>7, <2>8, <2>9 DEF TypeOK
<1> QED
  BY <1>1, <1>2, <1>3, <1>4, <1>5, <1>6, <1>7, <1>8, <1>9, <1>10, <1>11, <1>12, <1>13
  DEF Next, Step

-----------------------------------------------------------------------------
(* Who holds what *)

LEMMA RowLocksInitially == Init => RowLocks
BY DEF Init, RowLocks, HoldsRow, In, Idle

\* The moved attempt ends up where it holds no row.
LEMMA RowReleased ==
  ASSUME TypeOK, RowLocks, NEW t \in Attempts,
         version' = version, \A u \in Attempts \ {t} : attempts'[u] = attempts[u],
         attempts'[t].phase # "checked"
  PROVE  RowLocks'
BY DEF RowLocks, HoldsRow, In

LEMMA RowLocksStep == TypeOK /\ RowLocks /\ [Next]_vars => RowLocks'
<1> SUFFICES ASSUME TypeOK, RowLocks, [Next]_vars PROVE RowLocks'
  OBVIOUS
<1> USE DEF Refuse, Goto, AnswerWith, Idle
<1>1. CASE UNCHANGED vars
  BY <1>1 DEF vars, RowLocks, HoldsRow, In
<1>2. ASSUME NEW t \in Attempts, Permission(t) PROVE RowLocks'
  BY <1>2, RowReleased DEF Permission, TypeOK
<1>3. ASSUME NEW t \in Attempts, Lookup(t) PROVE RowLocks'
  BY <1>3, RowReleased DEF Lookup, ReplayOrMismatch, TypeOK
<1>4. ASSUME NEW t \in Attempts, Begin(t) PROVE RowLocks'
  BY <1>4, RowReleased DEF Begin, TypeOK
<1>5. ASSUME NEW t \in Attempts, Authorize(t) PROVE RowLocks'
  BY <1>5, RowReleased DEF Authorize, TypeOK
<1>6. ASSUME NEW t \in Attempts, Claim(t) PROVE RowLocks'
  BY <1>6, RowReleased DEF Claim, TypeOK
<1>7. ASSUME NEW t \in Attempts, Replay(t) PROVE RowLocks'
  BY <1>7, RowReleased DEF Replay, ReplayOrMismatch, TypeOK
<1>8. ASSUME NEW t \in Attempts, LockAndCheck(t) PROVE RowLocks'
  BY <1>8 DEF LockAndCheck, RowIsFree, RowLocks, HoldsRow, In, TypeOK
<1>9. ASSUME NEW t \in Attempts, Answer(t) PROVE RowLocks'
  BY <1>9, RowReleased DEF Answer, TypeOK
<1>10. ASSUME NEW t \in Attempts, Crash(t) PROVE RowLocks'
  BY <1>10, RowReleased DEF Crash, TypeOK
<1>11. ASSUME NEW t \in Attempts, NEW cmd \in Commands, Request(t, cmd) PROVE RowLocks'
  BY <1>11, RowReleased DEF Request, TypeOK
<1>12. ASSUME NEW a \in Actors, ChangeRights(a) PROVE RowLocks'
  BY <1>12 DEF ChangeRights, RowLocks, HoldsRow, In
<1>13. ASSUME NEW t \in Attempts, Commit(t) PROVE RowLocks'
  BY <1>13, AttemptShape DEF Commit, RowLocks, HoldsRow, In, TypeOK, Commands
<1> QED
  BY <1>1, <1>2, <1>3, <1>4, <1>5, <1>6, <1>7, <1>8, <1>9, <1>10, <1>11, <1>12, <1>13
  DEF Next, Step

-----------------------------------------------------------------------------
(* Claims *)

\* A claim that an attempt holds is its alone and no committed row is under it:
\* what makes the row it will commit the first of its key.
Claims ==
  \A t \in Attempts : HoldsClaim(t) =>
    /\ Row(t) = NoRow
    /\ \A u \in Attempts \ {t} :
         HoldsClaim(u) => KeyOf(attempts[u].cmd) # KeyOf(attempts[t].cmd)

LEMMA ClaimsInitially == Init => Claims
BY DEF Init, Claims, HoldsClaim, In, Idle

\* The moved attempt ends up where it holds no claim.
LEMMA ClaimReleased ==
  ASSUME TypeOK, Claims, NEW t \in Attempts,
         ledger' = ledger, \A u \in Attempts \ {t} : attempts'[u] = attempts[u],
         attempts'[t].phase \notin {"claimed", "checked"}
  PROVE  Claims'
BY DEF Claims, HoldsClaim, Keyed, Row, In

\* The moved attempt keeps its claim and its command.
LEMMA ClaimKept ==
  ASSUME TypeOK, Claims, NEW t \in Attempts, HoldsClaim(t) \/ ~Keyed(t),
         ledger' = ledger, \A u \in Attempts \ {t} : attempts'[u] = attempts[u],
         attempts'[t].cmd = attempts[t].cmd
  PROVE  Claims'
BY DEF Claims, HoldsClaim, Keyed, Row, In

LEMMA ClaimsStep == TypeOK /\ Claims /\ [Next]_vars => Claims'
<1> SUFFICES ASSUME TypeOK, Claims, [Next]_vars PROVE Claims'
  OBVIOUS
<1> USE DEF Refuse, Goto, AnswerWith, Idle
<1>1. CASE UNCHANGED vars
  BY <1>1 DEF vars, Claims, HoldsClaim, Keyed, Row, In
<1>2. ASSUME NEW t \in Attempts, Permission(t) PROVE Claims'
  BY <1>2, ClaimReleased DEF Permission, TypeOK
<1>3. ASSUME NEW t \in Attempts, Lookup(t) PROVE Claims'
  BY <1>3, ClaimReleased DEF Lookup, ReplayOrMismatch, TypeOK
<1>4. ASSUME NEW t \in Attempts, Begin(t) PROVE Claims'
  BY <1>4, ClaimReleased DEF Begin, TypeOK
<1>5. ASSUME NEW t \in Attempts, Authorize(t) PROVE Claims'
  BY <1>5, ClaimReleased DEF Authorize, TypeOK
<1>6. ASSUME NEW t \in Attempts, Claim(t) PROVE Claims'
  BY <1>6 DEF Claim, ClaimIsFree, Claims, HoldsClaim, Keyed, Row, In, TypeOK
<1>7. ASSUME NEW t \in Attempts, Replay(t) PROVE Claims'
  BY <1>7, ClaimReleased DEF Replay, ReplayOrMismatch, TypeOK
<1>8. ASSUME NEW t \in Attempts, LockAndCheck(t) PROVE Claims'
  <2>1. CASE Goto(t, "checked")
    BY <1>8, <2>1, ClaimKept DEF LockAndCheck, HoldsClaim, In, TypeOK
  <2>2. CASE Refuse(t)
    BY <1>8, <2>2, ClaimReleased DEF LockAndCheck, TypeOK
  <2> QED
    BY <1>8, <2>1, <2>2 DEF LockAndCheck
<1>9. ASSUME NEW t \in Attempts, Answer(t) PROVE Claims'
  BY <1>9, ClaimReleased DEF Answer, TypeOK
<1>10. ASSUME NEW t \in Attempts, Crash(t) PROVE Claims'
  BY <1>10, ClaimReleased DEF Crash, TypeOK
<1>11. ASSUME NEW t \in Attempts, NEW cmd \in Commands, Request(t, cmd) PROVE Claims'
  BY <1>11, ClaimReleased DEF Request, TypeOK
<1>12. ASSUME NEW a \in Actors, ChangeRights(a) PROVE Claims'
  BY <1>12 DEF ChangeRights, Claims, HoldsClaim, Keyed, Row, In
<1>13. ASSUME NEW t \in Attempts, Commit(t) PROVE Claims'
  <2>1. \A u \in Attempts \ {t} : attempts'[u] = attempts[u]
    BY <1>13 DEF Commit, TypeOK
  <2>2. attempts'[t].phase = "answering"
    BY <1>13 DEF Commit, TypeOK
  <2>3. CASE Keyed(t)
    <3>1. HoldsClaim(t)
      BY <1>13, <2>3 DEF Commit, HoldsClaim, In
    <3>2. \A k \in LedgerKeys : k # KeyOf(attempts[t].cmd) => ledger'[k] = ledger[k]
      BY <1>13, <2>3 DEF Commit, RecordResult, TypeOK
    <3>3. ASSUME NEW u \in Attempts \ {t}, HoldsClaim(u) PROVE Row(u)' = NoRow
      <4>1. KeyOf(attempts[u].cmd) \in LedgerKeys
        BY <3>3, AttemptShape DEF HoldsClaim, Keyed, In
      <4> QED
        BY <2>1, <3>1, <3>2, <3>3, <4>1 DEF Claims, Row
    <3> QED
      BY <2>1, <2>2, <3>3 DEF Claims, HoldsClaim, Keyed, In
  <2>4. CASE ~Keyed(t)
    BY <1>13, <2>1, <2>2, <2>4, ClaimReleased DEF Commit, RecordResult
  <2> QED
    BY <2>3, <2>4
<1> QED
  BY <1>1, <1>2, <1>3, <1>4, <1>5, <1>6, <1>7, <1>8, <1>9, <1>10, <1>11, <1>12, <1>13
  DEF Next, Step

-----------------------------------------------------------------------------
(* Rights *)

\* Whoever holds his user row is still allowed to do what he asked for.
UserLocks == \A t \in Attempts : HoldsUserRow(t) => attempts[t].cmd.actor \in rights

LEMMA UserLocksInitially == Init => UserLocks
BY DEF Init, UserLocks, HoldsUserRow, In, Idle

LEMMA UserLocksStep == TypeOK /\ UserLocks /\ [Next]_vars => UserLocks'
<1> SUFFICES ASSUME TypeOK, UserLocks, [Next]_vars PROVE UserLocks'
  OBVIOUS
<1> USE DEF Refuse, Goto, AnswerWith, ReplayOrMismatch, Idle, UserLocks, HoldsUserRow, In
<1>1. CASE UNCHANGED vars
  BY <1>1 DEF vars
<1>2. ASSUME NEW t \in Attempts, Step(t) PROVE UserLocks'
  <2>1. rights' = rights /\ \A u \in Attempts \ {t} : attempts'[u] = attempts[u]
    BY <1>2 DEF Step, Permission, Lookup, Begin, Authorize, Claim, Replay, LockAndCheck,
                Commit, Answer, TypeOK
  <2>2. HoldsUserRow(t)' => attempts'[t].cmd.actor \in rights
    BY <1>2 DEF Step, Permission, Lookup, Begin, Authorize, Claim, Replay, LockAndCheck,
                Commit, Answer, TypeOK
  <2> QED
    BY <2>1, <2>2
<1>3. ASSUME NEW t \in Attempts, Crash(t) PROVE UserLocks'
  BY <1>3 DEF Crash, TypeOK
<1>4. ASSUME NEW t \in Attempts, NEW cmd \in Commands, Request(t, cmd) PROVE UserLocks'
  BY <1>4 DEF Request, TypeOK
<1>5. ASSUME NEW a \in Actors, ChangeRights(a) PROVE UserLocks'
  BY <1>5 DEF ChangeRights
<1> QED
  BY <1>1, <1>2, <1>3, <1>4, <1>5 DEF Next

-----------------------------------------------------------------------------
(* Effects, the ledger and the answers *)

\* What an attempt is about to answer was committed.
AnswersPending ==
  \A t \in Attempts : In(t, {"answering"}) =>
    [cmd |-> attempts[t].cmd, result |-> attempts[t].result] \in effects

\* No effect is ahead of its row.
EffectsPast ==
  \A e \in effects : e.result = e.cmd.expected + 1 /\ e.result <= version[e.cmd.scope]

History ==
  /\ LedgerIsTruthful
  /\ EffectsPast
  /\ NoLostUpdate
  /\ AnswersPending
  /\ AnswersAreTrue

LEMMA HistoryInitially == Init => History
<1> SUFFICES ASSUME Init PROVE History
  OBVIOUS
<1> QED
  BY DEF Init, History, LedgerIsTruthful, EffectsPast, NoLostUpdate, AnswersPending,
         AnswersAreTrue, In, Idle

\* A row tells what its command's effect was.
LEMMA RowTellsTheEffect ==
  ASSUME TypeOK, LedgerIsTruthful, NEW cmd \in KeyedCommands,
         ledger[KeyOf(cmd)] # NoRow, ledger[KeyOf(cmd)].fingerprint = cmd.expected
  PROVE  [cmd |-> cmd, result |-> ledger[KeyOf(cmd)].result] \in effects
<1>1. KeyOf(cmd) \in LedgerKeys
  BY DEF KeyOf, LedgerKeys, KeyedCommands
<1>2. PICK e \in effects : e.cmd.key # NoKey /\ KeyOf(e.cmd) = KeyOf(cmd)
  BY <1>1 DEF LedgerIsTruthful
<1>3. e \in [cmd : Commands, result : Results]
  BY DEF TypeOK
<1>4. ledger[KeyOf(cmd)] = [fingerprint |-> e.cmd.expected, result |-> e.result]
  BY <1>2 DEF LedgerIsTruthful
<1>5. e.cmd = cmd
  BY <1>2, <1>3, <1>4 DEF KeyOf, Commands, KeyedCommands
<1> QED
  BY <1>3, <1>4, <1>5

\* The row of an effect is no absent row.
LEMMA RowOfAnEffect ==
  ASSUME TypeOK, LedgerIsTruthful, NEW e \in effects, e.cmd.key # NoKey
  PROVE  ledger[KeyOf(e.cmd)] # NoRow
<1>1. e.result \in Results
  BY DEF TypeOK
<1>2. e.result # 0
  <2>1. PICK v \in Expected : e.result = v + 1
    BY <1>1 DEF Results
  <2>2. v \in Nat
    BY LedgerAssumption
  <2> QED
    BY <2>1, <2>2
<1>3. ledger[KeyOf(e.cmd)] = [fingerprint |-> e.cmd.expected, result |-> e.result]
  BY DEF LedgerIsTruthful
<1>4. ledger[KeyOf(e.cmd)].result = e.result
  BY <1>3
<1> QED
  BY <1>2, <1>4 DEF NoRow

\* The two ways out of a replay.
LEMMA Replayed ==
  ASSUME TypeOK, LedgerIsTruthful, NEW t \in Attempts,
         ~In(t, {"idle"}), ReplayOrMismatch(t)
  PROVE  /\ attempts' \in [Attempts -> Attempt]
         /\ \A u \in Attempts \ {t} : attempts'[u] = attempts[u]
         /\ \/ attempts'[t] = Idle
            \/ /\ attempts'[t].phase = "answering"
               /\ [cmd |-> attempts'[t].cmd, result |-> attempts'[t].result] \in effects
<1>1. attempts[t].cmd \in KeyedCommands
  BY AttemptShape DEF ReplayOrMismatch, Keyed, In
<1>2. attempts' \in [Attempts -> Attempt]
  BY ReplayedType DEF In
<1>3. CASE Refuse(t)
  BY <1>2, <1>3 DEF Refuse, TypeOK
<1>4. CASE AnswerWith(t, Row(t).result) /\ Row(t).fingerprint = attempts[t].cmd.expected
  BY <1>1, <1>2, <1>4, RowTellsTheEffect DEF AnswerWith, TypeOK, Row, ReplayOrMismatch
<1> QED
  BY <1>3, <1>4 DEF ReplayOrMismatch

\* Steps that commit nothing.
LEMMA QuietStep ==
  ASSUME History, UNCHANGED <<version, ledger, effects, answers>>,
         \A t \in Attempts : attempts'[t] = attempts[t] \/ attempts'[t].phase # "answering"
           \/ [cmd |-> attempts'[t].cmd, result |-> attempts'[t].result] \in effects
  PROVE  History'
BY DEF History, LedgerIsTruthful, EffectsPast, NoLostUpdate, AnswersPending, AnswersAreTrue, In

LEMMA HistoryStep == TypeOK /\ RowLocks /\ Claims /\ History /\ [Next]_vars => History'
<1> SUFFICES ASSUME TypeOK, RowLocks, Claims, History, [Next]_vars PROVE History'
  OBVIOUS
<1>1. CASE UNCHANGED vars
  BY <1>1, QuietStep DEF vars
<1>2. ASSUME NEW t \in Attempts,
             Permission(t) \/ Begin(t) \/ Authorize(t) \/ Claim(t) \/ LockAndCheck(t) \/ Crash(t)
      PROVE History'
  BY <1>2, QuietStep DEF Permission, Begin, Authorize, Claim, LockAndCheck, Crash,
                         Goto, Refuse, Idle, TypeOK
<1>3. ASSUME NEW t \in Attempts, Lookup(t) \/ Replay(t) PROVE History'
  <2>1. ~In(t, {"idle"}) /\ ReplayOrMismatch(t)
    BY <1>3 DEF Lookup, Replay, In
  <2>2. UNCHANGED <<version, ledger, effects, answers>>
    BY <1>3 DEF Lookup, Replay
  <2> QED
    <3>1. \A u \in Attempts : attempts'[u] = attempts[u] \/ attempts'[u].phase # "answering"
            \/ [cmd |-> attempts'[u].cmd, result |-> attempts'[u].result] \in effects
      <4>1. /\ \A u \in Attempts \ {t} : attempts'[u] = attempts[u]
            /\ \/ attempts'[t] = Idle
               \/ [cmd |-> attempts'[t].cmd, result |-> attempts'[t].result] \in effects
        BY <2>1, Replayed DEF History
      <4>2. Idle.phase # "answering"
        BY DEF Idle
      <4> QED
        BY <4>1, <4>2
    <3> QED
      BY <2>2, <3>1, QuietStep
<1>4. ASSUME NEW t \in Attempts, NEW cmd \in Commands, Request(t, cmd) PROVE History'
  BY <1>4, QuietStep DEF Request, TypeOK
<1>5. ASSUME NEW a \in Actors, ChangeRights(a) PROVE History'
  BY <1>5, QuietStep DEF ChangeRights
<1>6. ASSUME NEW t \in Attempts, Answer(t) PROVE History'
  <2>1. UNCHANGED <<version, ledger, effects>>
    BY <1>6 DEF Answer
  <2>2. AnswersAreTrue'
    BY <1>6 DEF Answer, History, AnswersPending, AnswersAreTrue
  <2>3. AnswersPending'
    BY <1>6 DEF Answer, History, AnswersPending, In, Idle, TypeOK
  <2> QED
    BY <2>1, <2>2, <2>3 DEF History, LedgerIsTruthful, EffectsPast, NoLostUpdate
<1>7. ASSUME NEW t \in Attempts, Commit(t) PROVE History'
  <2> DEFINE cmd == attempts[t].cmd
             result == cmd.expected + 1
             new == [cmd |-> cmd, result |-> result]
  <2>1. /\ cmd \in Commands /\ cmd.scope \in Scopes /\ cmd.expected \in Nat
        /\ version[cmd.scope] = cmd.expected
        /\ result \in Results /\ result \in Nat
    BY <1>7, AppliedVersion, LedgerAssumption DEF Commit, Commands
  <2>2. version' = [version EXCEPT ![cmd.scope] = result]
    BY <1>7, <2>1 DEF Commit
  <2>3. effects' = effects \cup {new}
    BY <1>7, <2>1 DEF Commit
  <2>4. AnswerWith(t, result) /\ RecordResult(t, result) /\ answers' = answers
    BY <1>7, <2>1 DEF Commit
  <2>5. \A e \in effects : /\ e.cmd \in Commands /\ e.result \in Nat
                           /\ e.result = e.cmd.expected + 1
                           /\ e.result <= version[e.cmd.scope]
                           /\ version[e.cmd.scope] \in Nat
    <3>1. \A e \in effects : e.cmd \in Commands /\ e.result \in Results
      BY DEF TypeOK
    <3>2. Results \subseteq Nat
      BY LedgerAssumption DEF Results
    <3> QED
      BY <3>1, <3>2 DEF History, EffectsPast, TypeOK, Commands
  <2>6. EffectsPast'
    BY <2>1, <2>2, <2>3, <2>5 DEF EffectsPast, TypeOK
  <2>7. NoLostUpdate'
    <3>1. \A e \in effects : e.cmd.scope = cmd.scope => e.result # result
      BY <2>1, <2>5
    <3> QED
      BY <2>1, <2>3, <3>1 DEF NoLostUpdate, History
  <2>8. AnswersPending'
    BY <2>3, <2>4 DEF AnswersPending, History, AnswerWith, In, TypeOK
  <2>9. AnswersAreTrue'
    BY <2>3, <2>4 DEF AnswersAreTrue, History
  <2>10. LedgerIsTruthful'
    <3>1. CASE Keyed(t)
      <4>1. KeyOf(cmd) \in LedgerKeys /\ ledger[KeyOf(cmd)] = NoRow
        BY <1>7, <3>1, AttemptShape DEF Commit, Claims, HoldsClaim, Keyed, Row, In
      <4>2. ledger' = [ledger EXCEPT ![KeyOf(cmd)] =
                         [fingerprint |-> cmd.expected, result |-> result]]
        BY <2>4, <3>1 DEF RecordResult
      <4>3. \A e \in effects : e.cmd.key # NoKey =>
              KeyOf(e.cmd) # KeyOf(cmd) /\ KeyOf(e.cmd) \in LedgerKeys
        <5>1. \A e \in effects : e.cmd.key # NoKey => ledger[KeyOf(e.cmd)] # NoRow
          BY RowOfAnEffect DEF History
        <5> QED
          BY <2>5, <4>1, <5>1 DEF KeyOf, LedgerKeys, Commands
      <4>4. \A e \in effects' : e.cmd.key # NoKey =>
              ledger'[KeyOf(e.cmd)] = [fingerprint |-> e.cmd.expected, result |-> e.result]
        BY <2>3, <4>1, <4>2, <4>3 DEF History, LedgerIsTruthful, TypeOK
      <4>5. \A k \in LedgerKeys : ledger'[k] # NoRow =>
              \E e \in effects' : e.cmd.key # NoKey /\ KeyOf(e.cmd) = k
        <5>1. ASSUME NEW k \in LedgerKeys, k # KeyOf(cmd), ledger'[k] # NoRow
              PROVE  \E e \in effects' : e.cmd.key # NoKey /\ KeyOf(e.cmd) = k
          BY <2>3, <4>2, <5>1 DEF History, LedgerIsTruthful, TypeOK
        <5>2. new \in effects' /\ new.cmd.key # NoKey /\ KeyOf(new.cmd) = KeyOf(cmd)
          BY <2>3, <3>1 DEF Keyed
        <5> QED
          BY <5>1, <5>2
      <4> QED
        BY <4>4, <4>5 DEF LedgerIsTruthful
    <3>2. CASE ~Keyed(t)
      BY <2>3, <2>4, <3>2 DEF History, LedgerIsTruthful, RecordResult, Keyed
    <3> QED
      BY <3>1, <3>2
  <2> QED
    BY <2>6, <2>7, <2>8, <2>9, <2>10 DEF History
<1> QED
  BY <1>1, <1>2, <1>3, <1>4, <1>5, <1>6, <1>7 DEF Next, Step

-----------------------------------------------------------------------------
(* The invariant and what it implies *)

IInv == TypeOK /\ RowLocks /\ Claims /\ UserLocks /\ History

\* The inductive invariant: what attempts hold, and what the history and the
\* ledger tell of each other.
THEOREM Invariance == Spec => []IInv
<1>1. Init => IInv
  BY TypeInitially, RowLocksInitially, ClaimsInitially, UserLocksInitially,
     HistoryInitially DEF IInv
<1>2. IInv /\ [Next]_vars => IInv'
  BY TypeStep, RowLocksStep, ClaimsStep, UserLocksStep, HistoryStep DEF IInv
<1> QED
  BY <1>1, <1>2, PTL DEF Spec

\* Every variable keeps its type, whatever attempts and crashes interleave.
THEOREM TypeCorrectness == Spec => []TypeOK
<1>1. IInv => TypeOK
  BY DEF IInv
<1> QED
  BY <1>1, Invariance, PTL

\* A ledger row is the record of exactly one effect, with its input and its
\* result.
THEOREM LedgerTruth == Spec => []LedgerIsTruthful
<1>1. IInv => LedgerIsTruthful
  BY DEF IInv, History
<1> QED
  BY <1>1, Invariance, PTL

\* Two effects under a key would have to share its row: the row names input
\* and result, so they are one.
LEMMA OneRowOneEffect == TypeOK /\ LedgerIsTruthful => OneEffectPerKey
<1> SUFFICES ASSUME TypeOK, LedgerIsTruthful, NEW e \in effects, NEW f \in effects,
                    e.cmd.key # NoKey, KeyOf(e.cmd) = KeyOf(f.cmd)
             PROVE  e = f
  BY DEF OneEffectPerKey
<1>1. /\ e \in [cmd : Commands, result : Results]
      /\ f \in [cmd : Commands, result : Results]
  BY DEF TypeOK
<1>2. f.cmd.key # NoKey
  BY DEF KeyOf
<1>3. e.cmd.expected = f.cmd.expected /\ e.result = f.result
  <2>1. /\ ledger[KeyOf(e.cmd)] = [fingerprint |-> e.cmd.expected, result |-> e.result]
        /\ ledger[KeyOf(f.cmd)] = [fingerprint |-> f.cmd.expected, result |-> f.result]
    BY <1>2 DEF LedgerIsTruthful
  <2> QED
    BY <2>1
<1>4. e.cmd = f.cmd
  BY <1>1, <1>3 DEF KeyOf, Commands
<1> QED
  BY <1>1, <1>3, <1>4

\* No key ever has two effects, for any number of concurrent senders.
THEOREM AtMostOnce == Spec => []OneEffectPerKey
<1>1. IInv => OneEffectPerKey
  BY OneRowOneEffect DEF IInv, History
<1> QED
  BY <1>1, Invariance, PTL

\* No client is told of an effect that was not made.
THEOREM TrueAnswers == Spec => []AnswersAreTrue
<1>1. IInv => AnswersAreTrue
  BY DEF IInv, History
<1> QED
  BY <1>1, Invariance, PTL

\* No version of a row is consumed twice.
THEOREM NoUpdateIsLost == Spec => []NoLostUpdate
<1>1. IInv => NoLostUpdate
  BY DEF IInv, History
<1> QED
  BY <1>1, Invariance, PTL

\* A command commits under the right it was authorized with.
THEOREM Authorized == Spec => EffectsAreAuthorized
<1> DEFINE A == \A e \in effects' \ effects : e.cmd.actor \in rights /\ e.cmd.actor \in rights'
<1>1. IInv /\ [Next]_vars => [A]_vars
  <2> SUFFICES ASSUME IInv, Next PROVE A
    OBVIOUS
  <2>1. ASSUME NEW t \in Attempts, Commit(t) PROVE A
    <3>1. attempts[t].cmd.actor \in rights /\ rights' = rights
      BY <2>1 DEF Commit, IInv, UserLocks, HoldsUserRow, In
    <3> QED
      BY <2>1, <3>1 DEF Commit
  <2>2. CASE \A t \in Attempts : ~Commit(t)
    <3>1. effects' = effects
      BY <2>2 DEF Next, Step, Permission, Lookup, Begin, Authorize, Claim, Replay,
                  LockAndCheck, Answer, Crash, Request, ChangeRights
    <3> QED
      BY <3>1
  <2> QED
    BY <2>1, <2>2
<1> QED
  BY <1>1, Invariance, PTL DEF Spec, EffectsAreAuthorized

-----------------------------------------------------------------------------
(* Refinement *)

\* Results are compared as sets; an effect under a key is the only one.
LEMMA DoneWhenCommitted ==
  ASSUME IInv, NEW t \in Attempts, Commit(t), Keyed(t)
  PROVE  \E r \in KeyedCommands : Once!Do(r)
<1> DEFINE cmd == attempts[t].cmd
           result == cmd.expected + 1
           new == [cmd |-> cmd, result |-> result]
<1>1. cmd \in KeyedCommands /\ result \in Results /\ effects' = effects \cup {new}
  BY AppliedVersion, AttemptShape DEF IInv, Commit, In, Keyed
<1>2. \A e \in effects : e.cmd.key # NoKey => KeyOf(e.cmd) # KeyOf(cmd)
  <2>1. ledger[KeyOf(cmd)] = NoRow
    BY DEF IInv, Claims, HoldsClaim, In, Row, Commit
  <2>2. \A e \in effects : e.cmd.key # NoKey => ledger[KeyOf(e.cmd)] # NoRow
    BY RowOfAnEffect DEF IInv, History
  <2> HIDE DEF cmd
  <2> QED
    BY <2>1, <2>2
<1>3. \A q \in KeyedCommands : q.key # NoKey
  BY LedgerAssumption DEF KeyedCommands
<1>4. \A q \in KeyedCommands : KeyOf(q) = KeyOf(cmd) => ResultsOf(effects)[q] = {}
  BY <1>2, <1>3 DEF ResultsOf
<1>5. ResultsOf(effects') = [ResultsOf(effects) EXCEPT ![cmd] = {result}]
  <2>1. ASSUME NEW q \in KeyedCommands, q # cmd
        PROVE  ResultsOf(effects')[q] = ResultsOf(effects)[q]
    BY <1>1, <2>1 DEF ResultsOf
  <2>2. ResultsOf(effects')[cmd] = {result}
    <3>1. {f \in effects' : f.cmd = cmd} = {new}
      BY <1>1, <1>2, <1>3
    <3>2. ResultsOf(effects')[cmd] = {e.result : e \in {f \in effects' : f.cmd = cmd}}
      BY <1>1 DEF ResultsOf
    <3>3. new.result = result
      OBVIOUS
    <3> HIDE DEF new, result
    <3> QED
      BY <3>1, <3>2, <3>3
  <2>3. /\ ResultsOf(effects') = [q \in KeyedCommands |-> ResultsOf(effects')[q]]
        /\ ResultsOf(effects) = [q \in KeyedCommands |-> ResultsOf(effects)[q]]
    BY DEF ResultsOf
  <2> HIDE DEF cmd, result, new
  <2> QED
    BY <1>1, <2>1, <2>2, <2>3
<1>6. answers' = answers
  BY DEF Commit
<1>7. Once!Do(cmd)
  BY <1>1, <1>4, <1>5, <1>6 DEF Once!Do
<1> QED
  BY <1>1, <1>7

LEMMA ToldWhenAnswered ==
  ASSUME IInv, NEW t \in Attempts, Answer(t), Keyed(t)
  PROVE  \E r \in KeyedCommands : Once!Tell(r)
<1> DEFINE cmd == attempts[t].cmd
           new == [cmd |-> cmd, result |-> attempts[t].result]
<1>1. cmd \in KeyedCommands /\ new \in effects /\ answers' = answers \cup {new}
  BY AttemptShape DEF IInv, History, AnswersPending, Answer, In, Keyed
<1>2. \A e \in effects : e.cmd = cmd => e = new
  <2>1. cmd.key # NoKey
    BY DEF Keyed
  <2>2. OneEffectPerKey
    BY OneRowOneEffect DEF IInv, History
  <2> QED
    BY <1>1, <2>1, <2>2 DEF OneEffectPerKey
<1>3. ResultsOf(effects)[cmd] = {new.result}
  BY <1>1, <1>2 DEF ResultsOf
<1>4. \A e \in answers : e.cmd = cmd => e = new
  BY <1>2 DEF IInv, History, AnswersAreTrue
<1>5. ResultsOf(answers') = [ResultsOf(answers) EXCEPT ![cmd] = {new.result}]
  <2>1. ASSUME NEW q \in KeyedCommands, q # cmd
        PROVE  ResultsOf(answers')[q] = ResultsOf(answers)[q]
    BY <1>1, <2>1 DEF ResultsOf
  <2>2. ResultsOf(answers')[cmd] = {new.result}
    BY <1>1, <1>4 DEF ResultsOf
  <2>3. /\ ResultsOf(answers') = [q \in KeyedCommands |-> ResultsOf(answers')[q]]
        /\ ResultsOf(answers) = [q \in KeyedCommands |-> ResultsOf(answers)[q]]
    BY DEF ResultsOf
  <2> HIDE DEF cmd, new
  <2> QED
    BY <1>1, <2>1, <2>2, <2>3
<1>6. effects' = effects
  BY DEF Answer
<1>7. Once!Tell(cmd)
  BY <1>1, <1>3, <1>5, <1>6 DEF Once!Tell
<1> QED
  BY <1>1, <1>7

\* A command without a key leaves no trace the client could repeat.
LEMMA UnkeyedIsStutter ==
  ASSUME NEW history, NEW new, new.cmd.key = NoKey
  PROVE  ResultsOf(history \cup {new}) = ResultsOf(history)
<1>1. new.cmd \notin KeyedCommands
  BY LedgerAssumption DEF KeyedCommands
<1> QED
  BY <1>1 DEF ResultsOf

\* The ledger implements the promise of an Idempotency-Key.
THEOREM Implementation == Spec => KeepsThePromise
<1>1. Init => Once!Init
  BY DEF Init, Once!Init, ResultsOf
<1>2. IInv /\ [Next]_vars => [Once!Next]_(Once!vars)
  <2> SUFFICES ASSUME IInv, [Next]_vars PROVE [Once!Next]_(Once!vars)
    OBVIOUS
  <2>1. ASSUME NEW t \in Attempts, Commit(t) PROVE [Once!Next]_(Once!vars)
    <3>1. CASE Keyed(t)
      BY <2>1, <3>1, DoneWhenCommitted DEF Once!Next
    <3>2. CASE ~Keyed(t)
      BY <2>1, <3>2, UnkeyedIsStutter DEF Commit, Keyed, Once!vars
    <3> QED
      BY <3>1, <3>2
  <2>2. ASSUME NEW t \in Attempts, Answer(t) PROVE [Once!Next]_(Once!vars)
    <3>1. CASE Keyed(t)
      BY <2>2, <3>1, ToldWhenAnswered DEF Once!Next
    <3>2. CASE ~Keyed(t)
      BY <2>2, <3>2, UnkeyedIsStutter DEF Answer, Keyed, Once!vars
    <3> QED
      BY <3>1, <3>2
  <2>3. CASE \A t \in Attempts : ~Commit(t) /\ ~Answer(t)
    <3>1. UNCHANGED <<effects, answers>>
      BY <2>3 DEF Next, Step, Permission, Lookup, Begin, Authorize, Claim, Replay,
                  LockAndCheck, Crash, Request, ChangeRights, vars
    <3> QED
      BY <3>1 DEF Once!vars, ResultsOf
  <2> QED
    BY <2>1, <2>2, <2>3
<1> QED
  BY <1>1, <1>2, Invariance, PTL DEF Spec, KeepsThePromise, Once!Spec
=============================================================================
