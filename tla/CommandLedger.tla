---------------------------- MODULE CommandLedger ----------------------------
(***************************************************************************)
(* The GPR-2 command ledger (command-ledger.ts, migration 027) under the   *)
(* guard every /v2 command passes (gpr2-command-guard.ts).  A request is   *)
(* an attempt that walks through the guard, then one PostgreSQL            *)
(* transaction: authorize, claim the key, lock and check the row, write    *)
(* the effect and the result, commit, answer.  Attempts interleave, die    *)
(* anywhere, lose their answers and are sent again; rights come and go.    *)
(* The command executed stands for completeWorkPlanning: it locks its row, *)
(* checks the version the client saw and bumps it.                         *)
(***************************************************************************)
EXTENDS Integers, FiniteSets

CONSTANTS
  Actors,
  Scopes,        \* the aggregates commands are addressed to
  Keys,          \* Idempotency-Keys a client may choose
  NoKey,         \* a request without one
  Expected,      \* versions a client may have seen
  Attempts,      \* server processes handling a request
  MaxRequests    \* bound: requests clients send altogether

ASSUME LedgerAssumption ==
  /\ NoKey \notin Keys
  /\ Expected \subseteq Nat
  /\ MaxRequests \in Nat

\* The expected version stands for the whole semantic input, which is what
\* the fingerprint is computed from.
Commands == [actor : Actors, scope : Scopes, key : Keys \cup {NoKey}, expected : Expected]
KeyedCommands == [actor : Actors, scope : Scopes, key : Keys, expected : Expected]
KeyOf(cmd) == <<cmd.actor, cmd.scope, cmd.key>>
LedgerKeys == Actors \X Scopes \X Keys
Results == {v + 1 : v \in Expected}   \* the version a command applied

NoRow == [result |-> 0]
Rows == [fingerprint : Expected, result : Results] \cup {NoRow}

VARIABLES
  rights,     \* actors whose current role has the grant
  version,    \* [Scopes -> Nat] committed row versions
  ledger,     \* [LedgerKeys -> Rows] committed ledger rows
  attempts,   \* [Attempts -> Attempt]
  requests,   \* requests sent so far
  effects,    \* history: what was committed, as [cmd, result]
  answers     \* history: what clients were told, as [cmd, result]

vars == <<rights, version, ledger, attempts, requests, effects, answers>>

Idle == [phase |-> "idle"]
\* received: before the guard.  admitted: past it, before the transaction.
\* begun: in the transaction.  authorized: the user row is share-locked.
\* claimed: the ledger row is inserted, uncommitted.  checked: the aggregate
\* row is locked and was seen at the expected version.  answering: over, the
\* answer on its way.
RunningPhases == {"received", "admitted", "begun", "authorized", "claimed", "checked"}
Attempt ==
  [phase : RunningPhases, cmd : Commands]
    \cup [phase : {"answering"}, cmd : Commands, result : Results]
    \cup {Idle}

In(t, phases) == attempts[t].phase \in phases
Keyed(t) == attempts[t].cmd.key # NoKey
Row(t) == ledger[KeyOf(attempts[t].cmd)]

\* Mutated form: authorize reads the user without FOR SHARE.
NoUserRow(t) == In(t, {})

HoldsUserRow(t) == In(t, {"authorized", "claimed", "checked"})
HoldsClaim(t) == In(t, {"claimed", "checked"}) /\ Keyed(t)
HoldsRow(t) == In(t, {"checked"})

Goto(t, phase) ==
  attempts' = [attempts EXCEPT ![t] = [phase |-> phase, cmd |-> attempts[t].cmd]]
AnswerWith(t, result) ==
  attempts' = [attempts EXCEPT ![t] =
    [phase |-> "answering", cmd |-> attempts[t].cmd, result |-> result]]
\* Mutated form: the error is caught and the transaction left open.
RefuseWithoutRollback(t) == attempts' = attempts

\* Every refusal throws: the transaction rolls back and with it the claim.
Refuse(t) == attempts' = [attempts EXCEPT ![t] = Idle]

Init ==
  /\ rights \in SUBSET Actors
  /\ version = [s \in Scopes |-> 0]
  /\ ledger = [k \in LedgerKeys |-> NoRow]
  /\ attempts = [t \in Attempts |-> Idle]
  /\ requests = 0
  /\ effects = {}
  /\ answers = {}

-----------------------------------------------------------------------------
(* The client *)

\* Sent for the first time, again after no answer came, or twice at once; a
\* client is free to send any version.
Request(t, cmd) ==
  /\ In(t, {"idle"})
  /\ requests < MaxRequests
  /\ attempts' = [attempts EXCEPT ![t] = [phase |-> "received", cmd |-> cmd]]
  /\ requests' = requests + 1
  /\ UNCHANGED <<rights, version, ledger, effects, answers>>

(* The guard *)

\* authenticate() read the role from the database for this request.
Permission(t) ==
  /\ In(t, {"received"})
  /\ IF attempts[t].cmd.actor \in rights THEN Goto(t, "admitted") ELSE Refuse(t)
  /\ UNCHANGED <<rights, version, ledger, requests, effects, answers>>

\* replayOrMismatch
ReplayOrMismatch(t) ==
  /\ Keyed(t)
  /\ Row(t) # NoRow
  /\ IF Row(t).fingerprint = attempts[t].cmd.expected
       THEN AnswerWith(t, Row(t).result)
       ELSE Refuse(t)

\* The replay hook's look-up, outside any transaction, finds a row ...
Lookup(t) ==
  /\ In(t, {"admitted"})
  /\ ReplayOrMismatch(t)
  /\ UNCHANGED <<rights, version, ledger, requests, effects, answers>>

\* ... or finds none, or the command entered through a service that has no
\* such hook (createWork, completeWorkPlanning): the transaction begins.
Begin(t) ==
  /\ In(t, {"admitted"})
  /\ Goto(t, "begun")
  /\ UNCHANGED <<rights, version, ledger, requests, effects, answers>>

(* runLedgered *)

\* The user row is read FOR SHARE: it stays as it is until the end.
Authorize(t) ==
  /\ In(t, {"begun"})
  /\ IF attempts[t].cmd.actor \in rights THEN Goto(t, "authorized") ELSE Refuse(t)
  /\ UNCHANGED <<rights, version, ledger, requests, effects, answers>>

\* Mutated form: a look for a committed row, and no unique key behind it.
NobodyCommitted(t) == Row(t) = NoRow

\* A twin that inserted the same key and has not ended blocks the insert.
ClaimIsFree(t) ==
  \A u \in Attempts \ {t} : HoldsClaim(u) => KeyOf(attempts[u].cmd) # KeyOf(attempts[t].cmd)

\* INSERT ... ON CONFLICT DO NOTHING returned the row; without a key the
\* command is simply executed.
Claim(t) ==
  /\ In(t, {"authorized"})
  /\ Keyed(t) => ClaimIsFree(t) /\ Row(t) = NoRow
  /\ Goto(t, "claimed")
  /\ UNCHANGED <<rights, version, ledger, requests, effects, answers>>

\* It conflicted with a committed row.
Replay(t) ==
  /\ In(t, {"authorized"})
  /\ ReplayOrMismatch(t)
  /\ UNCHANGED <<rights, version, ledger, requests, effects, answers>>

\* Mutated form: SELECT without FOR UPDATE.
AnyRow(t) == attempts[t].cmd.scope \in Scopes

RowIsFree(t) ==
  \A u \in Attempts \ {t} : HoldsRow(u) => attempts[u].cmd.scope # attempts[t].cmd.scope

\* execute: SELECT ... FOR UPDATE, then checkVersion on the row it returned.
LockAndCheck(t) ==
  /\ In(t, {"claimed"})
  /\ RowIsFree(t)
  /\ IF version[attempts[t].cmd.scope] = attempts[t].cmd.expected
       THEN Goto(t, "checked")
       ELSE Refuse(t)
  /\ UNCHANGED <<rights, version, ledger, requests, effects, answers>>

RecordResult(t, result) ==
  IF Keyed(t)
    THEN ledger' = [ledger EXCEPT ![KeyOf(attempts[t].cmd)] =
           [fingerprint |-> attempts[t].cmd.expected, result |-> result]]
    ELSE UNCHANGED ledger

\* SET version = version + 1 ... RETURNING, the result onto the claimed row,
\* and COMMIT: all of it becomes visible at once.
Commit(t) ==
  LET cmd == attempts[t].cmd
      result == version[cmd.scope] + 1
  IN
  /\ In(t, {"checked"})
  /\ version' = [version EXCEPT ![cmd.scope] = result]
  /\ RecordResult(t, result)
  /\ AnswerWith(t, result)
  /\ effects' = effects \cup {[cmd |-> cmd, result |-> result]}
  /\ UNCHANGED <<rights, requests, answers>>

Answer(t) ==
  /\ In(t, {"answering"})
  /\ answers' = answers \cup {[cmd |-> attempts[t].cmd, result |-> attempts[t].result]}
  /\ attempts' = [attempts EXCEPT ![t] = Idle]
  /\ UNCHANGED <<rights, version, ledger, requests, effects>>

(* What goes wrong around it *)

\* The process or its connection dies: PostgreSQL rolls back what was not
\* committed, and the client hears nothing even of what was.
Crash(t) ==
  /\ ~In(t, {"idle"})
  /\ attempts' = [attempts EXCEPT ![t] = Idle]
  /\ UNCHANGED <<rights, version, ledger, requests, effects, answers>>

\* UPDATE users: waits for every share lock on the row.
ChangeRights(a) ==
  /\ \A t \in Attempts : HoldsUserRow(t) => attempts[t].cmd.actor # a
  /\ rights' = IF a \in rights THEN rights \ {a} ELSE rights \cup {a}
  /\ UNCHANGED <<version, ledger, attempts, requests, effects, answers>>

Step(t) ==
  \/ Permission(t) \/ Lookup(t) \/ Begin(t) \/ Authorize(t) \/ Claim(t)
  \/ Replay(t) \/ LockAndCheck(t) \/ Commit(t) \/ Answer(t)

Next ==
  \/ \E t \in Attempts : Step(t) \/ Crash(t)
  \/ \E t \in Attempts, cmd \in Commands : Request(t, cmd)
  \/ \E a \in Actors : ChangeRights(a)

Spec == Init /\ [][Next]_vars

\* PostgreSQL ends every wait whose holder ends, and node keeps running.
FairSpec == Spec /\ \A t \in Attempts : WF_vars(Step(t))

-----------------------------------------------------------------------------
(* Properties *)

\* Every variable holds what the program can hold.
TypeOK ==
  /\ rights \subseteq Actors
  /\ version \in [Scopes -> Nat]
  /\ ledger \in [LedgerKeys -> Rows]
  /\ attempts \in [Attempts -> Attempt]
  /\ requests \in 0..MaxRequests
  /\ effects \subseteq [cmd : Commands, result : Results]
  /\ answers \subseteq [cmd : Commands, result : Results]

\* One effect per key: two sendings under a key, concurrent or after a crash
\* or a lost answer, never both commit ("one effect", command-ledger.ts:18).
OneEffectPerKey ==
  \A e, f \in effects :
    e.cmd.key # NoKey /\ KeyOf(e.cmd) = KeyOf(f.cmd) => e = f

\* A ledger row exists exactly for the keyed commands that took effect, with
\* the input they carried and the result they produced: a row never records
\* a success that did not happen (command-ledger.ts:22).
LedgerIsTruthful ==
  /\ \A e \in effects : e.cmd.key # NoKey =>
       ledger[KeyOf(e.cmd)] = [fingerprint |-> e.cmd.expected, result |-> e.result]
  /\ \A k \in LedgerKeys : ledger[k] # NoRow =>
       \E e \in effects : e.cmd.key # NoKey /\ KeyOf(e.cmd) = k

\* Nobody is told of an effect that was not made, for his own command with
\* his own input: not after a crash, and not out of another actor's row.
AnswersAreTrue == answers \subseteq effects

\* Every committed effect was computed from the version its client saw, and
\* no two effects consumed the same version of a row.
NoLostUpdate ==
  /\ \A e \in effects : e.result = e.cmd.expected + 1
  /\ \A e, f \in effects : e.cmd.scope = f.cmd.scope /\ e.result = f.result => e = f

\* A command takes effect only while its actor holds the right, however long
\* ago the guard let it in (gpr2-r05-support.ts:18-20).
EffectsAreAuthorized ==
  [][\A e \in effects' \ effects : e.cmd.actor \in rights /\ e.cmd.actor \in rights']_vars

\* Whatever waits for a claim or a row, each request ends.
RequestsEnd == \A t \in Attempts : []<>In(t, {"idle"})

\* The keyed commands are executed at most once per key and truly answered.
ResultsOf(history) ==
  [cmd \in KeyedCommands |-> {e.result : e \in {f \in history : f.cmd = cmd}}]

Once == INSTANCE OnceOnly WITH
  Requests <- KeyedCommands, Results <- Results, KeyOf <- KeyOf,
  done <- ResultsOf(effects), told <- ResultsOf(answers)

\* The ledger keeps OnceOnly's promise.
KeepsThePromise == Once!Spec
=============================================================================
