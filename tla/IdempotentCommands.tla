------------------------- MODULE IdempotentCommands -------------------------
(***************************************************************************)
(* The older idempotency ledger (security.ts, migration 014) and the       *)
(* commands of service.ts and aosr-service.ts that opted into it.  They    *)
(* claim their key at different moments: before they look at any row, with *)
(* the row already locked, or after their own checks.  One portion, its    *)
(* package and the package's closing case; a key reused on another row is  *)
(* the same to the ledger as one reused with other input.                  *)
(***************************************************************************)
EXTENDS Integers, FiniteSets

CONSTANTS
  Actors,
  Keys,          \* Idempotency-Keys a client may choose
  NoKey,         \* a request without one
  Inputs,        \* the versions (or quantities) a request may carry
  Operations,    \* those of AllOperations that clients use
  Attempts,      \* server processes handling a request
  MaxRequests    \* bound: requests clients send altogether

AllOperations ==
  {"PORTION_FACT", "CUSTOMER_ACCEPTED_QUANTITY", "SDO_HANDOFF", "SDO_RETURN_TO_PTO",
   "SDO_STATUS_CHANGE"}

ASSUME CommandsAssumption ==
  /\ NoKey \notin Keys
  /\ Inputs \subseteq Nat
  /\ Operations \subseteq AllOperations
  /\ IsFiniteSet(Attempts)
  /\ MaxRequests \in Nat

Commands == [actor : Actors, op : Operations, key : Keys \cup {NoKey}, input : Inputs]
KeyedCommands == [actor : Actors, op : Operations, key : Keys, input : Inputs]
KeyOf(cmd) == <<cmd.op, cmd.key>>
LedgerKeys == Operations \X Keys
Responses == 1..MaxRequests   \* the row each command returned, by order of commits

NoRow == [response |-> 0]
LedgerRows == [createdBy : Actors, payload : Inputs, response : Responses] \cup {NoRow}

VARIABLES
  rows,       \* the committed rows: three versions, custody and acceptance
  ledger,     \* [LedgerKeys -> LedgerRows] committed idempotent_commands
  attempts,   \* [Attempts -> Attempt]
  requests,   \* requests sent so far
  commits,    \* commands committed so far
  effects,    \* history: what was committed, as [cmd, result]
  answers     \* history: what clients were answered, as [cmd, result]

vars == <<rows, ledger, attempts, requests, commits, effects, answers>>

\* locked: package_locked of the closing case, the package is with SDO.
\* accepted: the package is ACCEPTED_BY_CUSTOMER, otherwise in correction.
Rows == [portion : Nat, package : Nat, case : Nat, locked : BOOLEAN, accepted : BOOLEAN]

Idle == [phase |-> "idle"]
\* locked: the rows of LockedFirst are held, nothing claimed.  claimed: the
\* ledger row is inserted, uncommitted.  checked: all rows held, all guards
\* passed.  refused, answering: over, the answer on its way.
Phases == {"begun", "locked", "claimed", "checked", "refused"}
Attempt ==
  [phase : Phases, cmd : Commands]
    \cup [phase : {"answering"}, cmd : Commands, result : Responses]
    \cup {Idle}

In(t, phases) == attempts[t].phase \in phases
Cmd(t) == attempts[t].cmd
Keyed(t) == Cmd(t).key # NoKey
LedgerRow(t) == ledger[KeyOf(Cmd(t))]

\* recordPortionFact locks the portion and recordCustomerAcceptedQuantity the
\* package before they claim; the closing commands claim first.
LockedFirst(op) ==
  CASE op = "PORTION_FACT" -> {"portion"}
    [] op = "CUSTOMER_ACCEPTED_QUANTITY" -> {"package"}
    [] OTHER -> {}

\* Mutated form: the closing commands rely on their claim and lock no row.
WriteLocksOfPortionsOnly(op) ==
  CASE op = "PORTION_FACT" -> {"portion"}
    [] op = "CUSTOMER_ACCEPTED_QUANTITY" -> {"package", "portion"}
    [] OTHER -> {}

\* Everything locked when a command writes.  A case is only ever locked under
\* its package, so the package stands for both.
LockedAtWrite(op) ==
  CASE op = "PORTION_FACT" -> {"portion"}
    [] op = "CUSTOMER_ACCEPTED_QUANTITY" -> {"package", "portion"}
    [] OTHER -> {"package"}

Locks(t) ==
  IF In(t, {"locked", "claimed"}) THEN LockedFirst(Cmd(t).op)
  ELSE IF In(t, {"checked"}) THEN LockedAtWrite(Cmd(t).op)
  ELSE {}
CanLock(t, names) == \A u \in Attempts \ {t} : Locks(u) \cap names = {}

HoldsClaim(t) == In(t, {"claimed", "checked"}) /\ Keyed(t)

Goto(t, phase) == attempts' = [attempts EXCEPT ![t] = [phase |-> phase, cmd |-> Cmd(t)]]
AnswerWith(t, result) ==
  attempts' = [attempts EXCEPT ![t] =
    [phase |-> "answering", cmd |-> Cmd(t), result |-> result]]

Init ==
  /\ rows = [portion |-> 0, package |-> 0, case |-> 0, locked |-> FALSE, accepted |-> TRUE]
  /\ ledger = [k \in LedgerKeys |-> NoRow]
  /\ attempts = [t \in Attempts |-> Idle]
  /\ requests = 0
  /\ commits = 0
  /\ effects = {}
  /\ answers = {}

-----------------------------------------------------------------------------
\* Sent for the first time, again after no answer came, or twice at once.
Request(t, cmd) ==
  /\ In(t, {"idle"})
  /\ requests < MaxRequests
  /\ attempts' = [attempts EXCEPT ![t] = [phase |-> "begun", cmd |-> cmd]]
  /\ requests' = requests + 1
  /\ UNCHANGED <<rows, ledger, commits, effects, answers>>

\* The gate recordCustomerAcceptedQuantity passes before it claims: the
\* package was presented and is not with SDO.
Gate(op) == op = "CUSTOMER_ACCEPTED_QUANTITY" => rows.accepted /\ ~rows.locked

Lock(t) ==
  /\ In(t, {"begun"})
  /\ LockedFirst(Cmd(t).op) # {}
  /\ CanLock(t, LockedFirst(Cmd(t).op))
  /\ Goto(t, IF Gate(Cmd(t).op) THEN "locked" ELSE "refused")
  /\ UNCHANGED <<rows, ledger, requests, commits, effects, answers>>

AtClaim(t) ==
  \/ In(t, {"locked"})
  \/ In(t, {"begun"}) /\ LockedFirst(Cmd(t).op) = {}

\* A twin that inserted the same key and has not ended blocks the insert.
ClaimIsFree(t) ==
  \A u \in Attempts \ {t} : HoldsClaim(u) => KeyOf(Cmd(u)) # KeyOf(Cmd(t))

\* claimIdempotentCommand: no row, and the insert succeeds; without a key it
\* does nothing.
Claim(t) ==
  /\ AtClaim(t)
  /\ Keyed(t) => ClaimIsFree(t) /\ LedgerRow(t) = NoRow
  /\ Goto(t, "claimed")
  /\ UNCHANGED <<rows, ledger, requests, commits, effects, answers>>

\* The row is of the same user and the same input.  Mutated form: whoever knows
\* the key is answered.
SameUser(row, cmd) == row.createdBy = cmd.actor
SameCommand(row, cmd) == row.createdBy = cmd.actor /\ row.payload = cmd.input

\* checkVersion and the business guards, on rows just locked.
Admits(cmd) ==
  CASE cmd.op = "PORTION_FACT" -> rows.portion = cmd.input
    [] cmd.op = "SDO_HANDOFF" -> rows.package = cmd.input /\ rows.accepted /\ ~rows.locked
    [] cmd.op = "SDO_RETURN_TO_PTO" -> rows.case = cmd.input /\ rows.locked /\ rows.accepted
    [] cmd.op = "SDO_STATUS_CHANGE" -> rows.case = cmd.input /\ rows.locked
    [] OTHER -> TRUE

\* Mutated form: the version is checked before the response is returned.
ReplayIfCurrent(t) ==
  /\ AtClaim(t)
  /\ Keyed(t)
  /\ LedgerRow(t) # NoRow
  /\ IF SameCommand(LedgerRow(t), Cmd(t)) /\ Admits(Cmd(t))
       THEN AnswerWith(t, LedgerRow(t).response)
       ELSE Goto(t, "refused")
  /\ UNCHANGED <<rows, ledger, requests, commits, effects, answers>>

\* A row is there, at the first look or because the insert lost a race: the
\* stored response, if the same user sent the same data.
Replay(t) ==
  /\ AtClaim(t)
  /\ Keyed(t)
  /\ LedgerRow(t) # NoRow
  /\ IF SameCommand(LedgerRow(t), Cmd(t))
       THEN AnswerWith(t, LedgerRow(t).response)
       ELSE Goto(t, "refused")
  /\ UNCHANGED <<rows, ledger, requests, commits, effects, answers>>

Check(t) ==
  /\ In(t, {"claimed"})
  /\ CanLock(t, LockedAtWrite(Cmd(t).op))
  /\ Goto(t, IF Admits(Cmd(t)) THEN "checked" ELSE "refused")
  /\ UNCHANGED <<rows, ledger, requests, commits, effects, answers>>

Written(op) ==
  CASE op \in {"PORTION_FACT", "CUSTOMER_ACCEPTED_QUANTITY"} ->
         [rows EXCEPT !.portion = rows.portion + 1]
    [] op = "SDO_HANDOFF" -> [rows EXCEPT !.locked = TRUE, !.case = rows.case + 1]
    [] op = "SDO_RETURN_TO_PTO" ->
         [rows EXCEPT !.locked = FALSE, !.accepted = FALSE, !.case = rows.case + 1,
                      !.package = rows.package + 1]
    [] OTHER -> [rows EXCEPT !.case = rows.case + 1]

\* completeIdempotentCommand
Complete(t, response) ==
  IF Keyed(t)
    THEN ledger' = [ledger EXCEPT ![KeyOf(Cmd(t))] =
           [createdBy |-> Cmd(t).actor, payload |-> Cmd(t).input, response |-> response]]
    ELSE UNCHANGED ledger

\* The writes, the response onto the claimed row, COMMIT.
Commit(t) ==
  /\ In(t, {"checked"})
  /\ rows' = Written(Cmd(t).op)
  /\ commits' = commits + 1
  /\ Complete(t, commits + 1)
  /\ AnswerWith(t, commits + 1)
  /\ effects' = effects \cup {[cmd |-> Cmd(t), result |-> commits + 1]}
  /\ UNCHANGED <<requests, answers>>

Answer(t) ==
  /\ In(t, {"answering"})
  /\ answers' = answers \cup {[cmd |-> Cmd(t), result |-> attempts[t].result]}
  /\ attempts' = [attempts EXCEPT ![t] = Idle]
  /\ UNCHANGED <<rows, ledger, requests, commits, effects>>

\* A refusal throws: ROLLBACK, with it the claim, and an error for the client.
Refuse(t) ==
  /\ In(t, {"refused"})
  /\ attempts' = [attempts EXCEPT ![t] = Idle]
  /\ UNCHANGED <<rows, ledger, requests, commits, effects, answers>>

\* The process or its connection dies: what was not committed is rolled back,
\* and the client hears nothing even of what was.
Crash(t) ==
  /\ ~In(t, {"idle"})
  /\ attempts' = [attempts EXCEPT ![t] = Idle]
  /\ UNCHANGED <<rows, ledger, requests, commits, effects, answers>>

\* PTO takes a returned package through correction to a new acceptance.
Correct ==
  /\ ~rows.accepted
  /\ \A t \in Attempts : "package" \notin Locks(t)
  /\ rows' = [rows EXCEPT !.accepted = TRUE, !.package = rows.package + 1]
  /\ UNCHANGED <<ledger, attempts, requests, commits, effects, answers>>

Step(t) ==
  \/ Lock(t) \/ Claim(t) \/ Replay(t) \/ Check(t) \/ Commit(t)
  \/ Answer(t) \/ Refuse(t)

Next ==
  \/ \E t \in Attempts : Step(t) \/ Crash(t)
  \/ \E t \in Attempts, cmd \in Commands : Request(t, cmd)
  \/ Correct

Spec == Init /\ [][Next]_vars

\* PostgreSQL ends every wait whose holder ends, and node keeps running.
FairSpec == Spec /\ \A t \in Attempts : WF_vars(Step(t))

-----------------------------------------------------------------------------
(* Properties *)

\* Every variable holds what the program can hold.
TypeOK ==
  /\ rows \in Rows
  /\ ledger \in [LedgerKeys -> LedgerRows]
  /\ attempts \in [Attempts -> Attempt]
  /\ requests \in 0..MaxRequests
  /\ commits \in 0..MaxRequests
  /\ effects \subseteq [cmd : Commands, result : Responses]
  /\ answers \subseteq [cmd : Commands, result : Responses]

\* Two commands that check a version of the same row never both pass on the
\* same version: the claim is no substitute for the row lock, nor the lock for
\* the claim.
CheckedRow(op) ==
  CASE op = "PORTION_FACT" -> {"portion"}
    [] op \in {"SDO_RETURN_TO_PTO", "SDO_STATUS_CHANGE"} -> {"case"}
    [] OTHER -> {}
VersionsAreUsedOnce ==
  \A e, f \in effects :
    /\ CheckedRow(e.cmd.op) \cap CheckedRow(f.cmd.op) # {}
    /\ e.cmd.input = f.cmd.input
    => e = f

\* A request is about to be refused although its own command took effect.
RefusedThoughDone(t) ==
  /\ ~In(t, {"refused"})
  /\ attempts'[t].phase = "refused"
  /\ Keyed(t)
  /\ \E e \in effects : e.cmd = Cmd(t)

\* A retry of a versioned command under its key is never refused once the
\* command took effect, however stale its version is by then.
VersionedRetriesAreReplayed ==
  [][\A t \in Attempts :
       RefusedThoughDone(t) => Cmd(t).op = "CUSTOMER_ACCEPTED_QUANTITY"]_vars

\* "claimIdempotentCommand() is called first, before the operation's own
\* checkVersion()/row locks, so a retry ... short-circuits to the stored
\* response" (security.ts:94), of every command that claims.
RetriesAreReplayed == [][\A t \in Attempts : ~RefusedThoughDone(t)]_vars

\* Whatever waits for a claim or a row, each request ends.
RequestsEnd == \A t \in Attempts : ~In(t, {"idle"}) ~> In(t, {"idle"})

ResultsOf(history) ==
  [cmd \in KeyedCommands |-> {e.result : e \in {f \in history : f.cmd = cmd}}]

Once == INSTANCE OnceOnly WITH
  Requests <- KeyedCommands, Results <- Responses, KeyOf <- KeyOf,
  done <- ResultsOf(effects), told <- ResultsOf(answers)

\* The ledger keeps OnceOnly's promise.
KeepsThePromise == Once!Spec
=============================================================================
