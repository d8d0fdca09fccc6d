------------------------- MODULE PortalInstallation -------------------------
(***************************************************************************)
(* The OAuth tokens of the portal's installation (bitrix.ts): every call   *)
(* to Bitrix24 reads the row and calls with its access token; one that     *)
(* finds it expired exchanges the refresh token inside a transaction.  A   *)
(* refresh token is good for one exchange, so what a lost COMMIT leaves    *)
(* is a row nobody can refresh, until the application is installed again.  *)
(***************************************************************************)
EXTENDS Integers, FiniteSets

CONSTANTS
  Callers,           \* server processes in installedCall
  Installers,        \* installation requests
  ApplicationTokens, \* what the portal proves itself with
  Unbound,           \* a row, or no row, without an application token
  MaxPairs           \* bound: pairs of tokens ever issued

\* What the constants satisfy.
InstallationAssumption == Unbound \notin ApplicationTokens /\ MaxPairs \in Nat \ {0}

VARIABLES
  row,      \* bitrix_installations: [pair, version, token]
  issued,   \* pairs issued by the portal so far
  expired,  \* pairs whose access token has run out
  spent,    \* pairs whose refresh token was exchanged
  lost,     \* pairs spent for nothing: the transaction did not commit
  attempts  \* [Callers \cup Installers -> Attempt]

server == <<issued, expired, spent>>
vars == <<row, server, lost, attempts>>

Idle == [phase |-> "idle"]
Row == [pair : 0..MaxPairs, version : Nat, token : ApplicationTokens \cup {Unbound}]
In(t, phase) == attempts[t].phase = phase
Become(t, next) == attempts' = [attempts EXCEPT ![t] = next]
Seen(t) == attempts[t].seen

\* An installation made before application tokens were kept, or none yet.
Init ==
  /\ \/ row = [pair |-> 1, version |-> 1, token |-> Unbound] /\ issued = 1
     \/ row = [pair |-> 0, version |-> 0, token |-> Unbound] /\ issued = 0
  /\ expired = {}
  /\ spent = {}
  /\ lost = {}
  /\ attempts = [t \in Callers \cup Installers |-> Idle]

Expire(pair) ==
  /\ pair \in 1..issued /\ pair \notin expired
  /\ expired' = expired \cup {pair}
  /\ UNCHANGED <<row, issued, spent, lost, attempts>>

-----------------------------------------------------------------------------
\* FOR UPDATE on the row, and on the tenant by an installation.
\* Mutated form: the row is read without a lock.
Transaction == {"exchanging", "exchanged", "writing"}
NobodyWaits(t) == TRUE
RowIsFree(t) == \A u \in (Callers \cup Installers) \ {t} : attempts[u].phase \notin Transaction

\* installedCall: the call with the token of the row, read on its own.
Call(t) ==
  /\ In(t, "idle") /\ row.pair # 0
  /\ Become(t, IF row.pair \in expired THEN [phase |-> "refused", seen |-> row] ELSE Idle)
  /\ UNCHANGED <<row, server, lost>>

\* Under the lock: another one's refresh is used, or its own is needed.
LockRow(t) ==
  /\ In(t, "refused") /\ RowIsFree(t)
  /\ Become(t, IF row.version # Seen(t).version THEN Idle ELSE [phase |-> "exchanging", seen |-> row])
  /\ UNCHANGED <<row, server, lost>>

Exchange(t) ==
  /\ In(t, "exchanging") /\ issued < MaxPairs
  /\ Seen(t).pair \notin spent
  /\ spent' = spent \cup {Seen(t).pair}
  /\ issued' = issued + 1
  /\ Become(t, [phase |-> "exchanged", seen |-> Seen(t), pair |-> issued + 1])
  /\ UNCHANGED <<row, expired, lost>>

Write(t, pair, token) == row' = [pair |-> pair, version |-> row.version + 1, token |-> token]

\* The call is made again with the new token, unless the answer was lost.
Refresh(t) ==
  /\ In(t, "exchanged")
  /\ Write(t, attempts[t].pair, row.token)
  /\ Become(t, Idle)
  /\ UNCHANGED <<server, lost>>

-----------------------------------------------------------------------------
\* A token is compared with the one the row is bound to, if it is bound.
Matches(token) == row.token \in {Unbound, token}

\* installBitrix: the first check, then the exchange of the request's own
\* refresh token for a pair of its own.
Install(t, token) ==
  /\ In(t, "idle") /\ Matches(token) /\ issued < MaxPairs
  /\ issued' = issued + 1
  /\ Become(t, [phase |-> "verified", token |-> token, pair |-> issued + 1])
  /\ UNCHANGED <<row, expired, spent, lost>>

\* The same check again, with the tenant and the row locked.
\* Mutated form: the first check is trusted.
MatchesBefore(t) == TRUE
MatchesStill(t) == Matches(attempts[t].token)
LockTenant(t) ==
  /\ In(t, "verified") /\ RowIsFree(t) /\ MatchesStill(t)
  /\ Become(t, [attempts[t] EXCEPT !.phase = "writing"])
  /\ UNCHANGED <<row, server, lost>>

StoreInstallation(t) ==
  /\ In(t, "writing")
  /\ Write(t, attempts[t].pair, attempts[t].token)
  /\ Become(t, Idle)
  /\ UNCHANGED <<server, lost>>

\* A refusal, a failed call, a crash, a COMMIT that failed: a pair that was
\* exchanged already is spent for nothing.
Abort(t) ==
  /\ ~In(t, "idle")
  /\ lost' = IF In(t, "exchanged") THEN lost \cup {Seen(t).pair} ELSE lost
  /\ Become(t, Idle)
  /\ UNCHANGED <<row, server>>

Next ==
  \/ \E pair \in 1..MaxPairs : Expire(pair)
  \/ \E t \in Callers : Call(t) \/ LockRow(t) \/ Exchange(t) \/ Refresh(t) \/ Abort(t)
  \/ \E t \in Installers :
       \/ \E token \in ApplicationTokens : Install(t, token)
       \/ LockTenant(t) \/ StoreInstallation(t) \/ Abort(t)

Spec == Init /\ [][Next]_vars

-----------------------------------------------------------------------------
Reading == [phase : {"refused", "exchanging"}, seen : Row]
Exchanged == [phase : {"exchanged"}, seen : Row, pair : 1..MaxPairs]
Installing == [phase : {"verified", "writing"}, token : ApplicationTokens, pair : 1..MaxPairs]

\* Every variable keeps its shape.
TypeOK ==
  /\ row \in Row /\ issued \in 0..MaxPairs
  /\ expired \cup spent \cup lost \subseteq 1..issued
  /\ attempts \in [Callers \cup Installers -> {Idle} \cup Reading \cup Exchanged \cup Installing]

\* However many calls find the token expired at once, it is exchanged for one
\* of them: who reaches the exchange has the row's own expired pair, and it was
\* exchanged before only if that transaction was lost (bitrix.ts:41-43).
ExchangesAreNeeded ==
  \A t \in Callers : In(t, "exchanging") =>
    /\ Seen(t) = row /\ row.pair \in expired
    /\ row.pair \in spent => row.pair \in lost

\* The row keeps a pair that can be refreshed, unless a transaction was lost
\* after its exchange.
RowIsUsable ==
  row.pair \in spent \ lost => \E t \in Callers : In(t, "exchanged") /\ Seen(t) = row

\* The portal's application token, once bound, is never replaced by another,
\* whichever installations race (bitrix.ts:139-144).
BindingStays == row.token # Unbound => row'.token = row.token

\* What a call can count on, whatever fails.
InstallationIsUsable ==
  /\ [](TypeOK /\ ExchangesAreNeeded /\ RowIsUsable)
  /\ [][BindingStays]_vars
=============================================================================
