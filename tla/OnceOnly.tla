------------------------------ MODULE OnceOnly ------------------------------
(***************************************************************************)
(* What an Idempotency-Key promises a client: a key stands for one request,*)
(* the request takes effect at most once however often it is sent, and     *)
(* whoever sends it is told what that one effect produced.  No database:   *)
(* CommandLedger and IdempotentCommands both implement this.               *)
(***************************************************************************)

CONSTANTS
  Requests,    \* everything a repeat has in common with the first sending
  Results,
  KeyOf(_)     \* the key a request was sent under

VARIABLES
  done,        \* [Requests -> SUBSET Results] what each request produced
  told         \* [Requests -> SUBSET Results] what its senders were answered

vars == <<done, told>>

Init ==
  /\ done = [r \in Requests |-> {}]
  /\ told = [r \in Requests |-> {}]

\* The key is fresh: the request takes effect.
Do(r) ==
  /\ \A q \in Requests : KeyOf(q) = KeyOf(r) => done[q] = {}
  /\ \E x \in Results : done' = [done EXCEPT ![r] = {x}]
  /\ UNCHANGED told

Tell(r) ==
  /\ done[r] # {}
  /\ told' = [told EXCEPT ![r] = done[r]]
  /\ UNCHANGED done

Next == \E r \in Requests : Do(r) \/ Tell(r)

Spec == Init /\ [][Next]_vars
=============================================================================
