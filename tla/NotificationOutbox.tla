------------------------- MODULE NotificationOutbox -------------------------
(***************************************************************************)
(* bitrix_notification_outbox (infra/018) and its worker: an intent is     *)
(* written with the assignment it tells of; a worker takes one due row     *)
(* with FOR UPDATE SKIP LOCKED, calls Bitrix while it holds the row, and   *)
(* writes what came of it.  The call and the commit are two events: an     *)
(* answer or a commit may be lost after Bitrix has taken the message.      *)
(***************************************************************************)
EXTENDS Integers, Sequences, SequencesExt

CONSTANTS
  Workers, \* polling processes
  Intents, \* one for every lead assignment
  Healthy, \* intents whose portal answers now and then
  None     \* no row

\* What the constants satisfy.
OutboxAssumption == Healthy \subseteq Intents /\ None \notin Intents

VARIABLES
  status,    \* [Intents -> Status]
  due,       \* rows whose next_attempt_at has come, in the order it came
  reachable, \* intents whose recipient is active with a valid Bitrix id
  worker,    \* [Workers -> [phase, row, answer]]
  taken,     \* [Intents -> 0..2]: times Bitrix took the message; 2 stands for more
  lost       \* intents with an answer or a commit lost after Bitrix took the message

vars == <<status, due, reachable, worker, taken, lost>>

Open == {"PENDING", "RETRY_WAIT"}
Final == {"DELIVERED", "PERMANENT_FAILURE"}
Status == {"NONE"} \cup Open \cup Final
Answers == {"confirmed", "unconfirmed", "timeout", "transient", "permanent"}
NoWork == [phase |-> "idle", row |-> None, answer |-> None]
Held == {worker[w].row : w \in Workers} \ {None}

Init ==
  /\ status = [i \in Intents |-> "NONE"]
  /\ due = <<>>
  /\ reachable = Intents
  /\ worker = [w \in Workers |-> NoWork]
  /\ taken = [i \in Intents |-> 0]
  /\ lost = {}

\* createLeadAssignedIntent, in the transaction of the assignment.
Assign(i) ==
  /\ status[i] = "NONE"
  /\ status' = [status EXCEPT ![i] = "PENDING"]
  /\ due' = Append(due, i)
  /\ UNCHANGED <<reachable, worker, taken, lost>>

\* The recipient's account is closed or reopened.
ChangeRecipient(i) ==
  /\ reachable' = (reachable \cup {i}) \ (reachable \cap {i})
  /\ UNCHANGED <<status, due, worker, taken, lost>>

\* The delay of a failed attempt is over.
BecomeDue(i) ==
  /\ status[i] = "RETRY_WAIT" /\ i \notin ToSet(due)
  /\ due' = Append(due, i)
  /\ UNCHANGED <<status, reachable, worker, taken, lost>>

-----------------------------------------------------------------------------
\* DUE_ROW_SQL.  Mutated form: without SKIP LOCKED and FOR UPDATE.
FirstOfAll(i) == i \in ToSet(due)
FirstDue(i) ==
  \E k \in DOMAIN due :
    /\ due[k] = i /\ i \notin Held
    /\ \A j \in 1..k-1 : due[j] \in Held

Claim(w) ==
  /\ worker[w] = NoWork
  /\ \E i \in Intents :
       /\ FirstDue(i)
       /\ worker' = [worker EXCEPT ![w] = [phase |-> "claimed", row |-> i, answer |-> None]]
  /\ UNCHANGED <<status, due, reachable, taken, lost>>

\* The call to Bitrix, bounded by a timeout.  After a timeout the message may
\* have been taken or not.
Call(w, answer, arrives) ==
  LET i == worker[w].row IN
    /\ worker[w].phase = "claimed" /\ i \in reachable
    /\ answer = "confirmed" => arrives
    /\ answer \in {"transient", "permanent"} => ~arrives
    /\ worker' = [worker EXCEPT ![w].phase = "answered", ![w].answer = answer]
    /\ taken' = IF arrives THEN [taken EXCEPT ![i] = IF @ = 0 THEN 1 ELSE 2] ELSE taken
    /\ lost' = IF arrives /\ answer # "confirmed" THEN lost \cup {i} ELSE lost
    /\ UNCHANGED <<status, due, reachable>>

\* The row after an attempt; a final row and one that waits leave the queue,
\* in which a held row always is.
Settle(w, new) ==
  LET i == worker[w].row IN
    /\ status' = [status EXCEPT ![i] = new]
    /\ \E k \in DOMAIN due : due[k] = i /\ due' = RemoveAt(due, k)
    /\ worker' = [worker EXCEPT ![w] = NoWork]
    /\ UNCHANGED <<reachable, taken, lost>>

RefuseRecipient(w) ==
  /\ worker[w].phase = "claimed" /\ worker[w].row \notin reachable
  /\ Settle(w, "PERMANENT_FAILURE")

Deliver(w) ==
  /\ worker[w].phase = "answered" /\ worker[w].answer = "confirmed"
  /\ Settle(w, "DELIVERED")

\* classifyFailure: what is tried again and what is not.
\* Mutated form: a failed row keeps its place and its turn.
RetryAtOnce(w) ==
  /\ worker[w].phase = "answered" /\ worker[w].answer \in {"timeout", "transient"}
  /\ worker' = [worker EXCEPT ![w] = NoWork]
  /\ UNCHANGED <<status, due, reachable, taken, lost>>
Retry(w) ==
  /\ worker[w].phase = "answered" /\ worker[w].answer \in {"timeout", "transient"}
  /\ Settle(w, "RETRY_WAIT")

GiveUp(w) ==
  /\ worker[w].phase = "answered" /\ worker[w].answer \in {"unconfirmed", "permanent"}
  /\ Settle(w, "PERMANENT_FAILURE")

\* The process or its connection is lost: the row is as it was, and free.
Crash(w) ==
  /\ worker[w] # NoWork
  /\ worker' = [worker EXCEPT ![w] = NoWork]
  /\ lost' = IF worker[w].answer = "confirmed" THEN lost \cup {worker[w].row} ELSE lost
  /\ UNCHANGED <<status, due, reachable, taken>>

Next ==
  \/ \E i \in Intents : Assign(i) \/ ChangeRecipient(i) \/ BecomeDue(i)
  \/ \E w \in Workers :
       \/ Claim(w)
       \/ \E answer \in Answers, arrives \in BOOLEAN : Call(w, answer, arrives)
       \/ RefuseRecipient(w) \/ Deliver(w) \/ Retry(w) \/ GiveUp(w)
       \/ Crash(w)

\* The loop of a worker goes on whatever a cycle ends with, delays end, and a
\* process is not lost every time at the same point; a healthy portal confirms
\* if it is called again and again.
Fairness ==
  /\ \A i \in Intents : WF_vars(BecomeDue(i))
  /\ \A w \in Workers :
       /\ WF_vars(Claim(w))
       /\ SF_vars(\E answer \in Answers, arrives \in BOOLEAN : Call(w, answer, arrives))
       /\ SF_vars(RefuseRecipient(w)) /\ SF_vars(Deliver(w))
       /\ SF_vars(Retry(w)) /\ SF_vars(GiveUp(w))
       /\ \A i \in Healthy : SF_vars(worker[w].row = i /\ Call(w, "confirmed", TRUE))

Spec == Init /\ [][Next]_vars /\ Fairness

-----------------------------------------------------------------------------
\* Every variable keeps its shape; a row waiting for its turn is open.
TypeOK ==
  /\ status \in [Intents -> Status]
  /\ due \in Seq(Intents)
  /\ ToSet(due) \subseteq {i \in Intents : status[i] \in Open} /\ IsInjective(due)
  /\ reachable \subseteq Intents /\ lost \subseteq Intents
  /\ worker \in [Workers -> [phase : {"idle", "claimed", "answered"}, row : Intents \cup {None},
                             answer : Answers \cup {None}]]
  /\ taken \in [Intents -> 0..2]

\* Bitrix takes a message a second time only if an answer or a commit was lost
\* after the first (bitrix-notification-outbox.ts:87-119).
RepeatsAreExplained == \A i \in Intents : taken[i] = 2 => i \in lost

\* A row is delivered only when Bitrix has taken its message
\* (bitrix-notification-outbox.ts:103-109).
DeliveredWasTaken == \A i \in Intents : status[i] = "DELIVERED" => taken[i] > 0

\* Nothing is sent for a row once it is settled, whichever worker settled it.
SettledIsSilent ==
  \A i \in Intents : status[i] \in Final => taken'[i] = taken[i] /\ status'[i] = status[i]

\* What came of a message, whatever was lost on the way: no repetition without a
\* loss, no delivery without a message, nothing sent for a settled row
\* (bitrix-notification-outbox.ts:81-119).
DeliveryIsExplained ==
  /\ [](TypeOK /\ RepeatsAreExplained /\ DeliveredWasTaken)
  /\ [][SettledIsSilent]_vars

\* The intent of a portal that answers now and then is settled in the end,
\* although another portal never answers (DUE_ROW_SQL, startBitrixNotificationWorker).
HealthyAreSettled == \A i \in Healthy : status[i] = "PENDING" ~> status[i] \in Final
=============================================================================
