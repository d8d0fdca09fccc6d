--------------------------- MODULE Delivery_proofs ---------------------------
(***************************************************************************)
(* The outbox of notifications for any number of workers and intents:      *)
(* whatever answers, commits and processes are lost, a message is taken    *)
(* twice only behind a loss, a delivered row is one whose message was      *)
(* taken, and a settled row is left alone.                                 *)
(***************************************************************************)
EXTENDS Delivery, SequenceTheorems, TLAPS

-----------------------------------------------------------------------------
(* The inductive invariant *)

Works(w) == worker[w].phase # "idle"
Confirmed(w) == worker[w].phase = "answered" /\ worker[w].answer = "confirmed"

\* A worker that works holds a row of the queue, for itself alone.
Holding ==
  /\ \A w \in Workers :
       /\ Works(w) => worker[w].row \in Outbox!ToSet(due)
       /\ ~Works(w) => worker[w] = Outbox!NoWork
  /\ \A v, w \in Workers : Works(v) /\ Works(w) /\ worker[v].row = worker[w].row => v = w

\* A confirmed message was taken; one that was taken is settled as delivered,
\* about to be, or had its answer or commit lost.
Told ==
  /\ \A w \in Workers : Confirmed(w) => taken[worker[w].row] > 0
  /\ \A i \in Intents : taken[i] > 0 =>
       \/ i \in lost
       \/ status[i] = "DELIVERED"
       \/ \E w \in Workers : Confirmed(w) /\ worker[w].row = i

OutboxInv ==
  /\ Outbox!TypeOK /\ Holding /\ Told
  /\ Outbox!RepeatsAreExplained /\ Outbox!DeliveredWasTaken

-----------------------------------------------------------------------------
(* Lemmas about the queue and the workers *)

LEMMA DueIsSequence ==
  ASSUME Outbox!TypeOK
  PROVE  /\ due \in Seq(Intents) /\ Len(due) \in Nat /\ DOMAIN due = 1..Len(due)
         /\ \A k \in DOMAIN due : due[k] \in Intents /\ status[due[k]] \in Outbox!Open
         /\ \A k, l \in DOMAIN due : due[k] = due[l] => k = l
<1>1. due \in Seq(Intents) /\ Len(due) \in Nat /\ DOMAIN due = 1..Len(due)
  BY LenProperties DEF Outbox!TypeOK
<1>2. \A k \in DOMAIN due : due[k] \in Outbox!ToSet(due)
  BY DEF Outbox!ToSet
<1> QED
  BY <1>1, <1>2 DEF Outbox!TypeOK, Outbox!IsInjective

LEMMA DueAppended ==
  ASSUME Outbox!TypeOK, NEW i \in Intents, i \notin Outbox!ToSet(due), due' = Append(due, i)
  PROVE  /\ due' \in Seq(Intents) /\ Outbox!IsInjective(due')
         /\ Outbox!ToSet(due') = Outbox!ToSet(due) \cup {i}
<1>1. /\ due' \in Seq(Intents) /\ Len(due') = Len(due) + 1
      /\ \A k \in 1..Len(due) : due'[k] = due[k]
      /\ due'[Len(due) + 1] = i
  BY DueIsSequence, AppendProperties
<1>2. DOMAIN due' = 1..(Len(due) + 1)
  BY <1>1, LenProperties
<1>3. \A k \in 1..Len(due) : due[k] # i
  BY DueIsSequence DEF Outbox!ToSet
<1>4. Outbox!IsInjective(due')
  <2> SUFFICES ASSUME NEW k \in DOMAIN due', NEW l \in DOMAIN due', due'[k] = due'[l]
               PROVE  k = l
    BY DEF Outbox!IsInjective
  <2>1. k \in 1..Len(due) \/ k = Len(due) + 1
    BY <1>2, DueIsSequence
  <2>2. l \in 1..Len(due) \/ l = Len(due) + 1
    BY <1>2, DueIsSequence
  <2> QED
    BY <1>1, <1>3, <2>1, <2>2, DueIsSequence
<1>5. Outbox!ToSet(due') = Outbox!ToSet(due) \cup {i}
  <2>1. \A k \in DOMAIN due' : k \in DOMAIN due \/ k = Len(due) + 1
    BY <1>2, DueIsSequence
  <2>2. DOMAIN due \subseteq DOMAIN due' /\ Len(due) + 1 \in DOMAIN due'
    BY <1>2, DueIsSequence
  <2> QED
    BY <1>1, <2>1, <2>2, DueIsSequence DEF Outbox!ToSet
<1> QED
  BY <1>1, <1>4, <1>5

LEMMA DueRemoved ==
  ASSUME Outbox!TypeOK, NEW k \in DOMAIN due, due' = Outbox!RemoveAt(due, k)
  PROVE  /\ due' \in Seq(Intents) /\ Outbox!IsInjective(due')
         /\ Outbox!ToSet(due') = Outbox!ToSet(due) \ {due[k]}
<1> DEFINE n == Len(due)
           head == SubSeq(due, 1, k - 1)
           tail == SubSeq(due, k + 1, n)
<1>1. /\ n \in Nat /\ k \in 1..n /\ DOMAIN due = 1..n
      /\ \A j \in 1..n : due[j] \in Intents
      /\ \A j, l \in 1..n : due[j] = due[l] => j = l
  BY DueIsSequence
<1>2. /\ head \in Seq(Intents) /\ Len(head) = k - 1
      /\ \A j \in 1..(k - 1) : head[j] = due[j]
  BY <1>1, SubSeqProperties
<1>3. /\ tail \in Seq(Intents) /\ Len(tail) = n - k
      /\ \A j \in 1..(n - k) : tail[j] = due[j + k]
  BY <1>1, SubSeqProperties
<1>4. due' = head \o tail
  BY DEF Outbox!RemoveAt
<1> HIDE DEF n, head, tail
<1>5. /\ due' \in Seq(Intents) /\ Len(due') = n - 1
      /\ \A j \in 1..(n - 1) : due'[j] = IF j <= k - 1 THEN head[j] ELSE tail[j - (k - 1)]
  <2>1. /\ due' \in Seq(Intents) /\ Len(due') = Len(head) + Len(tail)
        /\ \A j \in 1..(Len(head) + Len(tail)) :
             due'[j] = IF j <= Len(head) THEN head[j] ELSE tail[j - Len(head)]
    BY <1>2, <1>3, <1>4, ConcatProperties
  <2>2. Len(head) + Len(tail) = n - 1
    BY <1>1, <1>2, <1>3
  <2> QED
    BY <1>2, <2>1, <2>2
<1>6. DOMAIN due' = 1..(n - 1)
  BY <1>5, LenProperties
<1>7. \A j \in 1..(n - 1) : due'[j] = IF j < k THEN due[j] ELSE due[j + 1]
  <2> SUFFICES ASSUME NEW j \in 1..(n - 1)
               PROVE  due'[j] = IF j < k THEN due[j] ELSE due[j + 1]
    OBVIOUS
  <2>1. CASE j < k
    BY <1>1, <1>2, <1>5, <2>1
  <2>2. CASE ~(j < k)
    <3>1. j - (k - 1) \in 1..(n - k) /\ (j - (k - 1)) + k = j + 1 /\ ~(j <= k - 1)
      BY <1>1, <2>2
    <3> QED
      BY <1>3, <1>5, <2>2, <3>1
  <2> QED
    BY <2>1, <2>2
<1>8. Outbox!IsInjective(due')
  BY <1>1, <1>6, <1>7 DEF Outbox!IsInjective
<1>9. Outbox!ToSet(due') = Outbox!ToSet(due) \ {due[k]}
  <2>1. ASSUME NEW j \in 1..(n - 1)
        PROVE  due'[j] \in Outbox!ToSet(due) /\ due'[j] # due[k]
    BY <1>1, <1>7 DEF Outbox!ToSet
  <2>2. ASSUME NEW l \in 1..n, l # k
        PROVE  \E j \in 1..(n - 1) : due'[j] = due[l]
    <3>1. CASE l < k
      BY <1>1, <1>7, <3>1
    <3>2. CASE l > k
      <4>1. l - 1 \in 1..(n - 1) /\ due'[l - 1] = due[l]
        BY <1>1, <1>7, <3>2
      <4> QED
        BY <4>1
    <3> QED
      BY <1>1, <2>2, <3>1, <3>2
  <2>3. Outbox!ToSet(due') = {due'[j] : j \in 1..(n - 1)} /\ Outbox!ToSet(due) = {due[j] :
          j \in 1..n}
    BY <1>1, <1>6 DEF Outbox!ToSet
  <2> QED
    BY <2>1, <2>2, <2>3
<1> QED
  BY <1>5, <1>8, <1>9

LEMMA WorkerShape ==
  ASSUME Outbox!TypeOK, NEW w \in Workers
  PROVE  /\ worker[w] \in [phase : {"idle", "claimed", "answered"}, row : Intents \cup {None},
                           answer : Outbox!Answers \cup {None}]
         /\ Outbox!NoWork.phase = "idle" /\ Outbox!NoWork.row = None
BY DEF Outbox!TypeOK, Outbox!NoWork

\* The row of a worker that works is an open row.
LEMMA HeldIsOpen ==
  ASSUME OutboxInv, NEW w \in Workers, Works(w)
  PROVE  /\ worker[w].row \in Intents /\ worker[w].row \in Outbox!ToSet(due)
         /\ status[worker[w].row] \in Outbox!Open
BY DEF OutboxInv, Holding, Outbox!TypeOK

\* Everyone else's work is untouched when one worker moves.
LEMMA OneWorkerMoves ==
  ASSUME Outbox!TypeOK, NEW w \in Workers,
         NEW new \in [phase : {"idle", "claimed", "answered"}, row : Intents \cup {None},
                      answer : Outbox!Answers \cup {None}],
         worker' = [worker EXCEPT ![w] = new]
  PROVE  /\ worker' \in [Workers -> [phase : {"idle", "claimed", "answered"},
                                     row : Intents \cup {None},
                                     answer : Outbox!Answers \cup {None}]]
         /\ worker'[w] = new
         /\ \A v \in Workers \ {w} : worker'[v] = worker[v]
BY DEF Outbox!TypeOK

-----------------------------------------------------------------------------
(* The steps *)

LEMMA AssignKeeps ==
  ASSUME OutboxAssumption, OutboxInv, NEW i \in Intents, Outbox!Assign(i)
  PROVE  OutboxInv'
<1>1. /\ status[i] = "NONE" /\ status' = [status EXCEPT ![i] = "PENDING"]
      /\ due' = Append(due, i) /\ UNCHANGED <<reachable, worker, taken, lost>>
      /\ i \notin Outbox!ToSet(due)
  BY DEF Outbox!Assign, OutboxInv, Outbox!TypeOK, Outbox!Open
<1>2. /\ status' \in [Intents -> Outbox!Status] /\ status'[i] = "PENDING"
      /\ \A j \in Intents \ {i} : status'[j] = status[j]
  BY <1>1 DEF OutboxInv, Outbox!TypeOK, Outbox!Status, Outbox!Open
<1>3. /\ due' \in Seq(Intents) /\ Outbox!IsInjective(due')
      /\ Outbox!ToSet(due') = Outbox!ToSet(due) \cup {i}
  BY <1>1, DueAppended DEF OutboxInv
<1>4. Outbox!ToSet(due') \subseteq {j \in Intents : status'[j] \in Outbox!Open}
  BY <1>2, <1>3 DEF OutboxInv, Outbox!TypeOK, Outbox!Open
<1>5. Outbox!TypeOK'
  BY <1>1, <1>2, <1>3, <1>4 DEF OutboxInv, Outbox!TypeOK
<1>6. Holding'
  BY <1>1, <1>3 DEF OutboxInv, Holding, Works, Outbox!NoWork
<1>7. Told' /\ Outbox!RepeatsAreExplained' /\ Outbox!DeliveredWasTaken'
  BY <1>1, <1>2 DEF OutboxInv, Told, Confirmed, Outbox!RepeatsAreExplained,
     Outbox!DeliveredWasTaken
<1> QED
  BY <1>5, <1>6, <1>7 DEF OutboxInv

LEMMA BecomeDueKeeps ==
  ASSUME OutboxInv, NEW i \in Intents, Outbox!BecomeDue(i)
  PROVE  OutboxInv'
<1>1. /\ status[i] \in Outbox!Open /\ i \notin Outbox!ToSet(due) /\ due' = Append(due, i)
      /\ UNCHANGED <<status, reachable, worker, taken, lost>>
  BY DEF Outbox!BecomeDue, Outbox!Open
<1>2. /\ due' \in Seq(Intents) /\ Outbox!IsInjective(due')
      /\ Outbox!ToSet(due') = Outbox!ToSet(due) \cup {i}
  BY <1>1, DueAppended DEF OutboxInv
<1>3. Outbox!TypeOK'
  BY <1>1, <1>2 DEF OutboxInv, Outbox!TypeOK
<1>4. Holding'
  BY <1>1, <1>2 DEF OutboxInv, Holding, Works, Outbox!NoWork
<1>5. Told' /\ Outbox!RepeatsAreExplained' /\ Outbox!DeliveredWasTaken'
  BY <1>1 DEF OutboxInv, Told, Confirmed, Outbox!RepeatsAreExplained, Outbox!DeliveredWasTaken
<1> QED
  BY <1>3, <1>4, <1>5 DEF OutboxInv

LEMMA ChangeRecipientKeeps ==
  ASSUME OutboxInv, NEW i \in Intents, Outbox!ChangeRecipient(i)
  PROVE  OutboxInv'
<1>1. UNCHANGED <<status, due, worker, taken, lost>> /\ reachable' \subseteq Intents
  BY DEF Outbox!ChangeRecipient, OutboxInv, Outbox!TypeOK
<1> QED
  BY <1>1 DEF OutboxInv, Outbox!TypeOK, Holding, Works, Outbox!NoWork, Told, Confirmed,
     Outbox!RepeatsAreExplained, Outbox!DeliveredWasTaken

\* SKIP LOCKED: the row a worker takes is nobody's.
LEMMA ClaimKeeps ==
  ASSUME OutboxAssumption, OutboxInv, NEW w \in Workers, Outbox!Claim(w)
  PROVE  OutboxInv'
<1>1. PICK i \in Intents : Outbox!FirstDue(i) /\
        worker' = [worker EXCEPT ![w] = [phase |-> "claimed", row |-> i, answer |-> None]]
  BY DEF Outbox!Claim
<1> DEFINE new == [phase |-> "claimed", row |-> i, answer |-> None]
<1>2. UNCHANGED <<status, due, reachable, taken, lost>> /\ ~Works(w)
  BY DEF Outbox!Claim, Works, Outbox!NoWork
<1>3. /\ worker' \in [Workers -> [phase : {"idle", "claimed", "answered"},
                                  row : Intents \cup {None}, answer : Outbox!Answers \cup {None}]]
      /\ worker'[w] = new
      /\ \A v \in Workers \ {w} : worker'[v] = worker[v]
  BY <1>1, OneWorkerMoves DEF OutboxInv
<1>4. worker'[w].phase = "claimed" /\ worker'[w].row = i
  BY <1>3
<1> HIDE DEF new
<1>5. i \in Outbox!ToSet(due) /\ \A v \in Workers : Works(v) => worker[v].row # i
  <2>1. i \in Outbox!ToSet(due) /\ i \notin Outbox!Held
    BY <1>1 DEF Outbox!FirstDue, Outbox!ToSet
  <2> QED
    BY <2>1 DEF Outbox!Held, OutboxAssumption, Outbox!OutboxAssumption
<1>6. Outbox!TypeOK'
  BY <1>2, <1>3 DEF OutboxInv, Outbox!TypeOK
<1>7. \A v \in Workers : /\ Works(v)' <=> v = w \/ Works(v)
                         /\ Confirmed(v)' <=> Confirmed(v)
  BY <1>2, <1>3, <1>4 DEF Works, Confirmed
<1>8. Holding'
  <2>1. \A v \in Workers : ~Works(v)' => worker'[v] = Outbox!NoWork
    BY <1>3, <1>7 DEF OutboxInv, Holding
  <2>2. \A v \in Workers : Works(v)' => worker'[v].row \in Outbox!ToSet(due')
    BY <1>2, <1>3, <1>4, <1>5, <1>7 DEF OutboxInv, Holding
  <2>3. \A u, v \in Workers : Works(u)' /\ Works(v)' /\ worker'[u].row = worker'[v].row => u = v
    BY <1>3, <1>4, <1>5, <1>7 DEF OutboxInv, Holding
  <2> QED
    BY <2>1, <2>2, <2>3 DEF Holding, Outbox!NoWork
<1>9. Told'
  <2>1. \A v \in Workers : Confirmed(v) => worker'[v] = worker[v]
    BY <1>2, <1>3 DEF Confirmed, Works
  <2> QED
    BY <1>2, <1>7, <2>1 DEF OutboxInv, Told
<1>10. Outbox!RepeatsAreExplained' /\ Outbox!DeliveredWasTaken'
  BY <1>2 DEF OutboxInv, Outbox!RepeatsAreExplained, Outbox!DeliveredWasTaken
<1> QED
  BY <1>6, <1>8, <1>9, <1>10 DEF OutboxInv

\* A message is sent for a row that is the worker's: unless its last answer was
\* lost, it has not been taken before.
LEMMA CallKeeps ==
  ASSUME OutboxAssumption, OutboxInv, NEW w \in Workers, NEW answer \in Outbox!Answers,
         NEW arrives \in BOOLEAN, Outbox!Call(w, answer, arrives)
  PROVE  OutboxInv' /\ Outbox!SettledIsSilent
<1>0. PICK i : i = worker[w].row
  OBVIOUS
<1> DEFINE new == [worker[w] EXCEPT !.phase = "answered", !.answer = answer]
<1>1. /\ worker[w].phase = "claimed" /\ Works(w) /\ i \in Intents /\ status[i] \in Outbox!Open
      /\ i \in Outbox!ToSet(due)
      /\ answer = "confirmed" => arrives
      /\ UNCHANGED <<status, due, reachable>>
  BY <1>0, HeldIsOpen DEF Outbox!Call, Works
<1>2. /\ worker' = [worker EXCEPT ![w] = new]
      /\ new \in [phase : {"idle", "claimed", "answered"}, row : Intents \cup {None},
                 answer : Outbox!Answers \cup {None}]
      /\ new.phase = "answered" /\ new.row = i /\ new.answer = answer
  <2>1. worker[w] \in [phase : {"idle", "claimed", "answered"}, row : Intents \cup {None},
                       answer : Outbox!Answers \cup {None}]
    BY WorkerShape DEF OutboxInv
  <2>2. worker' = [worker EXCEPT ![w].phase = "answered", ![w].answer = answer]
    BY DEF Outbox!Call
  <2>3. worker' = [worker EXCEPT ![w] = new]
    BY <2>2 DEF OutboxInv, Outbox!TypeOK
  <2> QED
    BY <1>0, <2>1, <2>3
<1>3. /\ worker' \in [Workers -> [phase : {"idle", "claimed", "answered"},
                                  row : Intents \cup {None}, answer : Outbox!Answers \cup {None}]]
      /\ worker'[w] = new
      /\ \A v \in Workers \ {w} : worker'[v] = worker[v]
  BY <1>2, OneWorkerMoves DEF OutboxInv
<1>4. /\ worker'[w].phase = "answered" /\ worker'[w].row = i /\ worker'[w].answer = answer
  BY <1>2, <1>3
<1> HIDE DEF new
<1>5. /\ taken' \in [Intents -> 0..2]
      /\ \A j \in Intents \ {i} : taken'[j] = taken[j]
      /\ arrives => taken'[i] > 0 /\ (taken'[i] = 2 => taken[i] > 0)
      /\ ~arrives => taken'[i] = taken[i]
      /\ taken[i] > 0 => taken'[i] > 0
  <2>1. taken \in [Intents -> 0..2] /\ taken[i] \in 0..2
    BY <1>1 DEF OutboxInv, Outbox!TypeOK
  <2>2. CASE arrives
    <3>1. taken' = [taken EXCEPT ![i] = IF taken[i] = 0 THEN 1 ELSE 2]
      BY <1>0, <2>2 DEF Outbox!Call
    <3> QED
      BY <1>1, <2>1, <2>2, <3>1
  <2>3. CASE ~arrives
    BY <1>0, <2>1, <2>3 DEF Outbox!Call
  <2> QED
    BY <2>2, <2>3
<1>6. /\ lost \subseteq lost' /\ lost' \subseteq Intents
      /\ arrives /\ answer # "confirmed" => i \in lost'
  BY <1>0, <1>1 DEF Outbox!Call, OutboxInv, Outbox!TypeOK
<1>7. Outbox!TypeOK'
  BY <1>1, <1>3, <1>5, <1>6 DEF OutboxInv, Outbox!TypeOK
<1>8. \A v \in Workers : /\ Works(v)' <=> Works(v)
                         /\ worker'[v].row = worker[v].row
                         /\ v # w => (Confirmed(v)' <=> Confirmed(v))
  BY <1>0, <1>1, <1>3, <1>4 DEF Works, Confirmed
<1>9. Holding'
  <2>1. \A v \in Workers : ~Works(v)' => worker'[v] = Outbox!NoWork
    BY <1>1, <1>3, <1>8 DEF OutboxInv, Holding
  <2> QED
    BY <1>1, <1>8, <2>1 DEF OutboxInv, Holding, Outbox!NoWork
<1>10. ~Confirmed(w) /\ (Confirmed(w)' <=> answer = "confirmed")
  BY <1>1, <1>4 DEF Confirmed
<1>11. \A v \in Workers \ {w} : Confirmed(v) => worker[v].row # i
  BY <1>0, <1>1 DEF OutboxInv, Holding, Confirmed, Works
<1>12. taken[i] > 0 => i \in lost
  BY <1>0, <1>1, <1>10, <1>11 DEF OutboxInv, Told, Outbox!Open
<1>13. Told'
  <2>1. ASSUME NEW v \in Workers, Confirmed(v)'
        PROVE  taken'[worker'[v].row] > 0
    <3>1. CASE v = w
      BY <1>1, <1>4, <1>5, <1>10, <2>1, <3>1
    <3>2. CASE v # w
      <4>1. Confirmed(v) /\ worker[v].row # i /\ worker[v].row \in Intents
        BY <1>8, <1>11, <2>1, <3>2, HeldIsOpen DEF Confirmed, Works
      <4> QED
        BY <1>5, <1>8, <4>1 DEF OutboxInv, Told
    <3> QED
      BY <3>1, <3>2
  <2>2. ASSUME NEW j \in Intents, taken'[j] > 0
        PROVE  \/ j \in lost'
               \/ status'[j] = "DELIVERED"
               \/ \E v \in Workers : Confirmed(v)' /\ worker'[v].row = j
    <3>1. CASE j = i
      BY <1>1, <1>4, <1>5, <1>6, <1>10, <1>12, <2>2, <3>1
    <3>2. CASE j # i
      <4>1. taken[j] > 0
        BY <1>5, <2>2, <3>2
      <4>2. \A v \in Workers : Confirmed(v) => Confirmed(v)'
        BY <1>8, <1>10
      <4> QED
        BY <1>1, <1>6, <1>8, <4>1, <4>2 DEF OutboxInv, Told
    <3> QED
      BY <3>1, <3>2
  <2> QED
    BY <2>1, <2>2 DEF Told
<1>14. Outbox!RepeatsAreExplained'
  BY <1>5, <1>6, <1>12 DEF OutboxInv, Outbox!RepeatsAreExplained
<1>15. Outbox!DeliveredWasTaken'
  BY <1>1, <1>5 DEF OutboxInv, Outbox!DeliveredWasTaken
<1>16. Outbox!SettledIsSilent
  BY <1>1, <1>5 DEF Outbox!SettledIsSilent, Outbox!Final, Outbox!Open
<1> QED
  BY <1>7, <1>9, <1>13, <1>14, <1>15, <1>16 DEF OutboxInv

\* The row leaves the queue and the worker is free; a message that was taken
\* without being confirmed is known to be lost.
LEMMA SettleKeeps ==
  ASSUME OutboxAssumption, OutboxInv, NEW w \in Workers, Works(w),
         NEW new \in {"RETRY_WAIT"} \cup Outbox!Final, new = "DELIVERED" <=> Confirmed(w),
         Outbox!Settle(w, new)
  PROVE  OutboxInv' /\ Outbox!SettledIsSilent
<1>0. PICK i : i = worker[w].row
  OBVIOUS
<1>1. /\ i \in Intents /\ status[i] \in Outbox!Open /\ status' = [status EXCEPT ![i] = new]
      /\ worker' = [worker EXCEPT ![w] = Outbox!NoWork]
      /\ UNCHANGED <<reachable, taken, lost>>
  BY <1>0, HeldIsOpen DEF Outbox!Settle
<1>2. PICK k \in DOMAIN due : due[k] = i /\ due' = Outbox!RemoveAt(due, k)
  BY <1>0 DEF Outbox!Settle
<1>3. /\ due' \in Seq(Intents) /\ Outbox!IsInjective(due')
      /\ Outbox!ToSet(due') = Outbox!ToSet(due) \ {i}
  BY <1>2, DueRemoved DEF OutboxInv
<1>4. /\ status' \in [Intents -> Outbox!Status] /\ status'[i] = new
      /\ \A j \in Intents \ {i} : status'[j] = status[j]
  BY <1>1 DEF OutboxInv, Outbox!TypeOK, Outbox!Status, Outbox!Open, Outbox!Final
<1>5. /\ worker' \in [Workers -> [phase : {"idle", "claimed", "answered"},
                                  row : Intents \cup {None}, answer : Outbox!Answers \cup {None}]]
      /\ worker'[w] = Outbox!NoWork
      /\ \A v \in Workers \ {w} : worker'[v] = worker[v]
  BY <1>1, OneWorkerMoves DEF OutboxInv, Outbox!NoWork
<1>6. Outbox!TypeOK'
  <2>1. Outbox!ToSet(due') \subseteq {j \in Intents : status'[j] \in Outbox!Open}
    BY <1>3, <1>4 DEF OutboxInv, Outbox!TypeOK
  <2> QED
    BY <1>1, <1>3, <1>4, <1>5, <2>1 DEF OutboxInv, Outbox!TypeOK
<1>7. /\ ~Works(w)' /\ ~Confirmed(w)'
      /\ \A v \in Workers \ {w} : (Works(v)' <=> Works(v)) /\ (Confirmed(v)' <=> Confirmed(v))
  BY <1>5 DEF Works, Confirmed, Outbox!NoWork
<1>8. \A v \in Workers \ {w} : Works(v) => worker[v].row # i
  BY <1>0 DEF OutboxInv, Holding
<1>9. Holding'
  <2>1. \A v \in Workers : ~Works(v)' => worker'[v] = Outbox!NoWork
    BY <1>5, <1>7 DEF OutboxInv, Holding
  <2>2. \A v \in Workers : Works(v)' => worker'[v].row \in Outbox!ToSet(due')
    BY <1>3, <1>5, <1>7, <1>8 DEF OutboxInv, Holding
  <2>3. \A u, v \in Workers : Works(u)' /\ Works(v)' /\ worker'[u].row = worker'[v].row => u = v
    BY <1>5, <1>7 DEF OutboxInv, Holding
  <2> QED
    BY <2>1, <2>2, <2>3 DEF Holding, Outbox!NoWork
<1>10. Told'
  <2>1. \A v \in Workers : Confirmed(v)' => taken'[worker'[v].row] > 0
    BY <1>1, <1>5, <1>7 DEF OutboxInv, Told
  <2>2. ASSUME NEW j \in Intents, taken[j] > 0
        PROVE  \/ j \in lost
               \/ status'[j] = "DELIVERED"
               \/ \E v \in Workers : Confirmed(v)' /\ worker'[v].row = j
    <3>1. CASE j = i /\ Confirmed(w)
      BY <1>4, <3>1
    <3>2. CASE j = i /\ ~Confirmed(w)
      <4>1. \A v \in Workers : Confirmed(v) => worker[v].row # i
        BY <1>8, <3>2 DEF Confirmed, Works
      <4> QED
        BY <1>1, <2>2, <3>2, <4>1 DEF OutboxInv, Told, Outbox!Open
    <3>3. CASE j # i
      <4>1. \A v \in Workers : Confirmed(v) /\ worker[v].row = j =>
              Confirmed(v)' /\ worker'[v].row = j
        BY <1>0, <1>5, <1>7, <3>3
      <4> QED
        BY <1>4, <2>2, <3>3, <4>1 DEF OutboxInv, Told
    <3> QED
      BY <3>1, <3>2, <3>3
  <2> QED
    BY <1>1, <2>1, <2>2 DEF Told
<1>11. Outbox!RepeatsAreExplained'
  BY <1>1 DEF OutboxInv, Outbox!RepeatsAreExplained
<1>12. Outbox!DeliveredWasTaken'
  <2>1. new = "DELIVERED" => taken[i] > 0
    BY <1>0 DEF OutboxInv, Told
  <2> QED
    BY <1>1, <1>4, <2>1 DEF OutboxInv, Outbox!DeliveredWasTaken
<1>13. Outbox!SettledIsSilent
  BY <1>1, <1>4 DEF Outbox!SettledIsSilent, Outbox!Final, Outbox!Open
<1> QED
  BY <1>6, <1>9, <1>10, <1>11, <1>12, <1>13 DEF OutboxInv

\* A lost commit leaves the row open; the message it confirmed is known to be lost.
LEMMA CrashKeeps ==
  ASSUME OutboxAssumption, OutboxInv, NEW w \in Workers, Outbox!Crash(w)
  PROVE  OutboxInv'
<1>0. PICK i : i = worker[w].row
  OBVIOUS
<1>1. /\ Works(w) /\ i \in Intents
      /\ worker' = [worker EXCEPT ![w] = Outbox!NoWork]
      /\ UNCHANGED <<status, due, reachable, taken>>
  BY <1>0, HeldIsOpen DEF Outbox!Crash, OutboxInv, Holding
<1>2. lost \subseteq lost' /\ lost' \subseteq Intents /\ (Confirmed(w) => i \in lost')
  BY <1>0, <1>1 DEF Outbox!Crash, Confirmed, OutboxInv, Outbox!TypeOK
<1>3. /\ worker' \in [Workers -> [phase : {"idle", "claimed", "answered"},
                                  row : Intents \cup {None}, answer : Outbox!Answers \cup {None}]]
      /\ worker'[w] = Outbox!NoWork
      /\ \A v \in Workers \ {w} : worker'[v] = worker[v]
  BY <1>1, OneWorkerMoves DEF OutboxInv, Outbox!NoWork
<1>4. Outbox!TypeOK'
  BY <1>1, <1>2, <1>3 DEF OutboxInv, Outbox!TypeOK
<1>5. /\ ~Works(w)' /\ ~Confirmed(w)'
      /\ \A v \in Workers \ {w} : (Works(v)' <=> Works(v)) /\ (Confirmed(v)' <=> Confirmed(v))
  BY <1>3 DEF Works, Confirmed, Outbox!NoWork
<1>6. Holding'
  <2>1. \A v \in Workers : ~Works(v)' => worker'[v] = Outbox!NoWork
    BY <1>3, <1>5 DEF OutboxInv, Holding
  <2>2. \A v \in Workers : Works(v)' => worker'[v].row \in Outbox!ToSet(due')
    BY <1>1, <1>3, <1>5 DEF OutboxInv, Holding
  <2>3. \A u, v \in Workers : Works(u)' /\ Works(v)' /\ worker'[u].row = worker'[v].row => u = v
    BY <1>3, <1>5 DEF OutboxInv, Holding
  <2> QED
    BY <2>1, <2>2, <2>3 DEF Holding, Outbox!NoWork
<1>7. Told'
  <2>1. \A v \in Workers : Confirmed(v)' => taken'[worker'[v].row] > 0
    BY <1>1, <1>3, <1>5 DEF OutboxInv, Told
  <2>2. ASSUME NEW j \in Intents, taken[j] > 0
        PROVE  \/ j \in lost'
               \/ status[j] = "DELIVERED"
               \/ \E v \in Workers : Confirmed(v)' /\ worker'[v].row = j
    <3>1. \A v \in Workers : Confirmed(v) /\ worker[v].row = j =>
            j \in lost' \/ (Confirmed(v)' /\ worker'[v].row = j)
      BY <1>0, <1>2, <1>3, <1>5
    <3> QED
      BY <1>2, <2>2, <3>1 DEF OutboxInv, Told
  <2> QED
    BY <1>1, <2>1, <2>2 DEF Told
<1>8. Outbox!RepeatsAreExplained' /\ Outbox!DeliveredWasTaken'
  BY <1>1, <1>2 DEF OutboxInv, Outbox!RepeatsAreExplained, Outbox!DeliveredWasTaken
<1> QED
  BY <1>4, <1>6, <1>7, <1>8 DEF OutboxInv

-----------------------------------------------------------------------------
(* The invariant and what it implies *)

LEMMA OutboxInitially == OutboxAssumption /\ Outbox!Init => OutboxInv
<1> SUFFICES ASSUME OutboxAssumption, Outbox!Init PROVE OutboxInv
  OBVIOUS
<1>1. due \in Seq(Intents) /\ DOMAIN due = {} /\ Outbox!ToSet(due) = {} /\ Outbox!IsInjective(due)
  BY EmptySeq DEF Outbox!Init, Outbox!ToSet, Outbox!IsInjective
<1>2. \A w \in Workers : worker[w] = Outbox!NoWork /\ ~Works(w) /\ ~Confirmed(w)
  BY DEF Outbox!Init, Works, Confirmed, Outbox!NoWork
<1>3. Outbox!TypeOK
  BY <1>1 DEF Outbox!Init, Outbox!TypeOK, Outbox!NoWork, Outbox!Status
<1> QED
  BY <1>2, <1>3 DEF Outbox!Init, OutboxInv, Holding, Told, Outbox!RepeatsAreExplained,
     Outbox!DeliveredWasTaken

\* A step keeps the invariant, and nothing happens to a settled row in it.
LEMMA OutboxStep ==
  OutboxAssumption /\ OutboxInv /\ [Outbox!Next]_(Outbox!vars) =>
    OutboxInv' /\ [Outbox!SettledIsSilent]_(Outbox!vars)
<1> SUFFICES ASSUME OutboxAssumption, OutboxInv, [Outbox!Next]_(Outbox!vars)
             PROVE  OutboxInv' /\ [Outbox!SettledIsSilent]_(Outbox!vars)
  OBVIOUS
<1>1. ASSUME NEW i \in Intents, Outbox!Assign(i) PROVE OutboxInv' /\ Outbox!SettledIsSilent
  <2>1. Outbox!SettledIsSilent
    BY <1>1 DEF Outbox!Assign, Outbox!SettledIsSilent, Outbox!Final, OutboxInv, Outbox!TypeOK
  <2> QED
    BY <1>1, <2>1, AssignKeeps
<1>2. ASSUME NEW i \in Intents, Outbox!ChangeRecipient(i) \/ Outbox!BecomeDue(i)
      PROVE  OutboxInv' /\ Outbox!SettledIsSilent
  <2>1. Outbox!SettledIsSilent
    BY <1>2 DEF Outbox!ChangeRecipient, Outbox!BecomeDue, Outbox!SettledIsSilent
  <2> QED
    BY <1>2, <2>1, ChangeRecipientKeeps, BecomeDueKeeps
<1>3. ASSUME NEW w \in Workers, Outbox!Claim(w) \/ Outbox!Crash(w)
      PROVE  OutboxInv' /\ Outbox!SettledIsSilent
  <2>1. Outbox!SettledIsSilent
    BY <1>3 DEF Outbox!Claim, Outbox!Crash, Outbox!SettledIsSilent
  <2> QED
    BY <1>3, <2>1, ClaimKeeps, CrashKeeps
<1>4. ASSUME NEW w \in Workers, NEW answer \in Outbox!Answers, NEW arrives \in BOOLEAN,
             Outbox!Call(w, answer, arrives)
      PROVE  OutboxInv' /\ Outbox!SettledIsSilent
  BY <1>4, CallKeeps
<1>5. ASSUME NEW w \in Workers, Outbox!RefuseRecipient(w) \/ Outbox!Deliver(w) \/ Outbox!Retry(w)
             \/ Outbox!GiveUp(w)
      PROVE  OutboxInv' /\ Outbox!SettledIsSilent
  <2>1. CASE Outbox!RefuseRecipient(w)
    <3>1. Works(w) /\ ~Confirmed(w) /\ Outbox!Settle(w, "PERMANENT_FAILURE")
      BY <2>1 DEF Outbox!RefuseRecipient, Works, Confirmed
    <3> QED
      BY <3>1, SettleKeeps DEF Outbox!Final
  <2>2. CASE Outbox!Deliver(w)
    <3>1. Works(w) /\ Confirmed(w) /\ Outbox!Settle(w, "DELIVERED")
      BY <2>2 DEF Outbox!Deliver, Works, Confirmed
    <3> QED
      BY <3>1, SettleKeeps DEF Outbox!Final
  <2>3. CASE Outbox!Retry(w)
    <3>1. Works(w) /\ ~Confirmed(w) /\ Outbox!Settle(w, "RETRY_WAIT")
      BY <2>3 DEF Outbox!Retry, Works, Confirmed
    <3> QED
      BY <3>1, SettleKeeps
  <2>4. CASE Outbox!GiveUp(w)
    <3>1. Works(w) /\ ~Confirmed(w) /\ Outbox!Settle(w, "PERMANENT_FAILURE")
      BY <2>4 DEF Outbox!GiveUp, Works, Confirmed
    <3> QED
      BY <3>1, SettleKeeps DEF Outbox!Final
  <2> QED
    BY <1>5, <2>1, <2>2, <2>3, <2>4
<1>6. CASE UNCHANGED Outbox!vars
  BY <1>6 DEF Outbox!vars, OutboxInv, Outbox!TypeOK, Holding, Works, Outbox!NoWork, Told,
     Confirmed, Outbox!RepeatsAreExplained, Outbox!DeliveredWasTaken
<1> QED
  BY <1>1, <1>2, <1>3, <1>4, <1>5, <1>6 DEF Outbox!Next

\* What every step keeps: a worker's row is its own, and whatever was taken is
\* delivered, about to be, or known to be lost (bitrix-notification-outbox.ts:81-119).
THEOREM OutboxInvariance == ASSUME OutboxAssumption PROVE Outbox!Spec => []OutboxInv
<1>1. Outbox!Init => OutboxInv
  BY OutboxAssumption, OutboxInitially
<1>2. OutboxInv /\ [Outbox!Next]_(Outbox!vars) => OutboxInv'
  BY OutboxAssumption, OutboxStep
<1> QED
  BY <1>1, <1>2, PTL DEF Outbox!Spec

\* Bitrix takes a message twice only if an answer or a commit was lost after the
\* first, a delivered row is one whose message it took, and nothing is sent for
\* a settled row, for any number of workers (bitrix-notification-outbox.ts:81-119).
THEOREM DeliveryStaysExplained == ASSUME OutboxAssumption PROVE Outbox!Spec => DeliveryIsExplained
<1>1. OutboxInv => Outbox!TypeOK /\ Outbox!RepeatsAreExplained /\ Outbox!DeliveredWasTaken
  BY DEF OutboxInv
<1>2. OutboxInv /\ [Outbox!Next]_(Outbox!vars) => [Outbox!SettledIsSilent]_(Outbox!vars)
  BY OutboxAssumption, OutboxStep
<1>3. Outbox!Spec => []OutboxInv
  BY OutboxAssumption, OutboxInvariance
<1> QED
  BY <1>1, <1>2, <1>3, PTL DEF Outbox!Spec, DeliveryIsExplained, Outbox!DeliveryIsExplained
==============================================================================
