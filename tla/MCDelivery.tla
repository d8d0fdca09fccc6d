----------------------------- MODULE MCDelivery -----------------------------
(***************************************************************************)
(* Two actors who share a key, with two processes for their commands; two  *)
(* workers racing over two notifications; one worker alone, under the      *)
(* fairness of its loop, with one portal that answers at times; and two    *)
(* uploads that wait for one slot of the gate of external writes.  Every   *)
(* scene has one of these, and the others stand still.                     *)
(***************************************************************************)
EXTENDS Delivery

CONSTANTS w1, w2, i1, i2

VARIABLES
  scene,
  uploads, active, waiting, disk, records, named, unsure, crashed

commands == vars
outbox == <<status, due, reachable, worker, taken, lost>>
storage == <<uploads, active, waiting, disk, records, named, unsure, crashed>>
mcVars == <<scene, commands, outbox, storage>>

Uploads == INSTANCE FileStorage WITH
  Uploads <- {w1, w2}, Limit <- 1, Others <- 1, PoolMax <- 3, requests <- uploads

ASSUME OutboxHolds == OutboxAssumption
ASSUME UploadsHold == Uploads!StorageAssumption

NoStorage ==
  /\ uploads = 0 /\ active = 0 /\ waiting = 0 /\ disk = 0
  /\ records = 0 /\ named = 0 /\ unsure = 0 /\ crashed = 0

MCInit ==
  /\ scene \in {"commands", "race", "alone", "uploads"}
  /\ Init /\ (scene # "commands" => rights = {})
  /\ Outbox!Init
  /\ IF scene = "uploads" THEN Uploads!Init ELSE NoStorage

CommandsStep(A) == scene = "commands" /\ A /\ UNCHANGED <<scene, outbox, storage>>
RaceStep(A) == scene = "race" /\ A /\ UNCHANGED <<scene, commands, storage>>
AloneStep(A) == scene = "alone" /\ A /\ UNCHANGED <<scene, commands, storage>>
UploadsStep(A) == scene = "uploads" /\ A /\ UNCHANGED <<scene, commands, outbox>>

MCNext ==
  \/ CommandsStep(Next)
  \/ RaceStep(Outbox!Next)
  \/ AloneStep(Outbox!Next /\ worker'[w2] = Outbox!NoWork)
  \/ UploadsStep(Uploads!Next)

-----------------------------------------------------------------------------
(* The fairness of FairSpec, of the outbox and of a holder of the gate, for *)
(* the steps they take in their scene.                                      *)
CommandsFairness == \A t \in Attempts : WF_mcVars(CommandsStep(Step(t)))
Answering ==
  \E answer \in Outbox!Answers, arrives \in BOOLEAN : Outbox!Call(w1, answer, arrives)
Refusing == Outbox!RefuseRecipient(w1) \/ Outbox!Retry(w1) \/ Outbox!GiveUp(w1)
AloneFairness ==
  /\ \A i \in {i1, i2} : WF_mcVars(AloneStep(Outbox!BecomeDue(i)))
  /\ WF_mcVars(AloneStep(Outbox!Claim(w1)))
  /\ SF_mcVars(AloneStep(Answering))
  /\ SF_mcVars(AloneStep(Refusing))
  /\ SF_mcVars(AloneStep(Outbox!Deliver(w1)))
  /\ SF_mcVars(AloneStep(worker[w1].row = i2 /\ Outbox!Call(w1, "confirmed", TRUE)))
UploadsFairness == \A u \in {w1, w2} : WF_mcVars(UploadsStep(Uploads!Step(u)))

MCSpec ==
  MCInit /\ [][MCNext]_mcVars /\ CommandsFairness /\ AloneFairness /\ UploadsFairness

-----------------------------------------------------------------------------
\* HealthyAreSettled for one worker alone: the notification of a portal that
\* answers now and then is settled in the end, although another portal never
\* answers (DUE_ROW_SQL, startBitrixNotificationWorker).
HealthyIsSettledAlone ==
  []<>(scene = "alone" => status[i2] \in {"NONE"} \cup Outbox!Final)

\* An upload that waits for the gate is answered in the end, also when the one
\* before it fails (file-store.ts:56-61).
UploadsEnd ==
  \A u \in {w1, w2} :
    []<>(scene = "uploads" => Uploads!In(u, "idle") \/ Uploads!In(u, "done"))
=============================================================================
