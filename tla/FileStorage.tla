---------------------------- MODULE FileStorage ----------------------------
(***************************************************************************)
(* Files of documents kept on Bitrix24 Disk (file-storage).  A business    *)
(* transaction uploads a file, checks it, inserts its record and commits;  *)
(* when anything fails the file is deleted again.  The two stores share no *)
(* transaction: an upload, a deletion and a COMMIT may each be done        *)
(* without their answer.  At most Limit such transactions run in a process *)
(* (Gate), the others wait for a slot before they take a connection.       *)
(***************************************************************************)
EXTENDS Integers, FiniteSets, Sequences

CONSTANTS
  Uploads, \* requests, each with the one file it puts
  Limit,   \* EXTERNAL_WRITE_CONCURRENCY
  Others,  \* further transactions that need a second connection: the outbox worker
  PoolMax  \* connections of the pool

\* What the constants satisfy.
StorageAssumption ==
  /\ Limit \in Nat \ {0} /\ Others \in Nat /\ PoolMax \in Nat
  /\ Limit + Others < PoolMax

VARIABLES
  requests, \* [Uploads -> Request]
  active,   \* Gate.active
  waiting,  \* Gate.waiting
  disk,     \* [Uploads -> what Disk holds of the file]
  records,  \* files with a committed row of attachments
  named,    \* files named in an error of the storage log
  unsure,   \* files whose COMMIT was done without its answer
  crashed   \* files whose process stopped on the way

gate == <<active, waiting>>
history == <<unsure, crashed>>
vars == <<requests, gate, disk, records, named, history>>

Holding == {"uploading", "lookup", "verify", "refused", "rejected", "uploaded", "recorded"}
Phases == {"idle", "queued", "admitted", "failed", "done"} \cup Holding
Request == [phase : Phases, tracked : BOOLEAN, healed : BOOLEAN]
OnDisk == {"stored", "damaged"}

In(u, phase) == requests[u].phase = phase
Move(u, phase) == requests' = [requests EXCEPT ![u].phase = phase]
Put(u, outcomes) == \E d \in outcomes : disk' = [disk EXCEPT ![u] = d]
Name(u) == named' = named \cup {u}

At(phase) == [phase |-> phase, tracked |-> FALSE, healed |-> FALSE]
Init ==
  /\ requests = [u \in Uploads |-> At("idle")]
  /\ active = 0
  /\ waiting = <<>>
  /\ disk = [u \in Uploads |-> "none"]
  /\ records = {}
  /\ named = {}
  /\ unsure = {}
  /\ crashed = {}

-----------------------------------------------------------------------------
\* Gate.run: a free slot, or a place in the queue.
Arrive(u) ==
  /\ In(u, "idle")
  /\ IF active < Limit
     THEN active' = active + 1 /\ Move(u, "admitted") /\ UNCHANGED waiting
     ELSE waiting' = Append(waiting, u) /\ Move(u, "queued") /\ UNCHANGED active
  /\ UNCHANGED <<disk, records, named, history>>

Connect(u) ==
  /\ In(u, "admitted") /\ Move(u, "uploading")
  /\ UNCHANGED <<gate, disk, records, named, history>>

\* The call of uploadOnce is answered, refused, or neither (a timeout, a 5xx,
\* an unknown code): then the file may be there, on its way or nowhere.
Upload(u) ==
  /\ In(u, "uploading")
  /\ \/ Move(u, "verify") /\ Put(u, OnDisk) /\ UNCHANGED named
     \/ Move(u, "refused") /\ Name(u) /\ UNCHANGED disk
     \/ Move(u, "lookup") /\ Put(u, {"none", "flying"} \cup OnDisk) /\ UNCHANGED named
  /\ UNCHANGED <<gate, records, history>>

\* A file on its way arrives after all.
Land(u) ==
  /\ disk[u] = "flying" /\ Put(u, {"stored"})
  /\ UNCHANGED <<requests, gate, records, named, history>>

\* The reconciliation by name adopts a whole file, finds none, or fails itself.
Lookup(u) ==
  /\ In(u, "lookup")
  /\ \/ disk[u] = "stored" /\ Move(u, "uploaded") /\ UNCHANGED named
     \/ Move(u, "refused") /\ Name(u)
  /\ UNCHANGED <<gate, disk, records, history>>

\* Somebody deleted the folder: it is made again, and the upload retried once.
Heal(u) ==
  /\ In(u, "refused") /\ ~requests[u].healed
  /\ requests' = [requests EXCEPT ![u].phase = "uploading", ![u].healed = TRUE]
  /\ Put(u, {"none"})
  /\ UNCHANGED <<gate, records, named, history>>

\* A file of another or an unknown size is removed, if it can be.
Verify(u) ==
  /\ In(u, "verify")
  /\ \/ disk[u] = "stored" /\ Move(u, "uploaded") /\ UNCHANGED <<disk, named>>
     \/ Move(u, "rejected") /\ Name(u) /\ Put(u, {"none", disk[u]})
  /\ UNCHANGED <<gate, records, history>>

Record(u) ==
  /\ In(u, "uploaded") /\ Move(u, "recorded")
  /\ UNCHANGED <<gate, disk, records, named, history>>

-----------------------------------------------------------------------------
\* The end of a transaction hands the slot over to the first that waits.
\* Mutated form: the slot is given back and nobody is woken.
LeaveAlone(u, end) ==
  /\ requests' = [requests EXCEPT ![u] = end]
  /\ active' = active - 1
  /\ UNCHANGED waiting
Leave(u, end) ==
  LET ended == [requests EXCEPT ![u] = end] IN
    IF waiting = <<>>
    THEN requests' = ended /\ active' = active - 1 /\ UNCHANGED waiting
    ELSE /\ requests' = [ended EXCEPT ![Head(waiting)].phase = "admitted"]
         /\ waiting' = Tail(waiting)
         /\ UNCHANGED active

\* FileUnitOfWork.track comes right after the upload, before its record.
\* Mutated form: after the record.
TrackedWithRecord(u) == In(u, "recorded")
Tracked(u) == In(u, "uploaded") \/ In(u, "recorded")

Failed(u) == [At("failed") EXCEPT !.tracked = Tracked(u)]

\* Any later statement, a constraint, the connection or COMMIT itself.
Fail(u) ==
  /\ requests[u].phase \in {"admitted", "uploading", "refused", "rejected", "uploaded", "recorded"}
  /\ Leave(u, Failed(u))
  /\ UNCHANGED <<disk, records, named, history>>

\* COMMIT is done; its answer comes, or an error comes instead.
Commit(u) ==
  /\ In(u, "recorded")
  /\ records' = records \cup {u}
  /\ \/ Leave(u, At("done")) /\ UNCHANGED unsure
     \/ Leave(u, Failed(u)) /\ unsure' = unsure \cup {u}
  /\ UNCHANGED <<disk, named, crashed>>

\* FileUnitOfWork.compensate: a removal that fails is logged.
Compensate(u) ==
  /\ In(u, "failed") /\ requests' = [requests EXCEPT ![u] = At("done")]
  /\ \/ ~requests[u].tracked /\ UNCHANGED <<disk, named>>
     \/ requests[u].tracked /\ Put(u, {"none"}) /\ UNCHANGED named
     \/ requests[u].tracked /\ Put(u, {"none", disk[u]}) /\ Name(u)
  /\ UNCHANGED <<gate, records, history>>

\* The process stops: every request of it ends where it is, and a COMMIT on
\* its way is done or not.
InFlight == {u \in Uploads : requests[u].phase \notin {"idle", "done"}}
Crash ==
  /\ InFlight # {}
  /\ requests' = [u \in Uploads |-> IF u \in InFlight THEN At("done") ELSE requests[u]]
  /\ active' = 0
  /\ waiting' = <<>>
  /\ \E done \in SUBSET {u \in Uploads : In(u, "recorded")} : records' = records \cup done
  /\ crashed' = crashed \cup InFlight
  /\ UNCHANGED <<disk, named, unsure>>

Step(u) ==
  \/ Connect(u) \/ Upload(u) \/ Lookup(u) \/ Heal(u) \/ Verify(u) \/ Record(u)
  \/ Fail(u) \/ Commit(u) \/ Compensate(u)

Next == Crash \/ \E u \in Uploads : Arrive(u) \/ Land(u) \/ Step(u)

\* Every call is bounded by a timeout, so a request that runs goes on.
Fairness == \A u \in Uploads : WF_vars(Step(u))

Spec == Init /\ [][Next]_vars /\ Fairness

-----------------------------------------------------------------------------
\* Every variable keeps its shape.
TypeOK ==
  /\ requests \in [Uploads -> Request] /\ active \in 0..Limit
  /\ disk \in [Uploads -> {"none", "flying"} \cup OnDisk]
  /\ records \cup named \cup unsure \cup crashed \subseteq Uploads

\* A committed record has its whole file on Disk, unless the answer of its
\* COMMIT was lost and the compensation took the file away (file-store.ts:97).
RecordsHaveFiles == \A u \in records \ unsure : disk[u] = "stored"

\* A file without a record is named in an error of the log, in the hands of a
\* request, or left by a process that stopped: it is never silent
\* (file-store.ts:24-28, bitrix-disk-provider.ts:97-103).
OrphansAreNamed ==
  \A u \in Uploads \ records : disk[u] \in OnDisk => u \in named \cup crashed \cup InFlight

\* Transactions that need a second connection never hold all of the pool
\* (file-store.ts:47-51).
PoolIsNotExhausted ==
  Cardinality({u \in Uploads : requests[u].phase \in Holding}) + Others < PoolMax

\* The gate counts the transactions that run, hand-overs included, and nobody
\* waits while a slot is free (file-store.ts:56-61).
GateIsExact ==
  /\ active = Cardinality({u \in Uploads : requests[u].phase \in {"admitted"} \cup Holding})
  /\ waiting # <<>> => active = Limit

\* Whatever fails, stops or stays without an answer between Disk and the
\* database: a record has its file unless a COMMIT was not answered, a file
\* without a record is named in the log, and uploads never hold the whole pool
\* while each needs one connection more (file-store.ts:24-28, 47-51).
FilesAreAccounted ==
  TypeOK /\ RecordsHaveFiles /\ OrphansAreNamed /\ PoolIsNotExhausted /\ GateIsExact

\* What file-store.ts:72 says of every record.
RecordsAlwaysHaveFiles == \A u \in records : disk[u] = "stored"

\* Every request that waits for a slot is answered in the end.
UploadsEnd == \A u \in Uploads : In(u, "queued") ~> In(u, "done")
=============================================================================
