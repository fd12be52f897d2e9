-------------------------- MODULE VFSBackendProofs --------------------------
(***************************************************************************)
(* Proofs about the disk storage backend, for every value of the constants.*)
(* DiskInv is inductive.  What a step does to each part of the state is    *)
(* said once (CallsGrow, QueueStep, PostedStep, ReplyStep, DoingStep,      *)
(* FilesStep), with one case per action, and the conjuncts of DiskInv      *)
(* follow from these facts.  PromiseInv and BackendInv strengthen it.      *)
(***************************************************************************)
EXTENDS VFSBackend, TLAPS

\* The files and the memory of a backend that was never used satisfy DiskInv.
LEMMA InitDisk == Init => DiskInv
  BY ConstantsAssumption
  DEF Init, DiskInv, TypeOK, CallsMade, WorkerKnows, RowsHaveData,
      PostedAcksKept, AckedGlobalKept, Idle, Free, NoPurge, NoReply, Heads,
      Dbs, Threads, WorkerStep, ThreadStep, Reply, Call, WorkItem, Handler

\* An answer to a call is a handler that may be posted.
LEMMA AnswerType ==
    ASSUME NEW r \in Reqs, NEW res \in Results, NEW got \in SUBSET Assets
    PROVE  Answer(r, res, got) \in Handler
  BY Zenon DEF Answer, Handler, Reply

\* A failed write posts two handlers.
LEMMA PairSeq ==
    ASSUME NEW S, NEW s \in Seq(S), NEW x \in S, NEW y \in S
    PROVE  s \o <<x, y>> \in Seq(S)
<1>1. <<x, y>> \in Seq(S)
  OBVIOUS
<1>2. QED
  BY <1>1

\* A call the worker takes off the queue was made, and its arguments are known.
LEMMA TakenCall ==
    ASSUME TypeOK, CallsMade, NEW op, TakeCall(op)
    PROVE  /\ Head(queue).r \in Reqs
           /\ call[Head(queue).r] \in Call
           /\ call[Head(queue).r].op = op
           /\ call[Head(queue).r].id \in Ids
           /\ call[Head(queue).r].db \in Dbs
           /\ queue' \in Seq(WorkItem)
<1>1. Head(queue) = queue[1] /\ 1 \in DOMAIN queue /\ queue[1] \in WorkItem
  BY DEF TypeOK, TakeCall
<1>2. Head(queue).r \in Reqs
  BY Zenon, <1>1 DEF TakeCall, WorkItem
<1>3. call[Head(queue).r] # None
  BY Zenon, <1>1 DEF TakeCall, CallsMade
<1>4. queue' \in Seq(WorkItem)
  BY DEF TakeCall, TypeOK
<1>5. call[Head(queue).r] \in Call
  BY Zenon, <1>2, <1>3 DEF TypeOK
<1>6. QED
  BY Zenon, <1>2, <1>4, <1>5 DEF Call, TakeCall

\* A lookup finds an asset or nothing.
LEMMA LookupType ==
    ASSUME TypeOK, NEW id \in Ids
    PROVE  Lookup(id) \in Assets \cup {None}
<1>1. rows["globals"] \in [Ids -> Assets \cup {None}]
  BY Zenon DEF TypeOK, Dbs
<1>2. rows["locals"] \in [Ids -> Assets \cup {None}]
  BY Zenon DEF TypeOK, Dbs
<1>3. QED
  BY Zenon, <1>1, <1>2 DEF Lookup

\* A purge step the worker takes off the queue names a directory.
LEMMA TakenItem ==
    ASSUME TypeOK, NEW op \in {"purgeLocals", "deleteLocals"}, TakeItem(op)
    PROVE  Head(queue).head \in Heads /\ queue' \in Seq(WorkItem)
<1>1. Head(queue) \in WorkItem /\ queue' \in Seq(WorkItem)
  BY DEF TypeOK, TakeItem
<1>2. QED
  BY Zenon, <1>1 DEF TakeItem, WorkItem

\* No step breaks the shape of the variables.
LEMMA TypeStep == TypeOK /\ CallsMade /\ [Next]_vars => TypeOK'
<1> USE ConstantsAssumption
    DEF TypeOK
<1> SUFFICES ASSUME TypeOK, CallsMade, [Next]_vars PROVE TypeOK'
  BY Zenon
<1>1. ASSUME NEW r \in Reqs, NEW id \in Ids, GetAsset(r, id) PROVE TypeOK'
  <2>1. call' \in [Reqs -> Call \cup {None}]
    BY Zenon, <1>1 DEF GetAsset, Begin, Call, CallOps, Dbs
  <2>2. queue' \in Seq(WorkItem)
    <3>0. [op |-> "call", r |-> r] \in WorkItem
      BY Zenon DEF WorkItem
    <3>1. Append(queue, [op |-> "call", r |-> r]) \in Seq(WorkItem)
      BY <3>0
    <3>2. queue' = queue \/ queue' = Append(queue, [op |-> "call", r |-> r])
      BY Zenon, <1>1 DEF GetAsset
    <3>3. QED
      BY Zenon, <3>1, <3>2
  <2>3. posted' \in Seq(Handler)
    <3>0. Answer(r, "notfound", {}) \in Handler
      BY Zenon, AnswerType DEF Results
    <3>1. Append(posted, Answer(r, "notfound", {})) \in Seq(Handler)
      BY <3>0
    <3>2. posted' = posted \/ posted' = Append(posted, Answer(r, "notfound", {}))
      BY Zenon, <1>1 DEF GetAsset
    <3>3. QED
      BY Zenon, <3>1, <3>2
  <2>4. QED
    BY Zenon, <1>1, <2>1, <2>2, <2>3 DEF GetAsset
<1>2. ASSUME NEW r \in Reqs, NEW id \in Ids, NEW db \in Dbs,
             StoreAsset(r, id, db)
      PROVE TypeOK'
  <2>1. call' \in [Reqs -> Call \cup {None}]
    BY Zenon, <1>2 DEF StoreAsset, Begin, Call, CallOps
  <2>2. posted' \in Seq(Handler)
    <3>0. Answer(r, "exists", {}) \in Handler
      BY Zenon, AnswerType DEF Results
    <3>1. Append(posted, Answer(r, "exists", {})) \in Seq(Handler)
      BY <3>0
    <3>2. posted' = posted \/ posted' = Append(posted, Answer(r, "exists", {}))
      BY Zenon, <1>2 DEF StoreAsset
    <3>3. QED
      BY Zenon, <3>1, <3>2
  <2>3. doing' \in [Threads -> ThreadStep]
    <3>1. ThreadOf(r) \in Threads /\ [at |-> "addNewId", r |-> r] \in ThreadStep
      BY DEF ThreadOf, Threads, ThreadStep
    <3>2. PICK t, x : t = ThreadOf(r) /\ x = [at |-> "addNewId", r |-> r]
      BY Zenon
    <3>3. doing' = doing \/ doing' = [doing EXCEPT ![t] = x]
      BY Zenon, <1>2, <3>2 DEF StoreAsset
    <3>4. [doing EXCEPT ![t] = x] \in [Threads -> ThreadStep]
      BY <3>1, <3>2
    <3>5. QED
      BY Zenon, <3>3, <3>4
  <2>4. QED
    BY Zenon, <1>2, <2>1, <2>2, <2>3 DEF StoreAsset
<1>3. ASSUME NEW t \in Threads, StoreAddNewId(t) PROVE TypeOK'
  BY Zenon, <1>3 DEF StoreAddNewId, Call, ThreadStep, CallsMade
<1>4. ASSUME NEW t \in Threads, StoreEnqueue(t) PROVE TypeOK'
  BY <1>4 DEF StoreEnqueue, ThreadStep, WorkItem, Free
<1>5. ASSUME NEW r \in Reqs, NEW id \in Ids, NEW op \in {"purge", "status", "list"},
             QueueOnly(r, op, id)
      PROVE TypeOK'
  BY <1>5 DEF QueueOnly, Begin, Call, CallOps, WorkItem, Dbs
<1>6. CASE BeginPurgeLocals
  BY <1>6 DEF BeginPurgeLocals, Heads
<1>7. CASE OnPurgeTimer
  <2>1. queue' \in Seq(WorkItem)
    BY <1>7 DEF OnPurgeTimer, WorkItem
  <2>2. purge' \in [active : BOOLEAN, next : Heads, rounds : 0 .. MaxPurges]
    BY <1>7 DEF OnPurgeTimer, Heads, NoPurge
  <2>3. QED
    BY Zenon, <1>7, <2>1, <2>2 DEF OnPurgeTimer
<1>8. CASE RunCallback
  <2>1. Head(posted) \in Handler /\ posted' \in Seq(Handler)
    BY <1>8 DEF RunCallback, RunHandler
  <2>2. Head(posted).r \in Reqs /\ Head(posted).val \in Reply
    BY Zenon, <1>8, <2>1 DEF RunCallback, RunHandler, Handler
  <2>3. QED
    BY Zenon, <1>8, <2>1, <2>2 DEF RunCallback, RunHandler
<1>9. CASE AssetWriteFailed
  BY <1>9 DEF AssetWriteFailed, RunHandler
<1>10. CASE UnindexLocals
  BY SMTT(60), <1>10 DEF UnindexLocals, RunHandler, Handler, ThreadStep, Threads
<1>11. CASE ScheduleDelete
  BY <1>11 DEF ScheduleDelete, ThreadStep, WorkItem, Threads, Free
<1>12. CASE IoLoopFailed
  BY <1>12 DEF IoLoopFailed, RunHandler
<1>13. CASE PerformDiskRead
  <2>1. TakeCall("get")
    BY Zenon, <1>13 DEF PerformDiskRead
  <2>2. Lookup(call[Head(queue).r].id) \in Assets \cup {None}
    BY Zenon, <2>1, TakenCall, LookupType
  <2>3. posted' \in Seq(Handler)
    <3>1. Head(queue).r \in Reqs
      BY Zenon, <2>1, TakenCall
    <3>2. PICK res \in Results, got \in SUBSET Assets :
             posted' = Append(posted, Answer(Head(queue).r, res, got))
      BY Zenon, <1>13, <2>2 DEF PerformDiskRead, Results
    <3>3. QED
      BY <3>1, <3>2, AnswerType
  <2>4. QED
    BY Zenon, <1>13, <2>1, <2>3, TakenCall DEF PerformDiskRead
<1>14. CASE WriteNewAsset
  <2> DEFINE r == Head(queue).r
  <2>1. TakeCall("put")
    BY Zenon, <1>14 DEF WriteNewAsset
  <2>2. r \in Reqs /\ DbFor(r) \in Dbs /\ HeadOf[call[r].id] \in Heads
    BY Zenon, <2>1, TakenCall DEF DbFor, Call
  <2>3. data' \in [Dbs -> [Heads -> SUBSET Assets]]
    <3>1. PICK db \in Dbs, h \in Heads :
             data' = [data EXCEPT ![db][h] = @ \cup {r}]
      BY Zenon, <1>14, <2>2 DEF WriteNewAsset
    <3>2. QED
      BY <2>2, <3>1 DEF Assets
  <2>4. worker' \in WorkerStep
    BY Zenon, <1>14, <2>2 DEF WriteNewAsset, WorkerStep
  <2>5. QED
    BY Zenon, <1>14, <2>1, <2>3, <2>4, TakenCall DEF WriteNewAsset
<1>15. CASE WriteRejected
  <2>1. TakeCall("put")
    BY Zenon, <1>15 DEF WriteRejected
  <2>2. posted' \in Seq(Handler)
    <3>1. Answer(Head(queue).r, "failed", {}) \in Handler
      BY Zenon, <2>1, TakenCall, AnswerType DEF Results
    <3>2. posted' = Append(posted, Answer(Head(queue).r, "failed", {}))
      BY Zenon, <1>15 DEF WriteRejected
    <3>3. QED
      BY <3>1, <3>2
  <2>3. QED
    BY Zenon, <1>15, <2>1, <2>2, TakenCall DEF WriteRejected
<1>16. CASE WriteThrows
  <2> DEFINE r == Head(queue).r
  <2>1. TakeCall("put")
    BY Zenon, <1>16 DEF WriteThrows
  <2>2. [h |-> "assetWriteFailed", id |-> call[r].id] \in Handler
    BY Zenon, <2>1, TakenCall DEF Handler, Call
  <2>3. Answer(r, "failed", {}) \in Handler
    BY Zenon, <2>1, TakenCall, AnswerType DEF Results
  <2>4. posted' \in Seq(Handler)
    BY Zenon, <1>16, <2>2, <2>3, PairSeq DEF WriteThrows
  <2>5. QED
    BY Zenon, <1>16, <2>1, <2>4, TakenCall DEF WriteThrows
<1>17. CASE RecordAssetPosition
  <2>1. worker.r \in Reqs /\ call[worker.r] \in Call
    BY Zenon, <1>17 DEF RecordAssetPosition, CallsMade, WorkerStep
  <2>2. posted' \in Seq(Handler)
    <3>1. Answer(worker.r, "ok", {}) \in Handler
      BY Zenon, <2>1, AnswerType DEF Results
    <3>2. posted' = Append(posted, Answer(worker.r, "ok", {}))
      BY Zenon, <1>17 DEF RecordAssetPosition
    <3>3. QED
      BY <3>1, <3>2
  <2>3. rows' \in [Dbs -> [Ids -> Assets \cup {None}]]
    <3>1. PICK db \in Dbs, id \in Ids :
             rows' = [rows EXCEPT ![db][id] = worker.r]
      BY Zenon, <1>17, <2>1 DEF RecordAssetPosition, DbFor, Call
    <3>2. QED
      BY Zenon, <2>1, <3>1 DEF Assets
  <2>4. worker' \in WorkerStep /\ pushed' \in SUBSET Assets
    BY Zenon, <1>17, <2>1 DEF RecordAssetPosition, WorkerStep, Idle, Assets
  <2>5. QED
    BY Zenon, <1>17, <2>2, <2>3, <2>4 DEF RecordAssetPosition
<1>18. CASE RecordThrows
  <2>1. worker.r \in Reqs /\ call[worker.r] \in Call
    BY Zenon, <1>18 DEF RecordThrows, CallsMade, WorkerStep
  <2>2. [h |-> "assetWriteFailed", id |-> call[worker.r].id] \in Handler
    BY Zenon, <2>1 DEF Handler, Call
  <2>3. Answer(worker.r, "failed", {}) \in Handler
    BY Zenon, <2>1, AnswerType DEF Results
  <2>4. posted' \in Seq(Handler)
    BY Zenon, <1>18, <2>2, <2>3, PairSeq DEF RecordThrows
  <2>5. worker' \in WorkerStep
    BY Zenon, <1>18 DEF RecordThrows, WorkerStep, Idle
  <2>6. QED
    BY Zenon, <1>18, <2>4, <2>5 DEF RecordThrows
<1>19. CASE PerformDiskPurge
  <2>1. queue' \in Seq(WorkItem)
    BY Zenon, <1>19, TakenCall DEF PerformDiskPurge
  <2>2. QED
    BY Zenon, <1>19, <2>1 DEF PerformDiskPurge
<1>20. CASE PerformGetStatus
  <2>1. TakeCall("status")
    BY Zenon, <1>20 DEF PerformGetStatus
  <2>2. posted' \in Seq(Handler)
    <3>1. Answer(Head(queue).r, "ok", {}) \in Handler
      BY Zenon, <2>1, TakenCall, AnswerType DEF Results
    <3>2. posted' = Append(posted, Answer(Head(queue).r, "ok", {}))
      BY Zenon, <1>20 DEF PerformGetStatus
    <3>3. QED
      BY <3>1, <3>2
  <2>3. QED
    BY Zenon, <1>20, <2>1, <2>2, TakenCall DEF PerformGetStatus
<1>21. CASE PerformGetStoredAssetIds
  <2>1. TakeCall("list")
    BY Zenon, <1>21 DEF PerformGetStoredAssetIds
  <2>2. \A head : GlobalsUnder(head) \in SUBSET Assets
    BY DEF GlobalsUnder, Dbs
  <2>3. [h |-> "ioLoopFailed"] \in Handler
    BY Zenon DEF Handler
  <2>4. posted' \in Seq(Handler)
    <3>1. Head(queue).r \in Reqs
      BY Zenon, <2>1, TakenCall
    <3>2. \A got \in SUBSET Assets : Answer(Head(queue).r, "ok", got) \in Handler
      BY Zenon, <3>1, AnswerType DEF Results
    <3>3. PICK x \in Handler : posted' = Append(posted, x)
      BY Zenon, <1>21, <2>2, <2>3, <3>2 DEF PerformGetStoredAssetIds
    <3>4. QED
      BY <3>3
  <2>5. QED
    BY Zenon, <1>21, <2>1, <2>4, TakenCall DEF PerformGetStoredAssetIds
<1>22. CASE PerformDiskPurgeLocals
  <2> DEFINE head == Head(queue).head
  <2>1. head \in Heads /\ queue' \in Seq(WorkItem)
    BY Zenon, <1>22, TakenItem DEF PerformDiskPurgeLocals
  <2>2. /\ [h |-> "unindexLocals", ids |-> LocalsUnder(head), head |-> head]
              \in Handler
        /\ [h |-> "ioLoopFailed"] \in Handler
    BY Zenon, <2>1 DEF Handler, LocalsUnder
  <2>3. posted' \in Seq(Handler)
    <3>1. PICK x \in Handler : posted' = Append(posted, x)
      BY Zenon, <1>22, <2>2 DEF PerformDiskPurgeLocals
    <3>2. QED
      BY <3>1
  <2>4. QED
    BY Zenon, <1>22, <2>1, <2>3 DEF PerformDiskPurgeLocals
<1>23. CASE RemoveLocalsIndex
  <2>1. Head(queue).head \in Heads /\ queue' \in Seq(WorkItem)
    BY Zenon, <1>23, TakenItem DEF RemoveLocalsIndex
  <2>2. rows' \in [Dbs -> [Ids -> Assets \cup {None}]]
    BY <1>23 DEF RemoveLocalsIndex, Dbs
  <2>3. worker' \in WorkerStep
    BY Zenon, <1>23, <2>1 DEF RemoveLocalsIndex, WorkerStep
  <2>4. QED
    BY Zenon, <1>23, <2>1, <2>2, <2>3 DEF RemoveLocalsIndex
<1>24. CASE RemoveLocalsData
  BY Zenon, <1>24 DEF RemoveLocalsData, WorkerStep, Dbs, Idle
<1>25. CASE RemoveThrows
  <2>1. queue' \in Seq(WorkItem)
    BY Zenon, <1>25, TakenItem DEF RemoveThrows
  <2>2. posted' \in Seq(Handler)
    <3>1. [h |-> "ioLoopFailed"] \in Handler
      BY Zenon DEF Handler
    <3>2. QED
      BY <1>25, <3>1 DEF RemoveThrows
  <2>3. worker' \in WorkerStep
    <3>1. worker' = worker \/ worker' = Idle
      BY Zenon, <1>25 DEF RemoveThrows
    <3>2. QED
      BY <3>1 DEF WorkerStep, Idle
  <2>4. QED
    BY Zenon, <1>25, <2>1, <2>2, <2>3 DEF RemoveThrows
<1>26. CASE Shutdown
  BY Zenon, <1>26 DEF Shutdown
<1>27. CASE ProcessEnds
  <2>1. reply' \in [Reqs -> Reply \cup {NoReply}]
    <3>1. [res |-> "lost", got |-> {}] \in Reply
      BY Zenon DEF Reply, Results
    <3>2. QED
      BY Zenon, <1>27, <3>1 DEF ProcessEnds
  <2>2. worker' \in WorkerStep /\ doing' \in [Threads -> ThreadStep]
    BY Zenon, <1>27 DEF ProcessEnds, Idle, Free, WorkerStep, ThreadStep
  <2>3. purge' \in [active : BOOLEAN, next : Heads, rounds : 0 .. MaxPurges]
    BY <1>27 DEF ProcessEnds, NoPurge, Heads
  <2>4. queue' \in Seq(WorkItem) /\ posted' \in Seq(Handler)
    BY <1>27 DEF ProcessEnds
  <2>5. QED
    BY Zenon, <1>27, <2>1, <2>2, <2>3, <2>4 DEF ProcessEnds
<1>28. CASE Restart
  BY Zenon, <1>28 DEF Restart
<1>29. CASE UNCHANGED vars
  BY Zenon, <1>29 DEF vars
<1> HIDE DEF TypeOK
<1>99. QED
  BY Zenon, <1>1, <1>2, <1>3, <1>4, <1>5, <1>6, <1>7, <1>8, <1>9, <1>10, <1>11,
     <1>12, <1>13, <1>14, <1>15, <1>16, <1>17, <1>18, <1>19, <1>20, <1>21,
     <1>22, <1>23, <1>24, <1>25, <1>26, <1>27, <1>28, <1>29
  DEF Next, Calls, AsioSteps, ThreadSteps, WorkerSteps, ShutdownCompletes,
      Crash, Threads

\* The arguments of a call never change once it was made.
LEMMA CallsGrow ==
    ASSUME TypeOK, [Next]_vars
    PROVE  \A r \in Reqs : call[r] # None => call'[r] = call[r]
<1>1. ASSUME NEW r \in Reqs, NEW op, NEW id, NEW db, Begin(r, op, id, db)
      PROVE  \A q \in Reqs : call[q] # None => call'[q] = call[q]
  BY Zenon, <1>1 DEF Begin, TypeOK
<1>2. CASE Calls
  BY ZenonT(60), <1>1, <1>2 DEF Calls, GetAsset, StoreAsset, QueueOnly, BeginPurgeLocals
<1>3. CASE AsioSteps \/ ThreadSteps("pull") \/ OnPurgeTimer
  BY Zenon, <1>3 DEF AsioSteps, ThreadSteps, StoreAddNewId, StoreEnqueue, RunCallback,
              AssetWriteFailed, UnindexLocals, ScheduleDelete, IoLoopFailed,
              RunHandler, OnPurgeTimer
<1>4. CASE WorkerSteps
  BY Zenon, <1>4 DEF WorkerSteps, PerformDiskRead, WriteNewAsset, WriteRejected,
              WriteThrows, RecordAssetPosition, RecordThrows, PerformDiskPurge,
              PerformGetStatus, PerformGetStoredAssetIds,
              PerformDiskPurgeLocals, RemoveLocalsIndex, RemoveLocalsData,
              RemoveThrows
<1>5. CASE Shutdown \/ ShutdownCompletes \/ Crash \/ Restart \/ UNCHANGED vars
  BY Zenon, <1>5 DEF Shutdown, ShutdownCompletes, Crash, ProcessEnds, Restart, vars
<1>6. QED
  BY Zenon, <1>2, <1>3, <1>4, <1>5 DEF Next

\* The queue is only emptied, taken from, or appended a call that was made or
\* a step of the locals purge.
QueueMoves ==
    \/ queue' = queue
    \/ queue' = <<>>
    \/ queue # <<>> /\ queue' = Tail(queue)
    \/ \E x \in WorkItem : /\ queue' = Append(queue, x)
                           /\ x.op = "call" => call'[x.r] # None

\* Every step treats the queue that way.
LEMMA QueueStep ==
    ASSUME TypeOK, CallsMade, [Next]_vars
    PROVE  QueueMoves
<1> USE DEF QueueMoves
<1>1. ASSUME NEW r \in Reqs, NEW op \in CallOps, NEW id \in Ids, NEW db \in Dbs,
             Begin(r, op, id, db),
             \/ queue' = queue
             \/ queue' = Append(queue, [op |-> "call", r |-> r])
      PROVE  QueueMoves
  <2>1. [op |-> "call", r |-> r] \in WorkItem
    BY Zenon DEF WorkItem
  <2>2. call'[r] # None
    <3>1. [op |-> op, id |-> id, db |-> db] # None
      BY ConstantsAssumption DEF Call
    <3>2. QED
      BY Zenon, <1>1, <3>1 DEF Begin, TypeOK
  <2>3. QED
    BY Zenon, <1>1, <2>1, <2>2
<1>2. CASE Calls
  BY ZenonT(60), <1>1, <1>2 DEF Calls, CallOps, Dbs, GetAsset, StoreAsset, QueueOnly, BeginPurgeLocals
<1>3. ASSUME NEW t \in Threads, StoreEnqueue(t)
      PROVE  QueueMoves
  <2>1. doing[t].r \in Reqs
    BY Zenon, <1>3 DEF StoreEnqueue, TypeOK, ThreadStep
  <2>2. [op |-> "call", r |-> doing[t].r] \in WorkItem
    BY Zenon, <2>1 DEF WorkItem
  <2>3. call'[doing[t].r] # None
    BY Zenon, <1>3, <2>1 DEF StoreEnqueue, CallsMade
  <2>4. QED
    BY Zenon, <1>3, <2>2, <2>3 DEF StoreEnqueue
<1>4. CASE ScheduleDelete
  <2>1. [op |-> "deleteLocals", head |-> doing["asio"].head] \in WorkItem
    BY Zenon, <1>4 DEF ScheduleDelete, TypeOK, ThreadStep, WorkItem, Threads
  <2>2. QED
    BY Zenon, <1>4, <2>1 DEF ScheduleDelete
<1>5. CASE OnPurgeTimer
  <2>1. [op |-> "purgeLocals", head |-> purge.next] \in WorkItem
    BY Zenon DEF TypeOK, WorkItem
  <2>2. QED
    BY Zenon, <1>5, <2>1 DEF OnPurgeTimer
<1>60. ASSUME NEW t \in Threads, StoreAddNewId(t)
       PROVE  QueueMoves
  BY Zenon, <1>60 DEF StoreAddNewId
<1>6. CASE \/ RunCallback \/ AssetWriteFailed \/ UnindexLocals \/ IoLoopFailed
  BY Zenon, <1>6 DEF RunCallback, AssetWriteFailed, UnindexLocals,
              IoLoopFailed, RunHandler
<1>7. CASE WorkerSteps
  BY Zenon, <1>7 DEF WorkerSteps, PerformDiskRead, WriteNewAsset, WriteRejected,
              WriteThrows, RecordAssetPosition, RecordThrows, PerformDiskPurge,
              PerformGetStatus, PerformGetStoredAssetIds,
              PerformDiskPurgeLocals, RemoveLocalsIndex, RemoveLocalsData,
              RemoveThrows, TakeCall, TakeItem
<1>8. CASE Shutdown \/ ShutdownCompletes \/ Crash \/ Restart \/ UNCHANGED vars
  BY Zenon, <1>8 DEF Shutdown, ShutdownCompletes, Crash, ProcessEnds, Restart, vars
<1> HIDE DEF QueueMoves
<1>61. CASE ThreadSteps("asio") \/ ThreadSteps("pull")
  BY Zenon, <1>3, <1>60, <1>61 DEF ThreadSteps, Threads
<1>9. QED
  BY Zenon, <1>2, <1>4, <1>5, <1>61, <1>6, <1>7, <1>8 DEF Next, AsioSteps

\* A handler that a step posts: if it answers a call, the call was made, and a
\* success it reports for a global PUT is true in the next state.
TrueAnswer(x) ==
    x.h = "reply" =>
        /\ call'[x.r] # None
        /\ /\ x.val.res = "ok"
           /\ call'[x.r].op = "put"
           /\ call'[x.r].db = "globals"
           => rows'["globals"][call'[x.r].id] = x.r

PostedMoves ==
    \/ posted' = posted
    \/ posted' = <<>>
    \/ posted # <<>> /\ posted' = Tail(posted)
    \/ \E x \in Handler : TrueAnswer(x) /\ posted' = Append(posted, x)
    \/ \E x, y \in Handler : /\ TrueAnswer(x) /\ TrueAnswer(y)
                             /\ posted' = posted \o <<x, y>>

\* A failed write is reported in two handlers.
LEMMA FailedPair ==
    ASSUME NEW r \in Reqs, call[r] \in Call, call' = call,
           posted' = posted \o <<[h |-> "assetWriteFailed", id |-> call[r].id],
                                 Answer(r, "failed", {})>>
    PROVE  PostedMoves
<1>1. [h |-> "assetWriteFailed", id |-> call[r].id] \in Handler
  BY Zenon DEF Handler, Call
<1>2. Answer(r, "failed", {}) \in Handler
  BY Zenon, AnswerType DEF Results
<1>3. TrueAnswer([h |-> "assetWriteFailed", id |-> call[r].id])
  BY Zenon DEF TrueAnswer
<1>4. TrueAnswer(Answer(r, "failed", {}))
  BY Zenon, ConstantsAssumption DEF TrueAnswer, Answer
<1>5. QED
  BY Zenon, <1>1, <1>2, <1>3, <1>4 DEF PostedMoves

\* An answer that is not the success of a PUT is always true.
LEMMA PlainAnswer ==
    ASSUME NEW r \in Reqs, NEW res \in Results, NEW got \in SUBSET Assets,
           call'[r] \in Call, res # "ok" \/ call'[r].op # "put",
           posted' = Append(posted, Answer(r, res, got))
    PROVE  PostedMoves
<1>1. Answer(r, res, got) \in Handler
  BY Zenon, AnswerType
<1>2. TrueAnswer(Answer(r, res, got))
  BY Zenon, ConstantsAssumption DEF TrueAnswer, Answer
<1>3. QED
  BY Zenon, <1>1, <1>2 DEF PostedMoves

\* A handler that answers nobody is always true.
LEMMA PlainHandler ==
    ASSUME NEW x \in Handler, x.h # "reply", posted' = Append(posted, x)
    PROVE  PostedMoves
  BY Zenon DEF PostedMoves, TrueAnswer

\* Handlers are only dropped, run in order, or posted with true answers.
LEMMA PostedStep ==
    ASSUME TypeOK, CallsMade, [Next]_vars
    PROVE  PostedMoves
<1>1. ASSUME NEW r \in Reqs, NEW op \in CallOps, NEW id \in Ids, NEW db \in Dbs,
             Begin(r, op, id, db), NEW res \in {"notfound", "exists"},
             posted' = Append(posted, Answer(r, res, {}))
      PROVE  PostedMoves
  <2>1. call'[r] \in Call
    BY Zenon, <1>1 DEF Begin, TypeOK, Call
  <2>2. res \in Results /\ res # "ok" /\ {} \in SUBSET Assets
    BY Zenon DEF Results
  <2>3. QED
    BY Zenon, <1>1, <2>1, <2>2, PlainAnswer
<1>2. CASE Calls
  <2>1. ASSUME NEW r \in Reqs, NEW id \in Ids, GetAsset(r, id)
        PROVE  PostedMoves
    <3>1. Begin(r, "get", id, "globals") /\ "get" \in CallOps /\ "globals" \in Dbs
      BY Zenon, <2>1 DEF GetAsset, CallOps, Dbs
    <3>2. posted' = posted \/ posted' = Append(posted, Answer(r, "notfound", {}))
      BY Zenon, <2>1 DEF GetAsset
    <3>3. QED
      BY Zenon, <3>1, <3>2, <1>1 DEF PostedMoves
  <2>2. ASSUME NEW r \in Reqs, NEW id \in Ids, NEW db \in Dbs,
               StoreAsset(r, id, db)
        PROVE  PostedMoves
    <3>1. Begin(r, "put", id, db) /\ "put" \in CallOps
      BY Zenon, <2>2 DEF StoreAsset, CallOps
    <3>2. posted' = posted \/ posted' = Append(posted, Answer(r, "exists", {}))
      BY Zenon, <2>2 DEF StoreAsset
    <3>3. QED
      BY Zenon, <3>1, <3>2, <1>1 DEF PostedMoves
  <2>3. QED
    BY Zenon, <1>2, <2>1, <2>2
    DEF Calls, QueueOnly, BeginPurgeLocals, PostedMoves
<1>3. CASE AsioSteps \/ ThreadSteps("pull") \/ OnPurgeTimer
  BY Zenon, <1>3 DEF AsioSteps, ThreadSteps, StoreAddNewId, StoreEnqueue, RunCallback,
              AssetWriteFailed, UnindexLocals, ScheduleDelete, IoLoopFailed,
              RunHandler, OnPurgeTimer, PostedMoves
<1>4. CASE PerformDiskRead
  <2>1. TakeCall("get") /\ call' = call
    BY Zenon, <1>4 DEF PerformDiskRead
  <2>2. Lookup(call[Head(queue).r].id) \in Assets \cup {None}
    BY Zenon, <2>1, TakenCall, LookupType
  <2>3. PICK res \in Results, got \in SUBSET Assets :
           posted' = Append(posted, Answer(Head(queue).r, res, got))
    BY Zenon, <1>4, <2>2 DEF PerformDiskRead, Results
  <2>4. QED
    BY <2>1, <2>3, TakenCall, PlainAnswer
<1>5. CASE WriteRejected
  <2>1. TakeCall("put") /\ call' = call
    BY Zenon, <1>5 DEF WriteRejected
  <2>2. posted' = Append(posted, Answer(Head(queue).r, "failed", {}))
    BY Zenon, <1>5 DEF WriteRejected
  <2>3. QED
    BY <2>1, <2>2, TakenCall, PlainAnswer DEF Results
<1>6. CASE WriteThrows
  <2>1. TakeCall("put") /\ call' = call
    BY Zenon, <1>6 DEF WriteThrows
  <2>2. QED
    BY Zenon, <1>6, <2>1, TakenCall, FailedPair DEF WriteThrows
<1>7. CASE RecordAssetPosition
  <2>1. worker.r \in Reqs /\ call[worker.r] \in Call
    BY Zenon, <1>7 DEF RecordAssetPosition, TypeOK, WorkerStep, CallsMade
  <2>2. Answer(worker.r, "ok", {}) \in Handler
    BY Zenon, <2>1, AnswerType DEF Results
  <2>3. TrueAnswer(Answer(worker.r, "ok", {}))
    BY Zenon, <1>7, <2>1, ConstantsAssumption
    DEF RecordAssetPosition, TrueAnswer, Answer, DbFor, TypeOK, Call, Dbs
  <2>4. QED
    BY Zenon, <1>7, <2>2, <2>3 DEF RecordAssetPosition, PostedMoves
<1>8. CASE RecordThrows
  <2>1. worker.r \in Reqs /\ call[worker.r] \in Call
    BY Zenon, <1>8 DEF RecordThrows, TypeOK, WorkerStep, CallsMade
  <2>2. QED
    BY Zenon, <1>8, <2>1, FailedPair DEF RecordThrows
<1>9. CASE PerformGetStatus
  <2>1. TakeCall("status") /\ call' = call
    BY Zenon, <1>9 DEF PerformGetStatus
  <2>2. posted' = Append(posted, Answer(Head(queue).r, "ok", {}))
    BY Zenon, <1>9 DEF PerformGetStatus
  <2>3. QED
    BY <2>1, <2>2, TakenCall, PlainAnswer DEF Results
<1>10. CASE PerformGetStoredAssetIds
  <2>1. TakeCall("list") /\ call' = call
    BY Zenon, <1>10 DEF PerformGetStoredAssetIds
  <2>2. \A head : GlobalsUnder(head) \in SUBSET Assets
    BY DEF GlobalsUnder, Dbs, TypeOK
  <2>3. ASSUME posted' = Append(posted, [h |-> "ioLoopFailed"])
        PROVE  PostedMoves
    BY Zenon, <2>3, PlainHandler DEF Handler
  <2>4. ASSUME NEW got \in SUBSET Assets,
               posted' = Append(posted, Answer(Head(queue).r, "ok", got))
        PROVE  PostedMoves
    BY <2>1, <2>4, TakenCall, PlainAnswer DEF Results
  <2>5. QED
    BY Zenon, <1>10, <2>2, <2>3, <2>4 DEF PerformGetStoredAssetIds
<1>11. CASE PerformDiskPurgeLocals
  <2> DEFINE head == Head(queue).head
  <2>1. head \in Heads
    BY Zenon, <1>11, TakenItem DEF PerformDiskPurgeLocals
  <2>2. PICK x \in Handler : x.h # "reply" /\ posted' = Append(posted, x)
    BY Zenon, <1>11, <2>1 DEF PerformDiskPurgeLocals, Handler, LocalsUnder
  <2>3. QED
    BY Zenon, <2>2, PlainHandler
<1>12. CASE RemoveThrows
  <2>1. [h |-> "ioLoopFailed"] \in Handler
    BY Zenon DEF Handler
  <2>2. QED
    BY Zenon, <1>12, <2>1, PlainHandler DEF RemoveThrows
<1>13. CASE \/ WriteNewAsset \/ PerformDiskPurge \/ RemoveLocalsIndex
            \/ RemoveLocalsData
  BY Zenon, <1>13 DEF WriteNewAsset, PerformDiskPurge, RemoveLocalsIndex,
               RemoveLocalsData, PostedMoves
<1>14. CASE Shutdown \/ ShutdownCompletes \/ Crash \/ Restart \/ UNCHANGED vars
  BY Zenon, <1>14 DEF Shutdown, ShutdownCompletes, Crash, ProcessEnds, Restart, vars,
               PostedMoves
<1>15. QED
  BY Zenon, <1>2, <1>3, <1>4, <1>5, <1>6, <1>7, <1>8, <1>9, <1>10, <1>11, <1>12,
     <1>13, <1>14 DEF Next, WorkerSteps

\* What a sequence holds after the ways the queue and the handlers change.
LEMMA TailElements ==
    ASSUME NEW S, NEW s \in Seq(S), s # <<>>
    PROVE  \A i \in DOMAIN Tail(s) : \E j \in DOMAIN s : Tail(s)[i] = s[j]
<1>1. ASSUME NEW i \in DOMAIN Tail(s)
      PROVE  i + 1 \in DOMAIN s /\ Tail(s)[i] = s[i + 1]
  BY <1>1
<1>2. QED
  BY Zenon, <1>1

\* After Append: the old elements and the new one.
LEMMA AppendElements ==
    ASSUME NEW S, NEW s \in Seq(S), NEW x
    PROVE  \A i \in DOMAIN Append(s, x) :
              \/ Append(s, x)[i] = x
              \/ \E j \in DOMAIN s : Append(s, x)[i] = s[j]
  OBVIOUS

\* After a failed write: the old elements and the two new ones.
LEMMA PairElements ==
    ASSUME NEW S, NEW s \in Seq(S), NEW x \in S, NEW y \in S
    PROVE  \A i \in DOMAIN (s \o <<x, y>>) :
              \/ (s \o <<x, y>>)[i] \in {x, y}
              \/ \E j \in DOMAIN s : (s \o <<x, y>>)[i] = s[j]
<1>1. <<x, y>> \in Seq(S) /\ Len(<<x, y>>) = 2
  OBVIOUS
<1>2. ASSUME NEW i \in DOMAIN (s \o <<x, y>>)
      PROVE  \/ i \in DOMAIN s /\ (s \o <<x, y>>)[i] = s[i]
             \/ (s \o <<x, y>>)[i] \in {x, y}
  BY <1>1, <1>2
<1>3. QED
  BY Zenon, <1>2

\* Every entry of the next queue was there before or is about a call made.
LEMMA QueueElements ==
    ASSUME TypeOK, QueueMoves, NEW i \in DOMAIN queue'
    PROVE  \/ \E j \in DOMAIN queue : queue'[i] = queue[j]
           \/ queue'[i].op = "call" => call'[queue'[i].r] # None
<1>0. queue \in Seq(WorkItem)
  BY Zenon DEF TypeOK
<1>1. CASE queue' = queue \/ queue' = <<>>
  BY <1>1
<1>2. CASE queue # <<>> /\ queue' = Tail(queue)
  BY Zenon, <1>0, <1>2, TailElements
<1>3. ASSUME NEW x \in WorkItem, queue' = Append(queue, x),
             x.op = "call" => call'[x.r] # None
      PROVE  \/ \E j \in DOMAIN queue : queue'[i] = queue[j]
             \/ queue'[i].op = "call" => call'[queue'[i].r] # None
  <2>1. queue'[i] = x \/ \E j \in DOMAIN queue : queue'[i] = queue[j]
    BY <1>0, <1>3, AppendElements
  <2>2. QED
    BY Zenon, <1>3, <2>1
<1>4. QED
  BY Zenon, <1>1, <1>2, <1>3 DEF QueueMoves

\* Every handler of the next state was there before or has a true answer.
LEMMA PostedElements ==
    ASSUME TypeOK, PostedMoves, NEW i \in DOMAIN posted'
    PROVE  \/ \E j \in DOMAIN posted : posted'[i] = posted[j]
           \/ TrueAnswer(posted'[i])
<1>0. posted \in Seq(Handler)
  BY Zenon DEF TypeOK
<1>1. CASE posted' = posted \/ posted' = <<>>
  BY <1>1
<1>2. CASE posted # <<>> /\ posted' = Tail(posted)
  BY Zenon, <1>0, <1>2, TailElements
<1>3. ASSUME NEW x \in Handler, TrueAnswer(x), posted' = Append(posted, x)
      PROVE  \/ \E j \in DOMAIN posted : posted'[i] = posted[j]
             \/ TrueAnswer(posted'[i])
  <2>1. posted'[i] = x \/ \E j \in DOMAIN posted : posted'[i] = posted[j]
    BY <1>0, <1>3, AppendElements
  <2>2. QED
    BY Zenon, <1>3, <2>1
<1>4. ASSUME NEW x \in Handler, NEW y \in Handler, TrueAnswer(x), TrueAnswer(y),
             posted' = posted \o <<x, y>>
      PROVE  \/ \E j \in DOMAIN posted : posted'[i] = posted[j]
             \/ TrueAnswer(posted'[i])
  <2>1. posted'[i] \in {x, y} \/ \E j \in DOMAIN posted : posted'[i] = posted[j]
    BY <1>0, <1>4, PairElements
  <2>2. QED
    BY Zenon, <1>4, <2>1
<1>5. QED
  BY Zenon, <1>1, <1>2, <1>3, <1>4 DEF PostedMoves

\* A callback is given the first posted answer, or its process has ended.
ReplyMoves ==
    \A r \in Reqs :
        \/ reply'[r] = reply[r]
        \/ call[r] # None /\ reply'[r] = [res |-> "lost", got |-> {}]
        \/ \E i \in DOMAIN posted : /\ posted[i].h = "reply"
                                    /\ posted[i].r = r
                                    /\ posted[i].val = reply'[r]

\* Every step treats the answers that way.
LEMMA ReplyStep ==
    ASSUME TypeOK, [Next]_vars
    PROVE  ReplyMoves
<1>1. CASE RunCallback
  <2>1. Head(posted) = posted[1] /\ 1 \in DOMAIN posted
    BY <1>1 DEF RunCallback, RunHandler, TypeOK
  <2>2. Head(posted).h = "reply"
    BY Zenon, <1>1 DEF RunCallback, RunHandler
  <2>3. reply' = [reply EXCEPT ![Head(posted).r] = Head(posted).val]
    BY Zenon, <1>1 DEF RunCallback
  <2>4. QED
    BY Zenon, <2>1, <2>2, <2>3 DEF ReplyMoves, TypeOK
<1>2. CASE ShutdownCompletes \/ Crash
  BY Zenon, <1>2 DEF ShutdownCompletes, Crash, ProcessEnds, ReplyMoves
<1>3. CASE Calls
  BY Zenon, <1>3 DEF Calls, GetAsset, StoreAsset, QueueOnly, BeginPurgeLocals, ReplyMoves
<1>4. CASE \/ ThreadSteps("asio") \/ ThreadSteps("pull") \/ OnPurgeTimer
           \/ AssetWriteFailed \/ UnindexLocals \/ ScheduleDelete
           \/ IoLoopFailed \/ Shutdown \/ Restart \/ UNCHANGED vars
  BY Zenon, <1>4 DEF ThreadSteps, StoreAddNewId, StoreEnqueue, OnPurgeTimer,
              AssetWriteFailed, UnindexLocals, ScheduleDelete, IoLoopFailed,
              Shutdown, Restart, vars, ReplyMoves
<1>5. CASE WorkerSteps
  BY Zenon, <1>5 DEF WorkerSteps, PerformDiskRead, WriteNewAsset, WriteRejected,
              WriteThrows, RecordAssetPosition, RecordThrows, PerformDiskPurge,
              PerformGetStatus, PerformGetStoredAssetIds,
              PerformDiskPurgeLocals, RemoveLocalsIndex, RemoveLocalsData,
              RemoveThrows, ReplyMoves
<1>6. QED
  BY Zenon, <1>1, <1>2, <1>3, <1>4, <1>5 DEF Next, AsioSteps

\* Only storeAsset makes a thread remember a call, in the step that makes it.
ThreadsNameCalls ==
    \A t \in Threads : doing'[t].at \in {"addNewId", "enqueue"}
                          => call'[doing'[t].r] # None

\* Every step keeps that.
LEMMA DoingStep ==
    ASSUME TypeOK, TypeOK', CallsMade, [Next]_vars
    PROVE  ThreadsNameCalls
<1> USE DEF ThreadsNameCalls
<1>0. \A r \in Reqs : call[r] # None => call'[r] # None
  BY Zenon, CallsGrow
<1>1. ASSUME doing' = doing PROVE ThreadsNameCalls
  BY Zenon, <1>0, <1>1 DEF CallsMade, TypeOK, ThreadStep
<1>2. ASSUME NEW t \in Threads, doing' = [doing EXCEPT ![t] = Free] PROVE ThreadsNameCalls
  BY Zenon, <1>0, <1>2 DEF CallsMade, TypeOK, ThreadStep, Free
<1>3. ASSUME NEW r \in Reqs, NEW id \in Ids, NEW db \in Dbs, StoreAsset(r, id, db)
      PROVE  ThreadsNameCalls
  <2>1. call'[r] # None
    <3>1. [op |-> "put", id |-> id, db |-> db] # None
      BY ConstantsAssumption DEF Call, CallOps
    <3>2. QED
      BY Zenon, <1>3, <3>1 DEF StoreAsset, Begin, TypeOK
  <2>2. CASE doing' = doing
    BY Zenon, <1>1, <2>2
  <2>3. ASSUME NEW u \in Threads,
               doing' = [doing EXCEPT ![u] = [at |-> "addNewId", r |-> r]]
        PROVE  ThreadsNameCalls
    BY Zenon, <1>0, <2>1, <2>3 DEF CallsMade, TypeOK, ThreadStep
  <2>4. QED
    BY Zenon, <1>3, <2>2, <2>3 DEF StoreAsset, ThreadOf, Threads
<1>4. ASSUME NEW t \in Threads, StoreAddNewId(t) PROVE ThreadsNameCalls
  <2>1. doing[t].r \in Reqs /\ call[doing[t].r] # None
    BY Zenon, <1>4 DEF StoreAddNewId, CallsMade, TypeOK, ThreadStep
  <2>2. QED
    BY Zenon, <1>0, <1>4, <2>1 DEF StoreAddNewId, CallsMade, TypeOK, ThreadStep
<1>5. CASE UnindexLocals
  BY Zenon, <1>0, <1>5 DEF UnindexLocals, CallsMade, TypeOK, ThreadStep
<1>6. CASE ShutdownCompletes \/ Crash
  <2>1. doing' = [t \in Threads |-> Free]
    BY Zenon, <1>6 DEF ShutdownCompletes, Crash, ProcessEnds
  <2>2. QED
    BY Zenon, <2>1 DEF Free
<1>7. CASE ScheduleDelete
  BY Zenon, <1>2, <1>7 DEF ScheduleDelete, Threads
<1> HIDE DEF ThreadsNameCalls
<1>8. CASE ThreadSteps("asio") \/ ThreadSteps("pull")
  BY Zenon, <1>2, <1>4, <1>8 DEF ThreadSteps, StoreEnqueue, Threads
<1>9. CASE Calls
  BY Zenon, <1>1, <1>3, <1>9 DEF Calls, GetAsset, QueueOnly, BeginPurgeLocals
<1>10. CASE \/ OnPurgeTimer \/ RunCallback \/ AssetWriteFailed
            \/ IoLoopFailed \/ Shutdown \/ Restart \/ UNCHANGED vars
  BY Zenon, <1>1, <1>10 DEF OnPurgeTimer, RunCallback, AssetWriteFailed,
                     IoLoopFailed, Shutdown, Restart, vars
<1>11. CASE WorkerSteps
  BY Zenon, <1>1, <1>11
  DEF WorkerSteps, PerformDiskRead, WriteNewAsset, WriteRejected,
      WriteThrows, RecordAssetPosition, RecordThrows, PerformDiskPurge,
      PerformGetStatus, PerformGetStoredAssetIds, PerformDiskPurgeLocals,
      RemoveLocalsIndex, RemoveLocalsData, RemoveThrows
<1>12. QED
  BY Zenon, <1>3, <1>5, <1>6, <1>7, <1>8, <1>9, <1>10, <1>11 DEF Next, AsioSteps

\* What a step does to the files: the rows of the globals stay, and the
\* worker's knowledge and the rows' data hold again after it.
FilesKept ==
    /\ \A id \in Ids : rows["globals"][id] # None
                          => rows'["globals"][id] = rows["globals"][id]
    /\ worker'.at = "written" => call'[worker'.r] # None
    /\ WorkerKnows'
    /\ RowsHaveData'

\* Every step keeps the files that way.
LEMMA FilesStep ==
    ASSUME TypeOK, TypeOK', CallsMade, WorkerKnows, RowsHaveData, [Next]_vars
    PROVE  FilesKept
<1>0. \A r \in Reqs : call[r] # None => call'[r] = call[r]
  BY Zenon, CallsGrow
<1>1. ASSUME UNCHANGED <<rows, data, worker>> PROVE FilesKept
  <2>1. worker.at = "written" => /\ worker.r \in Reqs
                                 /\ call[worker.r] # None
                                 /\ call'[worker.r] = call[worker.r]
    BY Zenon, <1>0 DEF TypeOK, WorkerStep, CallsMade
  <2>2. WorkerKnows'
    BY Zenon, <1>1, <2>1 DEF WorkerKnows, DbFor
  <2>3. RowsHaveData'
    BY Zenon, <1>1 DEF RowsHaveData
  <2>4. QED
    BY Zenon, <1>1, <2>1, <2>2, <2>3 DEF FilesKept
<1>2. ASSUME UNCHANGED <<rows, data>>, worker' = Idle PROVE FilesKept
  <2>1. RowsHaveData'
    BY Zenon, <1>2 DEF RowsHaveData
  <2>2. QED
    BY Zenon, <1>2, <2>1 DEF FilesKept, WorkerKnows, Idle
<1>3. CASE WriteNewAsset
  <2> DEFINE r == Head(queue).r
             db == call[r].db
             id == call[r].id
  <2>1. /\ r \in Reqs /\ call[r] \in Call /\ call[r].op = "put"
        /\ rows[db][id] = None
        /\ data' = [data EXCEPT ![db][HeadOf[id]] = @ \cup {r}]
        /\ worker' = [at |-> "written", r |-> r]
        /\ UNCHANGED <<call, rows>>
    BY Zenon, <1>3, TakenCall DEF WriteNewAsset, DbFor
  <2>2. db \in Dbs /\ id \in Ids /\ HeadOf[id] \in Heads
    BY Zenon, <2>1, ConstantsAssumption DEF Call
  <2>3. WorkerKnows'
    BY ZenonT(60), <2>1, <2>2 DEF WorkerKnows, DbFor, TypeOK
  <2>4. \A d \in Dbs, h \in Heads : data[d][h] \subseteq data'[d][h]
    BY Zenon, <2>1, <2>2 DEF TypeOK
  <2>5. RowsHaveData'
    BY Zenon, <2>1, <2>4, ConstantsAssumption DEF RowsHaveData
  <2>6. QED
    BY Zenon, <2>1, <2>3, <2>5, ConstantsAssumption DEF FilesKept
<1>4. CASE RecordAssetPosition
  <2> DEFINE r == worker.r
             db == call[r].db
             id == call[r].id
  <2>1. r \in Reqs /\ call[r] \in Call
    BY Zenon, <1>4 DEF RecordAssetPosition, TypeOK, WorkerStep, CallsMade
  <2>2. db \in Dbs /\ id \in Ids
    BY Zenon, <2>1 DEF Call
  <2>3. /\ rows' = [rows EXCEPT ![db][id] = r]
        /\ data' = data
        /\ worker' = Idle
        /\ rows[db][id] = None
        /\ r \in data[db][HeadOf[id]]
    BY Zenon, <1>4 DEF RecordAssetPosition, DbFor, WorkerKnows
  <2>4. \A d \in Dbs, i \in Ids :
           rows'[d][i] = IF d = db /\ i = id THEN r ELSE rows[d][i]
    BY Zenon, <2>2, <2>3 DEF TypeOK
  <2>5. RowsHaveData'
    <3>1. ASSUME NEW d \in Dbs, NEW i \in Ids, rows'[d][i] # None
          PROVE  rows'[d][i] \in data'[d][HeadOf[i]]
      <4>1. CASE d = db /\ i = id
        <5>1. rows'[d][i] = r
          BY Zenon, <2>4, <4>1
        <5>2. QED
          BY Zenon, <2>3, <4>1, <5>1
      <4>2. CASE ~(d = db /\ i = id)
        <5>1. rows'[d][i] = rows[d][i]
          BY Zenon, <2>4, <4>2
        <5>2. QED
          BY Zenon, <2>3, <3>1, <5>1 DEF RowsHaveData
      <4>3. QED
        BY Zenon, <4>1, <4>2
    <3>2. QED
      BY Zenon, <3>1 DEF RowsHaveData
  <2>6. \A i \in Ids : rows["globals"][i] # None
                          => rows'["globals"][i] = rows["globals"][i]
    BY Zenon, <2>3, <2>4 DEF Dbs
  <2>7. QED
    BY Zenon, <2>3, <2>5, <2>6 DEF FilesKept, WorkerKnows, Idle
<1>5. CASE RemoveLocalsIndex
  <2> DEFINE head == Head(queue).head
  <2>1. /\ rows' = [rows EXCEPT !["locals"] =
                      [id \in Ids |-> IF HeadOf[id] = head THEN None
                                      ELSE rows["locals"][id]]]
        /\ worker' = [at |-> "unlinked", head |-> head]
        /\ data' = data
    BY Zenon, <1>5 DEF RemoveLocalsIndex
  <2>2. \A id \in Ids :
           /\ rows'["globals"][id] = rows["globals"][id]
           /\ rows'["locals"][id] \in {None, rows["locals"][id]}
           /\ HeadOf[id] = head => rows'["locals"][id] = None
    BY Zenon, <2>1 DEF TypeOK, Dbs
  <2>3. WorkerKnows'
    BY Zenon, <2>1, <2>2 DEF WorkerKnows
  <2>4. RowsHaveData'
    <3>1. ASSUME NEW d \in Dbs, NEW i \in Ids, rows'[d][i] # None
          PROVE  rows'[d][i] = rows[d][i]
      BY Zenon, <2>2, <3>1 DEF Dbs
    <3>2. QED
      BY Zenon, <2>1, <3>1 DEF RowsHaveData
  <2>5. QED
    BY Zenon, <2>1, <2>2, <2>3, <2>4 DEF FilesKept
<1>6. CASE RemoveLocalsData
  <2>1. /\ data' = [data EXCEPT !["locals"][worker.head] = {}]
        /\ rows' = rows
        /\ worker' = Idle
        /\ \A id \in Ids : HeadOf[id] = worker.head => rows["locals"][id] = None
    BY Zenon, <1>6 DEF RemoveLocalsData, WorkerKnows
  <2>2. \A d \in Dbs, h \in Heads :
           ~(d = "locals" /\ h = worker.head) => data'[d][h] = data[d][h]
    BY Zenon, <2>1 DEF TypeOK, Dbs
  <2>3. RowsHaveData'
    BY <2>1, <2>2, ConstantsAssumption DEF RowsHaveData
  <2>4. QED
    BY Zenon, <2>1, <2>3 DEF FilesKept, WorkerKnows, Idle
<1>7. CASE Calls
  BY ZenonT(60), <1>1, <1>7 DEF Calls, GetAsset, StoreAsset, QueueOnly, BeginPurgeLocals
<1>8. CASE AsioSteps \/ ThreadSteps("pull") \/ OnPurgeTimer
  BY Zenon, <1>1, <1>8
  DEF AsioSteps, ThreadSteps, StoreAddNewId, StoreEnqueue, RunCallback,
      AssetWriteFailed, UnindexLocals, ScheduleDelete, IoLoopFailed,
      RunHandler, OnPurgeTimer
<1>9. CASE RemoveThrows \/ RecordThrows
  BY Zenon, <1>1, <1>2, <1>9 DEF RemoveThrows, RecordThrows
<1>10. CASE \/ PerformDiskRead \/ WriteRejected \/ WriteThrows
            \/ PerformDiskPurge \/ PerformGetStatus
            \/ PerformGetStoredAssetIds \/ PerformDiskPurgeLocals
  BY Zenon, <1>1, <1>10
  DEF PerformDiskRead, WriteRejected, WriteThrows, PerformDiskPurge,
      PerformGetStatus, PerformGetStoredAssetIds, PerformDiskPurgeLocals
<1>11. CASE Shutdown \/ ShutdownCompletes \/ Crash \/ Restart \/ UNCHANGED vars
  BY Zenon, <1>1, <1>2, <1>11
  DEF Shutdown, ShutdownCompletes, Crash, ProcessEnds, Restart, vars
<1>12. QED
  BY Zenon, <1>3, <1>4, <1>5, <1>6, <1>7, <1>8, <1>9, <1>10, <1>11
  DEF Next, WorkerSteps

\* Whatever names a call after a step names one that was made.
LEMMA CallsStep ==
    ASSUME TypeOK, TypeOK', CallsMade, WorkerKnows, RowsHaveData, [Next]_vars
    PROVE  CallsMade'
<1>0. \A r \in Reqs : call[r] # None => call'[r] = call[r]
  BY Zenon, CallsGrow
<1>1. ThreadsNameCalls /\ FilesKept
  BY Zenon, DoingStep, FilesStep
<1>2. \A i \in DOMAIN queue' : queue'[i].op = "call" => call'[queue'[i].r] # None
  <2>1. \A j \in DOMAIN queue : queue[j] \in WorkItem
    BY DEF TypeOK
  <2>2. \A j \in DOMAIN queue : queue[j].op = "call" => call'[queue[j].r] # None
    BY Zenon, <1>0, <2>1 DEF CallsMade, WorkItem
  <2>3. QED
    BY Zenon, <2>2, QueueStep, QueueElements
<1>3. \A i \in DOMAIN posted' : posted'[i].h = "reply" => call'[posted'[i].r] # None
  <2>1. \A j \in DOMAIN posted : posted[j] \in Handler
    BY DEF TypeOK
  <2>2. \A j \in DOMAIN posted : posted[j].h = "reply" => call'[posted[j].r] # None
    BY Zenon, <1>0, <2>1 DEF CallsMade, Handler
  <2>3. QED
    BY Zenon, <2>2, PostedStep, PostedElements DEF TrueAnswer
<1>4. \A r \in Reqs : reply'[r] # NoReply => call'[r] # None
  <2>1. ReplyMoves
    BY Zenon, ReplyStep
  <2>2. QED
    <3>1. ASSUME NEW r \in Reqs, reply'[r] # NoReply
          PROVE  call[r] # None
      <4>1. CASE reply'[r] = reply[r]
        BY Zenon, <3>1, <4>1 DEF CallsMade
      <4>2. ASSUME NEW i \in DOMAIN posted, posted[i].h = "reply",
                   posted[i].r = r
            PROVE  call[r] # None
        BY Zenon, <4>2 DEF CallsMade
      <4>3. QED
        BY Zenon, <2>1, <4>1, <4>2 DEF ReplyMoves
    <3>2. QED
      BY Zenon, <1>0, <3>1
<1>5. QED
  BY Zenon, <1>1, <1>2, <1>3, <1>4 DEF ThreadsNameCalls, FilesKept, CallsMade

\* Answers that are posted stay true until their callback runs.
LEMMA PostedAcksStep ==
    ASSUME DiskInv, TypeOK', [Next]_vars
    PROVE  PostedAcksKept'
<1> USE DEF DiskInv
<1>0. \A r \in Reqs : call[r] # None => call'[r] = call[r]
  BY Zenon, CallsGrow
<1>1. FilesKept
  BY Zenon, FilesStep
<1>2. ASSUME NEW j \in DOMAIN posted, posted[j].h = "reply",
             posted[j].val.res = "ok", call'[posted[j].r].op = "put",
             call'[posted[j].r].db = "globals"
      PROVE  rows'["globals"][call'[posted[j].r].id] = posted[j].r
  <2>1. posted[j] \in Handler
    BY DEF TypeOK
  <2>2. posted[j].r \in Reqs /\ call[posted[j].r] # None
    BY Zenon, <1>2, <2>1 DEF Handler, CallsMade
  <2>3. call[posted[j].r] \in Call /\ call'[posted[j].r] = call[posted[j].r]
    BY Zenon, <1>0, <2>2 DEF TypeOK
  <2>4. rows["globals"][call[posted[j].r].id] = posted[j].r
    BY Zenon, <1>2, <2>3 DEF PostedAcksKept
  <2>5. QED
    BY Zenon, <1>1, <2>2, <2>3, <2>4, ConstantsAssumption DEF FilesKept, Call
<1>3. QED
  BY Zenon, <1>2, PostedStep, PostedElements DEF PostedAcksKept, TrueAnswer

\* Answers that were given stay true.
LEMMA AckedStep ==
    ASSUME DiskInv, TypeOK', [Next]_vars
    PROVE  AckedGlobalKept'
<1> USE DEF DiskInv
<1>0. \A r \in Reqs : call[r] # None => call'[r] = call[r]
  BY Zenon, CallsGrow
<1>1. FilesKept /\ ReplyMoves
  BY Zenon, FilesStep, ReplyStep
<1>2. ASSUME NEW r \in Reqs, call'[r] # None, call'[r].op = "put",
             reply'[r].res = "ok", call'[r].db = "globals"
      PROVE  rows'["globals"][call'[r].id] = r
  <2>1. CASE reply'[r] = reply[r]
    <3>1. reply[r] # NoReply
      <4>1. NoReply.res # "ok"
        BY Zenon DEF NoReply
      <4>2. QED
        BY Zenon, <1>2, <2>1, <4>1
    <3>2. call[r] # None /\ call[r] \in Call /\ call'[r] = call[r]
      BY Zenon, <1>0, <3>1 DEF CallsMade, TypeOK
    <3>3. rows["globals"][call[r].id] = r
      BY Zenon, <1>2, <2>1, <3>2 DEF AckedGlobalKept
    <3>4. QED
      BY Zenon, <1>1, <3>2, <3>3, ConstantsAssumption DEF FilesKept, Call
  <2>2. ASSUME NEW i \in DOMAIN posted, posted[i].h = "reply",
               posted[i].r = r, posted[i].val = reply'[r]
        PROVE  rows'["globals"][call'[r].id] = r
    <3>1. call[r] # None /\ call[r] \in Call /\ call'[r] = call[r]
      BY Zenon, <1>0, <2>2 DEF CallsMade, TypeOK
    <3>2. rows["globals"][call[r].id] = r
      BY Zenon, <1>2, <2>2, <3>1 DEF PostedAcksKept
    <3>3. QED
      BY Zenon, <1>1, <3>1, <3>2, ConstantsAssumption DEF FilesKept, Call
  <2>3. ~(reply'[r] = [res |-> "lost", got |-> {}])
    BY <1>2
  <2>4. QED
    BY Zenon, <1>1, <2>1, <2>2, <2>3 DEF ReplyMoves
<1>3. QED
  BY Zenon, <1>2 DEF AckedGlobalKept

\* No step breaks the inductive invariant.
LEMMA DiskStep == DiskInv /\ [Next]_vars => DiskInv'
<1> SUFFICES ASSUME DiskInv, [Next]_vars PROVE DiskInv'
  BY Zenon
<1>1. TypeOK'
  BY Zenon, TypeStep DEF DiskInv
<1>2. CallsMade' /\ FilesKept
  BY Zenon, <1>1, CallsStep, FilesStep DEF DiskInv
<1>3. PostedAcksKept' /\ AckedGlobalKept'
  BY Zenon, <1>1, PostedAcksStep, AckedStep
<1>4. QED
  BY Zenon, <1>1, <1>2, <1>3 DEF DiskInv, FilesKept

\* The inductive invariant holds in every reachable state.
THEOREM DiskSafety == Spec => []DiskInv
  BY InitDisk, DiskStep, PTL DEF Spec

\* Every variable of the backend keeps its shape, for any number of calls,
\* ids and directories.
THEOREM TypeSafety == Spec => []TypeOK
  BY DiskSafety, PTL DEF DiskInv

\* An index row never points at bytes that are not in the data file.
THEOREM RowsSafety == Spec => []RowsHaveData
<1>1. DiskInv => RowsHaveData
  BY Zenon DEF DiskInv
<1>2. QED
  BY <1>1, DiskSafety, PTL

\* A global asset whose PUT was acknowledged is on disk from then on.
THEOREM AckedSafety == Spec => []AckedGlobalKept
<1>1. DiskInv => AckedGlobalKept
  BY Zenon DEF DiskInv
<1>2. QED
  BY <1>1, DiskSafety, PTL

\* No step replaces or removes what an id means in the globals database.
THEOREM GlobalsSafety == Spec => GlobalsImmutable
<1> DEFINE Kept == \A id \in Ids : rows["globals"][id] # None
                       => rows'["globals"][id] = rows["globals"][id]
<1>1. DiskInv /\ DiskInv' /\ [Next]_vars => [Kept]_vars
  BY Zenon, FilesStep DEF DiskInv, FilesKept
<1>2. QED
  BY <1>1, DiskSafety, PTL DEF Spec, GlobalsImmutable

(***************************************************************************)
(* The backend implements AssetStore.  PromiseInv is inductive: a call in  *)
(* progress is in one place only and is not answered yet, a row names a    *)
(* PUT that has left the queue, and a posted answer is one the store may   *)
(* give.                                                                   *)
(***************************************************************************)
\* What is left of a sequence that names no call twice when its first element
\* is taken.
LEMMA NamesTail ==
    ASSUME NEW S, NEW K, NEW s \in Seq(S), s # <<>>, Once(s, K)
    PROVE  /\ Once(Tail(s), K)
           /\ Names(Tail(s), K) \subseteq Names(s, K)
           /\ Head(s) \in K => /\ Head(s).r \in Names(s, K)
                               /\ Head(s).r \notin Names(Tail(s), K)
<1>1. /\ 1 \in DOMAIN s /\ Head(s) = s[1]
      /\ \A i \in DOMAIN Tail(s) : /\ i \in Nat /\ i >= 1
                                   /\ i + 1 \in DOMAIN s
                                   /\ Tail(s)[i] = s[i + 1]
  OBVIOUS
<1>2. Once(Tail(s), K)
  <2>1. ASSUME NEW i \in DOMAIN Tail(s), NEW j \in DOMAIN Tail(s),
               Tail(s)[i] \in K, Tail(s)[j] \in K, Tail(s)[i].r = Tail(s)[j].r
        PROVE  i = j
    <3>1. i + 1 = j + 1
      BY Zenon, <1>1, <2>1 DEF Once
    <3>2. QED
      BY <1>1, <3>1
  <2>2. QED
    BY Zenon, <2>1 DEF Once
<1>3. Names(Tail(s), K) \subseteq Names(s, K)
  BY ZenonT(60), <1>1 DEF Names
<1>4. ASSUME Head(s) \in K, Head(s).r \in Names(Tail(s), K) PROVE FALSE
  <2>1. PICK i \in DOMAIN Tail(s) : Tail(s)[i] \in K /\ Tail(s)[i].r = Head(s).r
    BY Zenon, <1>4 DEF Names
  <2>2. i + 1 = 1
    BY Zenon, <1>1, <1>4, <2>1 DEF Once
  <2>3. QED
    BY <1>1, <2>2
<1>5. Head(s) \in K => Head(s).r \in Names(s, K)
  BY Zenon, <1>1 DEF Names
<1>6. QED
  BY Zenon, <1>2, <1>3, <1>4, <1>5

\* What a sequence names when an element is appended.
LEMMA NamesAppend ==
    ASSUME NEW S, NEW K, NEW s \in Seq(S), NEW x \in S, Once(s, K)
    PROVE  /\ x \in K => Names(Append(s, x), K) = Names(s, K) \cup {x.r}
           /\ x \notin K => Names(Append(s, x), K) = Names(s, K)
           /\ (x \in K => x.r \notin Names(s, K)) => Once(Append(s, x), K)
<1> DEFINE t == Append(s, x)
<1>1. /\ DOMAIN t = DOMAIN s \cup {Len(s) + 1}
      /\ Len(s) + 1 \notin DOMAIN s
      /\ t[Len(s) + 1] = x
      /\ \A i \in DOMAIN s : t[i] = s[i]
  OBVIOUS
<1> HIDE DEF t
<1>2. \A r : r \in Names(t, K) <=> r \in Names(s, K) \/ (x \in K /\ r = x.r)
  BY Zenon, <1>1 DEF Names
<1>3. ASSUME x \in K => x.r \notin Names(s, K) PROVE Once(t, K)
  <2>1. \A i \in DOMAIN s : s[i] \in K => s[i].r \in Names(s, K)
    BY Zenon DEF Names
  <2>2. QED
    BY Zenon, <1>1, <1>3, <2>1 DEF Once
<1>4. QED
  BY Zenon, <1>2, <1>3 DEF t

\* The worker takes the front of the queue.
LEMMA QueueTakes ==
    ASSUME TypeOK, OnePlace, queue # <<>>, queue' = Tail(queue)
    PROVE  /\ Once(queue, CallItems)' /\ Queued' \subseteq Queued
           /\ Head(queue).op = "call" => Head(queue).r \in Queued \ Queued'
<1>1. queue \in Seq(WorkItem) /\ Once(queue, CallItems)
  BY Zenon DEF TypeOK, OnePlace
<1>2. Head(queue) \in WorkItem
  BY <1>1
<1>3. Head(queue).op = "call" => Head(queue) \in CallItems
  BY Zenon, <1>2 DEF CallItems
<1>4. QED
  BY Zenon, <1>1, <1>3, NamesTail DEF Queued

\* A call that is not in the queue is appended to it.
LEMMA QueueAdds ==
    ASSUME TypeOK, OnePlace, NEW r \in Reqs, r \notin Queued,
           queue' = Append(queue, [op |-> "call", r |-> r])
    PROVE  Once(queue, CallItems)' /\ Queued' = Queued \cup {r}
<1> DEFINE x == [op |-> "call", r |-> r]
<1>1. queue \in Seq(WorkItem) /\ Once(queue, CallItems)
  BY Zenon DEF TypeOK, OnePlace
<1>2. x \in WorkItem /\ x \in CallItems /\ x.r = r
  BY Zenon DEF WorkItem, CallItems
<1> HIDE DEF x
<1>3. queue' = Append(queue, x)
  BY Zenon DEF x
<1>4. QED
  BY <1>1, <1>2, <1>3, NamesAppend DEF Queued

\* A step of the locals purge is appended to it.
LEMMA QueueAddsItem ==
    ASSUME TypeOK, OnePlace, NEW x \in WorkItem, x.op # "call",
           queue' = Append(queue, x)
    PROVE  Once(queue, CallItems)' /\ Queued' = Queued
<1>1. queue \in Seq(WorkItem) /\ Once(queue, CallItems) /\ x \notin CallItems
  BY Zenon DEF TypeOK, OnePlace, CallItems
<1>2. QED
  BY <1>1, NamesAppend DEF Queued

\* The ASIO thread takes the first posted handler.
LEMMA PostedTakes ==
    ASSUME TypeOK, OnePlace, posted # <<>>, posted' = Tail(posted)
    PROVE  /\ Once(posted, Replies)' /\ Answering' \subseteq Answering
           /\ Head(posted).h = "reply" => Head(posted).r \in Answering \ Answering'
<1>1. posted \in Seq(Handler) /\ Once(posted, Replies)
  BY Zenon DEF TypeOK, OnePlace
<1>2. Head(posted) \in Handler
  BY <1>1
<1>3. Head(posted).h = "reply" => Head(posted) \in Replies
  BY Zenon, <1>2 DEF Replies
<1>4. QED
  BY Zenon, <1>1, <1>3, NamesTail DEF Answering

\* An answer is posted for a call that has none posted.
LEMMA PostedAdds ==
    ASSUME TypeOK, OnePlace, NEW r \in Reqs, NEW res \in Results,
           NEW got \in SUBSET Assets, r \notin Answering,
           posted' = Append(posted, Answer(r, res, got))
    PROVE  Once(posted, Replies)' /\ Answering' = Answering \cup {r}
<1> DEFINE x == Answer(r, res, got)
<1>1. posted \in Seq(Handler) /\ Once(posted, Replies)
  BY Zenon DEF TypeOK, OnePlace
<1>2. x \in Handler
  BY Zenon, AnswerType
<1>3. x \in Replies /\ x.r = r
  BY Zenon, <1>2 DEF Replies, Answer
<1> HIDE DEF x
<1>4. posted' = Append(posted, x)
  BY Zenon DEF x
<1>5. QED
  BY <1>1, <1>2, <1>3, <1>4, NamesAppend DEF Answering

\* A handler that answers no call is posted.
LEMMA PostedAddsOther ==
    ASSUME TypeOK, OnePlace, NEW x \in Handler, x.h # "reply",
           posted' = Append(posted, x)
    PROVE  Once(posted, Replies)' /\ Answering' = Answering
<1>1. posted \in Seq(Handler) /\ Once(posted, Replies) /\ x \notin Replies
  BY Zenon DEF TypeOK, OnePlace, Replies
<1>2. QED
  BY <1>1, NamesAppend DEF Answering

\* A failed write posts a handler that answers no call, and an answer.
LEMMA PostedAddsFailure ==
    ASSUME TypeOK, OnePlace, NEW r \in Reqs, NEW id \in Ids, r \notin Answering,
           posted' = posted \o <<[h |-> "assetWriteFailed", id |-> id],
                                 Answer(r, "failed", {})>>
    PROVE  Once(posted, Replies)' /\ Answering' = Answering \cup {r}
<1> DEFINE x == [h |-> "assetWriteFailed", id |-> id]
           y == Answer(r, "failed", {})
<1>1. posted \in Seq(Handler) /\ Once(posted, Replies)
  BY Zenon DEF TypeOK, OnePlace
<1>2. x \in Handler /\ x \notin Replies
  BY Zenon DEF Replies, Handler
<1>3. y \in Handler
  BY Zenon, AnswerType DEF Results
<1>4. y \in Replies /\ y.r = r
  BY Zenon, <1>3 DEF Replies, Answer
<1> HIDE DEF x, y
<1>5. posted' = posted \o <<x, y>>
  BY Zenon DEF x, y
<1> DEFINE z == Append(posted, x)
<1>6. posted' = Append(z, y) /\ z \in Seq(Handler)
  BY <1>1, <1>2, <1>3, <1>5
<1>7. Once(z, Replies) /\ Names(z, Replies) = Answering
  BY <1>1, <1>2, NamesAppend DEF Answering
<1> HIDE DEF z
<1>8. /\ Once(Append(z, y), Replies)
      /\ Names(Append(z, y), Replies) = Answering \cup {r}
  BY <1>3, <1>4, <1>6, <1>7, NamesAppend
<1>9. QED
  BY Zenon, <1>6, <1>8 DEF Answering

\* The calls that are somewhere were made and are calls.
LEMMA PlacesAreCalls ==
    ASSUME TypeOK, CallsMade
    PROVE  \A r \in Held \cup Queued \cup Writing \cup Answering :
              r \in Reqs /\ call[r] # None /\ call[r] \in Call
<1>1. \A r \in Held : r \in Reqs /\ call[r] # None
  BY SMTT(30) DEF Held, Holds, TypeOK, ThreadStep, CallsMade
<1>2. \A r \in Queued : r \in Reqs /\ call[r] # None
  <2>1. \A i \in DOMAIN queue : queue[i] \in WorkItem
    BY DEF TypeOK
  <2>2. QED
    BY Zenon, <2>1 DEF Queued, Names, CallItems, WorkItem, CallsMade
<1>3. \A r \in Writing : r \in Reqs /\ call[r] # None
  BY Zenon DEF Writing, TypeOK, WorkerStep, CallsMade
<1>4. \A r \in Answering : r \in Reqs /\ call[r] # None
  <2>1. \A i \in DOMAIN posted : posted[i] \in Handler
    BY DEF TypeOK
  <2>2. QED
    BY Zenon, <2>1 DEF Answering, Names, Replies, Handler, CallsMade
<1>5. QED
  BY Zenon, <1>1, <1>2, <1>3, <1>4 DEF TypeOK

\* A call that was not made yet is nowhere.
LEMMA FreshCall ==
    ASSUME TypeOK, CallsMade, NEW r \in Reqs, call[r] = None
    PROVE  r \notin Held \cup Queued \cup Writing \cup Answering /\ reply[r] = NoReply
  BY Zenon, PlacesAreCalls DEF CallsMade

OwnThread == \A t \in Threads : Holds(t) => ThreadOf(doing[t].r) = t

\* What a step does to the places: a call stays in one place, and only a new
\* call comes on its way to the disk.
PlaceMoves ==
    /\ OnePlace'
    /\ \A r \in (Held \cup Queued \cup Writing)' :
          r \in Held \cup Queued \cup Writing \/ call[r] = None

\* One call moves, to one place.
LEMMA MoveOne ==
    ASSUME TypeOK, CallsMade, OnePlace,
           Once(queue, CallItems)', Once(posted, Replies)', OwnThread', NEW r,
           Held' \subseteq Held \cup {r}, Queued' \subseteq Queued \cup {r},
           Writing' \subseteq Writing \cup {r},
           Answering' \subseteq Answering \cup {r},
           r \in Held' => r \notin Queued' \cup Writing' \cup Answering',
           r \in Queued' => r \notin Writing' \cup Answering',
           r \in Writing' => r \notin Answering',
           \A q \in Reqs : q # r => reply'[q] = reply[q],
           r \in Held' \cup Queued' \cup Writing' \cup Answering'
              => reply'[r] = NoReply,
           r \in Held' \cup Queued' \cup Writing'
              => r \in Held \cup Queued \cup Writing \/ call[r] = None
    PROVE  PlaceMoves
<1>1. /\ Held \cap Queued = {} /\ (Held \cup Queued) \cap Writing = {}
      /\ (Held \cup Queued \cup Writing) \cap Answering = {}
      /\ \A q \in Held \cup Queued \cup Writing \cup Answering :
            q \in Reqs /\ reply[q] = NoReply
  BY Zenon, PlacesAreCalls DEF OnePlace
<1>2. /\ Held' \cap Queued' = {} /\ (Held' \cup Queued') \cap Writing' = {}
      /\ (Held' \cup Queued' \cup Writing') \cap Answering' = {}
  BY Zenon, <1>1
<1>3. \A q \in Held' \cup Queued' \cup Writing' \cup Answering' :
         reply'[q] = NoReply'
  <2>1. NoReply' = NoReply
    BY Zenon DEF NoReply
  <2>2. QED
    BY Zenon, <1>1, <2>1
<1>4. OnePlace'
  BY Zenon, <1>2, <1>3 DEF OnePlace, OwnThread
<1>5. \A q \in Held' \cup Queued' \cup Writing' :
          q \in Held \cup Queued \cup Writing \/ call[q] = None
  BY Zenon, <1>1
<1>6. QED
  BY Zenon, <1>4, <1>5 DEF PlaceMoves

\* No call moves, though some may leave.
LEMMA MoveNone ==
    ASSUME TypeOK, CallsMade, OnePlace, reply' = reply,
           Once(queue, CallItems)', Once(posted, Replies)', OwnThread',
           Held' \subseteq Held, Queued' \subseteq Queued,
           Writing' \subseteq Writing, Answering' \subseteq Answering
    PROVE  PlaceMoves
<1>1. /\ Held \cap Queued = {} /\ (Held \cup Queued) \cap Writing = {}
      /\ (Held \cup Queued \cup Writing) \cap Answering = {}
      /\ \A q \in Held \cup Queued \cup Writing \cup Answering : reply[q] = NoReply
  BY Zenon DEF OnePlace
<1>2. /\ Held' \cap Queued' = {} /\ (Held' \cup Queued') \cap Writing' = {}
      /\ (Held' \cup Queued' \cup Writing') \cap Answering' = {}
  BY Zenon, <1>1
<1>3. \A q \in Held' \cup Queued' \cup Writing' \cup Answering' :
         reply'[q] = NoReply'
  <2>1. NoReply' = NoReply
    BY Zenon DEF NoReply
  <2>2. QED
    BY Zenon, <1>1, <2>1
<1>4. OnePlace'
  BY Zenon, <1>2, <1>3 DEF OnePlace, OwnThread
<1>5. QED
  BY Zenon, <1>4 DEF PlaceMoves

\* The places that a step leaves alone.
LEMMA PlacesSame ==
    ASSUME OnePlace
    PROVE  /\ queue' = queue => Queued' = Queued /\ Once(queue, CallItems)'
           /\ posted' = posted => Answering' = Answering /\ Once(posted, Replies)'
           /\ worker' = worker => Writing' = Writing
           /\ doing' = doing => Held' = Held /\ OwnThread'
           /\ worker.at # "written" => Writing = {}
           /\ (worker.at # "written")' => Writing' = {}
<1>1. queue' = queue => Queued' = Queued /\ Once(queue, CallItems)'
  BY Zenon DEF OnePlace, Queued
<1>2. posted' = posted => Answering' = Answering /\ Once(posted, Replies)'
  BY Zenon DEF OnePlace, Answering
<1>3. doing' = doing => Held' = Held /\ OwnThread'
  BY Zenon DEF OnePlace, Held, Holds, OwnThread
<1>4. QED
  BY Zenon, <1>1, <1>2, <1>3 DEF Writing

\* A storing thread that is free takes a new call.
LEMMA ThreadTakes ==
    ASSUME TypeOK, OnePlace, NEW r \in Reqs, doing[ThreadOf(r)] = Free,
           doing' = [doing EXCEPT ![ThreadOf(r)] = [at |-> "addNewId", r |-> r]]
    PROVE  Held' = Held \cup {r} /\ OwnThread'
<1> DEFINE t == ThreadOf(r)
<1>1. t \in Threads /\ ~Holds(t)
  BY DEF ThreadOf, Threads, Holds, Free
<1>2. /\ doing'[t] = [at |-> "addNewId", r |-> r]
      /\ \A u \in Threads : u # t => doing'[u] = doing[u]
  BY Zenon, <1>1 DEF TypeOK
<1> HIDE DEF t
<1>3. Holds(t)' /\ doing'[t].r = r
  BY <1>2 DEF Holds
<1>4. \A u \in Threads : u # t => (Holds(u)' <=> Holds(u))
  BY Zenon, <1>2 DEF Holds
<1>5. Held' = Held \cup {r}
  BY Zenon, <1>1, <1>2, <1>3, <1>4 DEF Held
<1>6. OwnThread'
  BY Zenon, <1>1, <1>2, <1>3, <1>4 DEF OwnThread, OnePlace, t
<1>7. QED
  BY Zenon, <1>5, <1>6

\* A storing thread is done with its call.
LEMMA ThreadLeaves ==
    ASSUME TypeOK, OnePlace, NEW t \in Threads, Holds(t), doing' = [doing EXCEPT ![t] = Free]
    PROVE  /\ doing[t].r \in Held /\ Held' \subseteq Held \ {doing[t].r}
           /\ OwnThread'
<1>2. /\ doing'[t] = Free
      /\ \A u \in Threads : u # t => doing'[u] = doing[u]
  BY Zenon DEF TypeOK
<1>3. ~Holds(t)' /\ \A u \in Threads : u # t => (Holds(u)' <=> Holds(u))
  BY <1>2 DEF Holds, Free
<1>4. \A u \in Threads : Holds(u) /\ u # t => doing[u].r # doing[t].r
  BY Zenon DEF OnePlace
<1>5. /\ doing[t].r \in Held
      /\ Held' \subseteq Held \ {doing[t].r}
  BY <1>2, <1>3, <1>4 DEF Held
<1>6. OwnThread'
  BY Zenon, <1>2, <1>3 DEF OnePlace, OwnThread
<1>7. QED
  BY Zenon, <1>5, <1>6

\* A storing thread goes on with its call, or with something else.
LEMMA ThreadGoesOn ==
    ASSUME TypeOK, OnePlace, NEW t \in Threads, NEW x,
           doing' = [doing EXCEPT ![t] = x],
           \/ ~Holds(t) /\ x.at \notin {"addNewId", "enqueue"}
           \/ Holds(t) /\ x = [at |-> "enqueue", r |-> doing[t].r]
    PROVE  Held' = Held /\ OwnThread'
<1>1. doing'[t] = x /\ \A u \in Threads : u # t => doing'[u] = doing[u]
  BY Zenon DEF TypeOK
<1>2. \A u \in Threads : Holds(u)' <=> Holds(u)
  BY <1>1 DEF Holds
<1>3. \A u \in Threads : Holds(u) => doing'[u].r = doing[u].r
  BY <1>1 DEF Holds
<1>4. Held' = Held
  BY Zenon, <1>2, <1>3 DEF Held
<1>5. OwnThread'
  BY Zenon, <1>2, <1>3 DEF OnePlace, OwnThread
<1>6. QED
  BY Zenon, <1>4, <1>5

\* A call is in one place after every step.
LEMMA PlacesStep ==
    ASSUME TypeOK, CallsMade, OnePlace, [Next]_vars
    PROVE  PlaceMoves
<1>1. ASSUME NEW r \in Reqs, NEW op, NEW id, NEW db, Begin(r, op, id, db),
             worker' = worker, reply' = reply,
             \/ UNCHANGED <<doing, queue>> /\ \E res \in Results :
                    posted' = Append(posted, Answer(r, res, {}))
             \/ /\ UNCHANGED <<doing, posted>>
                /\ queue' = Append(queue, [op |-> "call", r |-> r])
             \/ /\ UNCHANGED <<queue, posted>>
                /\ doing' = [doing EXCEPT
                               ![ThreadOf(r)] = [at |-> "addNewId", r |-> r]]
      PROVE  PlaceMoves
  <2>1. r \notin Held \cup Queued \cup Writing \cup Answering /\ reply[r] = NoReply
    BY Zenon, <1>1, FreshCall DEF Begin
  <2>2. call[r] = None /\ doing[ThreadOf(r)] = Free
    BY Zenon, <1>1 DEF Begin, Runs
  <2>3. ASSUME UNCHANGED <<doing, queue>>, NEW res \in Results,
               posted' = Append(posted, Answer(r, res, {}))
        PROVE  PlaceMoves
    <3>1. Once(posted, Replies)' /\ Answering' = Answering \cup {r}
      BY <2>1, <2>3, PostedAdds
    <3>2. /\ Queued' = Queued /\ Once(queue, CallItems)' /\ Held' = Held
          /\ OwnThread' /\ Writing' = Writing
      BY Zenon, <1>1, <2>3, PlacesSame
    <3>3. QED
      BY Zenon, <1>1, <2>1, <2>2, <3>1, <3>2, MoveOne
  <2>4. ASSUME UNCHANGED <<doing, posted>>,
               queue' = Append(queue, [op |-> "call", r |-> r])
        PROVE  PlaceMoves
    <3>1. Once(queue, CallItems)' /\ Queued' = Queued \cup {r}
      BY Zenon, <2>1, <2>4, QueueAdds
    <3>2. /\ Answering' = Answering /\ Once(posted, Replies)' /\ Held' = Held
          /\ OwnThread' /\ Writing' = Writing
      BY Zenon, <1>1, <2>4, PlacesSame
    <3>3. QED
      BY Zenon, <1>1, <2>1, <2>2, <3>1, <3>2, MoveOne
  <2>5. ASSUME UNCHANGED <<queue, posted>>,
               doing' = [doing EXCEPT
                           ![ThreadOf(r)] = [at |-> "addNewId", r |-> r]]
        PROVE  PlaceMoves
    <3>1. Held' = Held \cup {r} /\ OwnThread'
      BY Zenon, <2>2, <2>5, ThreadTakes
    <3>2. /\ Answering' = Answering /\ Once(posted, Replies)' /\ Queued' = Queued
          /\ Once(queue, CallItems)' /\ Writing' = Writing
      BY Zenon, <1>1, <2>5, PlacesSame
    <3>3. QED
      BY Zenon, <1>1, <2>1, <2>2, <3>1, <3>2, MoveOne
  <2>6. QED
    BY Zenon, <1>1, <2>3, <2>4, <2>5
<1>2. ASSUME UNCHANGED <<doing, queue, worker, posted, reply>> PROVE PlaceMoves
  BY Zenon, <1>2, PlacesSame, MoveNone
<1>3. CASE Calls
  <2>1. ASSUME NEW r \in Reqs, NEW id \in Ids, GetAsset(r, id) PROVE PlaceMoves
    BY Zenon, <1>1, <2>1 DEF GetAsset, Results
  <2>2. ASSUME NEW r \in Reqs, NEW id \in Ids, NEW db \in Dbs,
               StoreAsset(r, id, db)
        PROVE  PlaceMoves
    BY Zenon, <1>1, <2>2 DEF StoreAsset, Results
  <2>3. ASSUME NEW r \in Reqs, NEW id \in Ids, NEW op, QueueOnly(r, op, id)
        PROVE  PlaceMoves
    BY Zenon, <1>1, <2>3 DEF QueueOnly
  <2>4. CASE BeginPurgeLocals
    BY Zenon, <1>2, <2>4 DEF BeginPurgeLocals
  <2>5. QED
    BY Zenon, <1>3, <2>1, <2>2, <2>3, <2>4 DEF Calls
<1>4. ASSUME NEW t \in Threads, StoreAddNewId(t) PROVE PlaceMoves
  <2>1. /\ Holds(t) /\ UNCHANGED <<queue, worker, posted, reply>>
        /\ doing' = [doing EXCEPT ![t] = [at |-> "enqueue", r |-> doing[t].r]]
    BY Zenon, <1>4 DEF StoreAddNewId, Holds
  <2>2. Held' = Held /\ OwnThread'
    BY Zenon, <2>1, ThreadGoesOn
  <2>3. QED
    BY Zenon, <2>1, <2>2, PlacesSame, MoveNone
<1>5. ASSUME NEW t \in Threads, StoreEnqueue(t) PROVE PlaceMoves
  <2> DEFINE r == doing[t].r
  <2>1. /\ Holds(t) /\ UNCHANGED <<worker, posted, reply>>
        /\ queue' = Append(queue, [op |-> "call", r |-> r])
        /\ doing' = [doing EXCEPT ![t] = Free]
    BY Zenon, <1>5 DEF StoreEnqueue, Holds
  <2>2. r \in Held /\ Held' \subseteq Held \ {r} /\ OwnThread'
    BY Zenon, <2>1, ThreadLeaves
  <2>3. /\ r \in Reqs /\ r \notin Queued \cup Writing \cup Answering
        /\ reply[r] = NoReply
    BY Zenon, <2>2, PlacesAreCalls DEF OnePlace
  <2>4. Once(queue, CallItems)' /\ Queued' = Queued \cup {r}
    BY Zenon, <2>1, <2>3, QueueAdds
  <2>5. Answering' = Answering /\ Once(posted, Replies)' /\ Writing' = Writing
    BY Zenon, <2>1, PlacesSame
  <2> HIDE DEF r
  <2>6. QED
    BY Zenon, <2>1, <2>2, <2>3, <2>4, <2>5, MoveOne
<1>6. CASE RunCallback
  <2> DEFINE r == Head(posted).r
  <2>1. /\ posted # <<>> /\ posted' = Tail(posted) /\ Head(posted).h = "reply"
        /\ UNCHANGED <<queue, worker, doing>>
        /\ reply' = [reply EXCEPT ![r] = Head(posted).val]
    BY Zenon, <1>6 DEF RunCallback, RunHandler
  <2>2. Once(posted, Replies)' /\ Answering' \subseteq Answering \ {r}
        /\ r \in Answering
    BY Zenon, <2>1, PostedTakes
  <2>3. r \notin Held \cup Queued \cup Writing
    BY Zenon, <2>2 DEF OnePlace
  <2>4. \A q \in Reqs : q # r => reply'[q] = reply[q]
    BY Zenon, <2>1 DEF TypeOK
  <2>5. /\ Queued' = Queued /\ Once(queue, CallItems)' /\ Held' = Held
        /\ OwnThread' /\ Writing' = Writing
    BY Zenon, <2>1, PlacesSame
  <2> HIDE DEF r
  <2>6. QED
    BY Zenon, <2>2, <2>3, <2>4, <2>5, MoveOne
<1>7. CASE AssetWriteFailed \/ IoLoopFailed
  <2>1. /\ posted # <<>> /\ posted' = Tail(posted)
        /\ UNCHANGED <<queue, worker, doing, reply>>
    BY Zenon, <1>7 DEF AssetWriteFailed, IoLoopFailed, RunHandler
  <2>2. QED
    BY Zenon, <2>1, PostedTakes, PlacesSame, MoveNone
<1>8. CASE UnindexLocals
  <2>1. /\ posted # <<>> /\ posted' = Tail(posted) /\ doing["asio"] = Free
        /\ UNCHANGED <<queue, worker, reply>>
        /\ doing' = [doing EXCEPT !["asio"] = [at |-> "scheduleDelete",
                                               head |-> Head(posted).head]]
    BY Zenon, <1>8 DEF UnindexLocals, RunHandler, Runs
  <2>2. "asio" \in Threads /\ ~Holds("asio")
    BY <2>1 DEF Threads, Holds, Free
  <2>3. Held' = Held /\ OwnThread'
    BY Zenon, <2>1, <2>2, ThreadGoesOn
  <2>4. QED
    BY Zenon, <2>1, <2>3, PostedTakes, PlacesSame, MoveNone
<1>9. CASE ScheduleDelete
  <2> DEFINE x == [op |-> "deleteLocals", head |-> doing["asio"].head]
  <2>1. /\ queue' = Append(queue, x) /\ doing["asio"].at = "scheduleDelete"
        /\ UNCHANGED <<posted, worker, reply>>
        /\ doing' = [doing EXCEPT !["asio"] = Free]
    BY Zenon, <1>9 DEF ScheduleDelete
  <2>2. "asio" \in Threads /\ ~Holds("asio") /\ Free.at \notin {"addNewId", "enqueue"}
    BY Zenon, <2>1 DEF Threads, Holds, Free
  <2>3. Held' = Held /\ OwnThread'
    BY Zenon, <2>1, <2>2, ThreadGoesOn
  <2>4. x \in WorkItem /\ x.op # "call"
    BY Zenon, <2>1, <2>2 DEF WorkItem, TypeOK, ThreadStep
  <2> HIDE DEF x
  <2>5. Once(queue, CallItems)' /\ Queued' = Queued
    BY Zenon, <2>1, <2>4, QueueAddsItem
  <2>6. QED
    BY Zenon, <2>1, <2>3, <2>5, PlacesSame, MoveNone
<1>10. CASE OnPurgeTimer
  <2> DEFINE x == [op |-> "purgeLocals", head |-> purge.next]
  <2>1. queue' = Append(queue, x) /\ UNCHANGED <<posted, worker, doing, reply>>
    BY Zenon, <1>10 DEF OnPurgeTimer
  <2>2. x \in WorkItem /\ x.op # "call"
    BY Zenon DEF WorkItem, TypeOK
  <2> HIDE DEF x
  <2>3. Once(queue, CallItems)' /\ Queued' = Queued
    BY Zenon, <2>1, <2>2, QueueAddsItem
  <2>4. QED
    BY Zenon, <2>1, <2>3, PlacesSame, MoveNone
<1>11. ASSUME NEW op, TakeCall(op), UNCHANGED <<worker, doing, reply>>,
              NEW res \in Results, NEW got \in SUBSET Assets,
              posted' = Append(posted, Answer(Head(queue).r, res, got))
       PROVE  PlaceMoves
  <2> DEFINE r == Head(queue).r
  <2>1. /\ Once(queue, CallItems)' /\ Queued' \subseteq Queued
        /\ r \in Queued \ Queued'
    BY Zenon, <1>11, QueueTakes DEF TakeCall
  <2>2. r \in Reqs /\ r \notin Held \cup Writing \cup Answering /\ reply[r] = NoReply
    BY Zenon, <2>1, PlacesAreCalls DEF OnePlace
  <2>3. Once(posted, Replies)' /\ Answering' = Answering \cup {r}
    BY Zenon, <1>11, <2>2, PostedAdds
  <2>4. Held' = Held /\ OwnThread' /\ Writing' = Writing
    BY Zenon, <1>11, PlacesSame
  <2> HIDE DEF r
  <2>5. QED
    BY Zenon, <1>11, <2>1, <2>2, <2>3, <2>4, MoveOne
<1>12. ASSUME queue # <<>>, queue' = Tail(queue), UNCHANGED <<worker, doing, reply>>,
              \/ posted' = posted
              \/ \E x \in Handler : x.h # "reply" /\ posted' = Append(posted, x)
       PROVE  PlaceMoves
  <2>1. Once(posted, Replies)' /\ Answering' = Answering
    BY Zenon, <1>12, PostedAddsOther, PlacesSame
  <2>2. QED
    BY Zenon, <1>12, <2>1, QueueTakes, PlacesSame, MoveNone
<1>13. CASE PerformDiskRead
  <2>1. TakeCall("get") /\ UNCHANGED <<worker, doing, reply>>
    BY Zenon, <1>13 DEF PerformDiskRead
  <2>2. Lookup(call[Head(queue).r].id) \in Assets \cup {None}
    BY Zenon, <2>1, TakenCall, LookupType
  <2>3. PICK res \in Results, got \in SUBSET Assets :
           posted' = Append(posted, Answer(Head(queue).r, res, got))
    BY Zenon, <1>13, <2>2 DEF PerformDiskRead, Results
  <2>4. QED
    BY Zenon, <1>11, <2>1, <2>3
<1>14. CASE WriteRejected
  BY SMTT(30), <1>11, <1>14 DEF WriteRejected, Results
<1>15. CASE PerformGetStatus
  BY <1>11, <1>15 DEF PerformGetStatus, Results
<1>16. CASE PerformGetStoredAssetIds
  <2>1. TakeCall("list") /\ UNCHANGED <<worker, doing, reply>>
    BY Zenon, <1>16 DEF PerformGetStoredAssetIds
  <2>2. \A head : GlobalsUnder(head) \in SUBSET Assets
    BY DEF GlobalsUnder, Dbs, TypeOK
  <2>3. [h |-> "ioLoopFailed"] \in Handler
    BY Zenon DEF Handler
  <2>4. \/ \E got \in SUBSET Assets :
              posted' = Append(posted, Answer(Head(queue).r, "ok", got))
        \/ \E x \in Handler : x.h # "reply" /\ posted' = Append(posted, x)
    BY Zenon, <1>16, <2>2, <2>3 DEF PerformGetStoredAssetIds
  <2>5. queue # <<>> /\ queue' = Tail(queue) /\ "ok" \in Results
    BY Zenon, <2>1 DEF TakeCall, Results
  <2>6. QED
    BY Zenon, <1>11, <1>12, <2>1, <2>4, <2>5
<1>17. CASE PerformDiskPurge
  BY Zenon, <1>12, <1>17 DEF PerformDiskPurge, TakeCall
<1>18. CASE PerformDiskPurgeLocals
  <2>1. Head(queue).head \in Heads
    BY Zenon, <1>18, TakenItem DEF PerformDiskPurgeLocals
  <2>2. \E x \in Handler : x.h # "reply" /\ posted' = Append(posted, x)
    BY Zenon, <1>18, <2>1 DEF PerformDiskPurgeLocals, Handler, LocalsUnder
  <2>3. QED
    BY Zenon, <1>12, <1>18, <2>2 DEF PerformDiskPurgeLocals, TakeItem
<1>19. CASE WriteThrows
  <2> DEFINE r == Head(queue).r
  <2>1. /\ TakeCall("put") /\ UNCHANGED <<worker, doing, reply>>
        /\ posted' = posted \o <<[h |-> "assetWriteFailed", id |-> call[r].id],
                                 Answer(r, "failed", {})>>
    BY Zenon, <1>19 DEF WriteThrows
  <2>2. /\ Once(queue, CallItems)' /\ Queued' \subseteq Queued
        /\ r \in Queued \ Queued'
    BY Zenon, <2>1, QueueTakes DEF TakeCall
  <2>3. r \in Reqs /\ r \notin Held \cup Writing \cup Answering /\ reply[r] = NoReply
    BY Zenon, <2>2, PlacesAreCalls DEF OnePlace
  <2>4. call[r].id \in Ids
    BY Zenon, <2>1, TakenCall
  <2>5. Once(posted, Replies)' /\ Answering' = Answering \cup {r}
    BY Zenon, <2>1, <2>3, <2>4, PostedAddsFailure
  <2>6. Held' = Held /\ OwnThread' /\ Writing' = Writing
    BY Zenon, <2>1, PlacesSame
  <2> HIDE DEF r
  <2>7. QED
    BY Zenon, <2>1, <2>2, <2>3, <2>5, <2>6, MoveOne
<1>20. CASE WriteNewAsset
  <2> DEFINE r == Head(queue).r
  <2>1. /\ TakeCall("put") /\ UNCHANGED <<posted, doing, reply>>
        /\ worker = Idle /\ worker' = [at |-> "written", r |-> r]
    BY Zenon, <1>20 DEF WriteNewAsset, TakeCall
  <2>2. /\ Once(queue, CallItems)' /\ Queued' \subseteq Queued
        /\ r \in Queued \ Queued'
    BY Zenon, <2>1, QueueTakes DEF TakeCall
  <2>3. r \notin Held \cup Answering /\ reply[r] = NoReply
    BY Zenon, <2>2 DEF OnePlace
  <2>4. Writing' = {r}
    BY Zenon, <2>1 DEF Writing
  <2>5. Held' = Held /\ OwnThread' /\ Answering' = Answering /\ Once(posted, Replies)'
    BY Zenon, <2>1, PlacesSame
  <2> HIDE DEF r
  <2>6. QED
    BY Zenon, <2>1, <2>2, <2>3, <2>4, <2>5, MoveOne
<1>21. CASE RecordAssetPosition \/ RecordThrows
  <2> DEFINE r == worker.r
  <2>1. /\ worker.at = "written" /\ worker' = Idle
        /\ UNCHANGED <<queue, doing, reply>>
        /\ \/ posted' = Append(posted, Answer(r, "ok", {}))
           \/ posted' = posted \o <<[h |-> "assetWriteFailed", id |-> call[r].id],
                                    Answer(r, "failed", {})>>
    BY Zenon, <1>21 DEF RecordAssetPosition, RecordThrows
  <2>2. Writing = {r} /\ Writing' = {}
    BY Zenon, <2>1 DEF Writing, Idle
  <2>3. /\ r \in Reqs /\ r \notin Held \cup Queued \cup Answering
        /\ reply[r] = NoReply /\ call[r].id \in Ids
    BY Zenon, <2>2, PlacesAreCalls DEF OnePlace, Call
  <2>4. Once(posted, Replies)' /\ Answering' = Answering \cup {r}
    <3>1. CASE posted' = Append(posted, Answer(r, "ok", {}))
      BY <2>3, <3>1, PostedAdds DEF Results
    <3>2. CASE posted' = posted \o <<[h |-> "assetWriteFailed",
                                      id |-> call[r].id],
                                     Answer(r, "failed", {})>>
      BY Zenon, <2>3, <3>2, PostedAddsFailure
    <3>3. QED
      BY Zenon, <2>1, <3>1, <3>2
  <2>5. Held' = Held /\ OwnThread' /\ Queued' = Queued /\ Once(queue, CallItems)'
    BY Zenon, <2>1, PlacesSame
  <2> HIDE DEF r
  <2>6. QED
    BY Zenon, <2>1, <2>2, <2>3, <2>4, <2>5, MoveOne
<1>22. CASE RemoveLocalsIndex
  <2>1. /\ queue # <<>> /\ queue' = Tail(queue) /\ UNCHANGED <<doing, posted, reply>>
        /\ (worker.at # "written")'
    BY Zenon, <1>22 DEF RemoveLocalsIndex, TakeItem
  <2>2. QED
    BY Zenon, <2>1, QueueTakes, PlacesSame, MoveNone
<1>23. CASE RemoveLocalsData
  <2>1. UNCHANGED <<queue, doing, posted, reply>> /\ (worker.at # "written")'
    BY Zenon, <1>23 DEF RemoveLocalsData, Idle
  <2>2. QED
    BY Zenon, <2>1, PlacesSame, MoveNone
<1>24. CASE RemoveThrows
  <2>1. UNCHANGED <<doing, reply>> /\ posted' = Append(posted, [h |-> "ioLoopFailed"])
    BY Zenon, <1>24 DEF RemoveThrows
  <2>2. \E x \in Handler : x.h # "reply" /\ posted' = Append(posted, x)
    BY Zenon, <2>1 DEF Handler
  <2>3. Once(posted, Replies)' /\ Answering' = Answering
    BY Zenon, <2>2, PostedAddsOther
  <2>4. \/ queue # <<>> /\ queue' = Tail(queue) /\ worker' = worker
        \/ (worker.at # "written")' /\ queue' = queue
    BY <1>24 DEF RemoveThrows, TakeItem, Idle
  <2>5. QED
    BY Zenon, <2>1, <2>3, <2>4, QueueTakes, PlacesSame, MoveNone
<1>25. CASE ShutdownCompletes \/ Crash
  <2>1. /\ queue' = <<>> /\ posted' = <<>> /\ worker' = Idle
        /\ doing' = [t \in Threads |-> Free]
    BY Zenon, <1>25 DEF ShutdownCompletes, Crash, ProcessEnds
  <2>2. Held' = {} /\ OwnThread'
    BY Zenon, <2>1 DEF Held, OwnThread, Holds, Free
  <2>3. Queued' = {} /\ Once(queue, CallItems)' /\ Answering' = {} /\ Once(posted, Replies)'
    BY <2>1 DEF Queued, Answering, Names, Once
  <2>4. Writing' = {}
    BY Zenon, <2>1 DEF Writing, Idle
  <2>5. QED
    BY Zenon, <2>2, <2>3, <2>4 DEF PlaceMoves, OnePlace, OwnThread
<1>26. CASE Shutdown \/ Restart \/ UNCHANGED vars
  BY Zenon, <1>2, <1>26 DEF Shutdown, Restart, vars
<1>27. QED
  BY Zenon, <1>3, <1>4, <1>5, <1>6, <1>7, <1>8, <1>9, <1>10, <1>13, <1>14, <1>15,
     <1>16, <1>17, <1>18, <1>19, <1>20, <1>21, <1>22, <1>23, <1>24, <1>25, <1>26
  DEF Next, AsioSteps, ThreadSteps, WorkerSteps, Threads

\* A row names a PUT of its id into its database.
LEMMA RowCall ==
    ASSUME RowsGenuine, NEW db \in Dbs, NEW id \in Ids, NEW a, a # None,
           a = rows[db][id]
    PROVE  /\ call[a] # None /\ call[a].op = "put"
           /\ call[a].id = id /\ call[a].db = db
<1>1. call[a] = [op |-> "put", id |-> id, db |-> db]
  BY Zenon DEF RowsGenuine
<1>2. [op |-> "put", id |-> id, db |-> db] # None
  BY ConstantsAssumption DEF Call, CallOps
<1>3. QED
  BY <1>1, <1>2

\* An asset the index finds was stored under the id that was looked up.
LEMMA LookupGenuine ==
    ASSUME RowsGenuine, NEW id \in Ids, Lookup(id) # None
    PROVE  Store!Genuine(id, Lookup(id))
<1>0. "globals" \in Dbs /\ "locals" \in Dbs
  BY Zenon DEF Dbs
<1>1. PICK a : a = Lookup(id)
  BY Zenon
<1>2. PICK db \in Dbs : a = rows[db][id] /\ (db = "globals" => a = rows["globals"][id])
  BY Zenon, <1>0, <1>1 DEF Lookup
<1>3. /\ call[a] # None /\ call[a].op = "put" /\ call[a].id = id /\ call[a].db = db
  BY <1>1, <1>2, RowCall
<1>4. QED
  BY Zenon, <1>1, <1>2, <1>3 DEF Store!Genuine

\* What a step does to the index rows: it removes some, or the worker inserts
\* the one it has written.
RowsMove ==
    \A db \in Dbs, id \in Ids :
        \/ rows'[db][id] \in {rows[db][id], None}
        \/ /\ worker.at = "written" /\ rows'[db][id] = worker.r
           /\ call[worker.r] = [op |-> "put", id |-> id, db |-> db]
           /\ worker' = Idle /\ UNCHANGED <<queue, doing>>

\* Every step treats the rows that way.
LEMMA RowsStep ==
    ASSUME TypeOK, CallsMade, WorkerKnows, [Next]_vars
    PROVE  RowsMove
<1>1. ASSUME rows' = rows PROVE RowsMove
  BY Zenon, <1>1 DEF RowsMove
<1>2. CASE RecordAssetPosition
  <2> DEFINE r == worker.r
  <2>1. r \in Reqs /\ call[r] \in Call /\ call[r].op = "put"
    BY Zenon, <1>2 DEF RecordAssetPosition, TypeOK, WorkerStep, CallsMade, WorkerKnows
  <2>2. /\ rows' = [rows EXCEPT ![call[r].db][call[r].id] = r]
        /\ worker.at = "written" /\ worker' = Idle /\ UNCHANGED <<queue, doing>>
    BY Zenon, <1>2 DEF RecordAssetPosition, DbFor
  <2>3. call[r].db \in Dbs /\ call[r].id \in Ids
    BY Zenon, <2>1 DEF Call
  <2>4. \A d \in Dbs, i \in Ids :
           rows'[d][i] = IF d = call[r].db /\ i = call[r].id THEN r ELSE rows[d][i]
    BY Zenon, <2>2, <2>3 DEF TypeOK
  <2>5. call[r] = [op |-> "put", id |-> call[r].id, db |-> call[r].db]
    BY Zenon, <2>1 DEF Call
  <2>6. ASSUME NEW d \in Dbs, NEW i \in Ids, rows'[d][i] # rows[d][i]
        PROVE  d = call[r].db /\ i = call[r].id /\ rows'[d][i] = r
    BY Zenon, <2>4, <2>6
  <2>7. QED
    BY Zenon, <2>2, <2>5, <2>6 DEF RowsMove
<1>3. CASE RemoveLocalsIndex
  <2>1. rows' = [rows EXCEPT !["locals"] =
                   [id \in Ids |-> IF HeadOf[id] = Head(queue).head THEN None
                                   ELSE rows["locals"][id]]]
    BY Zenon, <1>3 DEF RemoveLocalsIndex
  <2>2. \A d \in Dbs, i \in Ids : rows'[d][i] \in {rows[d][i], None}
    BY Zenon, <2>1 DEF TypeOK, Dbs
  <2>3. QED
    BY Zenon, <2>2 DEF RowsMove
<1>4. CASE Calls
  BY Zenon, <1>1, <1>4 DEF Calls, GetAsset, StoreAsset, QueueOnly, BeginPurgeLocals
<1>5. CASE AsioSteps \/ ThreadSteps("pull") \/ OnPurgeTimer
  BY Zenon, <1>1, <1>5
  DEF AsioSteps, ThreadSteps, StoreAddNewId, StoreEnqueue, RunCallback,
      AssetWriteFailed, UnindexLocals, ScheduleDelete, IoLoopFailed,
      RunHandler, OnPurgeTimer
<1>6. CASE \/ PerformDiskRead \/ WriteNewAsset \/ WriteRejected \/ WriteThrows
           \/ RecordThrows \/ PerformDiskPurge \/ PerformGetStatus
           \/ PerformGetStoredAssetIds \/ PerformDiskPurgeLocals
           \/ RemoveLocalsData \/ RemoveThrows
  BY Zenon, <1>1, <1>6
  DEF PerformDiskRead, WriteNewAsset, WriteRejected, WriteThrows, RecordThrows,
      PerformDiskPurge, PerformGetStatus, PerformGetStoredAssetIds,
      PerformDiskPurgeLocals, RemoveLocalsData, RemoveThrows
<1>7. CASE Shutdown \/ ShutdownCompletes \/ Crash \/ Restart \/ UNCHANGED vars
  BY Zenon, <1>1, <1>7
  DEF Shutdown, ShutdownCompletes, Crash, ProcessEnds, Restart, vars
<1>8. QED
  BY Zenon, <1>2, <1>3, <1>4, <1>5, <1>6, <1>7 DEF Next, WorkerSteps

\* A row names a PUT of its id that is not on its way any more.
LEMMA RowsGenuineStep ==
    ASSUME PromiseInv, [Next]_vars
    PROVE  RowsGenuine'
<1>1. TypeOK /\ CallsMade /\ WorkerKnows /\ OnePlace /\ RowsGenuine
  BY Zenon DEF PromiseInv, DiskInv
<1>2. RowsMove /\ PlaceMoves
  BY Zenon, <1>1, RowsStep, PlacesStep
<1>3. \A r \in Reqs : call[r] # None => call'[r] = call[r]
  BY Zenon, <1>1, CallsGrow
<1>4. ASSUME NEW db \in Dbs, NEW id \in Ids, rows'[db][id] # None
      PROVE  /\ call'[rows'[db][id]] = [op |-> "put", id |-> id, db |-> db]
             /\ rows'[db][id] \notin (Held \cup Queued \cup Writing)'
  <2> DEFINE a == rows'[db][id]
  <2>0. [op |-> "put", id |-> id, db |-> db] # None
    BY ConstantsAssumption DEF Call, CallOps
  <2>1. CASE a = rows[db][id]
    <3>1. /\ call[a] = [op |-> "put", id |-> id, db |-> db]
          /\ a \notin Held \cup Queued \cup Writing
      BY <1>1, <1>4, <2>1 DEF RowsGenuine
    <3>2. a \in Reqs
      BY <1>1, <1>4, <2>1 DEF TypeOK, Assets
    <3>3. QED
      BY Zenon, <1>2, <1>3, <2>0, <3>1, <3>2 DEF PlaceMoves
  <2>2. CASE /\ worker.at = "written" /\ a = worker.r
             /\ call[worker.r] = [op |-> "put", id |-> id, db |-> db]
             /\ worker' = Idle /\ UNCHANGED <<queue, doing>>
    <3>1. a \in Reqs /\ Writing = {a} /\ Writing' = {}
      BY Zenon, <1>1, <2>2 DEF TypeOK, WorkerStep, Writing, Idle
    <3>2. Held' = Held /\ Queued' = Queued
      BY Zenon, <1>1, <2>2, PlacesSame
    <3>3. a \notin Held \cup Queued
      BY Zenon, <1>1, <3>1 DEF OnePlace
    <3>4. QED
      BY Zenon, <1>3, <2>0, <2>2, <3>1, <3>2, <3>3
  <2>3. QED
    BY Zenon, <1>2, <1>4, <2>1, <2>2 DEF RowsMove
<1>5. QED
  BY Zenon, <1>4 DEF RowsGenuine

\* What a step keeps of the facts the answers rely on: the calls made, the
\* global assets kept, and that a call with an answer is not recorded later.
Stays ==
    /\ \A r \in Reqs : call[r] # None => call'[r] = call[r]
    /\ \A id \in Ids : rows["globals"][id] # None
                          => rows'["globals"][id] = rows["globals"][id]
    /\ \A id \in Ids, r \in Answering : rows'["globals"][id] = r
                          => rows["globals"][id] = r

\* Every step keeps them.
LEMMA StaysStep ==
    ASSUME PromiseInv, [Next]_vars
    PROVE  Stays
<1>1. TypeOK /\ CallsMade /\ WorkerKnows /\ RowsHaveData /\ OnePlace /\ DiskInv
  BY Zenon DEF PromiseInv, DiskInv
<1>2. RowsMove
  BY Zenon, <1>1, RowsStep
<1>3. TypeOK'
  BY Zenon, <1>1, TypeStep
<1>4. FilesKept
  BY Zenon, <1>1, <1>3, FilesStep
<1>5. ASSUME NEW id \in Ids, NEW r \in Answering, rows'["globals"][id] = r
      PROVE  rows["globals"][id] = r
  <2>1. r \in Reqs /\ r # None /\ "globals" \in Dbs
    BY Zenon, <1>1, PlacesAreCalls, ConstantsAssumption DEF Dbs
  <2>2. worker.at = "written" => worker.r # r
    BY Zenon, <1>1 DEF OnePlace, Writing
  <2>3. QED
    BY Zenon, <1>2, <1>5, <2>1, <2>2 DEF RowsMove
<1>6. QED
  BY Zenon, <1>1, <1>4, <1>5, CallsGrow DEF Stays, FilesKept

\* An asset that is what an id means stays so.
LEMMA GenuineStays ==
    ASSUME Stays, NEW id \in Ids, NEW a \in Reqs, Store!Genuine(id, a)
    PROVE  Store!Genuine(id, a)'
<1>1. call[a] # None /\ call'[a] = call[a] /\ a # None
  BY Zenon, ConstantsAssumption DEF Stays, Store!Genuine
<1>2. call[a].db = "globals" => rows'["globals"][id] = a
  BY Zenon, <1>1 DEF Stays, Store!Genuine
<1>3. QED
  BY Zenon, <1>1, <1>2 DEF Store!Genuine

\* An answer that is legal stays legal until it is given.
LEMMA LegalStays ==
    ASSUME Stays, NEW r \in Answering, r \in Reqs, call[r] # None,
           call[r] \in Call, NEW res, NEW got \in SUBSET Reqs,
           Store!Legal(r, res, got)
    PROVE  Store!Legal(r, res, got)'
<1>1. call'[r] = call[r] /\ call[r].id \in Ids
  BY Zenon DEF Stays, Call
<1>2. ASSUME NEW a \in Reqs, got = {a}, Store!Genuine(call[r].id, a)
      PROVE  Store!Genuine(call[r].id, a)'
  <2> DEFINE id == call[r].id
  <2>1. id \in Ids /\ Store!Genuine(id, a)
    BY Zenon, <1>1, <1>2
  <2>2. call[a] # None /\ call'[a] = call[a] /\ a # None
    BY Zenon, <2>1, ConstantsAssumption DEF Stays, Store!Genuine
  <2>3. call[a].db = "globals" => rows'["globals"][id] = a
    BY Zenon, <2>1, <2>2 DEF Stays, Store!Genuine
  <2>4. QED
    BY Zenon, <1>1, <2>1, <2>2, <2>3 DEF Store!Genuine
<1>3. rows["globals"][call[r].id] # r => rows'["globals"][call[r].id] # r
  BY Zenon, <1>1 DEF Stays
<1>4. rows["globals"][call[r].id] = r => rows'["globals"][call[r].id] = r
  BY Zenon, <1>1, ConstantsAssumption DEF Stays
<1>5. ASSUME \A a \in got : \E id \in Ids : rows["globals"][id] = a
      PROVE  \A a \in got : \E id \in Ids : rows'["globals"][id] = a
  BY ZenonT(60), <1>5, ConstantsAssumption DEF Stays
<1>6. QED
  BY Zenon, <1>1, <1>2, <1>3, <1>4, <1>5 DEF Store!Legal

\* A handler may be posted: if it answers a call, the answer is legal in the
\* next state.
MayPost(x) ==
    x.h = "reply" =>
        \A r, res, got : r = x.r /\ res = x.val.res /\ got = x.val.got
                            => Store!Legal(r, res, got)'

\* Every handler of the next state was there before or may be posted.
AnswersMove ==
    \A i \in DOMAIN posted' : \/ \E j \in DOMAIN posted : posted'[i] = posted[j]
                              \/ MayPost(posted'[i])

\* One handler is posted.
LEMMA PostOne ==
    ASSUME TypeOK, NEW x, MayPost(x), posted' = Append(posted, x)
    PROVE  AnswersMove
<1>1. posted \in Seq(Handler)
  BY Zenon DEF TypeOK
<1>2. \A i \in DOMAIN posted' : posted'[i] = x \/ \E j \in DOMAIN posted : posted'[i] = posted[j]
  BY <1>1, AppendElements
<1>3. QED
  BY Zenon, <1>2 DEF AnswersMove

\* One answer is posted.
LEMMA PostAnswer ==
    ASSUME TypeOK, NEW r, NEW res, NEW got, Store!Legal(r, res, got)',
           posted' = Append(posted, Answer(r, res, got))
    PROVE  AnswersMove
<1>1. MayPost(Answer(r, res, got))
  BY Zenon DEF MayPost, Answer
<1>2. QED
  BY Zenon, <1>1, PostOne

\* A failed write of a call that no row names is reported.
LEMMA PostFailure ==
    ASSUME TypeOK, NEW r \in Reqs, call[r] \in Call, call[r].op = "put",
           rows["globals"][call[r].id] # r, UNCHANGED <<call, rows>>,
           \/ posted' = Append(posted, Answer(r, "failed", {}))
           \/ posted' = posted \o <<[h |-> "assetWriteFailed", id |-> call[r].id],
                                    Answer(r, "failed", {})>>
    PROVE  AnswersMove
<1> DEFINE x == [h |-> "assetWriteFailed", id |-> call[r].id]
           y == Answer(r, "failed", {})
<1>1. x \in Handler /\ MayPost(x)
  BY Zenon DEF Handler, Call, MayPost
<1>2. y \in Handler
  BY Zenon, AnswerType DEF Results
<1>3. Store!Legal(r, "failed", {})'
  BY Zenon DEF Store!Legal
<1>4. MayPost(y)
  BY Zenon, <1>3 DEF MayPost, Answer
<1>5. posted \in Seq(Handler)
  BY Zenon DEF TypeOK
<1>6. CASE posted' = Append(posted, y)
  BY Zenon, <1>4, <1>6, PostOne
<1> HIDE DEF x, y
<1>7. CASE posted' = posted \o <<x, y>>
  <2>1. \A i \in DOMAIN posted' : \/ posted'[i] \in {x, y}
                                  \/ \E j \in DOMAIN posted : posted'[i] = posted[j]
    BY SMTT(60), <1>1, <1>2, <1>5, <1>7, PairElements
  <2>2. QED
    BY Zenon, <1>1, <1>4, <2>1 DEF AnswersMove
<1>8. QED
  BY Zenon, <1>6, <1>7 DEF x, y

\* Every step posts only legal answers.
LEMMA AnswersStep ==
    ASSUME PromiseInv, [Next]_vars
    PROVE  AnswersMove
<1>0. /\ TypeOK /\ CallsMade /\ WorkerKnows /\ OnePlace /\ RowsGenuine
      /\ "globals" \in Dbs
  BY Zenon DEF PromiseInv, DiskInv, Dbs
<1>1. ASSUME posted' = posted \/ posted' = <<>> \/ (posted # <<>> /\ posted' = Tail(posted))
      PROVE  AnswersMove
  <2>1. posted \in Seq(Handler)
    BY Zenon, <1>0 DEF TypeOK
  <2>2. QED
    BY <1>1, <2>1, TailElements DEF AnswersMove
<1>2. \A r \in Reqs : r \in Held \cup Queued \cup Writing \/ call[r] = None
         => \A id \in Ids : rows["globals"][id] # r
  <2>1. \A id \in Ids, a \in Reqs : rows["globals"][id] = a =>
           /\ call[a] = [op |-> "put", id |-> id, db |-> "globals"]
           /\ a \notin Held \cup Queued \cup Writing
    BY SMTT(30), <1>0, ConstantsAssumption DEF RowsGenuine
  <2>2. \A id \in Ids : [op |-> "put", id |-> id, db |-> "globals"] # None
    BY ConstantsAssumption DEF Call, CallOps, Dbs
  <2>3. QED
    BY Zenon, <2>1, <2>2
<1>3. ASSUME NEW op, TakeCall(op)
      PROVE  /\ Head(queue).r \in Reqs /\ call[Head(queue).r] \in Call
             /\ call[Head(queue).r].op = op /\ call[Head(queue).r].id \in Ids
             /\ \A id \in Ids : rows["globals"][id] # Head(queue).r
  <2>1. Head(queue).r \in Queued
    BY Zenon, <1>0, <1>3, QueueTakes DEF TakeCall
  <2>2. QED
    BY Zenon, <1>0, <1>2, <1>3, <2>1, TakenCall
<1>4. CASE Calls
  <2>1. ASSUME NEW r \in Reqs, NEW id \in Ids, GetAsset(r, id) PROVE AnswersMove
    <3>1. call'[r].op = "get"
      BY Zenon, <1>0, <2>1 DEF GetAsset, Begin, TypeOK
    <3>2. Store!Legal(r, "notfound", {})'
      BY Zenon, <3>1 DEF Store!Legal
    <3>3. posted' = posted \/ posted' = Append(posted, Answer(r, "notfound", {}))
      BY Zenon, <2>1 DEF GetAsset
    <3>4. QED
      BY Zenon, <1>0, <1>1, <3>2, <3>3, PostAnswer
  <2>2. ASSUME NEW r \in Reqs, NEW id \in Ids, NEW db \in Dbs, StoreAsset(r, id, db)
        PROVE  AnswersMove
    <3>1. /\ call'[r].op = "put" /\ call'[r].id = id /\ call[r] = None
          /\ rows' = rows
      BY Zenon, <1>0, <2>2 DEF StoreAsset, Begin, TypeOK
    <3>2. rows'["globals"][call'[r].id] # r
      BY Zenon, <1>2, <3>1
    <3>3. Store!Legal(r, "exists", {})'
      BY Zenon, <3>1, <3>2 DEF Store!Legal
    <3>4. posted' = posted \/ posted' = Append(posted, Answer(r, "exists", {}))
      BY Zenon, <2>2 DEF StoreAsset
    <3>5. QED
      BY Zenon, <1>0, <1>1, <3>3, <3>4, PostAnswer
  <2>3. QED
    BY Zenon, <1>1, <1>4, <2>1, <2>2 DEF Calls, QueueOnly, BeginPurgeLocals
<1>5. CASE AsioSteps \/ ThreadSteps("pull") \/ OnPurgeTimer
  BY Zenon, <1>1, <1>5
  DEF AsioSteps, ThreadSteps, StoreAddNewId, StoreEnqueue, RunCallback,
      AssetWriteFailed, UnindexLocals, ScheduleDelete, IoLoopFailed,
      RunHandler, OnPurgeTimer
<1>6. CASE PerformDiskRead
  <2> DEFINE r == Head(queue).r
             asset == Lookup(call[r].id)
  <2>1. TakeCall("get") /\ UNCHANGED <<call, rows>>
    BY Zenon, <1>6 DEF PerformDiskRead
  <2>2. call[r].op = "get" /\ call[r].id \in Ids
    BY Zenon, <1>3, <2>1
  <2>3. asset \in Reqs \cup {None}
    BY Zenon, <1>0, <2>2, LookupType DEF Assets
  <2>4. asset # None => Store!Genuine(call[r].id, asset)
    BY Zenon, <1>0, <2>2, LookupGenuine
  <2> HIDE DEF asset
  <2>5. asset # None => Store!Legal(r, "found", {asset})
    BY Zenon, <2>2, <2>3, <2>4 DEF Store!Legal
  <2>6. Store!Legal(r, "notfound", {}) /\ Store!Legal(r, "failed", {})
    BY Zenon, <2>2 DEF Store!Legal
  <2>7. \A res, got : Store!Legal(r, res, got) /\ posted' = Append(posted, Answer(r, res, got))
                         => AnswersMove
    <3> SUFFICES ASSUME NEW res, NEW got, Store!Legal(r, res, got),
                        posted' = Append(posted, Answer(r, res, got))
                 PROVE  AnswersMove
      BY Zenon
    <3>1. PICK q : q = r
      BY Zenon
    <3>2. Store!Legal(q, res, got)'
      BY Zenon, <2>1, <3>1 DEF Store!Legal, Store!Genuine
    <3>3. QED
      BY Zenon, <1>0, <3>1, <3>2, PostAnswer
  <2>8. \/ asset # None /\ posted' = Append(posted, Answer(r, "found", {asset}))
        \/ posted' = Append(posted, Answer(r, "notfound", {}))
        \/ posted' = Append(posted, Answer(r, "failed", {}))
    BY Zenon, <1>6 DEF PerformDiskRead, asset
  <2>9. QED
    BY Zenon, <2>5, <2>6, <2>7, <2>8
<1>7. CASE WriteRejected \/ WriteThrows
  <2>1. PICK r : r = Head(queue).r
    BY Zenon
  <2>2. /\ TakeCall("put") /\ UNCHANGED <<call, rows>>
        /\ \/ posted' = Append(posted, Answer(r, "failed", {}))
           \/ posted' = posted \o <<[h |-> "assetWriteFailed", id |-> call[r].id],
                                    Answer(r, "failed", {})>>
    BY Zenon, <1>7, <2>1 DEF WriteRejected, WriteThrows
  <2>3. /\ r \in Reqs /\ call[r] \in Call /\ call[r].op = "put"
        /\ rows["globals"][call[r].id] # r
    BY Zenon, <1>3, <2>1, <2>2
  <2>4. QED
    BY Zenon, <1>0, <2>2, <2>3, PostFailure
<1>8. CASE RecordThrows
  <2>1. PICK r : r = worker.r
    BY Zenon
  <2>2. /\ worker.at = "written" /\ UNCHANGED <<call, rows>>
        /\ posted' = posted \o <<[h |-> "assetWriteFailed", id |-> call[r].id],
                                 Answer(r, "failed", {})>>
    BY Zenon, <1>8, <2>1 DEF RecordThrows
  <2>3. r \in Reqs /\ call[r] \in Call /\ call[r].op = "put" /\ r \in Writing
    BY Zenon, <1>0, <2>1, <2>2
    DEF TypeOK, WorkerStep, CallsMade, WorkerKnows, Writing
  <2>4. rows["globals"][call[r].id] # r
    BY Zenon, <1>2, <2>3 DEF Call
  <2>5. QED
    BY Zenon, <1>0, <2>2, <2>3, <2>4, PostFailure
<1>9. CASE RecordAssetPosition
  <2>1. PICK r : r = worker.r
    BY Zenon
  <2>2. /\ worker.at = "written" /\ call' = call
        /\ rows' = [rows EXCEPT ![call[r].db][call[r].id] = r]
        /\ posted' = Append(posted, Answer(r, "ok", {}))
    BY Zenon, <1>9, <2>1 DEF RecordAssetPosition, DbFor
  <2>3. /\ r \in Reqs /\ call[r] \in Call /\ call[r].op = "put"
        /\ call[r].id \in Ids /\ call[r].db \in Dbs
    BY Zenon, <1>0, <2>1, <2>2 DEF TypeOK, WorkerStep, CallsMade, WorkerKnows, Call
  <2>4. rows'[call[r].db][call[r].id] = r
    BY Zenon, <1>0, <2>2, <2>3 DEF TypeOK
  <2>5. Store!Legal(r, "ok", {})'
    BY Zenon, <2>2, <2>3, <2>4 DEF Store!Legal
  <2>6. QED
    BY Zenon, <1>0, <2>2, <2>5, PostAnswer
<1>10. CASE PerformGetStatus
  <2>1. PICK r : r = Head(queue).r
    BY Zenon
  <2>2. TakeCall("status") /\ call' = call /\ posted' = Append(posted, Answer(r, "ok", {}))
    BY Zenon, <1>10, <2>1 DEF PerformGetStatus
  <2>3. Store!Legal(r, "ok", {})'
    BY Zenon, <1>3, <2>1, <2>2 DEF Store!Legal
  <2>4. QED
    BY Zenon, <1>0, <2>2, <2>3, PostAnswer
<1>11. CASE PerformGetStoredAssetIds
  <2>1. PICK r, got : r = Head(queue).r /\ got = GlobalsUnder(HeadOf[call[r].id])
    BY Zenon
  <2>2. /\ TakeCall("list") /\ UNCHANGED <<call, rows>>
        /\ \/ posted' = Append(posted, Answer(r, "ok", got))
           \/ posted' = Append(posted, [h |-> "ioLoopFailed"])
    BY Zenon, <1>11, <2>1 DEF PerformGetStoredAssetIds
  <2>3. \A a \in got : \E id \in Ids : rows["globals"][id] = a
    BY Zenon, <2>1 DEF GlobalsUnder
  <2>4. Store!Legal(r, "ok", got)'
    BY Zenon, <1>3, <2>1, <2>2, <2>3 DEF Store!Legal
  <2>5. MayPost([h |-> "ioLoopFailed"])
    BY Zenon DEF MayPost
  <2>6. QED
    BY Zenon, <1>0, <2>2, <2>4, <2>5, PostAnswer, PostOne
<1>12. CASE PerformDiskPurgeLocals \/ RemoveThrows
  <2>1. PICK x : x.h # "reply" /\ posted' = Append(posted, x)
    BY Zenon, <1>12 DEF PerformDiskPurgeLocals, RemoveThrows
  <2>2. MayPost(x)
    BY Zenon, <2>1 DEF MayPost
  <2>3. QED
    BY Zenon, <1>0, <2>1, <2>2, PostOne
<1>13. CASE \/ WriteNewAsset \/ PerformDiskPurge \/ RemoveLocalsIndex
            \/ RemoveLocalsData
  BY Zenon, <1>1, <1>13 DEF WriteNewAsset, PerformDiskPurge, RemoveLocalsIndex,
                     RemoveLocalsData
<1>14. CASE Shutdown \/ ShutdownCompletes \/ Crash \/ Restart \/ UNCHANGED vars
  BY Zenon, <1>1, <1>14 DEF Shutdown, ShutdownCompletes, Crash, ProcessEnds, Restart, vars
<1>15. QED
  BY Zenon, <1>4, <1>5, <1>6, <1>7, <1>8, <1>9, <1>10, <1>11, <1>12, <1>13, <1>14
  DEF Next, WorkerSteps

\* An element of posted that is a reply has a place, a call and a result.
LEMMA PostedReply ==
    ASSUME TypeOK, CallsMade, NEW j \in DOMAIN posted, posted[j].h = "reply"
    PROVE  /\ posted[j].r \in Answering /\ posted[j].r \in Reqs
           /\ call[posted[j].r] # None /\ call[posted[j].r] \in Call
           /\ posted[j].val \in Reply /\ posted[j].val.got \in SUBSET Reqs
<1>1. posted[j] \in Handler
  BY DEF TypeOK
<1>2. posted[j] \in Replies
  BY Zenon, <1>1 DEF Replies
<1>3. posted[j].r \in Answering
  BY Zenon, <1>2 DEF Answering, Names
<1>4. posted[j].r \in Reqs /\ posted[j].val \in Reply
  BY Zenon, <1>1 DEF Handler
<1>5. posted[j].val.got \in SUBSET Reqs
  BY Zenon, <1>4 DEF Reply, Assets
<1>6. QED
  BY Zenon, <1>3, <1>4, <1>5, PlacesAreCalls

\* A posted answer stays legal.
LEMMA PostedLegalStep ==
    ASSUME PromiseInv, [Next]_vars
    PROVE  PostedLegal'
<1>1. TypeOK /\ CallsMade /\ PostedLegal
  BY Zenon DEF PromiseInv, DiskInv
<1>2. Stays /\ AnswersMove
  BY Zenon, StaysStep, AnswersStep
<1>3. ASSUME NEW i \in DOMAIN posted', posted'[i].h = "reply",
             NEW r, NEW res, NEW got,
             r = posted'[i].r, res = posted'[i].val.res, got = posted'[i].val.got
      PROVE  Store!Legal(r, res, got)'
  <2>1. CASE MayPost(posted'[i])
    BY Zenon, <1>3, <2>1 DEF MayPost
  <2>2. ASSUME NEW j \in DOMAIN posted, posted'[i] = posted[j]
        PROVE  Store!Legal(r, res, got)'
    <3>1. Store!Legal(r, res, got)
      BY Zenon, <1>1, <1>3, <2>2 DEF PostedLegal
    <3>2. /\ r \in Answering /\ r \in Reqs /\ call[r] # None /\ call[r] \in Call
          /\ got \in SUBSET Reqs
      BY Zenon, <1>1, <1>3, <2>2, PostedReply
    <3>3. QED
      BY Zenon, <1>2, <3>1, <3>2, LegalStays
  <2>3. QED
    BY Zenon, <1>2, <2>1, <2>2 DEF AnswersMove
<1>4. QED
  BY Zenon, <1>3 DEF PostedLegal

\* What a GET was answered with stays genuine.
LEMMA ReadsGenuineStep ==
    ASSUME PromiseInv, [Next]_vars
    PROVE  ReadsGenuine'
<1>1. TypeOK /\ CallsMade /\ PostedLegal /\ ReadsGenuine
  BY Zenon DEF PromiseInv, DiskInv
<1>2. Stays /\ ReplyMoves
  BY Zenon, <1>1, StaysStep, ReplyStep
<1>3. ASSUME NEW r \in Reqs, call'[r] # None, call'[r].op = "get",
             NEW a \in reply'[r].got
      PROVE  call[r] # None /\ a \in Reqs /\ Store!Genuine(call[r].id, a)
  <2>1. CASE reply'[r] = reply[r]
    <3>1. reply[r] # NoReply
      BY <1>3, <2>1 DEF NoReply
    <3>2. call[r] # None /\ call'[r] = call[r]
      BY Zenon, <1>1, <1>2, <3>1 DEF CallsMade, Stays
    <3>3. reply[r] \in Reply
      BY Zenon, <1>1, <3>1 DEF TypeOK
    <3>4. a \in Reqs
      BY Zenon, <1>3, <2>1, <3>3 DEF Reply, Assets
    <3>5. QED
      BY Zenon, <1>1, <1>3, <2>1, <3>2, <3>4 DEF ReadsGenuine
  <2>2. ASSUME NEW i \in DOMAIN posted, posted[i].h = "reply", posted[i].r = r,
               posted[i].val = reply'[r]
        PROVE  call[r] # None /\ a \in Reqs /\ Store!Genuine(call[r].id, a)
    <3>1. /\ call[r] # None /\ call'[r] = call[r]
          /\ posted[i].val.got \in SUBSET Reqs
      BY Zenon, <1>1, <1>2, <2>2, PostedReply DEF Stays
    <3>2. Store!Legal(r, posted[i].val.res, posted[i].val.got)
      BY Zenon, <1>1, <2>2 DEF PostedLegal
    <3>3. a \in posted[i].val.got /\ call[r].op = "get"
      BY Zenon, <1>3, <2>2, <3>1
    <3>4. Store!Genuine(call[r].id, a)
      BY Zenon, <3>2, <3>3 DEF Store!Legal
    <3>5. QED
      BY Zenon, <3>1, <3>3, <3>4
  <2>3. ~(reply'[r] = [res |-> "lost", got |-> {}])
    BY <1>3, SMTT(20)
  <2>4. QED
    BY Zenon, <1>2, <2>1, <2>2, <2>3 DEF ReplyMoves
<1>4. ASSUME NEW r \in Reqs, call'[r] # None, call'[r].op = "get",
             NEW a \in reply'[r].got, NEW id, id = call'[r].id
      PROVE  Store!Genuine(id, a)'
  <2>1. call[r] # None /\ a \in Reqs /\ Store!Genuine(call[r].id, a)
    BY Zenon, <1>3, <1>4
  <2>2. call'[r] = call[r] /\ call[r] \in Call
    BY Zenon, <1>1, <1>2, <2>1 DEF Stays, TypeOK
  <2>3. id \in Ids /\ Store!Genuine(id, a)
    BY Zenon, <1>4, <2>1, <2>2 DEF Call
  <2>4. QED
    BY Zenon, <1>2, <2>1, <2>3, GenuineStays
<1>5. QED
  BY Zenon, <1>4 DEF ReadsGenuine

\* A backend that was never used satisfies the invariant.
LEMMA InitPromise == Init => PromiseInv
<1> SUFFICES ASSUME Init PROVE PromiseInv
  BY Zenon
<1>1. DiskInv
  BY Zenon, InitDisk
<1>2. /\ queue = <<>> /\ posted = <<>> /\ worker = Idle
      /\ doing = [t \in Threads |-> Free]
      /\ reply = [r \in Reqs |-> NoReply] /\ call = [r \in Reqs |-> None]
      /\ rows = [db \in Dbs |-> [id \in Ids |-> None]]
  BY Zenon DEF Init
<1>3. Held = {} /\ \A t \in Threads : ~Holds(t)
  BY Zenon, <1>2 DEF Held, Holds, Free
<1>4. Queued = {} /\ Once(queue, CallItems) /\ Answering = {} /\ Once(posted, Replies)
  BY <1>2 DEF Queued, Answering, Names, Once
<1>5. Writing = {}
  BY Zenon, <1>2 DEF Writing, Idle
<1>6. OnePlace
  BY Zenon, <1>3, <1>4, <1>5 DEF OnePlace
<1>7. RowsGenuine /\ PostedLegal /\ ReadsGenuine
  BY <1>2, SMTT(90) DEF RowsGenuine, PostedLegal, ReadsGenuine
<1>8. QED
  BY Zenon, <1>1, <1>6, <1>7 DEF PromiseInv

\* No step breaks the invariant.
LEMMA PromiseStep == PromiseInv /\ [Next]_vars => PromiseInv'
<1> SUFFICES ASSUME PromiseInv, [Next]_vars PROVE PromiseInv'
  BY Zenon
<1>1. DiskInv /\ TypeOK /\ CallsMade /\ OnePlace
  BY Zenon DEF PromiseInv, DiskInv
<1>2. DiskInv'
  BY Zenon, <1>1, DiskStep
<1>3. OnePlace'
  BY Zenon, <1>1, PlacesStep DEF PlaceMoves
<1>4. RowsGenuine' /\ PostedLegal' /\ ReadsGenuine'
  BY Zenon, RowsGenuineStep, PostedLegalStep, ReadsGenuineStep
<1>5. QED
  BY Zenon, <1>2, <1>3, <1>4 DEF PromiseInv

\* The inductive invariant holds in every reachable state.
THEOREM PromiseSafety == Spec => []PromiseInv
  BY InitPromise, PromiseStep, PTL DEF Spec

\* A global asset a GET was answered with is still what its id means.
THEOREM ReadsSafety == Spec => []GlobalReadsLast
<1>1. PromiseInv => GlobalReadsLast
  <2> SUFFICES ASSUME PromiseInv, NEW r \in Reqs, NEW asset \in reply[r].got,
                      call[r].op = "get", call[asset].db = "globals"
               PROVE  rows["globals"][call[r].id] = asset
    BY Zenon DEF GlobalReadsLast
  <2>1. CallsMade /\ ReadsGenuine
    BY Zenon DEF PromiseInv, DiskInv
  <2>2. call[r] # None
    BY SMTT(30), <2>1 DEF CallsMade, NoReply
  <2>3. Store!Genuine(call[r].id, asset)
    BY Zenon, <2>1, <2>2 DEF ReadsGenuine
  <2>4. QED
    BY Zenon, <2>3 DEF Store!Genuine
<1>2. QED
  BY <1>1, PromiseSafety, PTL

\* The first posted answer is for a call that has none.
LEMMA CallbackWaits ==
    ASSUME PromiseInv, RunCallback
    PROVE  /\ Head(posted) = posted[1] /\ 1 \in DOMAIN posted
           /\ posted[1].h = "reply" /\ posted[1].r \in Reqs
           /\ call[posted[1].r] # None /\ reply[posted[1].r] = NoReply
           /\ posted[1].val \in Reply
<1>1. TypeOK /\ CallsMade /\ OnePlace
  BY Zenon DEF PromiseInv, DiskInv
<1>2. Head(posted) = posted[1] /\ 1 \in DOMAIN posted /\ posted[1].h = "reply"
  BY <1>1 DEF RunCallback, RunHandler, TypeOK
<1>3. /\ posted[1].r \in Answering /\ posted[1].r \in Reqs
      /\ call[posted[1].r] # None /\ posted[1].val \in Reply
  BY Zenon, <1>1, <1>2, PostedReply
<1>4. QED
  BY Zenon, <1>1, <1>2, <1>3 DEF OnePlace

\* No step but a callback and the end of the process touches the answers, and
\* no step but the worker's INSERT touches the globals.
LEMMA OtherSteps ==
    ASSUME TypeOK, [Next]_vars, ~Calls, ~RunCallback, ~RecordAssetPosition,
           ~ShutdownCompletes, ~Crash
    PROVE  UNCHANGED <<call, reply, rows["globals"]>>
<1>1. CASE \/ ThreadSteps("asio") \/ ThreadSteps("pull") \/ OnPurgeTimer
           \/ AssetWriteFailed \/ UnindexLocals \/ ScheduleDelete \/ IoLoopFailed
  BY Zenon, <1>1
  DEF ThreadSteps, StoreAddNewId, StoreEnqueue, OnPurgeTimer, AssetWriteFailed,
      UnindexLocals, ScheduleDelete, IoLoopFailed, RunHandler
<1>2. CASE RemoveLocalsIndex
  BY Zenon, <1>2 DEF RemoveLocalsIndex, TypeOK, Dbs
<1>3. CASE \/ PerformDiskRead \/ WriteNewAsset \/ WriteRejected \/ WriteThrows
           \/ RecordThrows \/ PerformDiskPurge \/ PerformGetStatus
           \/ PerformGetStoredAssetIds \/ PerformDiskPurgeLocals
           \/ RemoveLocalsData \/ RemoveThrows
  BY Zenon, <1>3
  DEF PerformDiskRead, WriteNewAsset, WriteRejected, WriteThrows, RecordThrows,
      PerformDiskPurge, PerformGetStatus, PerformGetStoredAssetIds,
      PerformDiskPurgeLocals, RemoveLocalsData, RemoveThrows
<1>4. CASE Shutdown \/ Restart \/ UNCHANGED vars
  BY Zenon, <1>4 DEF Shutdown, Restart, vars
<1>5. QED
  BY Zenon, <1>1, <1>2, <1>3, <1>4 DEF Next, AsioSteps, WorkerSteps

\* A call asks the store, or starts a locals purge it does not see.
LEMMA CallsAsk ==
    ASSUME TypeOK, Calls
    PROVE  Store!Next \/ UNCHANGED <<call, reply, rows["globals"]>>
<1>1. ASSUME NEW r \in Reqs, NEW op \in CallOps, NEW id \in Ids, NEW db \in Dbs,
             Begin(r, op, id, db), UNCHANGED <<reply, rows>>
      PROVE  Store!Next
  <2>1. [op |-> op, id |-> id, db |-> db] \in Store!Call
    BY Zenon DEF Store!Call, Store!Ops, CallOps, Dbs
  <2>2. Store!Ask(r, [op |-> op, id |-> id, db |-> db]) /\ call[r] = None
    BY Zenon, <1>1 DEF Store!Ask, Begin
  <2>3. QED
    BY Zenon, <2>1, <2>2 DEF Store!Next
<1>2. CASE BeginPurgeLocals
  BY Zenon, <1>2 DEF BeginPurgeLocals
<1>3. ASSUME NEW r \in Reqs, NEW id \in Ids,
             \/ GetAsset(r, id)
             \/ \E db \in Dbs : StoreAsset(r, id, db)
             \/ \E op \in {"purge", "status", "list"} : QueueOnly(r, op, id)
      PROVE  Store!Next
  BY Zenon, <1>1, <1>3 DEF GetAsset, StoreAsset, QueueOnly, CallOps, Dbs
<1>4. QED
  BY Zenon, <1>2, <1>3 DEF Calls

\* The INSERT of a global row keeps the asset; of a local one the store sees
\* nothing.
LEMMA RecordKeeps ==
    ASSUME PromiseInv, RecordAssetPosition
    PROVE  Store!Next \/ UNCHANGED <<call, reply, rows["globals"]>>
<1>0. TypeOK /\ CallsMade /\ WorkerKnows /\ OnePlace
  BY Zenon DEF PromiseInv, DiskInv
<1>1. PICK r : r = worker.r
  BY Zenon
<1>2. /\ UNCHANGED <<call, reply>> /\ worker.at = "written"
      /\ rows' = [rows EXCEPT ![call[r].db][call[r].id] = r]
  BY Zenon, <1>1 DEF RecordAssetPosition, DbFor
<1>3. /\ r \in Reqs /\ call[r] # None /\ call[r] \in Call /\ call[r].op = "put"
      /\ rows[call[r].db][call[r].id] = None /\ r \in Writing
  BY Zenon, <1>0, <1>1, <1>2
  DEF TypeOK, WorkerStep, CallsMade, WorkerKnows, DbFor, Writing
<1>4. call[r].db \in Dbs /\ call[r].id \in Ids /\ reply[r] = NoReply
  BY Zenon, <1>0, <1>3 DEF Call, OnePlace
<1>5. CASE call[r].db = "globals"
  <2>1. rows'["globals"] = [rows["globals"] EXCEPT ![call[r].id] = r]
    BY Zenon, <1>0, <1>2, <1>4, <1>5 DEF TypeOK
  <2>2. Store!Keep(r)
    BY Zenon, <1>2, <1>3, <1>4, <1>5, <2>1
    DEF Store!Keep, Store!Waits, Store!NoReply, NoReply
  <2>3. QED
    BY Zenon, <1>3, <2>2 DEF Store!Next
<1>6. CASE call[r].db # "globals"
  BY <1>0, <1>2, <1>4, <1>6 DEF TypeOK
<1>7. QED
  BY Zenon, <1>5, <1>6

\* A callback is given an answer of the store.
LEMMA CallbackAnswers ==
    ASSUME PromiseInv, RunCallback
    PROVE  Store!Next
<1>1. PICK r, res, got : /\ r = posted[1].r /\ res = posted[1].val.res
                         /\ got = posted[1].val.got
  BY Zenon
<1>2. /\ Head(posted) = posted[1] /\ 1 \in DOMAIN posted
      /\ posted[1].h = "reply" /\ r \in Reqs /\ call[r] # None
      /\ reply[r] = NoReply /\ posted[1].val \in Reply
  BY Zenon, <1>1, CallbackWaits
<1>3. /\ posted[1].val = [res |-> res, got |-> got]
      /\ res \in Store!Results /\ got \in SUBSET Reqs
  BY Zenon, <1>1, <1>2 DEF Reply, Results, Assets, Store!Results
<1>4. Store!Legal(r, res, got)
  BY Zenon, <1>1, <1>2 DEF PromiseInv, PostedLegal
<1>5. /\ reply' = [reply EXCEPT ![r] = [res |-> res, got |-> got]]
      /\ UNCHANGED <<call, rows>>
  BY Zenon, <1>1, <1>2, <1>3 DEF RunCallback, RunHandler
<1>6. Store!Waits(r)
  BY Zenon, <1>2 DEF Store!Waits, Store!NoReply, NoReply
<1>7. Store!Answer(r, res, got)
  BY Zenon, <1>4, <1>5, <1>6 DEF Store!Answer
<1>8. QED
  BY Zenon, <1>2, <1>3, <1>6, <1>7 DEF Store!Next

\* Every step of the backend is a step of the store, or the store does not
\* see it.
LEMMA StoreStep ==
    ASSUME PromiseInv, [Next]_vars
    PROVE  [Store!Next]_(Store!vars)
<1>0. TypeOK
  BY Zenon DEF PromiseInv, DiskInv
<1>1. ASSUME ShutdownCompletes \/ Crash PROVE Store!Next
  <2>1. Store!Lose
    BY Zenon, <1>1 DEF ShutdownCompletes, Crash, ProcessEnds, Store!Lose, Store!Waits,
                Store!NoReply, NoReply
  <2>2. QED
    BY Zenon, <2>1 DEF Store!Next
<1>2. Store!Next \/ UNCHANGED <<call, reply, rows["globals"]>>
  <2>1. CASE Calls
    BY Zenon, <1>0, <2>1, CallsAsk
  <2>2. CASE RecordAssetPosition
    BY Zenon, <2>2, RecordKeeps
  <2>3. CASE RunCallback
    BY Zenon, <2>3, CallbackAnswers
  <2>4. CASE ~Calls /\ ~RecordAssetPosition /\ ~RunCallback /\ ~ShutdownCompletes /\ ~Crash
    BY Zenon, <1>0, <2>4, OtherSteps
  <2>5. QED
    BY Zenon, <1>1, <2>1, <2>2, <2>3, <2>4
<1>3. QED
  BY Zenon, <1>2 DEF Store!vars

\* The disk backend implements the store: whatever the threads, the disk and
\* the crashes do, a caller cannot tell it from AssetStore.
THEOREM Refinement == Spec => KeepsPromise
<1>1. Init => Store!Init
  BY Zenon DEF Init, Store!Init, Store!NoReply, NoReply, Dbs
<1>2. PromiseInv /\ [Next]_vars => [Store!Next]_(Store!vars)
  BY Zenon, StoreStep
<1>3. QED
  BY <1>1, <1>2, PromiseSafety, PTL DEF Spec, KeepsPromise, Store!Spec

\* No step changes an answer that was given.
LEMMA GivenStays ==
    ASSUME PromiseInv, [Next]_vars
    PROVE  \A r \in Reqs : reply[r] # NoReply => reply'[r] = reply[r]
<1>0. TypeOK
  BY Zenon DEF PromiseInv, DiskInv
<1>1. CASE RunCallback
  <2>1. reply' = [reply EXCEPT ![posted[1].r] = posted[1].val]
    BY Zenon, <1>1, CallbackWaits DEF RunCallback
  <2>2. reply[posted[1].r] = NoReply
    BY Zenon, <1>1, CallbackWaits
  <2>3. QED
    BY Zenon, <1>0, <2>1, <2>2 DEF TypeOK
<1>2. CASE ShutdownCompletes \/ Crash
  BY Zenon, <1>2 DEF ShutdownCompletes, Crash, ProcessEnds
<1>3. CASE Calls
  BY Zenon, <1>3 DEF Calls, GetAsset, StoreAsset, QueueOnly, BeginPurgeLocals
<1>4. CASE RecordAssetPosition
  BY Zenon, <1>4 DEF RecordAssetPosition
<1>5. QED
  BY Zenon, <1>0, <1>1, <1>2, <1>3, <1>4, OtherSteps

\* A callback runs at most once, and no answer is changed.
THEOREM OnceSafety == Spec => AnsweredOnce
<1> DEFINE Kept == \A r \in Reqs : reply[r] # NoReply => reply'[r] = reply[r]
<1>1. PromiseInv /\ [Next]_vars => [Kept]_vars
  BY Zenon, GivenStays
<1>2. QED
  BY <1>1, PromiseSafety, PTL DEF Spec, AnsweredOnce

(***************************************************************************)
(* What the existence index rests on: the kinds of steps, and BackendInv,  *)
(* which adds to PromiseInv what the storing threads, the purge and a      *)
(* process that is down have.                                              *)
(***************************************************************************)
\* A step that leaves the calls, the index, the rows and the queue alone.
Quiet ==
    /\ UNCHANGED <<call, reply, index, rows, queue, doing, purge>>
    /\ worker' = worker \/ (worker.at = "unlinked" /\ worker' = Idle)
    /\ \/ posted' = posted
       \/ posted # <<>> /\ Head(posted).h = "ioLoopFailed" /\ posted' = Tail(posted)
       \/ \E x \in Handler : x.h = "ioLoopFailed" /\ posted' = Append(posted, x)
    /\ life' = "down" => UNCHANGED vars
    /\ life = "down" => life' = "down"

\* The worker serves a request that is not a PUT, and changes no file.
Served ==
    /\ queue # <<>> /\ queue' = Tail(queue)
    /\ Head(queue).op = "call" => call[Head(queue).r].op # "put"
    /\ UNCHANGED <<call, reply, index, rows, worker, doing, purge, life>>
    /\ life = "up"
    /\ \/ posted' = posted
       \/ \E x \in Handler :
             /\ posted' = Append(posted, x) /\ x.h # "assetWriteFailed"
             /\ x.h = "unindexLocals" =>
                   /\ Head(queue).op # "call"
                   /\ \A id \in x.ids : id \in Ids /\ rows["locals"][id] # None

\* The steps that make a call.
Asks ==
    \E r \in Reqs, id \in Ids :
       \/ GetAsset(r, id)
       \/ \E db \in Dbs : StoreAsset(r, id, db)
       \/ \E op \in {"purge", "status", "list"} : QueueOnly(r, op, id)

\* The steps that are left.
Others ==
    \/ Asks
    \/ BeginPurgeLocals \/ OnPurgeTimer
    \/ \E t \in Threads : StoreAddNewId(t) \/ StoreEnqueue(t)
    \/ RunCallback \/ AssetWriteFailed \/ UnindexLocals \/ ScheduleDelete
    \/ WriteNewAsset \/ WriteRejected \/ WriteThrows
    \/ RecordAssetPosition \/ RecordThrows \/ RemoveLocalsIndex
    \/ ProcessEnds \/ Restart

\* A step is quiet, serves a request, or is one of the others.
LEMMA Sorted ==
    ASSUME TypeOK, CallsMade, [Next]_vars
    PROVE  Quiet \/ Served \/ Others
<1>0. /\ [h |-> "ioLoopFailed"] \in Handler /\ [h |-> "ioLoopFailed"].h = "ioLoopFailed"
  BY DEF Handler
<1>1. CASE Calls
  BY Zenon, <1>1 DEF Calls, Others, Asks
<1>2. CASE AsioSteps
  <2>1. CASE IoLoopFailed
    <3>1. /\ UNCHANGED <<call, reply, index, rows, queue, doing, purge, worker, life>>
          /\ posted # <<>> /\ Head(posted).h = "ioLoopFailed" /\ posted' = Tail(posted)
          /\ life = "up"
      BY <2>1 DEF IoLoopFailed, RunHandler, Runs
    <3>2. Quiet
      BY Zenon, <3>1 DEF Quiet
    <3>3. QED
      BY Zenon, <3>2
  <2>2. QED
    BY Zenon, <1>2, <2>1 DEF AsioSteps, ThreadSteps, Others, Threads
<1>3. CASE ThreadSteps("pull") \/ OnPurgeTimer \/ ShutdownCompletes \/ Crash \/ Restart
  BY Zenon, <1>3 DEF ThreadSteps, Others, Threads, ShutdownCompletes, Crash
<1>4. CASE Shutdown \/ UNCHANGED vars
  <2>1. /\ UNCHANGED <<call, reply, index, rows, queue, doing, purge, worker, posted>>
        /\ \/ life' # "down" /\ life # "down"
           \/ vars' = vars /\ life' = life
    BY <1>4 DEF Shutdown, Runs, vars
  <2>2. Quiet
    BY Zenon, <2>1 DEF Quiet
  <2>3. QED
    BY Zenon, <2>2
<1>5. CASE RemoveLocalsData
  <2>1. Quiet
    BY <1>5 DEF RemoveLocalsData, Quiet
  <2>2. QED
    BY Zenon, <2>1
<1>6. ASSUME NEW op, TakeCall(op), op # "put",
             UNCHANGED <<call, reply, index, rows, worker, doing, purge, life>>,
             \/ posted' = posted
             \/ \E x \in Handler : /\ posted' = Append(posted, x)
                                   /\ x.h \in {"reply", "ioLoopFailed"}
      PROVE  Served
  BY <1>6 DEF Served, TakeCall
<1>7. ASSUME NEW op, TakeCall(op), NEW res \in Results, NEW got \in SUBSET Assets,
             posted' = Append(posted, Answer(Head(queue).r, res, got))
      PROVE  \E x \in Handler : /\ posted' = Append(posted, x)
                                /\ x.h \in {"reply", "ioLoopFailed"}
  <2>1. Head(queue).r \in Reqs
    BY Zenon, <1>7, TakenCall
  <2>2. Answer(Head(queue).r, res, got) \in Handler
    BY Zenon, <2>1, AnswerType
  <2>3. Answer(Head(queue).r, res, got).h = "reply"
    BY DEF Answer
  <2>4. QED
    BY Zenon, <1>7, <2>2, <2>3
<1>8. {"found", "notfound", "failed", "ok"} \subseteq Results /\ {} \in SUBSET Assets
  BY DEF Results
<1>9. CASE PerformDiskRead
  <2>1. TakeCall("get")
    BY <1>9 DEF PerformDiskRead
  <2>2. Lookup(call[Head(queue).r].id) \in Assets \cup {None}
    BY Zenon, <2>1, TakenCall, LookupType
  <2>3. PICK res \in Results, got \in SUBSET Assets :
           posted' = Append(posted, Answer(Head(queue).r, res, got))
    BY <1>8, <1>9, <2>2 DEF PerformDiskRead
  <2>4. UNCHANGED <<call, reply, index, rows, worker, doing, purge, life>>
    BY <1>9 DEF PerformDiskRead
  <2>5. QED
    BY Zenon, <1>6, <1>7, <2>1, <2>3, <2>4
<1>10. CASE PerformDiskPurge
  <2>1. TakeCall("purge") /\ UNCHANGED <<call, reply, index, rows, worker, doing, purge, life, posted>>
    BY <1>10 DEF PerformDiskPurge
  <2>2. QED
    BY Zenon, <1>6, <2>1
<1>11. CASE PerformGetStatus
  <2>1. /\ TakeCall("status") /\ UNCHANGED <<call, reply, index, rows, worker, doing, purge, life>>
        /\ posted' = Append(posted, Answer(Head(queue).r, "ok", {}))
    BY <1>11 DEF PerformGetStatus
  <2>2. QED
    BY Zenon, <1>6, <1>7, <1>8, <2>1
<1>12. CASE PerformGetStoredAssetIds
  <2>1. /\ TakeCall("list") /\ UNCHANGED <<call, reply, index, rows, worker, doing, purge, life>>
    BY <1>12 DEF PerformGetStoredAssetIds
  <2>2. \A head : GlobalsUnder(head) \in SUBSET Assets
    BY DEF GlobalsUnder, Dbs, TypeOK
  <2>3. \/ \E got \in SUBSET Assets :
              posted' = Append(posted, Answer(Head(queue).r, "ok", got))
        \/ posted' = Append(posted, [h |-> "ioLoopFailed"])
    BY <1>12, <2>2 DEF PerformGetStoredAssetIds
  <2>4. QED
    BY Zenon, <1>0, <1>6, <1>7, <1>8, <2>1, <2>3
<1>13. CASE PerformDiskPurgeLocals
  <2>1. /\ queue # <<>> /\ queue' = Tail(queue) /\ Head(queue).op = "purgeLocals" /\ life = "up"
        /\ UNCHANGED <<call, reply, index, rows, worker, doing, purge, life>>
    BY <1>13 DEF PerformDiskPurgeLocals, TakeItem
  <2>2. Head(queue).head \in Heads
    BY <1>13, TakenItem DEF PerformDiskPurgeLocals
  <2>3. \E x \in Handler :
             /\ posted' = Append(posted, x) /\ x.h # "assetWriteFailed"
             /\ x.h = "unindexLocals" => \A id \in x.ids : id \in Ids /\ rows["locals"][id] # None
    BY SMTT(60), <1>13, <2>2 DEF PerformDiskPurgeLocals, Handler, LocalsUnder
  <2>4. QED
    BY <2>1, <2>3 DEF Served
<1>14. CASE RemoveThrows
  <2>1. /\ posted' = Append(posted, [h |-> "ioLoopFailed"]) /\ life # "down"
        /\ UNCHANGED <<call, reply, index, rows, doing, purge, life>>
    BY <1>14 DEF RemoveThrows
  <2>2. \/ /\ queue # <<>> /\ queue' = Tail(queue) /\ Head(queue).op = "deleteLocals"
           /\ life = "up" /\ worker' = worker
        \/ worker.at = "unlinked" /\ worker' = Idle /\ queue' = queue
    BY <1>14 DEF RemoveThrows, TakeItem
  <2>3. QED
    BY <1>0, <2>1, <2>2 DEF Served, Quiet
<1>15. QED
  BY Zenon, <1>1, <1>2, <1>3, <1>4, <1>5, <1>9, <1>10, <1>11, <1>12, <1>13, <1>14
  DEF Next, WorkerSteps, Others

\* A call that a storing thread has is a PUT.
HeldPuts == \A r \in Held : call[r].op = "put"

\* The steps of a locals purge are found only once a purge was started, and
\* it unindexes only ids of local assets.
PurgeBegun ==
    /\ \A i \in DOMAIN queue : queue[i].op # "call" => purge.rounds > 0
    /\ \A t \in Threads : doing[t].at = "scheduleDelete" => purge.rounds > 0
    /\ \A k \in DOMAIN posted : posted[k].h = "unindexLocals" =>
          purge.rounds > 0 /\ \A id \in posted[k].ids : Purged(id)
    /\ purge.active => purge.rounds > 0

\* Nothing is in memory while the process is down.
DownEmpty ==
    life = "down" => /\ queue = <<>> /\ posted = <<>> /\ worker = Idle
                     /\ \A t \in Threads : doing[t] = Free

\* What the two theorems about the existence index rest on.
BackendInv == PromiseInv /\ HeldPuts /\ PurgeBegun /\ DownEmpty

\* A purge that was started stays so.
LEMMA BegunStays ==
    ASSUME TypeOK, CallsMade, [Next]_vars, purge.rounds > 0
    PROVE  purge'.rounds > 0
<1>1. purge.rounds \in Nat
  BY DEF TypeOK
<1>2. CASE UNCHANGED purge
  BY <1>2
<1>3. CASE BeginPurgeLocals
  BY <1>1, <1>3 DEF BeginPurgeLocals
<1>4. CASE OnPurgeTimer
  BY <1>4 DEF OnPurgeTimer, NoPurge
<1>5. CASE ProcessEnds
  BY <1>5 DEF ProcessEnds, NoPurge
<1>6. CASE Quiet \/ Served \/ Asks
  BY Zenon, <1>2, <1>6 DEF Quiet, Served, Asks, GetAsset, StoreAsset, QueueOnly
<1>7. ASSUME NEW t \in Threads, StoreAddNewId(t) \/ StoreEnqueue(t) PROVE UNCHANGED purge
  BY Zenon, <1>7 DEF StoreAddNewId, StoreEnqueue
<1>8. CASE \/ RunCallback \/ AssetWriteFailed \/ UnindexLocals \/ ScheduleDelete
           \/ WriteNewAsset \/ WriteRejected \/ WriteThrows
           \/ RecordAssetPosition \/ RecordThrows \/ RemoveLocalsIndex \/ Restart
  BY Zenon, <1>2, <1>8
  DEF RunCallback, AssetWriteFailed, UnindexLocals, RunHandler, ScheduleDelete,
      WriteNewAsset, WriteRejected, WriteThrows, RecordAssetPosition,
      RecordThrows, RemoveLocalsIndex, Restart
<1>9. QED
  BY Zenon, <1>2, <1>3, <1>4, <1>5, <1>6, <1>7, <1>8, Sorted DEF Others

\* The id of an asset that a purge may have removed stays so.
LEMMA PurgedStays ==
    ASSUME TypeOK, CallsMade, [Next]_vars, NEW id, Purged(id)
    PROVE  Purged(id)'
<1>1. PICK r \in Reqs : PutOf(r, id) /\ call[r].db = "locals"
  BY Zenon DEF Purged
<1>2. call'[r] = call[r]
  BY Zenon, <1>1, CallsGrow DEF PutOf
<1>3. PutOf(r, id)' /\ call'[r].db = "locals"
  BY Zenon, <1>1, <1>2 DEF PutOf
<1>4. purge'.rounds > 0
  BY Zenon, BegunStays DEF Purged
<1>5. QED
  BY Zenon, <1>3, <1>4 DEF Purged

\* A local asset is one that a purge may remove.
LEMMA PurgedRow ==
    ASSUME TypeOK, RowsGenuine, purge.rounds > 0, NEW id \in Ids,
           rows["locals"][id] # None
    PROVE  Purged(id)
<1>1. "locals" \in Dbs
  BY Zenon DEF Dbs
<1>2. PICK a : a = rows["locals"][id]
  OBVIOUS
<1>3. a \in Reqs
  BY <1>1, <1>2 DEF TypeOK, Assets
<1>4. /\ call[a] # None /\ call[a].op = "put" /\ call[a].id = id /\ call[a].db = "locals"
  BY <1>1, <1>2, RowCall
<1>5. QED
  BY Zenon, <1>3, <1>4 DEF Purged, PutOf

\* What a step does to the queue.
QueueMove ==
    \/ queue' = queue \/ (queue' = <<>> /\ life' = "down")
    \/ queue # <<>> /\ queue' = Tail(queue)
    \/ \E x \in WorkItem : /\ queue' = Append(queue, x)
                           /\ x.op # "call" => purge.rounds > 0

\* Every step treats the queue that way.
LEMMA QueueMoved ==
    ASSUME TypeOK, CallsMade, PurgeBegun, [Next]_vars
    PROVE  QueueMove
<1>1. ASSUME NEW r \in Reqs, queue' = Append(queue, [op |-> "call", r |-> r]) PROVE QueueMove
  <2>1. [op |-> "call", r |-> r] \in WorkItem /\ [op |-> "call", r |-> r].op = "call"
    BY DEF WorkItem
  <2>2. QED
    BY Zenon, <1>1, <2>1 DEF QueueMove
<1>2. CASE \/ queue' = queue \/ (queue' = <<>> /\ life' = "down")
           \/ queue # <<>> /\ queue' = Tail(queue)
  BY Zenon, <1>2 DEF QueueMove
<1>3. CASE OnPurgeTimer
  <2>1. /\ queue' = Append(queue, [op |-> "purgeLocals", head |-> purge.next])
        /\ [op |-> "purgeLocals", head |-> purge.next] \in WorkItem
        /\ purge.rounds > 0
    BY <1>3 DEF OnPurgeTimer, PurgeBegun, WorkItem, TypeOK
  <2>2. QED
    BY Zenon, <2>1 DEF QueueMove
<1>4. CASE ScheduleDelete
  <2>1. /\ queue' = Append(queue, [op |-> "deleteLocals", head |-> doing["asio"].head])
        /\ [op |-> "deleteLocals", head |-> doing["asio"].head] \in WorkItem
        /\ purge.rounds > 0
    BY <1>4 DEF ScheduleDelete, PurgeBegun, WorkItem, TypeOK, ThreadStep, Threads
  <2>2. QED
    BY Zenon, <2>1 DEF QueueMove
<1>5. CASE Quiet \/ Served \/ Asks
  BY Zenon, <1>1, <1>2, <1>5 DEF Quiet, Served, Asks, GetAsset, StoreAsset, QueueOnly
<1>6. ASSUME NEW t \in Threads, StoreAddNewId(t) \/ StoreEnqueue(t) PROVE QueueMove
  <2>1. CASE StoreAddNewId(t)
    BY Zenon, <1>2, <2>1 DEF StoreAddNewId
  <2>2. CASE StoreEnqueue(t)
    <3>1. doing[t].r \in Reqs
      BY Zenon, <2>2 DEF StoreEnqueue, TypeOK, ThreadStep
    <3>2. QED
      BY Zenon, <1>1, <2>2, <3>1 DEF StoreEnqueue
  <2>3. QED
    BY Zenon, <1>6, <2>1, <2>2
<1>7. CASE \/ BeginPurgeLocals \/ RunCallback \/ AssetWriteFailed \/ UnindexLocals
           \/ RecordAssetPosition \/ RecordThrows \/ Restart \/ ProcessEnds
  BY <1>2, <1>7
  DEF BeginPurgeLocals, RunCallback, AssetWriteFailed, UnindexLocals, RunHandler,
      RecordAssetPosition, RecordThrows, Restart, ProcessEnds
<1>8. CASE WriteNewAsset \/ WriteRejected \/ WriteThrows \/ RemoveLocalsIndex
  BY Zenon, <1>2, <1>8
  DEF WriteNewAsset, WriteRejected, WriteThrows, RemoveLocalsIndex, TakeCall, TakeItem
<1>9. QED
  BY Zenon, <1>3, <1>4, <1>5, <1>6, <1>7, <1>8, Sorted DEF Others

\* What a step does to a thread.
DoingMove ==
    \A t \in Threads :
        \/ doing'[t] = doing[t]
        \/ doing'[t] = Free
        \/ Holds(t) /\ doing'[t].at = "enqueue" /\ doing'[t].r = doing[t].r
        \/ doing'[t].at = "addNewId" /\ call'[doing'[t].r].op = "put"
        \/ doing'[t].at = "scheduleDelete" /\ purge.rounds > 0

\* Every step treats the threads that way.
LEMMA DoingMoved ==
    ASSUME TypeOK, CallsMade, PurgeBegun, [Next]_vars
    PROVE  DoingMove
<1>1. CASE doing' = doing
  BY Zenon, <1>1 DEF DoingMove
<1>2. ASSUME NEW r \in Reqs, NEW id \in Ids, NEW db \in Dbs, StoreAsset(r, id, db)
      PROVE  DoingMove
  <2>1. CASE id \in index
    BY Zenon, <1>1, <1>2, <2>1 DEF StoreAsset
  <2>2. CASE id \notin index
    <3>1. /\ doing' = [doing EXCEPT ![ThreadOf(r)] = [at |-> "addNewId", r |-> r]]
          /\ call'[r].op = "put"
      BY Zenon, <1>2, <2>2 DEF StoreAsset, Begin, TypeOK
    <3>2. \A t \in Threads : \/ doing'[t] = doing[t]
                             \/ doing'[t].at = "addNewId" /\ doing'[t].r = r
      BY <3>1 DEF TypeOK
    <3>3. QED
      BY Zenon, <3>1, <3>2 DEF DoingMove
  <2>3. QED
    BY Zenon, <2>1, <2>2
<1>3. ASSUME NEW t \in Threads, StoreAddNewId(t) PROVE DoingMove
  <2>1. /\ doing' = [doing EXCEPT ![t] = [at |-> "enqueue", r |-> doing[t].r]]
        /\ Holds(t)
    BY <1>3 DEF StoreAddNewId, Holds
  <2>2. \A u \in Threads :
           \/ doing'[u] = doing[u]
           \/ Holds(u) /\ doing'[u].at = "enqueue" /\ doing'[u].r = doing[u].r
    BY <2>1 DEF TypeOK
  <2>3. QED
    BY Zenon, <2>2 DEF DoingMove
<1>4. ASSUME NEW t \in Threads, StoreEnqueue(t) PROVE DoingMove
  <2>1. \A u \in Threads : doing'[u] = doing[u] \/ doing'[u] = Free
    BY <1>4 DEF StoreEnqueue, TypeOK
  <2>2. QED
    BY Zenon, <2>1 DEF DoingMove
<1>5. CASE UnindexLocals
  <2>1. posted # <<>> /\ Head(posted).h = "unindexLocals"
    BY Zenon, <1>5 DEF UnindexLocals, RunHandler
  <2>2. 1 \in DOMAIN posted /\ Head(posted) = posted[1]
    BY <2>1 DEF TypeOK
  <2>3. purge.rounds > 0
    BY Zenon, <2>1, <2>2 DEF PurgeBegun
  <2>4. \A u \in Threads : doing'[u] = doing[u] \/ doing'[u].at = "scheduleDelete"
    BY <1>5 DEF UnindexLocals, TypeOK
  <2>5. QED
    BY Zenon, <2>3, <2>4 DEF DoingMove
<1>6. CASE ScheduleDelete \/ ProcessEnds
  <2>1. \A u \in Threads : doing'[u] = doing[u] \/ doing'[u] = Free
    BY <1>6 DEF ScheduleDelete, ProcessEnds, TypeOK
  <2>2. QED
    BY Zenon, <2>1 DEF DoingMove
<1>7. CASE Quiet \/ Served \/ Asks
  BY Zenon, <1>1, <1>2, <1>7 DEF Quiet, Served, Asks, GetAsset, QueueOnly
<1>8. CASE \/ BeginPurgeLocals \/ OnPurgeTimer \/ RunCallback \/ AssetWriteFailed
           \/ WriteNewAsset \/ WriteRejected \/ WriteThrows
           \/ RecordAssetPosition \/ RecordThrows \/ RemoveLocalsIndex \/ Restart
  BY Zenon, <1>1, <1>8
  DEF BeginPurgeLocals, OnPurgeTimer, RunCallback, AssetWriteFailed,
      WriteNewAsset, WriteRejected, WriteThrows, RecordAssetPosition,
      RecordThrows, RemoveLocalsIndex, Restart
<1>9. QED
  BY Zenon, <1>2, <1>3, <1>4, <1>5, <1>6, <1>7, <1>8, Sorted DEF Others

\* A handler that may be posted without harm to PurgeBegun.
Harmless(x) ==
    x.h = "unindexLocals" => purge.rounds > 0 /\ \A id \in x.ids : Purged(id)

\* What a step does to the posted handlers.
PostedMove ==
    \/ posted' = posted \/ (posted' = <<>> /\ life' = "down")
    \/ /\ posted # <<>> /\ posted' = Tail(posted)
       /\ RunCallback \/ Head(posted).h # "reply"
    \/ \E x \in Handler : posted' = Append(posted, x) /\ Harmless(x)
    \/ \E x, y \in Handler : /\ posted' = posted \o <<x, y>>
                             /\ x.h # "unindexLocals" /\ y.h # "unindexLocals"

\* Every step treats them that way.
LEMMA PostedMoved ==
    ASSUME TypeOK, CallsMade, RowsGenuine, WorkerKnows, PurgeBegun, [Next]_vars
    PROVE  PostedMove
<1>1. CASE \/ posted' = posted \/ (posted' = <<>> /\ life' = "down")
           \/ /\ posted # <<>> /\ posted' = Tail(posted)
              /\ RunCallback \/ Head(posted).h # "reply"
  BY Zenon, <1>1 DEF PostedMove
<1>2. ASSUME NEW r \in Reqs, NEW res \in Results, posted' = Append(posted, Answer(r, res, {}))
      PROVE  PostedMove
  <2>1. Answer(r, res, {}) \in Handler
    BY AnswerType
  <2>2. Answer(r, res, {}).h = "reply"
    BY DEF Answer
  <2>3. QED
    BY Zenon, <1>2, <2>1, <2>2 DEF PostedMove, Harmless
<1>3. ASSUME NEW r \in Reqs, call[r] \in Call,
             posted' = posted \o <<[h |-> "assetWriteFailed", id |-> call[r].id],
                                   Answer(r, "failed", {})>>
      PROVE  PostedMove
  <2>1. Answer(r, "failed", {}) \in Handler
    BY Zenon, AnswerType DEF Results
  <2>2. /\ Answer(r, "failed", {}).h = "reply"
        /\ [h |-> "assetWriteFailed", id |-> call[r].id].h = "assetWriteFailed"
        /\ [h |-> "assetWriteFailed", id |-> call[r].id] \in Handler
    BY <1>3 DEF Answer, Handler, Call
  <2>3. QED
    BY Zenon, <1>3, <2>1, <2>2 DEF PostedMove
<1>4. {"notfound", "exists", "failed", "ok"} \subseteq Results
  BY DEF Results
<1>5. CASE Quiet
  <2>1. ASSUME NEW x \in Handler, x.h = "ioLoopFailed", posted' = Append(posted, x)
        PROVE  PostedMove
    BY Zenon, <2>1 DEF PostedMove, Harmless
  <2>2. QED
    <3>1. Head(posted).h = "ioLoopFailed" => Head(posted).h # "reply"
      OBVIOUS
    <3>2. QED
      BY Zenon, <1>1, <1>5, <2>1, <3>1 DEF Quiet
<1>6. CASE Served
  <2>1. ASSUME NEW x \in Handler, posted' = Append(posted, x),
               x.h = "unindexLocals" =>
                   /\ Head(queue).op # "call"
                   /\ \A id \in x.ids : id \in Ids /\ rows["locals"][id] # None
        PROVE  PostedMove
    <3>1. 1 \in DOMAIN queue /\ Head(queue) = queue[1]
      BY <1>6 DEF Served, TypeOK
    <3>2. Head(queue).op # "call" => purge.rounds > 0
      BY Zenon, <3>1 DEF PurgeBegun
    <3>3. Harmless(x)
      BY Zenon, <2>1, <3>2, PurgedRow DEF Harmless
    <3>4. QED
      BY Zenon, <2>1, <3>3 DEF PostedMove
  <2>2. QED
    BY Zenon, <1>1, <1>6, <2>1 DEF Served
<1>7. CASE Asks
  <2>1. ASSUME NEW r \in Reqs, NEW id \in Ids, GetAsset(r, id) PROVE PostedMove
    BY Zenon, <1>1, <1>2, <1>4, <2>1 DEF GetAsset
  <2>2. ASSUME NEW r \in Reqs, NEW id \in Ids, NEW db \in Dbs, StoreAsset(r, id, db) PROVE PostedMove
    BY Zenon, <1>1, <1>2, <1>4, <2>2 DEF StoreAsset
  <2>3. QED
    BY Zenon, <1>1, <1>7, <2>1, <2>2 DEF Asks, QueueOnly
<1>8. ASSUME NEW t \in Threads, StoreAddNewId(t) \/ StoreEnqueue(t) PROVE PostedMove
  BY Zenon, <1>1, <1>8 DEF StoreAddNewId, StoreEnqueue
<1>9. CASE RunCallback \/ AssetWriteFailed \/ UnindexLocals
  <2>1. /\ posted # <<>> /\ posted' = Tail(posted)
        /\ RunCallback \/ Head(posted).h # "reply"
    BY <1>9 DEF RunCallback, AssetWriteFailed, UnindexLocals, RunHandler
  <2>2. QED
    BY Zenon, <1>1, <2>1
<1>13. CASE \/ ScheduleDelete \/ BeginPurgeLocals \/ OnPurgeTimer \/ WriteNewAsset
            \/ RemoveLocalsIndex \/ Restart \/ ProcessEnds
  BY Zenon, <1>1, <1>13
  DEF ScheduleDelete, BeginPurgeLocals, OnPurgeTimer, WriteNewAsset,
      RemoveLocalsIndex, Restart, ProcessEnds
<1>10. CASE WriteRejected \/ WriteThrows
  <2>1. PICK r : r = Head(queue).r
    BY Zenon
  <2>2. /\ TakeCall("put")
        /\ \/ posted' = Append(posted, Answer(r, "failed", {}))
           \/ posted' = posted \o <<[h |-> "assetWriteFailed", id |-> call[r].id],
                                    Answer(r, "failed", {})>>
    BY Zenon, <1>10, <2>1 DEF WriteRejected, WriteThrows
  <2>3. r \in Reqs /\ call[r] \in Call
    BY Zenon, <2>1, <2>2, TakenCall
  <2>4. QED
    BY Zenon, <1>2, <1>3, <1>4, <2>2, <2>3
<1>11. CASE RecordAssetPosition \/ RecordThrows
  <2>1. PICK r : r = worker.r
    OBVIOUS
  <2>2. /\ worker.at = "written"
        /\ \/ posted' = Append(posted, Answer(r, "ok", {}))
           \/ posted' = posted \o <<[h |-> "assetWriteFailed", id |-> call[r].id],
                                    Answer(r, "failed", {})>>
    BY Zenon, <1>11, <2>1 DEF RecordAssetPosition, RecordThrows
  <2>3. r \in Reqs /\ call[r] \in Call
    BY <2>1, <2>2 DEF TypeOK, WorkerStep, CallsMade
  <2>4. QED
    BY Zenon, <1>2, <1>3, <1>4, <2>2, <2>3
<1>12. QED
  BY Zenon, <1>5, <1>6, <1>7, <1>8, <1>9, <1>10, <1>11, <1>13, Sorted DEF Others

\* Every step keeps PurgeBegun.
LEMMA PurgeBegunStep ==
    ASSUME TypeOK, CallsMade, RowsGenuine, WorkerKnows, PurgeBegun, [Next]_vars
    PROVE  PurgeBegun'
<1>1. purge.rounds > 0 => purge'.rounds > 0
  BY Zenon, BegunStays
<1>2. \A id : Purged(id) => Purged(id)'
  BY Zenon, PurgedStays
<1>3. \A i \in DOMAIN queue' : queue'[i].op # "call" => purge'.rounds > 0
  <2>1. QueueMove /\ queue \in Seq(WorkItem)
    BY QueueMoved DEF TypeOK
  <2>2. ASSUME NEW i \in DOMAIN queue', queue'[i].op # "call",
               \E j \in DOMAIN queue : queue'[i] = queue[j]
        PROVE  purge.rounds > 0
    BY Zenon, <2>2 DEF PurgeBegun
  <2>3. ASSUME NEW i \in DOMAIN queue', queue'[i].op # "call", queue # <<>>, queue' = Tail(queue)
        PROVE  purge.rounds > 0
    BY <2>1, <2>2, <2>3, TailElements
  <2>4. ASSUME NEW i \in DOMAIN queue', queue'[i].op # "call", NEW x \in WorkItem,
               queue' = Append(queue, x), x.op # "call" => purge.rounds > 0
        PROVE  purge.rounds > 0
    BY <2>1, <2>2, <2>4, AppendElements
  <2>5. DOMAIN <<>> = {}
    OBVIOUS
  <2>6. QED
    BY Zenon, <1>1, <2>1, <2>2, <2>3, <2>4, <2>5 DEF QueueMove
<1>4. \A t \in Threads : doing'[t].at = "scheduleDelete" => purge'.rounds > 0
  <2>1. DoingMove /\ Free.at = "free"
    BY DoingMoved DEF Free
  <2>2. QED
    BY Zenon, <1>1, <2>1 DEF DoingMove, PurgeBegun
<1>5. \A k \in DOMAIN posted' : posted'[k].h = "unindexLocals" =>
          purge'.rounds > 0 /\ \A id \in posted'[k].ids : Purged(id)'
  <2>1. PostedMove /\ posted \in Seq(Handler)
    BY PostedMoved DEF TypeOK
  <2>2. ASSUME NEW k \in DOMAIN posted', \E j \in DOMAIN posted : posted'[k] = posted[j]
        PROVE  Harmless(posted'[k])
    BY Zenon, <2>2 DEF PurgeBegun, Harmless
  <2>3. ASSUME NEW k \in DOMAIN posted' PROVE Harmless(posted'[k])
    <3>1. CASE posted # <<>> /\ posted' = Tail(posted)
      BY <2>1, <2>2, <2>3, <3>1, TailElements
    <3>2. ASSUME NEW x \in Handler, posted' = Append(posted, x), Harmless(x)
          PROVE  Harmless(posted'[k])
      BY <2>1, <2>2, <2>3, <3>2, AppendElements
    <3>3. ASSUME NEW x \in Handler, NEW y \in Handler, posted' = posted \o <<x, y>>,
                 x.h # "unindexLocals", y.h # "unindexLocals"
          PROVE  Harmless(posted'[k])
      <4>1. posted'[k] \in {x, y} \/ \E j \in DOMAIN posted : posted'[k] = posted[j]
        BY <2>1, <2>3, <3>3, PairElements
      <4>2. QED
        BY Zenon, <2>2, <2>3, <3>3, <4>1 DEF Harmless
    <3>4. DOMAIN <<>> = {}
      OBVIOUS
    <3>5. QED
      BY Zenon, <2>1, <2>2, <2>3, <3>1, <3>2, <3>3, <3>4 DEF PostedMove
  <2>4. QED
    BY Zenon, <1>1, <1>2, <2>3 DEF Harmless
<1>6. purge'.active => purge'.rounds > 0
  <2>1. CASE BeginPurgeLocals
    BY SMTT(60), <2>1 DEF BeginPurgeLocals, TypeOK
  <2>2. CASE OnPurgeTimer
    BY <2>2 DEF OnPurgeTimer, PurgeBegun, NoPurge
  <2>3. CASE ProcessEnds
    BY <2>3 DEF ProcessEnds, NoPurge
  <2>4. CASE purge' = purge
    BY Zenon, <2>4 DEF PurgeBegun
  <2>5. CASE Quiet \/ Served \/ Asks
    BY Zenon, <2>4, <2>5 DEF Quiet, Served, Asks, GetAsset, StoreAsset, QueueOnly
  <2>6. ASSUME NEW t \in Threads, StoreAddNewId(t) \/ StoreEnqueue(t) PROVE UNCHANGED purge
    BY Zenon, <2>6 DEF StoreAddNewId, StoreEnqueue
  <2>7. CASE \/ RunCallback \/ AssetWriteFailed \/ UnindexLocals \/ ScheduleDelete
             \/ WriteNewAsset \/ WriteRejected \/ WriteThrows
             \/ RecordAssetPosition \/ RecordThrows \/ RemoveLocalsIndex \/ Restart
    BY Zenon, <2>4, <2>7
    DEF RunCallback, AssetWriteFailed, UnindexLocals, RunHandler, ScheduleDelete,
        WriteNewAsset, WriteRejected, WriteThrows, RecordAssetPosition,
        RecordThrows, RemoveLocalsIndex, Restart
  <2>8. QED
    BY Zenon, <2>1, <2>2, <2>3, <2>4, <2>5, <2>6, <2>7, Sorted DEF Others
<1>7. QED
  BY Zenon, <1>3, <1>4, <1>5, <1>6 DEF PurgeBegun

\* A step that leaves the process down is its end, or no step.
LEMMA GoesDown ==
    ASSUME TypeOK, CallsMade, [Next]_vars, life' = "down"
    PROVE  ProcessEnds \/ UNCHANGED vars
<1>1. CASE Quiet \/ Served
  BY Zenon, <1>1 DEF Quiet, Served
<1>2. CASE Asks
  BY Zenon, <1>2 DEF Asks, GetAsset, StoreAsset, QueueOnly, Begin, Runs
<1>3. ASSUME NEW t \in Threads, StoreAddNewId(t) \/ StoreEnqueue(t) PROVE FALSE
  BY Zenon, <1>3 DEF StoreAddNewId, StoreEnqueue
<1>4. CASE \/ BeginPurgeLocals \/ OnPurgeTimer \/ RunCallback \/ AssetWriteFailed
           \/ UnindexLocals \/ ScheduleDelete \/ Restart
  BY <1>4
  DEF BeginPurgeLocals, OnPurgeTimer, RunCallback, AssetWriteFailed, UnindexLocals,
      RunHandler, Runs, ScheduleDelete, Restart
<1>5. CASE \/ WriteNewAsset \/ WriteRejected \/ WriteThrows
           \/ RecordAssetPosition \/ RecordThrows \/ RemoveLocalsIndex
  BY Zenon, <1>5
  DEF WriteNewAsset, WriteRejected, WriteThrows, RecordAssetPosition,
      RecordThrows, RemoveLocalsIndex, TakeCall, TakeItem
<1>6. QED
  BY Zenon, <1>1, <1>2, <1>3, <1>4, <1>5, Sorted DEF Others

\* BackendInv holds at first and every step keeps it.
LEMMA InitBackend == Init => BackendInv
<1> SUFFICES ASSUME Init PROVE BackendInv
  OBVIOUS
<1>1. PromiseInv
  BY InitPromise
<1>2. \A t \in Threads : doing[t].at = "free"
  BY DEF Init, Free
<1>3. HeldPuts
  BY <1>2 DEF HeldPuts, Held, Holds
<1>4. PurgeBegun
  <2>1. ~purge.active
    BY DEF Init, NoPurge
  <2>2. DOMAIN queue = {} /\ DOMAIN posted = {} /\ "free" # "scheduleDelete"
    BY DEF Init
  <2>3. QED
    BY Zenon, <1>2, <2>1, <2>2 DEF PurgeBegun
<1>5. DownEmpty
  BY DEF Init, DownEmpty
<1>6. QED
  BY Zenon, <1>1, <1>3, <1>4, <1>5 DEF BackendInv

\* BackendInv is inductive.
LEMMA BackendStep == BackendInv /\ [Next]_vars => BackendInv'
<1> SUFFICES ASSUME BackendInv, [Next]_vars PROVE BackendInv'
  OBVIOUS
<1>1. /\ TypeOK /\ CallsMade /\ WorkerKnows /\ RowsGenuine /\ PromiseInv
      /\ HeldPuts /\ PurgeBegun /\ DownEmpty
  BY Zenon DEF BackendInv, PromiseInv, DiskInv
<1>2. PromiseInv' /\ PurgeBegun'
  BY Zenon, <1>1, PromiseStep, PurgeBegunStep
<1>3. HeldPuts'
  <2>1. DoingMove /\ Free.at = "free"
    BY <1>1, DoingMoved DEF Free
  <2>2. \A r \in Held : call[r].op = "put" /\ call'[r] = call[r]
    BY Zenon, <1>1, PlacesAreCalls, CallsGrow DEF HeldPuts
  <2>3. ASSUME NEW t \in Threads, Holds(t)' PROVE call'[doing'[t].r].op = "put"
    <3>1. CASE Holds(t) /\ doing'[t].r = doing[t].r
      BY Zenon, <2>2, <3>1 DEF Held
    <3>2. doing'[t].at \in {"addNewId", "enqueue"}
      BY Zenon, <2>3 DEF Holds
    <3>3. doing'[t] # Free /\ doing'[t].at # "scheduleDelete"
      BY Zenon, <2>1, <3>2
    <3>4. CASE doing'[t] = doing[t]
      BY Zenon, <3>1, <3>2, <3>4 DEF Holds
    <3>5. QED
      BY Zenon, <2>1, <3>1, <3>3, <3>4 DEF DoingMove
  <2>4. QED
    BY Zenon, <2>3 DEF HeldPuts, Held
<1>4. DownEmpty'
  <2>1. CASE ProcessEnds
    BY <2>1 DEF ProcessEnds, DownEmpty
  <2>2. CASE UNCHANGED vars
    BY <1>1, <2>2 DEF vars, DownEmpty
  <2>3. QED
    BY Zenon, <1>1, <2>1, <2>2, GoesDown DEF DownEmpty
<1>5. QED
  BY Zenon, <1>2, <1>3, <1>4 DEF BackendInv
=============================================================================
