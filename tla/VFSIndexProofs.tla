--------------------------- MODULE VFSIndexProofs ---------------------------
(***************************************************************************)
(* Proofs about the existence index of the disk storage backend, for every *)
(* value of the constants but without the pull thread.  One thread stores, *)
(* and what the index says of an id is backed by the disk or by a PUT that *)
(* is on its way to it.  Two invariants are inductive: GetsBacked with     *)
(* IndexBacked, which also hold when any disk operation fails, and         *)
(* IndexExact, which needs data files that can be written.                 *)
(***************************************************************************)
EXTENDS VFSBackendProofs

\* A PUT of the id failed: it was answered so, or the answer is posted.
FailedPut(id) ==
    \E r \in Reqs :
        /\ PutOf(r, id)
        /\ \/ reply[r].res = "failed"
           \/ \E k \in DOMAIN posted : posted[k] = Answer(r, "failed", {})

\* The disk knows the id: it is stored, or was, or is being written, or its
\* PUT failed.
Done(id) ==
    \/ Stored(id) \/ Purged(id)
    \/ worker.at = "written" /\ PutOf(worker.r, id)
    \/ FailedPut(id)

\* A PUT of the id is in the queue before the given position.
Ahead(id, i) ==
    \E j \in 1 .. (i - 1) : queue[j].op = "call" /\ PutOf(queue[j].r, id)

\* A thread has indexed the id and is about to queue its PUT.
Storing(id) ==
    \E t \in Threads : doing[t].at = "enqueue" /\ PutOf(doing[t].r, id)

\* What the existence index says is backed by the disk, by the queue or by
\* the thread that is storing.
IndexBacked ==
    \A id \in index : Done(id) \/ Ahead(id, Len(queue) + 1) \/ Storing(id)

\* A PUT stays the PUT it is.
LEMMA PutStays ==
    ASSUME TypeOK, [Next]_vars, NEW r \in Reqs, NEW id, PutOf(r, id)
    PROVE  PutOf(r, id)'
<1>1. call'[r] = call[r]
  BY Zenon, CallsGrow DEF PutOf
<1>2. QED
  BY Zenon, <1>1 DEF PutOf

\* The index rows change only when the worker inserts one or a purge removes
\* the index file.
LEMMA RowsOf ==
    ASSUME TypeOK, CallsMade, [Next]_vars
    PROVE  RecordAssetPosition \/ RemoveLocalsIndex \/ rows' = rows
<1>1. CASE Quiet \/ Served \/ Asks
  BY Zenon, <1>1 DEF Quiet, Served, Asks, GetAsset, StoreAsset, QueueOnly
<1>2. ASSUME NEW t \in Threads, StoreAddNewId(t) \/ StoreEnqueue(t) PROVE rows' = rows
  BY Zenon, <1>2 DEF StoreAddNewId, StoreEnqueue
<1>3. CASE \/ BeginPurgeLocals \/ OnPurgeTimer \/ RunCallback \/ AssetWriteFailed
           \/ UnindexLocals \/ ScheduleDelete \/ WriteNewAsset \/ WriteRejected
           \/ WriteThrows \/ RecordThrows \/ ProcessEnds \/ Restart
  BY Zenon, <1>3
  DEF BeginPurgeLocals, OnPurgeTimer, RunCallback, AssetWriteFailed, UnindexLocals,
      RunHandler, ScheduleDelete, WriteNewAsset, WriteRejected, WriteThrows,
      RecordThrows, ProcessEnds, Restart
<1>4. QED
  BY Zenon, <1>1, <1>2, <1>3, Sorted DEF Others

\* The row that the worker inserts.
LEMMA RowInserted ==
    ASSUME TypeOK, CallsMade, WorkerKnows, RecordAssetPosition
    PROVE  /\ worker.r \in Reqs /\ call[worker.r] \in Call
           /\ call[worker.r] # None /\ call[worker.r].op = "put"
           /\ \A db \in Dbs, id \in Ids :
                 rows'[db][id] = IF db = call[worker.r].db /\ id = call[worker.r].id
                                 THEN worker.r ELSE rows[db][id]
<1>1. PICK r : r = worker.r
  OBVIOUS
<1>2. r \in Reqs /\ call[r] \in Call /\ call[r] # None /\ call[r].op = "put"
  BY <1>1 DEF RecordAssetPosition, TypeOK, WorkerStep, CallsMade, WorkerKnows
<1>3. rows' = [rows EXCEPT ![call[r].db][call[r].id] = r]
  BY <1>1 DEF RecordAssetPosition, DbFor
<1>4. call[r].db \in Dbs /\ call[r].id \in Ids
  BY <1>2 DEF Call
<1>5. \A db \in Dbs, id \in Ids :
         rows'[db][id] = IF db = call[r].db /\ id = call[r].id THEN r ELSE rows[db][id]
  BY <1>3, <1>4 DEF TypeOK
<1>6. QED
  BY ZenonT(60), <1>1, <1>2, <1>5

\* A purge removes the rows of local assets only.
LEMMA RowsRemoved ==
    ASSUME TypeOK, PurgeBegun, RowsGenuine, RemoveLocalsIndex
    PROVE  \A db \in Dbs, id \in Ids :
              rows'[db][id] = rows[db][id] \/ (rows'[db][id] = None /\ Purged(id))
<1>1. /\ queue # <<>> /\ Head(queue).op = "deleteLocals"
      /\ rows' = [rows EXCEPT !["locals"] =
                    [id \in Ids |-> IF HeadOf[id] = Head(queue).head THEN None
                                    ELSE rows["locals"][id]]]
  BY DEF RemoveLocalsIndex, TakeItem
<1>2. 1 \in DOMAIN queue /\ Head(queue) = queue[1]
  BY <1>1 DEF TypeOK
<1>3. purge.rounds > 0
  BY <1>1, <1>2 DEF PurgeBegun
<1>4. \A db \in Dbs, id \in Ids :
         rows'[db][id] = rows[db][id] \/ (rows'[db][id] = None /\ db = "locals")
  BY <1>1 DEF TypeOK, Dbs
<1>5. \A id \in Ids : rows["locals"][id] # None => Purged(id)
  BY Zenon, <1>3, PurgedRow
<1>6. QED
  BY Zenon, <1>4, <1>5

\* A stored asset stays, unless it went with a purge.
LEMMA StoredStays ==
    ASSUME BackendInv, [Next]_vars, NEW id \in Ids, Stored(id)
    PROVE  Stored(id)' \/ Purged(id)'
<1>1. /\ TypeOK /\ CallsMade /\ WorkerKnows /\ RowsGenuine /\ PurgeBegun
  BY Zenon DEF BackendInv, PromiseInv, DiskInv
<1>2. PICK db \in Dbs : rows[db][id] # None
  BY Zenon DEF Stored
<1>3. CASE RecordAssetPosition
  <2>1. worker.r # None
    BY <1>1, <1>3, RowInserted, ConstantsAssumption
  <2>2. rows'[db][id] # None
    BY <1>1, <1>2, <1>3, <2>1, RowInserted
  <2>3. QED
    BY Zenon, <2>2 DEF Stored
<1>4. CASE RemoveLocalsIndex
  <2>1. rows'[db][id] = rows[db][id] \/ Purged(id)
    BY Zenon, <1>1, <1>4, RowsRemoved
  <2>2. QED
    BY Zenon, <1>1, <1>2, <2>1, PurgedStays DEF Stored
<1>5. CASE rows' = rows
  BY Zenon, <1>2, <1>5 DEF Stored
<1>6. QED
  BY Zenon, <1>1, <1>3, <1>4, <1>5, RowsOf

\* What a step appends to a sequence leaves what was in it.
LEMMA AppendKeeps ==
    ASSUME NEW S, NEW s \in Seq(S), NEW x
    PROVE  /\ Len(s) \in Nat /\ DOMAIN s = 1 .. Len(s)
           /\ DOMAIN Append(s, x) = 1 .. (Len(s) + 1) /\ Len(Append(s, x)) = Len(s) + 1
           /\ Len(s) + 1 \in DOMAIN Append(s, x) /\ Append(s, x)[Len(s) + 1] = x
           /\ \A j \in DOMAIN s : j \in DOMAIN Append(s, x) /\ Append(s, x)[j] = s[j]
  OBVIOUS

\* The same of two elements.
LEMMA PairKeeps ==
    ASSUME NEW S, NEW s \in Seq(S), NEW x \in S, NEW y \in S
    PROVE  /\ \A j \in DOMAIN s : j \in DOMAIN (s \o <<x, y>>) /\ (s \o <<x, y>>)[j] = s[j]
           /\ \E j \in DOMAIN (s \o <<x, y>>) : (s \o <<x, y>>)[j] = y
<1>1. <<x, y>> \in Seq(S) /\ Len(<<x, y>>) = 2 /\ <<x, y>>[2] = y
  OBVIOUS
<1>2. PICK t \in Seq(S) : t = <<x, y>>
  BY Zenon, <1>1
<1>3. Len(t) = 2 /\ t[2] = y
  BY Zenon, <1>1, <1>2
<1>4. /\ Len(s) \in Nat /\ DOMAIN s = 1 .. Len(s) /\ Len(s \o t) = Len(s) + Len(t)
      /\ DOMAIN (s \o t) = 1 .. (Len(s) + Len(t))
  OBVIOUS
<1>5. \A j \in 1 .. Len(s) : (s \o t)[j] = s[j]
  OBVIOUS
<1>6. \A j \in 1 .. Len(t) : (s \o t)[j + Len(s)] = t[j]
  OBVIOUS
<1>7. Len(s) + 2 \in DOMAIN (s \o t) /\ (s \o t)[Len(s) + 2] = t[2]
  BY <1>3, <1>4, <1>6
<1>8. \A j \in DOMAIN s : j \in DOMAIN (s \o t)
  BY <1>3, <1>4
<1>9. QED
  BY Zenon, <1>2, <1>3, <1>4, <1>5, <1>7, <1>8

\* What is behind the first element moves up.
LEMMA TailKeeps ==
    ASSUME NEW S, NEW s \in Seq(S), s # <<>>
    PROVE  /\ Len(s) \in Nat /\ DOMAIN s = 1 .. Len(s) /\ Head(s) = s[1] /\ 1 \in DOMAIN s
           /\ DOMAIN Tail(s) = 1 .. (Len(s) - 1) /\ Len(Tail(s)) = Len(s) - 1
           /\ \A j \in DOMAIN s : j # 1 => j - 1 \in DOMAIN Tail(s) /\ Tail(s)[j - 1] = s[j]
           /\ \A j \in DOMAIN Tail(s) : j + 1 \in DOMAIN s /\ Tail(s)[j] = s[j + 1]
  OBVIOUS

\* The handlers stay posted until they are run.
LEMMA PostedTaken ==
    ASSUME TypeOK, CallsMade, RowsGenuine, WorkerKnows, PurgeBegun, [Next]_vars,
           life' # "down"
    PROVE  \/ \A k \in DOMAIN posted : \E j \in DOMAIN posted' : posted'[j] = posted[k]
           \/ /\ posted # <<>> /\ posted' = Tail(posted)
              /\ RunCallback \/ Head(posted).h # "reply"
<1>0. posted \in Seq(Handler)
  BY DEF TypeOK
<1>1. CASE posted' = posted
  BY Zenon, <1>1
<1>2. ASSUME NEW x, posted' = Append(posted, x)
      PROVE  \A k \in DOMAIN posted : \E j \in DOMAIN posted' : posted'[j] = posted[k]
  <2>1. \A j \in DOMAIN posted : /\ j \in DOMAIN Append(posted, x)
                                 /\ Append(posted, x)[j] = posted[j]
    BY <1>0
  <2>2. QED
    BY Zenon, <1>2, <2>1
<1>3. ASSUME NEW x \in Handler, NEW y \in Handler, posted' = posted \o <<x, y>>
      PROVE  \A k \in DOMAIN posted : \E j \in DOMAIN posted' : posted'[j] = posted[k]
  <2>1. \A j \in DOMAIN posted : /\ j \in DOMAIN (posted \o <<x, y>>)
                                 /\ (posted \o <<x, y>>)[j] = posted[j]
    BY <1>0, PairKeeps
  <2>2. QED
    BY Zenon, <1>3, <2>1
<1>4. QED
  BY Zenon, <1>1, <1>2, <1>3, PostedMoved DEF PostedMove

\* The answer that a callback was given stays.
LEMMA ReplyStays ==
    ASSUME BackendInv, [Next]_vars, NEW r \in Reqs, reply[r].res = "failed"
    PROVE  reply'[r].res = "failed"
<1>1. reply[r] # NoReply
  BY DEF NoReply
<1>2. reply'[r] = reply[r]
  BY <1>1, GivenStays DEF BackendInv
<1>3. QED
  BY Zenon, <1>2

\* A failed PUT stays one.
LEMMA FailedStays ==
    ASSUME BackendInv, [Next]_vars, life' # "down", NEW id, FailedPut(id)
    PROVE  FailedPut(id)'
<1>1. /\ TypeOK /\ CallsMade /\ WorkerKnows /\ RowsGenuine /\ PurgeBegun
  BY Zenon DEF BackendInv, PromiseInv, DiskInv
<1>2. PICK r \in Reqs :
         /\ PutOf(r, id)
         /\ \/ reply[r].res = "failed"
            \/ \E k \in DOMAIN posted : posted[k] = Answer(r, "failed", {})
  BY Zenon DEF FailedPut
<1>3. PutOf(r, id)'
  BY Zenon, <1>1, <1>2, PutStays
<1>4. CASE reply[r].res = "failed"
  BY Zenon, <1>3, <1>4, ReplyStays DEF FailedPut
<1>5. ASSUME NEW k \in DOMAIN posted, posted[k] = Answer(r, "failed", {})
      PROVE  FailedPut(id)'
  <2>1. PICK a : a = Answer(r, "failed", {})
    OBVIOUS
  <2>2. a.h = "reply" /\ a.r = r /\ a.val.res = "failed"
    BY <2>1 DEF Answer
  <2>3. CASE \E j \in DOMAIN posted' : posted'[j] = a
    BY Zenon, <1>3, <2>1, <2>3 DEF FailedPut, Answer
  <2>4. ASSUME posted # <<>>, posted' = Tail(posted),
               RunCallback \/ Head(posted).h # "reply"
        PROVE  FailedPut(id)'
    <3>0. posted \in Seq(Handler)
      BY <1>1 DEF TypeOK
    <3>1. Head(posted) = posted[1] /\ (k # 1 => k - 1 \in DOMAIN posted' /\ posted'[k - 1] = posted[k])
      BY <2>4, <3>0
    <3>2. CASE k # 1
      BY Zenon, <1>5, <2>1, <2>3, <3>1, <3>2
    <3>3. CASE k = 1
      <4>1. Head(posted) = a
        BY Zenon, <1>5, <2>1, <3>1, <3>3
      <4>2. RunCallback
        BY Zenon, <2>2, <2>4, <4>1
      <4>3. reply' = [reply EXCEPT ![r] = a.val]
        BY Zenon, <2>2, <4>1, <4>2 DEF RunCallback
      <4>4. reply'[r].res = "failed"
        BY <1>1, <2>2, <4>3 DEF TypeOK
      <4>5. QED
        BY Zenon, <1>3, <4>4 DEF FailedPut
    <3>4. QED
      BY Zenon, <3>2, <3>3
  <2>5. QED
    BY Zenon, <1>1, <1>5, <2>1, <2>3, <2>4, PostedTaken
<1>6. QED
  BY Zenon, <1>2, <1>4, <1>5

\* The answer of a failed PUT is posted.
LEMMA FailurePosted ==
    ASSUME TypeOK, [Next]_vars, NEW r \in Reqs, NEW id \in Ids, PutOf(r, id),
           \/ posted' = Append(posted, Answer(r, "failed", {}))
           \/ posted' = posted \o <<[h |-> "assetWriteFailed", id |-> id],
                                    Answer(r, "failed", {})>>
    PROVE  FailedPut(id)'
<1>0. posted \in Seq(Handler)
  BY DEF TypeOK
<1>1. PICK a, w : a = Answer(r, "failed", {}) /\ w = [h |-> "assetWriteFailed", id |-> id]
  OBVIOUS
<1>2. a \in Handler
  BY <1>1, AnswerType DEF Results
<1>3. w \in Handler
  BY <1>1 DEF Handler
<1>4. posted' = Append(posted, a) \/ posted' = posted \o <<w, a>>
  BY Zenon, <1>1
<1>5. \E j \in DOMAIN posted' : posted'[j] = a
  <2>1. CASE posted' = Append(posted, a)
    <3>1. Len(posted) + 1 \in DOMAIN posted' /\ posted'[Len(posted) + 1] = a
      BY <1>0, <2>1
    <3>2. QED
      BY Zenon, <3>1
  <2>2. CASE posted' = posted \o <<w, a>>
    <3>1. \E j \in DOMAIN (posted \o <<w, a>>) : (posted \o <<w, a>>)[j] = a
      BY <1>0, <1>2, <1>3, PairKeeps
    <3>2. QED
      BY Zenon, <2>2, <3>1
  <2>3. QED
    BY Zenon, <1>4, <2>1, <2>2
<1>6. QED
  BY Zenon, <1>1, <1>5, PutStays DEF FailedPut, Answer

\* The worker is in the middle of a PUT until it records it or fails to.
LEMMA WorkerOf ==
    ASSUME TypeOK, CallsMade, [Next]_vars, life' # "down", worker.at = "written"
    PROVE  RecordAssetPosition \/ RecordThrows \/ worker' = worker
<1>1. CASE Quiet \/ Served
  BY <1>1 DEF Quiet, Served
<1>2. CASE Asks
  BY Zenon, <1>2 DEF Asks, GetAsset, StoreAsset, QueueOnly
<1>3. ASSUME NEW t \in Threads, StoreAddNewId(t) \/ StoreEnqueue(t) PROVE worker' = worker
  BY Zenon, <1>3 DEF StoreAddNewId, StoreEnqueue
<1>4. CASE \/ BeginPurgeLocals \/ OnPurgeTimer \/ RunCallback \/ AssetWriteFailed
           \/ UnindexLocals \/ ScheduleDelete \/ Restart \/ ProcessEnds
  BY <1>4
  DEF BeginPurgeLocals, OnPurgeTimer, RunCallback, AssetWriteFailed, UnindexLocals,
      RunHandler, ScheduleDelete, ProcessEnds, Restart
<1>5. CASE WriteNewAsset \/ WriteRejected \/ WriteThrows \/ RemoveLocalsIndex
  <2>1. worker = Idle
    BY Zenon, <1>5
    DEF WriteNewAsset, WriteRejected, WriteThrows, RemoveLocalsIndex, TakeCall, TakeItem
  <2>2. QED
    BY <2>1 DEF Idle
<1>6. QED
  BY Zenon, <1>1, <1>2, <1>3, <1>4, <1>5, Sorted DEF Others

\* What the disk knows it goes on knowing, while the process lives.
LEMMA DoneStays ==
    ASSUME BackendInv, [Next]_vars, life' # "down", NEW id \in Ids, Done(id)
    PROVE  Done(id)'
<1>1. /\ TypeOK /\ CallsMade /\ WorkerKnows /\ RowsGenuine /\ PurgeBegun
  BY Zenon DEF BackendInv, PromiseInv, DiskInv
<1>2. CASE Stored(id)
  BY Zenon, <1>2, StoredStays DEF Done
<1>3. CASE Purged(id)
  BY Zenon, <1>1, <1>3, PurgedStays DEF Done
<1>4. CASE FailedPut(id)
  BY Zenon, <1>4, FailedStays DEF Done
<1>5. CASE worker.at = "written" /\ PutOf(worker.r, id)
  <2>1. PICK r : r = worker.r
    OBVIOUS
  <2>2. r \in Reqs /\ PutOf(r, id) /\ worker.r = r
    BY <1>1, <1>5, <2>1 DEF TypeOK, WorkerStep
  <2>3. PutOf(r, id)'
    BY Zenon, <1>1, <2>2, PutStays
  <2>4. CASE worker' = worker
    <3>1. worker'.at = "written" /\ worker'.r = r
      BY Zenon, <1>5, <2>2, <2>4
    <3>2. (worker.at = "written" /\ PutOf(worker.r, id))'
      BY Zenon, <2>3, <3>1 DEF PutOf
    <3>3. QED
      BY Zenon, <3>2 DEF Done
  <2>5. CASE RecordAssetPosition
    <3>1. /\ call[r] \in Call /\ call[r].id = id
          /\ rows'[call[r].db][call[r].id] = r
      <4>1. call[r] \in Call /\ call[r].id = id
        BY Zenon, <1>1, <2>2, <2>5, RowInserted DEF PutOf
      <4>2. call[r].db \in Dbs
        BY <4>1 DEF Call
      <4>3. QED
        BY <1>1, <2>2, <2>5, <4>1, <4>2, RowInserted
    <3>2. call[r].db \in Dbs /\ r # None
      BY <2>2, <3>1, ConstantsAssumption DEF Call
    <3>3. Stored(id)'
      BY Zenon, <3>1, <3>2 DEF Stored
    <3>4. QED
      BY Zenon, <3>3 DEF Done
  <2>6. CASE RecordThrows
    <3>1. posted' = posted \o <<[h |-> "assetWriteFailed", id |-> call[r].id],
                                Answer(r, "failed", {})>>
      BY <2>2, <2>6 DEF RecordThrows
    <3>2. call[r].id = id
      BY Zenon, <2>2 DEF PutOf
    <3>3. FailedPut(id)'
      BY Zenon, <1>1, <2>2, <3>1, <3>2, FailurePosted
    <3>4. QED
      BY Zenon, <3>3 DEF Done
  <2>7. QED
    BY Zenon, <1>1, <1>5, <2>4, <2>5, <2>6, WorkerOf
<1>6. QED
  BY Zenon, <1>2, <1>3, <1>4, <1>5 DEF Done

\* The worker that takes a PUT off the queue writes it or fails it.
LEMMA TakenPut ==
    ASSUME BackendInv, [Next]_vars, life' # "down", NEW id \in Ids,
           queue # <<>>, queue' = Tail(queue), Head(queue).op = "call",
           PutOf(Head(queue).r, id)
    PROVE  Done(id)'
<1>1. /\ TypeOK /\ CallsMade /\ WorkerKnows /\ RowsGenuine /\ PurgeBegun
  BY Zenon DEF BackendInv, PromiseInv, DiskInv
<1>2. PICK r : r = Head(queue).r
  OBVIOUS
<1>3. /\ Head(queue) \in WorkItem /\ queue \in Seq(WorkItem)
  BY <1>1 DEF TypeOK
<1>4. r \in Reqs /\ PutOf(r, id) /\ call[r].id = id
  BY <1>2, <1>3 DEF WorkItem, PutOf
<1>5. PutOf(r, id)'
  BY Zenon, <1>1, <1>4, PutStays
<1>6. CASE WriteNewAsset
  <2>1. worker'.at = "written" /\ worker'.r = r
    BY Zenon, <1>2, <1>6 DEF WriteNewAsset
  <2>2. (worker.at = "written" /\ PutOf(worker.r, id))'
    BY Zenon, <1>5, <2>1 DEF PutOf
  <2>3. QED
    BY Zenon, <2>2 DEF Done
<1>7. CASE WriteRejected
  <2>1. posted' = Append(posted, Answer(r, "failed", {}))
    BY <1>2, <1>7 DEF WriteRejected
  <2>2. QED
    BY Zenon, <1>1, <1>4, <2>1, FailurePosted DEF Done
<1>8. CASE WriteThrows
  <2>1. posted' = posted \o <<[h |-> "assetWriteFailed", id |-> id],
                              Answer(r, "failed", {})>>
    BY <1>2, <1>4, <1>8 DEF WriteThrows
  <2>2. QED
    BY Zenon, <1>1, <1>4, <2>1, FailurePosted DEF Done
<1>9. queue' # queue /\ \A x : queue' # Append(queue, x)
  <2>1. Len(queue') = Len(queue) - 1 /\ Len(queue) \in Nat
    BY <1>3
  <2>2. \A x : Len(Append(queue, x)) = Len(queue) + 1
    BY <1>3
  <2>0. \A n \in Nat : n - 1 # n /\ n - 1 # n + 1
    OBVIOUS
  <2>3. queue' # queue
    BY Zenon, <2>0, <2>1
  <2>4. ASSUME NEW x PROVE queue' # Append(queue, x)
    BY Zenon, <2>0, <2>1, <2>2
  <2>5. QED
    BY Zenon, <2>3, <2>4
<1>10. ~Quiet /\ ~Served /\ ~Asks
  <2>1. ~Quiet
    BY Zenon, <1>9 DEF Quiet
  <2>2. ~Served
    BY Zenon, <1>2, <1>4 DEF Served, PutOf
  <2>3. ~Asks
    BY Zenon, <1>9 DEF Asks, GetAsset, StoreAsset, QueueOnly
  <2>4. QED
    BY Zenon, <2>1, <2>2, <2>3
<1>11. ASSUME NEW t \in Threads PROVE ~StoreAddNewId(t) /\ ~StoreEnqueue(t)
  BY Zenon, <1>9 DEF StoreAddNewId, StoreEnqueue
<1>12. /\ ~BeginPurgeLocals /\ ~OnPurgeTimer /\ ~RunCallback /\ ~AssetWriteFailed
       /\ ~UnindexLocals /\ ~ScheduleDelete /\ ~RecordAssetPosition
       /\ ~RecordThrows /\ ~Restart /\ ~ProcessEnds /\ ~RemoveLocalsIndex
  BY <1>9
  DEF BeginPurgeLocals, OnPurgeTimer, RunCallback, AssetWriteFailed, UnindexLocals,
      RunHandler, ScheduleDelete, RecordAssetPosition, RecordThrows, ProcessEnds,
      Restart, RemoveLocalsIndex, TakeItem
<1>13. QED
  BY Zenon, <1>1, <1>6, <1>7, <1>8, <1>10, <1>11, <1>12, Sorted DEF Others

\* A PUT in the queue stays there until it is taken and done.
LEMMA AheadStays ==
    ASSUME BackendInv, [Next]_vars, life' # "down", NEW id \in Ids,
           NEW i \in 1 .. (Len(queue) + 1), Ahead(id, i)
    PROVE  /\ ~(queue # <<>> /\ queue' = Tail(queue)) => Ahead(id, i)'
           /\ queue # <<>> /\ queue' = Tail(queue) => Done(id)' \/ Ahead(id, i - 1)'
<1>1. /\ TypeOK /\ CallsMade /\ WorkerKnows /\ RowsGenuine /\ PurgeBegun
  BY Zenon DEF BackendInv, PromiseInv, DiskInv
<1>2. queue \in Seq(WorkItem) /\ Len(queue) \in Nat
  BY <1>1 DEF TypeOK
<1>3. PICK j \in 1 .. (i - 1) : queue[j].op = "call" /\ PutOf(queue[j].r, id)
  BY Zenon DEF Ahead
<1>4. j \in 1 .. Len(queue) /\ queue[j] \in WorkItem
  BY <1>2, <1>3
<1>5. PICK r \in Reqs : r = queue[j].r
  BY <1>3, <1>4 DEF WorkItem
<1>6. PutOf(r, id) /\ PutOf(r, id)'
  BY Zenon, <1>1, <1>3, <1>5, PutStays
<1>7. ASSUME NEW m \in 1 .. (i - 1), queue'[m] = queue[j] PROVE Ahead(id, i)'
  <2>1. (queue[m].op = "call" /\ PutOf(queue[m].r, id))'
    BY Zenon, <1>3, <1>5, <1>6, <1>7 DEF PutOf
  <2>2. QED
    BY Zenon, <1>7, <2>1 DEF Ahead
<1>8. CASE queue # <<>> /\ queue' = Tail(queue)
  <2>1. CASE j = 1
    <3>1. Head(queue) = queue[j]
      BY <1>2, <1>8, <2>1
    <3>2. Done(id)'
      BY Zenon, <1>3, <1>8, <3>1, TakenPut
    <3>3. QED
      BY Zenon, <1>8, <3>2
  <2>2. CASE j # 1
    <3>1. /\ j - 1 \in 1 .. ((i - 1) - 1) /\ queue'[j - 1] = queue[j]
      BY <1>2, <1>3, <1>4, <1>8, <2>2
    <3>2. (queue[j - 1].op = "call" /\ PutOf(queue[j - 1].r, id))'
      BY Zenon, <1>3, <1>5, <1>6, <3>1 DEF PutOf
    <3>3. Ahead(id, i - 1)'
      BY Zenon, <3>1, <3>2 DEF Ahead
    <3>4. QED
      BY Zenon, <1>8, <3>3
  <2>3. QED
    BY Zenon, <2>1, <2>2
<1>9. CASE queue' = queue
  <2>1. queue'[j] = queue[j]
    BY Zenon, <1>9
  <2>2. Ahead(id, i)'
    BY Zenon, <1>3, <1>7, <2>1
  <2>3. QED
    BY Zenon, <1>8, <2>2
<1>10. ASSUME NEW x, queue' = Append(queue, x) PROVE Ahead(id, i)'
  <2>1. queue'[j] = queue[j]
    BY <1>2, <1>4, <1>10
  <2>2. QED
    BY Zenon, <1>3, <1>7, <2>1
<1>11. QED
  BY Zenon, <1>1, <1>8, <1>9, <1>10, QueueMoved DEF QueueMove

\* A GET is appended to the queue by getAsset, which found its id indexed.
LEMMA GetQueued ==
    ASSUME BackendInv, [Next]_vars, NEW x \in WorkItem, queue' = Append(queue, x),
           x.op = "call", call'[x.r].op = "get"
    PROVE  \E id \in index : /\ GetAsset(x.r, id) /\ x.r \in Reqs
                             /\ call'[x.r].id = id
<1>1. /\ TypeOK /\ CallsMade /\ WorkerKnows /\ RowsGenuine /\ PurgeBegun /\ HeldPuts
  BY Zenon DEF BackendInv, PromiseInv, DiskInv
<1>2. queue \in Seq(WorkItem) /\ Len(queue) \in Nat /\ Len(queue') = Len(queue) + 1
      /\ queue'[Len(queue) + 1] = x
  BY <1>1 DEF TypeOK
<1>3. \A n \in Nat : n + 1 # n
  OBVIOUS
<1>4. queue' # queue
  BY Zenon, <1>2, <1>3
<1>5. ASSUME NEW y, queue' = Append(queue, y) PROVE x = y
  <2>1. queue'[Len(queue) + 1] = y
    BY <1>2, <1>5
  <2>2. QED
    BY Zenon, <1>2, <2>1
<1>6. queue # <<>> => queue' # Tail(queue)
  <2>1. queue # <<>> => Len(Tail(queue)) = Len(queue) - 1
    BY <1>2
  <2>2. \A n \in Nat : n + 1 # n - 1
    OBVIOUS
  <2>3. QED
    BY Zenon, <1>2, <2>1, <2>2
<1>7. CASE Quiet \/ Served
  BY Zenon, <1>4, <1>6, <1>7 DEF Quiet, Served
<1>8. ASSUME NEW r \in Reqs, NEW id \in Ids, GetAsset(r, id)
      PROVE  /\ id \in index /\ GetAsset(x.r, id) /\ x.r \in Reqs /\ call'[x.r].id = id
  <2>1. id \in index /\ queue' = Append(queue, [op |-> "call", r |-> r])
    BY Zenon, <1>4, <1>8 DEF GetAsset
  <2>2. x = [op |-> "call", r |-> r]
    BY Zenon, <1>5, <2>1
  <2>3. x.r = r
    BY <2>2
  <2>4. call'[r].id = id
    BY <1>1, <1>8 DEF GetAsset, Begin, TypeOK
  <2>5. QED
    BY Zenon, <1>8, <2>1, <2>3, <2>4
<1>9. ASSUME NEW r \in Reqs, NEW id \in Ids, NEW db \in Dbs, StoreAsset(r, id, db) PROVE FALSE
  BY Zenon, <1>4, <1>9 DEF StoreAsset
<1>10. ASSUME NEW r \in Reqs, NEW id \in Ids, NEW op \in {"purge", "status", "list"},
              QueueOnly(r, op, id)
       PROVE  FALSE
  <2>1. queue' = Append(queue, [op |-> "call", r |-> r]) /\ call'[r].op = op
    BY <1>1, <1>10 DEF QueueOnly, Begin, TypeOK
  <2>2. x = [op |-> "call", r |-> r]
    BY Zenon, <1>5, <2>1
  <2>3. x.r = r
    BY <2>2
  <2>4. QED
    BY <2>1, <2>3
<1>11. CASE Asks
  BY Zenon, <1>8, <1>9, <1>10, <1>11 DEF Asks
<1>12. ASSUME NEW t \in Threads PROVE ~StoreAddNewId(t) /\ ~StoreEnqueue(t)
  <2>1. ~StoreAddNewId(t)
    BY Zenon, <1>4 DEF StoreAddNewId
  <2>2. ASSUME StoreEnqueue(t) PROVE FALSE
    <3>1. /\ queue' = Append(queue, [op |-> "call", r |-> doing[t].r])
          /\ Holds(t) /\ call' = call
      BY <2>2 DEF StoreEnqueue, Holds
    <3>2. x = [op |-> "call", r |-> doing[t].r]
      BY Zenon, <1>5, <3>1
    <3>3. x.r = doing[t].r
      BY <3>2
    <3>4. call[doing[t].r].op = "put"
      BY Zenon, <1>1, <3>1 DEF HeldPuts, Held
    <3>5. QED
      BY <3>1, <3>3, <3>4
  <2>3. QED
    BY Zenon, <2>1, <2>2
<1>13. ~OnPurgeTimer /\ ~ScheduleDelete
  <2>1. ASSUME OnPurgeTimer PROVE FALSE
    <3>1. x = [op |-> "purgeLocals", head |-> purge.next]
      BY Zenon, <1>5, <2>1 DEF OnPurgeTimer
    <3>2. QED
      BY <3>1
  <2>2. ASSUME ScheduleDelete PROVE FALSE
    <3>1. x = [op |-> "deleteLocals", head |-> doing["asio"].head]
      BY Zenon, <1>5, <2>2 DEF ScheduleDelete
    <3>2. QED
      BY <3>1
  <2>3. QED
    BY Zenon, <2>1, <2>2
<1>14. /\ ~BeginPurgeLocals /\ ~RunCallback /\ ~AssetWriteFailed /\ ~UnindexLocals
       /\ ~RecordAssetPosition /\ ~RecordThrows /\ ~Restart
  BY Zenon, <1>4
  DEF BeginPurgeLocals, RunCallback, AssetWriteFailed, UnindexLocals, RunHandler,
      RecordAssetPosition, RecordThrows, Restart
<1>15. ~WriteNewAsset /\ ~WriteRejected /\ ~WriteThrows /\ ~RemoveLocalsIndex
  BY Zenon, <1>6
  DEF WriteNewAsset, WriteRejected, WriteThrows, RemoveLocalsIndex, TakeCall, TakeItem
<1>16. ~ProcessEnds
  <2>1. queue' # <<>>
    BY <1>2
  <2>2. QED
    BY Zenon, <2>1 DEF ProcessEnds
<1>17. QED
  BY Zenon, <1>1, <1>7, <1>11, <1>12, <1>13, <1>14, <1>15, <1>16, Sorted DEF Others

\* Without calls of the pull thread only the ASIO thread stores.
LEMMA AsioStores ==
    ASSUME TypeOK, OnePlace, PullReqs = {}
    PROVE  /\ \A t \in Threads : Holds(t) => t = "asio"
           /\ \A r : ThreadOf(r) = "asio"
  BY Zenon DEF OnePlace, ThreadOf

\* Every step keeps what backs the index, while the process lives.
LEMMA BackedStays ==
    ASSUME BackendInv, [Next]_vars, life' # "down", NEW id \in Ids,
           Done(id) \/ Ahead(id, Len(queue) + 1) \/ Storing(id)
    PROVE  (Done(id) \/ Ahead(id, Len(queue) + 1) \/ Storing(id))'
<1>1. /\ TypeOK /\ CallsMade /\ WorkerKnows /\ RowsGenuine /\ PurgeBegun
  BY Zenon DEF BackendInv, PromiseInv, DiskInv
<1>2. queue \in Seq(WorkItem) /\ Len(queue) \in Nat
  BY <1>1 DEF TypeOK
<1>3. CASE Done(id)
  BY Zenon, <1>3, DoneStays
<1>4. CASE Ahead(id, Len(queue) + 1)
  <2>1. PICK i \in 1 .. (Len(queue) + 1) : i = Len(queue) + 1
    BY <1>2
  <2>2. Ahead(id, i)
    BY Zenon, <1>4, <2>1
  <2>3. CASE queue # <<>> /\ queue' = Tail(queue)
    <3>1. i - 1 = Len(queue') + 1
      BY <1>2, <2>1, <2>3
    <3>2. Done(id)' \/ Ahead(id, i - 1)'
      BY Zenon, <2>2, <2>3, AheadStays
    <3>3. Ahead(id, i - 1)' => Ahead(id, Len(queue) + 1)'
      BY Zenon, <3>1 DEF Ahead
    <3>4. QED
      BY Zenon, <3>2, <3>3
  <2>4. CASE ~(queue # <<>> /\ queue' = Tail(queue))
    <3>1. Ahead(id, i)'
      BY Zenon, <2>2, <2>4, AheadStays
    <3>2. i - 1 <= Len(queue') /\ Len(queue') \in Nat
      <4>1. CASE queue' = queue
        BY <1>2, <2>1, <4>1
      <4>2. ASSUME NEW x, queue' = Append(queue, x) PROVE i - 1 <= Len(queue') /\ Len(queue') \in Nat
        BY <1>2, <2>1, <4>2
      <4>3. QED
        BY Zenon, <1>1, <2>4, <4>1, <4>2, QueueMoved DEF QueueMove
    <3>3. 1 .. (i - 1) \subseteq 1 .. ((Len(queue') + 1) - 1)
      BY <3>2
    <3>4. Ahead(id, Len(queue) + 1)'
      BY Zenon, <3>1, <3>3 DEF Ahead
    <3>5. QED
      BY Zenon, <3>4
  <2>5. QED
    BY Zenon, <2>3, <2>4
<1>5. CASE Storing(id)
  <2>1. PICK t \in Threads : doing[t].at = "enqueue" /\ PutOf(doing[t].r, id)
    BY Zenon, <1>5 DEF Storing
  <2>2. PICK r \in Reqs : r = doing[t].r
    BY <1>1, <2>1 DEF TypeOK, ThreadStep
  <2>3. PutOf(r, id)'
    BY Zenon, <1>1, <2>1, <2>2, PutStays
  <2>4. CASE StoreEnqueue(t)
    <3>1. queue' = Append(queue, [op |-> "call", r |-> r])
      BY Zenon, <2>2, <2>4 DEF StoreEnqueue
    <3>2. /\ Len(queue) + 1 \in 1 .. ((Len(queue') + 1) - 1)
          /\ queue'[Len(queue) + 1] = [op |-> "call", r |-> r]
      BY <1>2, <3>1
    <3>3. queue'[Len(queue) + 1].op = "call" /\ queue'[Len(queue) + 1].r = r
      BY <3>2
    <3>4. PICK n : n = Len(queue) + 1
      OBVIOUS
    <3>5. /\ n \in 1 .. ((Len(queue') + 1) - 1) /\ (queue[n].op = "call" /\ PutOf(queue[n].r, id))'
      BY Zenon, <2>3, <3>2, <3>3, <3>4 DEF PutOf
    <3>6. Ahead(id, Len(queue) + 1)'
      BY Zenon, <3>5 DEF Ahead
    <3>7. QED
      BY Zenon, <3>6
  <2>5. CASE doing'[t] = doing[t]
    <3>1. (doing[t].at = "enqueue" /\ PutOf(doing[t].r, id))'
      BY Zenon, <2>1, <2>2, <2>3, <2>5 DEF PutOf
    <3>2. Storing(id)'
      BY Zenon, <3>1 DEF Storing
    <3>3. QED
      BY Zenon, <3>2
  <2>6. doing[t] # Free /\ doing[t].at # "scheduleDelete" /\ doing[t].at # "addNewId"
    BY <2>1 DEF Free
  <2>7. CASE Quiet \/ Served
    BY Zenon, <2>5, <2>7 DEF Quiet, Served
  <2>8. CASE Asks
    <3>1. ASSUME NEW q \in Reqs, NEW i \in Ids, NEW db \in Dbs, StoreAsset(q, i, db)
          PROVE  doing'[t] = doing[t]
      BY ZenonT(60), <1>1, <2>6, <3>1 DEF StoreAsset, Begin, Runs, TypeOK
    <3>2. QED
      BY Zenon, <2>5, <2>8, <3>1 DEF Asks, GetAsset, QueueOnly
  <2>9. ASSUME NEW u \in Threads, StoreAddNewId(u) \/ StoreEnqueue(u), ~StoreEnqueue(t)
        PROVE  doing'[t] = doing[t]
    <3>1. u # t
      BY Zenon, <2>6, <2>9 DEF StoreAddNewId
    <3>2. QED
      BY <1>1, <2>9, <3>1 DEF StoreAddNewId, StoreEnqueue, TypeOK
  <2>10. CASE UnindexLocals \/ ScheduleDelete
    <3>1. t # "asio"
      BY Zenon, <2>6, <2>10 DEF UnindexLocals, RunHandler, Runs, ScheduleDelete
    <3>2. doing'[t] = doing[t]
      BY <1>1, <2>10, <3>1 DEF UnindexLocals, ScheduleDelete, TypeOK
    <3>3. QED
      BY Zenon, <2>5, <3>2
  <2>11. CASE \/ BeginPurgeLocals \/ OnPurgeTimer \/ RunCallback \/ AssetWriteFailed
              \/ WriteNewAsset \/ WriteRejected \/ WriteThrows \/ ProcessEnds
              \/ RecordAssetPosition \/ RecordThrows \/ RemoveLocalsIndex \/ Restart
    BY Zenon, <2>5, <2>11
    DEF BeginPurgeLocals, OnPurgeTimer, RunCallback, AssetWriteFailed,
        WriteNewAsset, WriteRejected, WriteThrows, RecordAssetPosition,
        RecordThrows, RemoveLocalsIndex, Restart, ProcessEnds
  <2>12. QED
    BY Zenon, <1>1, <2>4, <2>5, <2>7, <2>8, <2>9, <2>10, <2>11, Sorted DEF Others
<1>6. QED
  BY Zenon, <1>3, <1>4, <1>5

\* The index grows only by the id that a thread is storing, and is read from
\* the files when the process starts.
LEMMA IndexGrows ==
    ASSUME TypeOK, CallsMade, [Next]_vars
    PROVE  \/ index' \subseteq index
           \/ \E t \in Threads : StoreAddNewId(t)
           \/ Restart
<1>1. CASE Quiet \/ Served \/ Asks
  BY Zenon, <1>1 DEF Quiet, Served, Asks, GetAsset, StoreAsset, QueueOnly
<1>2. ASSUME NEW t \in Threads, StoreEnqueue(t) PROVE index' = index
  BY Zenon, <1>2 DEF StoreEnqueue
<1>3. CASE AssetWriteFailed \/ UnindexLocals \/ ProcessEnds
  BY <1>3 DEF AssetWriteFailed, UnindexLocals, ProcessEnds
<1>4. CASE \/ BeginPurgeLocals \/ OnPurgeTimer \/ RunCallback \/ ScheduleDelete
           \/ WriteNewAsset \/ WriteRejected \/ WriteThrows
           \/ RecordAssetPosition \/ RecordThrows \/ RemoveLocalsIndex
  BY Zenon, <1>4
  DEF BeginPurgeLocals, OnPurgeTimer, RunCallback, ScheduleDelete,
      WriteNewAsset, WriteRejected, WriteThrows, RecordAssetPosition,
      RecordThrows, RemoveLocalsIndex
<1>5. QED
  BY Zenon, <1>1, <1>2, <1>3, <1>4, Sorted DEF Others

\* Every step keeps IndexBacked.
LEMMA BackedStep ==
    ASSUME BackendInv, IndexBacked, [Next]_vars
    PROVE  IndexBacked'
<1>1. /\ TypeOK /\ CallsMade /\ WorkerKnows /\ RowsGenuine /\ PurgeBegun /\ HeldPuts /\ DownEmpty
  BY Zenon DEF BackendInv, PromiseInv, DiskInv
<1>2. index \subseteq Ids
  BY <1>1 DEF TypeOK
<1>3. CASE ProcessEnds
  <2>1. index' = {}
    BY Zenon, <1>3 DEF ProcessEnds
  <2>2. QED
    BY Zenon, <2>1 DEF IndexBacked
<1>4. CASE UNCHANGED vars
  <2>1. /\ index' = index /\ queue' = queue /\ rows' = rows /\ purge' = purge /\ worker' = worker
        /\ call' = call /\ reply' = reply /\ posted' = posted /\ doing' = doing
    BY Zenon, <1>4 DEF vars
  <2>2. \A r, id : PutOf(r, id)' <=> PutOf(r, id)
    BY Zenon, <2>1 DEF PutOf
  <2>3. ASSUME NEW id \in index PROVE (Done(id) \/ Ahead(id, Len(queue) + 1) \/ Storing(id))'
    <3>1. CASE Ahead(id, Len(queue) + 1)
      BY Zenon, <2>1, <2>2, <3>1 DEF Ahead
    <3>2. CASE Storing(id)
      BY Zenon, <2>1, <2>2, <3>2 DEF Storing
    <3>3. CASE Done(id)
      BY Zenon, <2>1, <2>2, <3>3 DEF Done, Stored, Purged, FailedPut
    <3>4. QED
      BY Zenon, <2>3, <3>1, <3>2, <3>3 DEF IndexBacked
  <2>4. QED
    BY Zenon, <2>1, <2>3 DEF IndexBacked
<1>5. ASSUME life' # "down", NEW id \in Ids, id \in index
      PROVE  (Done(id) \/ Ahead(id, Len(queue) + 1) \/ Storing(id))'
  BY Zenon, <1>5, BackedStays DEF IndexBacked
<1>6. CASE life' # "down" /\ index' \subseteq index
  BY Zenon, <1>2, <1>5, <1>6 DEF IndexBacked
<1>7. ASSUME life' # "down", NEW t \in Threads, StoreAddNewId(t) PROVE IndexBacked'
  <2>1. Holds(t)
    BY Zenon, <1>7 DEF StoreAddNewId, Holds
  <2>2. PICK r : r = doing[t].r
    OBVIOUS
  <2>3. r \in Held
    BY Zenon, <2>1, <2>2 DEF Held
  <2>4. call[r].op = "put" /\ call[r] # None /\ r \in Reqs
    BY Zenon, <1>1, <2>3, PlacesAreCalls DEF HeldPuts
  <2>5. /\ index' = index \cup {call[r].id} /\ call' = call
        /\ doing'[t].at = "enqueue" /\ doing'[t].r = r
    BY <1>1, <1>7, <2>2 DEF StoreAddNewId, TypeOK
  <2>6. ASSUME NEW id, id = call[r].id PROVE Storing(id)'
    <3>1. (doing[t].at = "enqueue" /\ PutOf(doing[t].r, id))'
      BY Zenon, <2>4, <2>5, <2>6 DEF PutOf
    <3>2. QED
      BY Zenon, <3>1 DEF Storing
  <2>7. QED
    BY Zenon, <1>2, <1>5, <1>7, <2>5, <2>6 DEF IndexBacked
<1>8. CASE Restart
  <2>1. index' = {id \in Ids : Stored(id)} /\ rows' = rows
    BY Zenon, <1>8 DEF Restart
  <2>2. \A id : Stored(id) => Stored(id)'
    BY Zenon, <2>1 DEF Stored
  <2>3. QED
    BY Zenon, <2>1, <2>2 DEF IndexBacked, Done
<1>9. QED
  BY Zenon, <1>1, <1>3, <1>4, <1>6, <1>7, <1>8, IndexGrows, GoesDown

\* The queued GETs are backed: WriteHappensFirst, with its cases named.
GetsBacked ==
    \A i \in DOMAIN queue :
        queue[i].op = "call" /\ call[queue[i].r].op = "get" =>
            Done(call[queue[i].r].id) \/ Ahead(call[queue[i].r].id, i)

\* GetsBacked is WriteHappensFirst, said with Done and Ahead.
LEMMA GetsBackedIs == GetsBacked => WriteHappensFirst
  BY ZenonT(60) DEF GetsBacked, WriteHappensFirst, Done, FailedPut, Ahead

\* Every step keeps the queued GETs backed.
LEMMA GetsStep ==
    ASSUME PullReqs = {}, BackendInv, IndexBacked, GetsBacked, [Next]_vars
    PROVE  GetsBacked'
<1>1. /\ TypeOK /\ CallsMade /\ WorkerKnows /\ RowsGenuine /\ PurgeBegun /\ OnePlace
  BY Zenon DEF BackendInv, PromiseInv, DiskInv
<1>2. queue \in Seq(WorkItem) /\ Len(queue) \in Nat /\ DOMAIN queue = 1 .. Len(queue)
  BY <1>1 DEF TypeOK
<1>3. CASE ProcessEnds
  <2>1. DOMAIN queue' = {}
    BY <1>3 DEF ProcessEnds
  <2>2. QED
    BY Zenon, <2>1 DEF GetsBacked
<1>4. CASE UNCHANGED vars
  <2>1. UNCHANGED <<call, reply, rows, queue, posted, worker, purge>>
    BY Zenon, <1>4 DEF vars
  <2>2. ASSUME NEW id PROVE Done(id) => Done(id)'
    BY Zenon, <2>1 DEF Done, Stored, Purged, FailedPut, PutOf
  <2>3. ASSUME NEW i \in DOMAIN queue,
               queue[i].op = "call" /\ call[queue[i].r].op = "get"
        PROVE  (Done(call[queue[i].r].id) \/ Ahead(call[queue[i].r].id, i))'
    <3>1. PICK id : id = call[queue[i].r].id
      BY Zenon
    <3>2. Done(id)' \/ Ahead(id, i)
      BY Zenon, <2>2, <2>3, <3>1 DEF GetsBacked
    <3>3. Ahead(id, i) => Ahead(id, i)'
      BY Zenon, <2>1 DEF Ahead, PutOf
    <3>4. id = call'[queue'[i].r].id
      BY Zenon, <2>1, <3>1
    <3>5. QED
      BY Zenon, <3>2, <3>3, <3>4 DEF Done, Stored, Purged, FailedPut, PutOf, Ahead
  <2>4. QED
    BY Zenon, <2>1, <2>3 DEF GetsBacked
<1>5. ASSUME NEW i \in DOMAIN queue, queue[i].op = "call"
      PROVE  /\ queue[i].r \in Reqs /\ call'[queue[i].r] = call[queue[i].r]
             /\ call[queue[i].r].id \in Ids
             /\ call[queue[i].r].op = "get" =>
                   \/ Done(call[queue[i].r].id) \/ Ahead(call[queue[i].r].id, i)
  <2>1. queue[i] \in WorkItem
    BY <1>2, <1>5
  <2>2. queue[i].r \in Reqs
    BY <1>5, <2>1 DEF WorkItem
  <2>3. call[queue[i].r] # None
    BY Zenon, <1>1, <1>5 DEF CallsMade
  <2>4. call'[queue[i].r] = call[queue[i].r] /\ call[queue[i].r] \in Call
    <3>1. call[queue[i].r] \in Call \cup {None}
      BY <1>1, <2>2 DEF TypeOK
    <3>2. QED
      BY <1>1, <2>2, <2>3, <3>1, CallsGrow
  <2>5. call[queue[i].r].id \in Ids
    BY <2>4 DEF Call
  <2>6. QED
    BY Zenon, <1>5, <2>2, <2>4, <2>5 DEF GetsBacked
<1>6. ASSUME life' # "down", NEW i \in DOMAIN queue, NEW j \in DOMAIN queue',
             queue'[j] = queue[i], queue'[j].op = "call", call'[queue'[j].r].op = "get",
             ~(queue # <<>> /\ queue' = Tail(queue)) => j = i,
             queue # <<>> /\ queue' = Tail(queue) => j = i - 1,
             NEW id, id = call'[queue'[j].r].id
      PROVE  Done(id)' \/ Ahead(id, j)'
  <2>1. /\ id = call[queue[i].r].id /\ id \in Ids
        /\ Done(id) \/ Ahead(id, i)
    BY Zenon, <1>5, <1>6
  <2>2. i \in 1 .. (Len(queue) + 1)
    BY <1>2
  <2>3. CASE Done(id)
    BY Zenon, <1>6, <2>1, <2>3, DoneStays
  <2>4. CASE Ahead(id, i)
    BY Zenon, <1>6, <2>1, <2>2, <2>4, AheadStays
  <2>5. QED
    BY Zenon, <2>1, <2>3, <2>4
<1>7. ASSUME life' # "down", NEW x \in WorkItem, queue' = Append(queue, x),
             x.op = "call", call'[x.r].op = "get", NEW id, id = call'[x.r].id,
             NEW n, n = Len(queue) + 1
      PROVE  Done(id)' \/ Ahead(id, n)'
  <2>1. id \in index /\ GetAsset(x.r, id) /\ x.r \in Reqs
    BY Zenon, <1>7, GetQueued
  <2>2. id \in Ids
    BY <1>1, <2>1 DEF TypeOK
  <2>3. doing["asio"] = Free
    BY Zenon, <1>1, <2>1, AsioStores DEF GetAsset, Begin, Runs
  <2>4. doing["asio"].at # "enqueue"
    BY <2>3 DEF Free
  <2>5. ~Storing(id)
    BY Zenon, <1>1, <2>4, AsioStores DEF Storing, Holds
  <2>6. Done(id) \/ Ahead(id, n)
    BY Zenon, <1>7, <2>1, <2>5 DEF IndexBacked
  <2>7. n \in 1 .. (Len(queue) + 1)
    BY <1>2, <1>7
  <2>8. ~(queue # <<>> /\ queue' = Tail(queue))
    <3>1. queue # <<>> => Len(Tail(queue)) = Len(queue) - 1
      BY <1>2
    <3>2. Len(queue') = Len(queue) + 1
      BY <1>2, <1>7
    <3>3. \A m \in Nat : m - 1 # m + 1
      OBVIOUS
    <3>4. QED
      BY Zenon, <1>2, <3>1, <3>2, <3>3
  <2>9. CASE Done(id)
    BY Zenon, <1>7, <2>2, <2>9, DoneStays
  <2>10. CASE Ahead(id, n)
    BY Zenon, <1>7, <2>2, <2>7, <2>8, <2>10, AheadStays
  <2>11. QED
    BY Zenon, <2>6, <2>9, <2>10
<1>8. ASSUME life' # "down", NEW j \in DOMAIN queue', queue'[j].op = "call",
             call'[queue'[j].r].op = "get", NEW id, id = call'[queue'[j].r].id
      PROVE  Done(id)' \/ Ahead(id, j)'
  <2>1. CASE queue # <<>> /\ queue' = Tail(queue)
    <3>1. j + 1 \in DOMAIN queue /\ queue'[j] = queue[j + 1] /\ j = (j + 1) - 1
      BY <1>2, <1>8, <2>1
    <3>2. PICK i : i = j + 1
      OBVIOUS
    <3>3. i \in DOMAIN queue /\ queue'[j] = queue[i] /\ j = i - 1
      BY Zenon, <3>1, <3>2
    <3>4. QED
      BY Zenon, <1>6, <1>8, <2>1, <3>3
  <2>2. CASE ~(queue # <<>> /\ queue' = Tail(queue)) /\ queue' = queue
    BY Zenon, <1>6, <1>8, <2>2
  <2>3. ASSUME ~(queue # <<>> /\ queue' = Tail(queue)), NEW x \in WorkItem,
               queue' = Append(queue, x)
        PROVE  Done(id)' \/ Ahead(id, j)'
    <3>1. \/ j \in DOMAIN queue /\ queue'[j] = queue[j]
          \/ j = Len(queue) + 1 /\ queue'[j] = x
      <4>1. /\ DOMAIN queue' = 1 .. (Len(queue) + 1) /\ queue'[Len(queue) + 1] = x
            /\ \A k \in 1 .. Len(queue) : queue'[k] = queue[k]
        <5>1. /\ DOMAIN Append(queue, x) = 1 .. (Len(queue) + 1)
              /\ Append(queue, x)[Len(queue) + 1] = x
              /\ \A k \in DOMAIN queue : Append(queue, x)[k] = queue[k]
          BY <1>2, AppendKeeps
        <5>2. QED
          BY Zenon, <1>2, <2>3, <5>1
      <4>2. j \in 1 .. Len(queue) \/ j = Len(queue) + 1
        BY <1>2, <1>8, <4>1
      <4>3. QED
        BY Zenon, <1>2, <4>1, <4>2
    <3>2. CASE j \in DOMAIN queue /\ queue'[j] = queue[j]
      BY Zenon, <1>6, <1>8, <2>3, <3>2
    <3>3. CASE j = Len(queue) + 1 /\ queue'[j] = x
      <4>1. x.op = "call" /\ call'[x.r].op = "get" /\ id = call'[x.r].id
        BY Zenon, <1>8, <3>3
      <4>2. QED
        BY Zenon, <1>7, <1>8, <2>3, <3>3, <4>1
    <3>4. QED
      BY Zenon, <3>1, <3>2, <3>3
  <2>4. QED
    BY Zenon, <1>1, <1>8, <2>1, <2>2, <2>3, QueueMoved DEF QueueMove
<1>9. CASE life' # "down"
  <2>1. ASSUME NEW j \in DOMAIN queue',
               queue'[j].op = "call" /\ call'[queue'[j].r].op = "get"
        PROVE  (Done(call[queue[j].r].id) \/ Ahead(call[queue[j].r].id, j))'
    <3>1. PICK id : id = call'[queue'[j].r].id
      OBVIOUS
    <3>2. Done(id)' \/ Ahead(id, j)'
      BY Zenon, <1>8, <1>9, <2>1, <3>1
    <3>3. QED
      BY ZenonT(60), <3>1, <3>2 DEF Done, Stored, Purged, FailedPut, Ahead, PutOf
  <2>2. QED
    BY Zenon, <2>1 DEF GetsBacked
<1>10. QED
  BY Zenon, <1>1, <1>3, <1>4, <1>9, GoesDown

\* A GET that passed the existence test stands behind the PUT it relies on,
\* for any number of calls, ids and directories and whatever fails on the
\* disk, as long as the pull thread does not store.
THEOREM FirstSafety ==
    ASSUME PullReqs = {}
    PROVE  Spec => []WriteHappensFirst
<1> DEFINE FirstInv == BackendInv /\ IndexBacked /\ GetsBacked
<1>1. Init => FirstInv
  <2>1. Init => index = {} /\ DOMAIN queue = {}
    BY DEF Init
  <2>2. QED
    BY Zenon, <2>1, InitBackend DEF IndexBacked, GetsBacked
<1>2. FirstInv /\ [Next]_vars => FirstInv'
  BY Zenon, BackendStep, BackedStep, GetsStep
<1>3. FirstInv => WriteHappensFirst
  BY Zenon, GetsBackedIs
<1> HIDE DEF FirstInv
<1>4. QED
  BY <1>1, <1>2, <1>3, PTL DEF Spec

\* A sequence has an element, and has it once.
Has(s, w) == \E k \in DOMAIN s : s[k] = w
HasOnce(s, w) == \A j, k \in DOMAIN s : s[j] = w /\ s[k] = w => j = k

\* An element is appended.
LEMMA HasAppend ==
    ASSUME NEW S, NEW s \in Seq(S), NEW x, NEW w
    PROVE  /\ x # w => /\ Has(Append(s, x), w) <=> Has(s, w)
                       /\ HasOnce(s, w) => HasOnce(Append(s, x), w)
           /\ x = w => /\ Has(Append(s, x), w)
                       /\ ~Has(s, w) => HasOnce(Append(s, x), w)
<1> DEFINE t == Append(s, x)
<1>1. /\ DOMAIN t = DOMAIN s \cup {Len(s) + 1} /\ t[Len(s) + 1] = x
      /\ \A i \in DOMAIN s : t[i] = s[i]
  OBVIOUS
<1> HIDE DEF t
<1>2. PICK n : n = Len(s) + 1
  OBVIOUS
<1>3. DOMAIN t = DOMAIN s \cup {n} /\ t[n] = x /\ \A i \in DOMAIN s : t[i] = s[i]
  BY Zenon, <1>1, <1>2
<1>4. /\ x # w => /\ Has(t, w) <=> Has(s, w)
                  /\ HasOnce(s, w) => HasOnce(t, w)
      /\ x = w => Has(t, w) /\ (~Has(s, w) => HasOnce(t, w))
  <2>1. x # w => (Has(t, w) <=> Has(s, w))
    BY Zenon, <1>3 DEF Has
  <2>2. x # w => (HasOnce(s, w) => HasOnce(t, w))
    BY Zenon, <1>3 DEF HasOnce
  <2>3. x = w => Has(t, w)
    BY Zenon, <1>3 DEF Has
  <2>4. x = w => (~Has(s, w) => HasOnce(t, w))
    BY Zenon, <1>3 DEF Has, HasOnce
  <2>5. QED
    BY Zenon, <2>1, <2>2, <2>3, <2>4
<1>5. QED
  BY Zenon, <1>4 DEF t

\* The first element is taken.
LEMMA HasTail ==
    ASSUME NEW S, NEW s \in Seq(S), s # <<>>, NEW w
    PROVE  /\ Head(s) # w => (Has(Tail(s), w) <=> Has(s, w))
           /\ HasOnce(s, w) => HasOnce(Tail(s), w)
           /\ Head(s) = w => Has(s, w) /\ (HasOnce(s, w) => ~Has(Tail(s), w))
<1> DEFINE t == Tail(s)
<1>1. /\ 1 \in DOMAIN s /\ Head(s) = s[1]
      /\ \A j \in DOMAIN s : j # 1 => j - 1 \in DOMAIN t /\ t[j - 1] = s[j]
      /\ \A j \in DOMAIN t : j + 1 \in DOMAIN s /\ t[j] = s[j + 1] /\ j + 1 # 1
      /\ \A j, k \in DOMAIN t : j + 1 = k + 1 => j = k
  OBVIOUS
<1> HIDE DEF t
<1>2. Head(s) # w => (Has(t, w) <=> Has(s, w))
  <2>1. ASSUME NEW k \in DOMAIN t, t[k] = w PROVE Has(s, w)
    BY Zenon, <1>1, <2>1 DEF Has
  <2>2. ASSUME NEW k \in DOMAIN s, s[k] = w, Head(s) # w PROVE Has(t, w)
    <3>1. k # 1
      BY Zenon, <1>1, <2>2
    <3>2. k - 1 \in DOMAIN t /\ t[k - 1] = w
      BY Zenon, <1>1, <2>2, <3>1
    <3>3. QED
      BY Zenon, <3>2 DEF Has
  <2>3. QED
    BY Zenon, <2>1, <2>2 DEF Has
<1>3. HasOnce(s, w) => HasOnce(t, w)
  <2>1. ASSUME HasOnce(s, w), NEW j \in DOMAIN t, NEW k \in DOMAIN t, t[j] = w, t[k] = w
        PROVE  j = k
    <3>1. j + 1 = k + 1
      BY Zenon, <1>1, <2>1 DEF HasOnce
    <3>2. QED
      BY Zenon, <1>1, <3>1
  <2>2. QED
    BY Zenon, <2>1 DEF HasOnce
<1>4. Head(s) = w => Has(s, w) /\ (HasOnce(s, w) => ~Has(t, w))
  BY Zenon, <1>1 DEF Has, HasOnce
<1>5. QED
  BY Zenon, <1>2, <1>3, <1>4 DEF t

\* The id of a failed write, which is to leave the index.
WriteFailed(id) == [h |-> "assetWriteFailed", id |-> id]
Failing(id) == Has(posted, WriteFailed(id))
FailsOnce(id) == HasOnce(posted, WriteFailed(id))

\* Nothing changes for the failed writes of an id.
FailsSame(id) ==
    /\ Failing(id)' <=> Failing(id)
    /\ FailsOnce(id) => FailsOnce(id)'

\* Another handler is posted or run.
LEMMA FailsStay ==
    ASSUME TypeOK, NEW id,
           \/ posted' = posted
           \/ \E x : posted' = Append(posted, x) /\ x.h # "assetWriteFailed"
           \/ posted # <<>> /\ posted' = Tail(posted) /\ Head(posted) # WriteFailed(id)
    PROVE  FailsSame(id)
<1>1. posted \in Seq(Handler) /\ WriteFailed(id)' = WriteFailed(id)
  BY DEF TypeOK, WriteFailed
<1>2. PICK w : w = WriteFailed(id)
  OBVIOUS
<1>3. (Failing(id) <=> Has(posted, w)) /\ (FailsOnce(id) <=> HasOnce(posted, w))
  BY Zenon, <1>2 DEF Failing, FailsOnce
<1>4. /\ Failing(id)' <=> Has(posted, w)'
      /\ FailsOnce(id)' <=> HasOnce(posted, w)'
  BY Zenon, <1>1, <1>2 DEF Failing, FailsOnce, Has, HasOnce
<1>5. w.h = "assetWriteFailed"
  BY <1>2 DEF WriteFailed
<1>6. CASE posted' = posted
  BY Zenon, <1>6 DEF FailsSame, Failing, FailsOnce, Has, HasOnce, WriteFailed
<1>7. ASSUME NEW x, posted' = Append(posted, x), x.h # "assetWriteFailed"
      PROVE  FailsSame(id)
  <2>1. x # w
    BY Zenon, <1>5, <1>7
  <2>2. PICK t : t = Append(posted, x)
    BY Zenon
  <2>3. (Has(t, w) <=> Has(posted, w)) /\ (HasOnce(posted, w) => HasOnce(t, w))
    BY Zenon, <1>1, <2>1, <2>2, HasAppend
  <2>4. (Has(posted, w)' <=> Has(t, w)) /\ (HasOnce(posted, w)' <=> HasOnce(t, w))
    BY Zenon, <1>7, <2>2 DEF Has, HasOnce
  <2>5. QED
    BY Zenon, <1>3, <1>4, <2>3, <2>4 DEF FailsSame
<1>8. CASE posted # <<>> /\ posted' = Tail(posted) /\ Head(posted) # WriteFailed(id)
  <2>2. PICK t : t = Tail(posted)
    BY Zenon
  <2>3. (Has(t, w) <=> Has(posted, w)) /\ (HasOnce(posted, w) => HasOnce(t, w))
    BY Zenon, <1>1, <1>2, <1>8, <2>2, HasTail
  <2>4. (Has(posted, w)' <=> Has(t, w)) /\ (HasOnce(posted, w)' <=> HasOnce(t, w))
    BY Zenon, <1>8, <2>2 DEF Has, HasOnce
  <2>5. QED
    BY Zenon, <1>3, <1>4, <2>3, <2>4 DEF FailsSame
<1>9. QED
  BY Zenon, <1>6, <1>7, <1>8

\* The failed write of an id is handled.
LEMMA FailHandled ==
    ASSUME TypeOK, NEW id, posted # <<>>, posted' = Tail(posted),
           Head(posted) = WriteFailed(id)
    PROVE  Failing(id) /\ (FailsOnce(id) => FailsOnce(id)' /\ ~Failing(id)')
<1>1. posted \in Seq(Handler) /\ WriteFailed(id)' = WriteFailed(id)
  BY DEF TypeOK, WriteFailed
<1>2. PICK w, t : w = WriteFailed(id) /\ t = Tail(posted)
  OBVIOUS
<1>3. (Failing(id) <=> Has(posted, w)) /\ (FailsOnce(id) <=> HasOnce(posted, w))
  BY Zenon, <1>2 DEF Failing, FailsOnce
<1>4. /\ Failing(id)' <=> Has(t, w)
      /\ FailsOnce(id)' <=> HasOnce(t, w)
  BY Zenon, <1>1, <1>2 DEF Failing, FailsOnce, Has, HasOnce
<1>5. /\ Has(posted, w) /\ (HasOnce(posted, w) => HasOnce(t, w) /\ ~Has(t, w))
  BY Zenon, <1>1, <1>2, HasTail
<1>6. QED
  BY Zenon, <1>3, <1>4, <1>5

\* A failed write is posted.
LEMMA FailPosted ==
    ASSUME TypeOK, NEW r \in Reqs, NEW i \in Ids, NEW id,
           posted' = posted \o <<[h |-> "assetWriteFailed", id |-> i],
                                 Answer(r, "failed", {})>>
    PROVE  /\ i # id => FailsSame(id)
           /\ i = id /\ ~Failing(id) => Failing(id)' /\ FailsOnce(id)'
<1>1. posted \in Seq(Handler) /\ WriteFailed(id)' = WriteFailed(id)
  BY DEF TypeOK, WriteFailed
<1>2. PICK w, x, y : /\ w = WriteFailed(id) /\ x = [h |-> "assetWriteFailed", id |-> i]
                     /\ y = Answer(r, "failed", {})
  OBVIOUS
<1>3. x \in Handler /\ y # w /\ (x = w <=> i = id)
  BY <1>2 DEF Handler, WriteFailed, Answer
<1>4. y \in Handler
  BY <1>2, AnswerType DEF Results
<1>5. PICK z : z = Append(posted, x)
  BY Zenon
<1>6. z \in Seq(Handler) /\ posted' = Append(z, y)
  <2>1. posted' = posted \o <<x, y>>
    BY Zenon, <1>2
  <2>2. QED
    BY <1>1, <1>3, <1>4, <1>5, <2>1
<1>7. PICK t : t = Append(z, y)
  BY Zenon
<1>8. (Has(t, w) <=> Has(z, w)) /\ (HasOnce(z, w) => HasOnce(t, w))
  BY Zenon, <1>3, <1>6, <1>7, HasAppend
<1>9. /\ i # id => (Has(z, w) <=> Has(posted, w)) /\ (HasOnce(posted, w) => HasOnce(z, w))
      /\ i = id => Has(z, w) /\ (~Has(posted, w) => HasOnce(z, w))
  BY Zenon, <1>1, <1>3, <1>5, HasAppend
<1>10. (Failing(id) <=> Has(posted, w)) /\ (FailsOnce(id) <=> HasOnce(posted, w))
  BY Zenon, <1>2 DEF Failing, FailsOnce
<1>11. /\ Failing(id)' <=> Has(t, w)
       /\ FailsOnce(id)' <=> HasOnce(t, w)
  BY Zenon, <1>1, <1>2, <1>6, <1>7 DEF Failing, FailsOnce, Has, HasOnce
<1>12. QED
  BY Zenon, <1>8, <1>9, <1>10, <1>11 DEF FailsSame

\* The calls on their way to the disk, the PUTs of an id among them, and the
\* PUTs whose id is not indexed yet.
Busy == Held \cup Queued \cup Writing
Puts(id) == {r \in Busy : PutOf(r, id)}
Adding(r) == \E t \in Threads : doing[t].at = "addNewId" /\ doing[t].r = r

\* Only this call may come on its way or leave it.
MovesOnly(r) == \A q : q # r => (q \in Busy' <=> q \in Busy)

\* What a sequence names is named by its first element or by the rest.
LEMMA NamesSplit ==
    ASSUME NEW S, NEW K, NEW s \in Seq(S), s # <<>>
    PROVE  \A r \in Names(s, K) : r \in Names(Tail(s), K) \/ (Head(s) \in K /\ r = Head(s).r)
<1> DEFINE t == Tail(s)
<1>1. /\ Head(s) = s[1]
      /\ \A j \in DOMAIN s : j # 1 => j - 1 \in DOMAIN t /\ t[j - 1] = s[j]
  OBVIOUS
<1> HIDE DEF t
<1>2. ASSUME NEW j \in DOMAIN s, s[j] \in K
      PROVE  s[j].r \in Names(t, K) \/ (Head(s) \in K /\ s[j].r = Head(s).r)
  <2>1. CASE j = 1
    BY Zenon, <1>1, <1>2, <2>1
  <2>2. CASE j # 1
    <3>1. PICK m \in DOMAIN t : t[m] = s[j]
      BY Zenon, <1>1, <1>2, <2>2
    <3>2. QED
      BY Zenon, <1>2, <3>1 DEF Names
  <2>3. QED
    BY Zenon, <2>1, <2>2
<1>3. QED
  BY Zenon, <1>2 DEF Names, t

\* The worker takes a call off the queue, or something else.
LEMMA QueueLoses ==
    ASSUME TypeOK, OnePlace, queue # <<>>, queue' = Tail(queue)
    PROVE  /\ Head(queue).op = "call" => Queued' = Queued \ {Head(queue).r}
           /\ Head(queue).op # "call" => Queued' = Queued
<1>1. queue \in Seq(WorkItem) /\ Head(queue) \in WorkItem
  BY DEF TypeOK
<1>2. Head(queue) \in CallItems <=> Head(queue).op = "call"
  BY Zenon, <1>1 DEF CallItems
<1>3. \A r \in Names(queue, CallItems) :
         \/ r \in Names(Tail(queue), CallItems)
         \/ Head(queue) \in CallItems /\ r = Head(queue).r
  BY <1>1, NamesSplit
<1>4. Queued' = Names(Tail(queue), CallItems)
  BY Zenon DEF Queued, Names, CallItems, WorkItem
<1>5. Queued' \subseteq Queued /\ (Head(queue).op = "call" => Head(queue).r \notin Queued')
  BY Zenon, QueueTakes
<1>6. QED
  BY Zenon, <1>2, <1>3, <1>4, <1>5 DEF Queued

\* A thread that has queued its call has it no more; the others keep theirs.
LEMMA ThreadQueues ==
    ASSUME TypeOK, OnePlace, NEW t \in Threads, Holds(t), doing' = [doing EXCEPT ![t] = Free]
    PROVE  Held \subseteq Held' \cup {doing[t].r}
<1>1. /\ doing'[t] = Free
      /\ \A u \in Threads : u # t => doing'[u] = doing[u]
  BY DEF TypeOK
<1>2. \A u \in Threads : u # t => (Holds(u)' <=> Holds(u))
  BY Zenon, <1>1 DEF Holds
<1>3. QED
  BY Zenon, <1>1, <1>2 DEF Held

\* The steps that leave the calls on their way where they are.
LEMMA BusySame ==
    ASSUME TypeOK, CallsMade, OnePlace, [Next]_vars,
           \/ Quiet \/ BeginPurgeLocals \/ OnPurgeTimer \/ RunCallback \/ AssetWriteFailed
           \/ UnindexLocals \/ ScheduleDelete \/ WriteNewAsset \/ RemoveLocalsIndex
           \/ \E t \in Threads : StoreAddNewId(t) \/ StoreEnqueue(t)
    PROVE  Busy' = Busy
<1>1. CASE UNCHANGED <<doing, queue, worker>>
  BY Zenon, <1>1, PlacesSame DEF Busy
<1>2. CASE Quiet
  <2>1. doing' = doing /\ queue' = queue
    BY Zenon, <1>2 DEF Quiet
  <2>2. Writing' = Writing
    <3>1. CASE worker' = worker
      BY Zenon, <3>1, PlacesSame
    <3>2. CASE worker.at = "unlinked" /\ worker' = Idle
      BY <3>2 DEF Writing, Idle
    <3>3. QED
      BY Zenon, <1>2, <3>1, <3>2 DEF Quiet
  <2>3. QED
    BY Zenon, <2>1, <2>2, PlacesSame DEF Busy
<1>3. CASE BeginPurgeLocals \/ RunCallback \/ AssetWriteFailed
  BY Zenon, <1>1, <1>3 DEF BeginPurgeLocals, RunCallback, AssetWriteFailed, RunHandler
<1>4. CASE OnPurgeTimer
  <2>1. PICK x : x = [op |-> "purgeLocals", head |-> purge.next]
    BY Zenon
  <2>2. queue' = Append(queue, x) /\ UNCHANGED <<worker, doing>>
    BY Zenon, <1>4, <2>1 DEF OnPurgeTimer
  <2>3. x \in WorkItem /\ x.op # "call"
    BY <2>1 DEF WorkItem, TypeOK
  <2>4. Queued' = Queued
    BY Zenon, <2>2, <2>3, QueueAddsItem
  <2>5. QED
    BY Zenon, <2>2, <2>4, PlacesSame DEF Busy
<1>5. CASE UnindexLocals
  <2>1. /\ doing["asio"] = Free /\ UNCHANGED <<queue, worker>>
        /\ doing' = [doing EXCEPT !["asio"] = [at |-> "scheduleDelete",
                                               head |-> Head(posted).head]]
    BY Zenon, <1>5 DEF UnindexLocals, RunHandler, Runs
  <2>2. "asio" \in Threads /\ ~Holds("asio")
    BY <2>1 DEF Threads, Holds, Free
  <2>3. Held' = Held
    BY Zenon, <2>1, <2>2, ThreadGoesOn
  <2>4. QED
    BY Zenon, <2>1, <2>3, PlacesSame DEF Busy
<1>6. CASE ScheduleDelete
  <2>1. PICK x : x = [op |-> "deleteLocals", head |-> doing["asio"].head]
    BY Zenon
  <2>2. /\ queue' = Append(queue, x) /\ doing["asio"].at = "scheduleDelete"
        /\ worker' = worker /\ doing' = [doing EXCEPT !["asio"] = Free]
    BY Zenon, <1>6, <2>1 DEF ScheduleDelete
  <2>3. "asio" \in Threads /\ ~Holds("asio") /\ Free.at \notin {"addNewId", "enqueue"}
    BY <2>2 DEF Threads, Holds, Free
  <2>4. Held' = Held
    BY Zenon, <2>2, <2>3, ThreadGoesOn
  <2>5. x \in WorkItem /\ x.op # "call"
    BY ZenonT(60), <2>1, <2>2, <2>3 DEF WorkItem, TypeOK, ThreadStep
  <2>6. Queued' = Queued
    BY Zenon, <2>2, <2>5, QueueAddsItem
  <2>7. QED
    BY Zenon, <2>2, <2>4, <2>6, PlacesSame DEF Busy
<1>7. CASE WriteNewAsset
  <2>1. PICK r : r = Head(queue).r
    OBVIOUS
  <2>2. /\ TakeCall("put") /\ doing' = doing /\ queue # <<>> /\ queue' = Tail(queue)
        /\ Head(queue).op = "call"
        /\ worker = Idle /\ worker' = [at |-> "written", r |-> r]
    BY Zenon, <1>7, <2>1 DEF WriteNewAsset, TakeCall
  <2>3. Queued' = Queued \ {r} /\ r \in Queued
    BY Zenon, <2>1, <2>2, QueueLoses, QueueTakes
  <2>4. Writing' = {r} /\ Writing = {}
    BY <2>2 DEF Writing, Idle
  <2>5. Held' = Held
    BY Zenon, <2>2, PlacesSame
  <2>6. QED
    BY Zenon, <2>3, <2>4, <2>5 DEF Busy
<1>8. CASE RemoveLocalsIndex
  <2>1. /\ queue # <<>> /\ queue' = Tail(queue) /\ Head(queue).op = "deleteLocals"
        /\ worker = Idle /\ worker'.at = "unlinked" /\ doing' = doing
    BY <1>8 DEF RemoveLocalsIndex, TakeItem
  <2>2. Queued' = Queued
    BY <2>1, QueueLoses
  <2>3. Writing' = {} /\ Writing = {}
    BY <2>1 DEF Writing, Idle
  <2>4. QED
    BY Zenon, <2>1, <2>2, <2>3, PlacesSame DEF Busy
<1>9. ASSUME NEW t \in Threads, StoreAddNewId(t) PROVE Busy' = Busy
  <2>1. /\ Holds(t) /\ UNCHANGED <<queue, worker>>
        /\ doing' = [doing EXCEPT ![t] = [at |-> "enqueue", r |-> doing[t].r]]
    BY <1>9 DEF StoreAddNewId, Holds
  <2>2. Held' = Held
    BY Zenon, <2>1, ThreadGoesOn
  <2>3. QED
    BY Zenon, <2>1, <2>2, PlacesSame DEF Busy
<1>10. ASSUME NEW t \in Threads, StoreEnqueue(t) PROVE Busy' = Busy
  <2>1. PICK r : r = doing[t].r
    OBVIOUS
  <2>2. /\ Holds(t) /\ worker' = worker
        /\ queue' = Append(queue, [op |-> "call", r |-> r])
        /\ doing' = [doing EXCEPT ![t] = Free]
    BY <1>10, <2>1 DEF StoreEnqueue, Holds
  <2>3. r \in Held /\ Held' \subseteq Held \ {r} /\ Held \subseteq Held' \cup {r}
    BY Zenon, <2>1, <2>2, ThreadLeaves, ThreadQueues
  <2>4. r \in Reqs /\ r \notin Queued
    BY Zenon, <2>3, PlacesAreCalls DEF OnePlace
  <2>5. Queued' = Queued \cup {r}
    BY Zenon, <2>2, <2>4, QueueAdds
  <2>6. Writing' = Writing
    BY Zenon, <2>2, PlacesSame
  <2>7. QED
    BY Zenon, <2>3, <2>5, <2>6 DEF Busy
<1>11. QED
  BY Zenon, <1>2, <1>3, <1>4, <1>5, <1>6, <1>7, <1>8, <1>9, <1>10

\* The worker serves or fails a call that it takes off the queue.
LEMMA BusyServed ==
    ASSUME TypeOK, CallsMade, OnePlace, queue # <<>>, queue' = Tail(queue),
           UNCHANGED <<doing, worker>>
    PROVE  /\ Head(queue).op = "call" => /\ Busy' = Busy \ {Head(queue).r}
                                         /\ Head(queue).r \in Queued
           /\ Head(queue).op # "call" => Busy' = Busy
<1>1. Held' = Held /\ Writing' = Writing
  BY Zenon, PlacesSame
<1>2. CASE Head(queue).op = "call"
  <2>1. PICK r : r = Head(queue).r
    OBVIOUS
  <2>2. Queued' = Queued \ {r} /\ r \in Queued
    BY Zenon, <1>2, <2>1, QueueLoses, QueueTakes
  <2>3. r \notin Held \cup Writing
    BY Zenon, <2>2 DEF OnePlace
  <2>4. QED
    BY Zenon, <1>1, <1>2, <2>1, <2>2, <2>3 DEF Busy
<1>3. CASE Head(queue).op # "call"
  BY Zenon, <1>1, <1>3, QueueLoses DEF Busy
<1>4. QED
  BY Zenon, <1>2, <1>3

\* A call comes on its way, or is answered at once.
LEMMA BusyAsked ==
    ASSUME TypeOK, CallsMade, OnePlace, NEW r \in Reqs, call[r] = None, worker' = worker,
           doing[ThreadOf(r)] = Free,
           \/ UNCHANGED <<doing, queue>>
           \/ doing' = doing /\ queue' = Append(queue, [op |-> "call", r |-> r])
           \/ /\ queue' = queue
              /\ doing' = [doing EXCEPT
                             ![ThreadOf(r)] = [at |-> "addNewId", r |-> r]]
    PROVE  /\ MovesOnly(r) /\ r \notin Busy
           /\ doing' # doing => Busy' = Busy \cup {r}
<1>1. r \notin Busy
  BY Zenon, FreshCall DEF Busy
<1>2. Writing' = Writing
  BY Zenon, PlacesSame
<1>3. CASE UNCHANGED <<doing, queue>>
  BY Zenon, <1>1, <1>2, <1>3, PlacesSame DEF MovesOnly, Busy
<1>4. CASE doing' = doing /\ queue' = Append(queue, [op |-> "call", r |-> r])
  <2>1. Queued' = Queued \cup {r}
    BY Zenon, <1>1, <1>4, QueueAdds DEF Busy
  <2>2. QED
    BY Zenon, <1>1, <1>2, <1>4, <2>1, PlacesSame DEF MovesOnly, Busy
<1>5. CASE /\ queue' = queue
           /\ doing' = [doing EXCEPT ![ThreadOf(r)] = [at |-> "addNewId", r |-> r]]
  <2>1. Held' = Held \cup {r}
    BY Zenon, <1>5, ThreadTakes
  <2>2. QED
    BY Zenon, <1>1, <1>2, <1>5, <2>1, PlacesSame DEF MovesOnly, Busy
<1>6. QED
  BY Zenon, <1>3, <1>4, <1>5

\* The worker is done with the call it has written.
LEMMA BusyRecorded ==
    ASSUME TypeOK, OnePlace, worker.at = "written", worker' = Idle, UNCHANGED <<doing, queue>>
    PROVE  Busy' = Busy \ {worker.r} /\ worker.r \in Writing
<1>1. PICK r : r = worker.r
  OBVIOUS
<1>2. Writing = {r} /\ Writing' = {}
  BY <1>1 DEF Writing, Idle
<1>3. r \notin Held \cup Queued
  BY Zenon, <1>2 DEF OnePlace
<1>4. QED
  BY Zenon, <1>1, <1>2, <1>3, PlacesSame DEF Busy

\* At most one PUT of an id is on its way, and only while the id is neither
\* stored nor to leave the index after a failed write.  The id is indexed
\* exactly if it is one of these, past the step that adds it.
OneWriter(id) ==
    /\ \A r, q \in Puts(id) : r = q
    /\ Puts(id) # {} => ~Stored(id) /\ ~Failing(id)
    /\ FailsOnce(id)
    /\ Failing(id) => ~Stored(id)
    /\ id \in index <=> Stored(id) \/ Failing(id) \/ \E r \in Puts(id) : ~Adding(r)

\* The existence index while the process lives.
IndexExact == life # "down" => \A id \in Ids : Purged(id) \/ OneWriter(id)

\* Nothing changes for an id.
Same(id) ==
    /\ Puts(id)' = Puts(id)
    /\ \A r \in Puts(id) : Adding(r)' <=> Adding(r)
    /\ FailsSame(id)
    /\ Stored(id)' <=> Stored(id)
    /\ id \in index' <=> id \in index

\* An id for which nothing changes keeps its one writer.
LEMMA SameKeeps ==
    ASSUME NEW id, OneWriter(id), Same(id)
    PROVE  OneWriter(id)'
<1>1. \A r, q \in Puts(id)' : r = q
  BY Zenon DEF OneWriter, Same
<1>2. Puts(id)' # {} => ~Stored(id)' /\ ~Failing(id)'
  BY Zenon DEF OneWriter, Same, FailsSame
<1>3. FailsOnce(id)' /\ (Failing(id)' => ~Stored(id)')
  BY Zenon DEF OneWriter, Same, FailsSame
<1>4. id \in index' <=> Stored(id)' \/ Failing(id)' \/ \E r \in Puts(id)' : ~Adding(r)'
  BY Zenon DEF OneWriter, Same, FailsSame
<1>5. QED
  BY Zenon, <1>1, <1>2, <1>3, <1>4 DEF OneWriter

\* The PUTs of an id change only with the call that moves.
LEMMA PutsMove ==
    ASSUME TypeOK, CallsMade, [Next]_vars, NEW id, NEW r, MovesOnly(r),
           PutOf(r, id) \/ PutOf(r, id)' => (r \in Busy' <=> r \in Busy)
    PROVE  Puts(id)' = Puts(id)
<1>1. ASSUME NEW q \in Busy PROVE PutOf(q, id)' <=> PutOf(q, id)
  <2>1. q \in Reqs /\ call[q] # None
    BY Zenon, <1>1, PlacesAreCalls DEF Busy
  <2>2. call'[q] = call[q]
    BY Zenon, <2>1, CallsGrow
  <2>3. QED
    BY Zenon, <2>2 DEF PutOf
<1>2. ASSUME NEW q \in Puts(id) PROVE q \in Puts(id)'
  <2>1. q \in Busy /\ PutOf(q, id) /\ PutOf(q, id)'
    BY Zenon, <1>1, <1>2 DEF Puts
  <2>2. q \in Busy'
    BY Zenon, <2>1 DEF MovesOnly
  <2>3. QED
    BY Zenon, <2>1, <2>2 DEF Puts
<1>3. ASSUME NEW q \in Puts(id)' PROVE q \in Puts(id)
  <2>1. q \in Busy' /\ PutOf(q, id)'
    BY Zenon, <1>3 DEF Puts
  <2>2. q \in Busy
    BY Zenon, <2>1 DEF MovesOnly
  <2>3. QED
    BY Zenon, <1>1, <2>1, <2>2 DEF Puts
<1>4. QED
  BY Zenon, <1>2, <1>3

\* They do not change if the calls on their way do not.
LEMMA PutsStay ==
    ASSUME TypeOK, CallsMade, [Next]_vars, NEW id, Busy' = Busy
    PROVE  Puts(id)' = Puts(id)
<1>1. ASSUME NEW q \in Busy PROVE PutOf(q, id)' <=> PutOf(q, id)
  <2>1. q \in Reqs /\ call[q] # None
    BY Zenon, <1>1, PlacesAreCalls DEF Busy
  <2>2. call'[q] = call[q]
    BY Zenon, <2>1, CallsGrow
  <2>3. QED
    BY Zenon, <2>2 DEF PutOf
<1>2. QED
  BY Zenon, <1>1 DEF Puts

\* A PUT that is not indexed yet is with its thread.
LEMMA AddingHeld ==
    ASSUME NEW r, Adding(r)
    PROVE  r \in Held
<1>1. PICK t \in Threads : doing[t].at = "addNewId" /\ doing[t].r = r
  BY Zenon DEF Adding
<1>2. Holds(t)
  BY Zenon, <1>1 DEF Holds
<1>3. QED
  BY Zenon, <1>1, <1>2 DEF Held

\* A thread other than one that adds an id goes on to something else.
LEMMA AddingStays ==
    ASSUME TypeOK, NEW t \in Threads, NEW x, doing' = [doing EXCEPT ![t] = x],
           doing[t].at # "addNewId", x.at # "addNewId"
    PROVE  \A r : Adding(r)' <=> Adding(r)
<1>1. doing'[t] = x /\ \A u \in Threads : u # t => doing'[u] = doing[u]
  BY DEF TypeOK
<1>2. QED
  BY Zenon, <1>1 DEF Adding

\* The steps that concern neither the index nor the files.
LEMMA QuietSame ==
    ASSUME BackendInv, [Next]_vars, NEW id \in Ids,
           \/ Quiet \/ BeginPurgeLocals \/ OnPurgeTimer \/ RunCallback \/ ScheduleDelete
           \/ WriteNewAsset \/ \E t \in Threads : StoreEnqueue(t)
    PROVE  Same(id)
<1>1. /\ TypeOK /\ CallsMade /\ OnePlace
  BY Zenon DEF BackendInv, PromiseInv, DiskInv
<1>2. Puts(id)' = Puts(id)
  BY Zenon, <1>1, BusySame, PutsStay
<1>3. \A r : Adding(r)' <=> Adding(r)
  <2>1. CASE doing' = doing
    BY Zenon, <2>1 DEF Adding
  <2>2. CASE ScheduleDelete
    <3>1. /\ doing["asio"].at # "addNewId" /\ doing' = [doing EXCEPT !["asio"] = Free]
          /\ Free.at # "addNewId" /\ "asio" \in Threads
      BY <2>2 DEF ScheduleDelete, Threads, Free
    <3>2. QED
      BY Zenon, <1>1, <3>1, AddingStays
  <2>3. ASSUME NEW t \in Threads, StoreEnqueue(t) PROVE \A r : Adding(r)' <=> Adding(r)
    <3>1. /\ doing[t].at # "addNewId" /\ doing' = [doing EXCEPT ![t] = Free]
          /\ Free.at # "addNewId"
      BY <2>3 DEF StoreEnqueue, Free
    <3>2. QED
      BY Zenon, <1>1, <3>1, AddingStays
  <2>4. QED
    BY Zenon, <2>1, <2>2, <2>3
    DEF Quiet, BeginPurgeLocals, OnPurgeTimer, RunCallback, RunHandler, WriteNewAsset
<1>4. index' = index /\ rows' = rows
  BY Zenon
  DEF Quiet, BeginPurgeLocals, OnPurgeTimer, RunCallback, RunHandler, WriteNewAsset,
      ScheduleDelete, StoreEnqueue
<1>5. FailsSame(id)
  <2>1. WriteFailed(id).h = "assetWriteFailed"
    BY DEF WriteFailed
  <2>2. CASE posted' = posted
    BY Zenon, <1>1, <2>2, FailsStay
  <2>3. CASE posted # <<>> /\ posted' = Tail(posted) /\ Head(posted).h # "assetWriteFailed"
    BY Zenon, <1>1, <2>1, <2>3, FailsStay
  <2>4. CASE Quiet
    <3>1. CASE posted # <<>> /\ Head(posted).h = "ioLoopFailed" /\ posted' = Tail(posted)
      BY Zenon, <2>3, <3>1
    <3>2. ASSUME NEW x \in Handler, x.h = "ioLoopFailed", posted' = Append(posted, x)
          PROVE  FailsSame(id)
      BY Zenon, <1>1, <3>2, FailsStay
    <3>3. QED
      BY Zenon, <2>2, <2>4, <3>1, <3>2 DEF Quiet
  <2>5. CASE RunCallback
    BY Zenon, <2>3, <2>5 DEF RunCallback, RunHandler
  <2>6. QED
    BY Zenon, <2>2, <2>4, <2>5
    DEF BeginPurgeLocals, OnPurgeTimer, WriteNewAsset, ScheduleDelete, StoreEnqueue
<1>6. QED
  BY Zenon, <1>2, <1>3, <1>4, <1>5 DEF Same, Stored

\* A purge takes only ids of purged assets out of the index and off the disk.
LEMMA PurgeSame ==
    ASSUME BackendInv, [Next]_vars, NEW id \in Ids, ~Purged(id)',
           UnindexLocals \/ RemoveLocalsIndex
    PROVE  Same(id)
<1>1. /\ TypeOK /\ CallsMade /\ OnePlace /\ PurgeBegun /\ RowsGenuine
  BY Zenon DEF BackendInv, PromiseInv, DiskInv
<1>2. Puts(id)' = Puts(id)
  BY Zenon, <1>1, BusySame, PutsStay
<1>3. ~Purged(id)
  BY Zenon, <1>1, PurgedStays
<1>4. WriteFailed(id).h = "assetWriteFailed"
  BY DEF WriteFailed
<1>5. CASE UnindexLocals
  <2>1. PICK x, y : x = Head(posted)
                    /\ y = [at |-> "scheduleDelete", head |-> Head(posted).head]
    BY Zenon
  <2>2. /\ posted # <<>> /\ posted' = Tail(posted) /\ x.h = "unindexLocals"
        /\ index' = index \ x.ids /\ rows' = rows
        /\ doing["asio"] = Free /\ doing' = [doing EXCEPT !["asio"] = y]
    BY Zenon, <1>5, <2>1 DEF UnindexLocals, RunHandler, Runs
  <2>3. 1 \in DOMAIN posted /\ x = posted[1]
    BY SMTT(60), <1>1, <2>1, <2>2 DEF TypeOK
  <2>4. id \notin x.ids
    BY Zenon, <1>1, <1>3, <2>2, <2>3 DEF PurgeBegun
  <2>5. FailsSame(id)
    BY Zenon, <1>1, <1>4, <2>1, <2>2, FailsStay
  <2>6. Free.at # "addNewId" /\ y.at # "addNewId" /\ "asio" \in Threads
    BY <2>1 DEF Free, Threads
  <2>7. \A r : Adding(r)' <=> Adding(r)
    BY Zenon, <1>1, <2>2, <2>6, AddingStays
  <2>8. QED
    BY Zenon, <1>2, <2>2, <2>4, <2>5, <2>7 DEF Same, Stored
<1>6. CASE RemoveLocalsIndex
  <2>1. UNCHANGED <<posted, doing, index>>
    BY Zenon, <1>6 DEF RemoveLocalsIndex
  <2>2. \A db \in Dbs : rows'[db][id] = rows[db][id]
    BY Zenon, <1>1, <1>3, <1>6, RowsRemoved
  <2>3. FailsSame(id)
    BY Zenon, <1>1, <2>1, FailsStay
  <2>4. QED
    BY Zenon, <1>2, <2>1, <2>2, <2>3 DEF Same, Stored, Adding
<1>7. QED
  BY Zenon, <1>5, <1>6

\* The worker serves a request that is no PUT.
LEMMA ServedSame ==
    ASSUME BackendInv, [Next]_vars, NEW id \in Ids, Served
    PROVE  Same(id)
<1>1. /\ TypeOK /\ CallsMade /\ OnePlace
  BY Zenon DEF BackendInv, PromiseInv, DiskInv
<1>2. /\ queue # <<>> /\ queue' = Tail(queue) /\ UNCHANGED <<call, index, rows, worker, doing>>
      /\ Head(queue).op = "call" => call[Head(queue).r].op # "put"
  BY Zenon DEF Served
<1>3. Puts(id)' = Puts(id)
  <2>1. CASE Head(queue).op # "call"
    BY Zenon, <1>1, <1>2, <2>1, BusyServed, PutsStay
  <2>2. CASE Head(queue).op = "call"
    <3>1. PICK r : r = Head(queue).r
      OBVIOUS
    <3>2. Busy' = Busy \ {r} /\ call'[r].op # "put" /\ call[r].op # "put"
      BY Zenon, <1>1, <1>2, <2>2, <3>1, BusyServed
    <3>3. MovesOnly(r) /\ ~PutOf(r, id) /\ ~PutOf(r, id)'
      BY Zenon, <3>2 DEF MovesOnly, PutOf
    <3>4. QED
      BY Zenon, <1>1, <3>3, PutsMove
  <2>3. QED
    BY Zenon, <2>1, <2>2
<1>4. FailsSame(id)
  BY Zenon, <1>1, FailsStay DEF Served
<1>5. QED
  BY Zenon, <1>2, <1>3, <1>4 DEF Same, Stored, Adding

\* A call that is not a PUT of this id changes nothing for it.
LEMMA AskedSame ==
    ASSUME BackendInv, [Next]_vars, NEW id \in Ids, NEW r \in Reqs, NEW i \in Ids,
           \/ GetAsset(r, i)
           \/ \E db \in Dbs : StoreAsset(r, i, db) /\ (i # id \/ i \in index)
           \/ \E op \in {"purge", "status", "list"} : QueueOnly(r, op, i)
    PROVE  Same(id)
<1>1. /\ TypeOK /\ CallsMade /\ OnePlace
  BY Zenon DEF BackendInv, PromiseInv, DiskInv
<1>2. ASSUME NEW op, NEW db, Begin(r, op, i, db)
      PROVE  /\ call[r] = None /\ doing[ThreadOf(r)] = Free
             /\ call'[r].op = op /\ call'[r].id = i
  BY Zenon, <1>1, <1>2 DEF Begin, Runs, TypeOK
<1>3. call[r] = None /\ doing[ThreadOf(r)] = Free /\ UNCHANGED <<index, rows, worker>>
  BY Zenon, <1>2 DEF GetAsset, StoreAsset, QueueOnly
<1>4. ASSUME UNCHANGED <<doing, queue>>, NEW res,
             posted' = Append(posted, Answer(r, res, {}))
      PROVE  Same(id)
  <2>1. Answer(r, res, {}).h # "assetWriteFailed"
    BY DEF Answer
  <2>2. FailsSame(id)
    BY Zenon, <1>1, <1>4, <2>1, FailsStay
  <2>3. Busy' = Busy
    BY Zenon, <1>1, <1>3, <1>4, PlacesSame DEF Busy
  <2>4. QED
    BY Zenon, <1>1, <1>3, <1>4, <2>2, <2>3, PutsStay DEF Same, Stored, Adding
<1>5. ASSUME UNCHANGED <<doing, posted>>, call'[r].op # "put",
             queue' = Append(queue, [op |-> "call", r |-> r])
      PROVE  Same(id)
  <2>1. MovesOnly(r)
    BY Zenon, <1>1, <1>3, <1>5, BusyAsked
  <2>2. ~PutOf(r, id) /\ ~PutOf(r, id)'
    BY Zenon, <1>3, <1>5 DEF PutOf
  <2>3. Puts(id)' = Puts(id)
    BY Zenon, <1>1, <2>1, <2>2, PutsMove
  <2>4. FailsSame(id)
    BY Zenon, <1>1, <1>5, FailsStay
  <2>5. QED
    BY Zenon, <1>3, <1>5, <2>3, <2>4 DEF Same, Stored, Adding
<1>6. ASSUME UNCHANGED <<queue, posted>>, call'[r].id # id,
             doing' = [doing EXCEPT ![ThreadOf(r)] = [at |-> "addNewId", r |-> r]]
      PROVE  Same(id)
  <2>1. MovesOnly(r) /\ r \notin Busy
    BY Zenon, <1>1, <1>3, <1>6, BusyAsked
  <2>2. ~PutOf(r, id) /\ ~PutOf(r, id)'
    BY Zenon, <1>3, <1>6 DEF PutOf
  <2>3. Puts(id)' = Puts(id)
    BY Zenon, <1>1, <2>1, <2>2, PutsMove
  <2>4. FailsSame(id)
    BY Zenon, <1>1, <1>6, FailsStay
  <2>5. PICK t : t = ThreadOf(r)
    OBVIOUS
  <2>6. /\ doing'[t].at = "addNewId" /\ doing'[t].r = r /\ doing[t].at # "addNewId"
        /\ \A u \in Threads : u # t => doing'[u] = doing[u]
    <3>1. t \in Threads /\ Free.at # "addNewId" /\ doing[t] = Free
      BY <1>3, <2>5 DEF Free, ThreadOf, Threads
    <3>2. doing' = [doing EXCEPT ![t] = [at |-> "addNewId", r |-> r]]
      BY Zenon, <1>6, <2>5
    <3>3. doing'[t] = [at |-> "addNewId", r |-> r] /\ \A u \in Threads : u # t => doing'[u] = doing[u]
      BY ZenonT(60), <1>1, <3>1, <3>2 DEF TypeOK
    <3>4. doing'[t].at = "addNewId" /\ doing'[t].r = r
      BY <3>3
    <3>5. QED
      BY Zenon, <3>1, <3>3, <3>4
  <2>7. \A q \in Puts(id) : Adding(q)' <=> Adding(q)
    BY Zenon, <2>1, <2>6 DEF Adding, Puts
  <2>8. QED
    BY Zenon, <1>3, <2>3, <2>4, <2>7 DEF Same, Stored
<1>7. "get" # "put" /\ "purge" # "put" /\ "status" # "put" /\ "list" # "put"
  OBVIOUS
<1>8. CASE GetAsset(r, i)
  BY Zenon, <1>2, <1>4, <1>5, <1>7, <1>8 DEF GetAsset
<1>9. ASSUME NEW db \in Dbs, StoreAsset(r, i, db), i # id \/ i \in index PROVE Same(id)
  BY Zenon, <1>2, <1>4, <1>6, <1>9 DEF StoreAsset
<1>10. ASSUME NEW op \in {"purge", "status", "list"}, QueueOnly(r, op, i) PROVE Same(id)
  BY Zenon, <1>2, <1>5, <1>7, <1>10 DEF QueueOnly
<1>11. QED
  BY Zenon, <1>8, <1>9, <1>10

\* The first PUT of an id is its writer.
LEMMA AskedOnce ==
    ASSUME BackendInv, [Next]_vars, PullReqs = {}, NEW id \in Ids, OneWriter(id),
           NEW r \in Reqs, NEW db \in Dbs, StoreAsset(r, id, db), id \notin index
    PROVE  OneWriter(id)'
<1>1. /\ TypeOK /\ CallsMade /\ OnePlace
  BY Zenon DEF BackendInv, PromiseInv, DiskInv
<1>2. /\ call[r] = None /\ doing[ThreadOf(r)] = Free
      /\ UNCHANGED <<index, rows, worker, queue, posted>>
      /\ doing' = [doing EXCEPT ![ThreadOf(r)] = [at |-> "addNewId", r |-> r]]
  BY Zenon DEF StoreAsset, Begin, Runs
<1>3. call'[r] = [op |-> "put", id |-> id, db |-> db]
  BY <1>1 DEF StoreAsset, Begin, TypeOK
<1>4. PutOf(r, id)'
  <2>1. call'[r] # None /\ call'[r].op = "put" /\ call'[r].id = id
    BY SMTT(60), <1>3, ConstantsAssumption DEF Call, CallOps
  <2>2. QED
    BY Zenon, <2>1 DEF PutOf
<1>5. /\ doing'["asio"].at = "addNewId" /\ doing'["asio"].r = r /\ "asio" \in Threads
      /\ doing["asio"].at # "addNewId" /\ doing["asio"].at # "enqueue"
  <2>1. ThreadOf(r) = "asio"
    BY Zenon, <1>1, AsioStores
  <2>2. QED
    BY SMTT(60), <1>1, <1>2, <2>1 DEF TypeOK, Threads, Free
<1>6. Held = {}
  <2>1. ~Holds("asio")
    BY Zenon, <1>5 DEF Holds
  <2>2. QED
    BY Zenon, <1>1, <2>1, AsioStores DEF Held
<1>7. ~Stored(id) /\ ~Failing(id) /\ Puts(id) = {}
  BY Zenon, <1>6, AddingHeld DEF OneWriter
<1>8. MovesOnly(r) /\ r \notin Busy /\ Busy' = Busy \cup {r}
  <2>1. doing' # doing
    BY Zenon, <1>5
  <2>2. QED
    BY Zenon, <1>1, <1>2, <2>1, BusyAsked
<1>9. Puts(id)' = {r}
  <2>1. ASSUME NEW q \in Busy PROVE ~PutOf(q, id)'
    <3>1. q \in Reqs /\ call[q] # None
      BY Zenon, <1>1, <2>1, PlacesAreCalls DEF Busy
    <3>2. call'[q] = call[q]
      BY Zenon, <1>1, <3>1, CallsGrow
    <3>3. QED
      BY Zenon, <1>7, <3>2, <2>1 DEF PutOf, Puts
  <2>2. QED
    BY Zenon, <1>4, <1>8, <2>1 DEF Puts
<1>10. Adding(r)'
  BY Zenon, <1>5 DEF Adding
<1>11. FailsSame(id) /\ (Stored(id)' <=> Stored(id))
  BY Zenon, <1>1, <1>2, FailsStay DEF Stored
<1>12. FailsOnce(id)
  BY Zenon DEF OneWriter
<1>13. QED
  BY Zenon, <1>2, <1>7, <1>9, <1>10, <1>11, <1>12 DEF OneWriter, FailsSame

\* The id of the PUT that a thread stores enters the index.
LEMMA AddedOnce ==
    ASSUME BackendInv, [Next]_vars, NEW id \in Ids, OneWriter(id),
           NEW t \in Threads, StoreAddNewId(t)
    PROVE  OneWriter(id)'
<1>1. /\ TypeOK /\ CallsMade /\ OnePlace /\ HeldPuts
  BY Zenon DEF BackendInv, PromiseInv, DiskInv
<1>2. PICK r : r = doing[t].r
  OBVIOUS
<1>3. /\ Holds(t) /\ doing[t].at = "addNewId" /\ UNCHANGED <<posted, rows, call>>
      /\ index' = index \cup {call[r].id}
  BY Zenon, <1>2 DEF StoreAddNewId, Holds
<1>4. /\ doing'[t].at = "enqueue" /\ \A u \in Threads : u # t => doing'[u] = doing[u]
  BY <1>1, <1>2 DEF StoreAddNewId, TypeOK
<1>5. r \in Held /\ call[r].op = "put" /\ call[r] # None
  <2>1. r \in Held
    BY Zenon, <1>2, <1>3 DEF Held
  <2>2. QED
    BY Zenon, <1>1, <2>1, PlacesAreCalls DEF HeldPuts
<1>6. \A u \in Threads : Holds(u) /\ doing[u].r = r => u = t
  BY Zenon, <1>1, <1>2, <1>3 DEF OnePlace
<1>7. ~Adding(r)'
  <2>1. ASSUME NEW u \in Threads, doing'[u].at = "addNewId", doing'[u].r = r PROVE FALSE
    <3>1. u # t
      BY <1>4, <2>1
    <3>2. doing[u].at = "addNewId" /\ doing[u].r = r
      BY Zenon, <1>4, <2>1, <3>1
    <3>3. QED
      BY Zenon, <1>6, <3>1, <3>2 DEF Holds
  <2>2. QED
    BY Zenon, <2>1 DEF Adding
<1>8. ASSUME NEW q, q # r PROVE Adding(q)' <=> Adding(q)
  <2>1. "enqueue" # "addNewId"
    OBVIOUS
  <2>2. QED
    BY Zenon, <1>2, <1>4, <1>8, <2>1 DEF Adding
<1>9. Puts(id)' = Puts(id) /\ FailsSame(id) /\ (Stored(id)' <=> Stored(id))
  <2>1. Puts(id)' = Puts(id)
    BY Zenon, <1>1, BusySame, PutsStay
  <2>2. QED
    BY Zenon, <1>1, <1>3, <2>1, FailsStay DEF Stored
<1>10. CASE call[r].id # id
  <2>1. r \notin Puts(id)
    BY Zenon, <1>10 DEF Puts, PutOf
  <2>2. Same(id)
    BY Zenon, <1>3, <1>8, <1>9, <1>10, <2>1 DEF Same
  <2>3. QED
    BY Zenon, <2>2, SameKeeps
<1>11. CASE call[r].id = id
  <2>1. r \in Puts(id)
    BY Zenon, <1>5, <1>11 DEF Puts, PutOf, Busy
  <2>2. id \in index'
    BY Zenon, <1>3, <1>11
  <2>3. \E q \in Puts(id)' : ~Adding(q)'
    BY Zenon, <1>7, <1>9, <2>1
  <2>4. QED
    BY Zenon, <1>9, <2>1, <2>2, <2>3 DEF OneWriter, FailsSame
<1>12. QED
  BY Zenon, <1>10, <1>11

\* The PUT of an id that leaves its way, not counting the step that adds it.
LEMMA OnlyWriter ==
    ASSUME BackendInv, [Next]_vars, NEW id, OneWriter(id), NEW r \in Queued \cup Writing,
           PutOf(r, id), Busy' = Busy \ {r}
    PROVE  Puts(id)' = {} /\ id \in index /\ ~Stored(id) /\ ~Failing(id)
<1>1. /\ TypeOK /\ CallsMade /\ OnePlace
  BY Zenon DEF BackendInv, PromiseInv, DiskInv
<1>2. r \in Puts(id)
  BY Zenon DEF Puts, Busy
<1>3. ~Adding(r)
  <2>1. r \notin Held
    BY Zenon, <1>1 DEF OnePlace
  <2>2. QED
    BY Zenon, <2>1, AddingHeld
<1>4. ASSUME NEW q \in Puts(id)' PROVE FALSE
  <2>1. q \in Busy /\ q # r /\ PutOf(q, id)'
    BY Zenon, <1>4 DEF Puts
  <2>2. q \in Reqs /\ call[q] # None
    BY Zenon, <1>1, <2>1, PlacesAreCalls DEF Busy
  <2>3. call'[q] = call[q]
    BY Zenon, <1>1, <2>2, CallsGrow
  <2>4. q \in Puts(id)
    BY Zenon, <2>1, <2>3 DEF Puts, PutOf
  <2>5. QED
    BY Zenon, <1>2, <2>1, <2>4 DEF OneWriter
<1>5. QED
  BY Zenon, <1>2, <1>3, <1>4 DEF OneWriter

\* A PUT that fails: its id, no other, is to leave the index.
LEMMA FailedOnce ==
    ASSUME BackendInv, [Next]_vars, NEW id \in Ids, OneWriter(id),
           NEW r \in Queued \cup Writing, Busy' = Busy \ {r},
           call[r].op = "put", UNCHANGED <<call, index, rows, doing>>,
           posted' = posted \o <<[h |-> "assetWriteFailed", id |-> call[r].id],
                                 Answer(r, "failed", {})>>
    PROVE  OneWriter(id)'
<1>1. /\ TypeOK /\ CallsMade /\ OnePlace
  BY Zenon DEF BackendInv, PromiseInv, DiskInv
<1>2. r \in Reqs /\ call[r] # None /\ call[r] \in Call
  BY Zenon, <1>1, PlacesAreCalls
<1>3. PICK i : i = call[r].id
  BY Zenon
<1>4. i \in Ids
  BY <1>2, <1>3, ConstantsAssumption DEF Call
<1>5. posted' = posted \o <<[h |-> "assetWriteFailed", id |-> i], Answer(r, "failed", {})>>
  BY Zenon, <1>3
<1>6. CASE i # id
  <2>1. ~PutOf(r, id) /\ ~PutOf(r, id)' /\ MovesOnly(r)
    BY Zenon, <1>3, <1>6 DEF PutOf, MovesOnly
  <2>2. Puts(id)' = Puts(id)
    BY Zenon, <1>1, <2>1, PutsMove
  <2>3. FailsSame(id)
    BY Zenon, <1>1, <1>2, <1>4, <1>5, <1>6, FailPosted
  <2>4. Same(id)
    BY Zenon, <2>2, <2>3 DEF Same, Stored, Adding
  <2>5. QED
    BY Zenon, <2>4, SameKeeps
<1>7. CASE i = id
  <2>1. PutOf(r, id)
    BY Zenon, <1>2, <1>3, <1>7 DEF PutOf
  <2>2. Puts(id)' = {} /\ id \in index /\ ~Stored(id) /\ ~Failing(id)
    BY Zenon, <2>1, OnlyWriter
  <2>3. Failing(id)' /\ FailsOnce(id)'
    BY Zenon, <1>1, <1>2, <1>4, <1>5, <1>7, <2>2, FailPosted
  <2>4. ~Stored(id)'
    BY Zenon, <2>2 DEF Stored
  <2>5. QED
    BY Zenon, <2>2, <2>3, <2>4 DEF OneWriter
<1>8. QED
  BY Zenon, <1>6, <1>7

\* The worker takes a PUT off the queue and fails it, or is done with one.
LEMMA WorkerOnce ==
    ASSUME BackendInv, [Next]_vars, "storage" \notin Faults, NEW id \in Ids, OneWriter(id),
           WriteRejected \/ WriteThrows \/ RecordAssetPosition \/ RecordThrows
    PROVE  OneWriter(id)'
<1>1. /\ TypeOK /\ CallsMade /\ OnePlace /\ WorkerKnows
  BY Zenon DEF BackendInv, PromiseInv, DiskInv
<1>2. CASE WriteRejected
  <2>1. PICK r : r = Head(queue).r
    OBVIOUS
  <2>2. /\ queue # <<>> /\ queue' = Tail(queue) /\ Head(queue).op = "call"
        /\ call[r].op = "put" /\ rows[call[r].db][call[r].id] # None
        /\ posted' = Append(posted, Answer(r, "failed", {}))
        /\ UNCHANGED <<call, index, rows, doing, worker>>
    BY Zenon, <1>2, <2>1 DEF WriteRejected, TakeCall, DbFor
  <2>3. Busy' = Busy \ {r} /\ r \in Queued
    BY Zenon, <1>1, <2>1, <2>2, BusyServed
  <2>4. r \in Reqs /\ call[r] # None /\ call[r] \in Call
    BY Zenon, <1>1, <2>3, PlacesAreCalls
  <2>5. call[r].db \in Dbs
    BY <2>4, ConstantsAssumption DEF Call
  <2>6. ~PutOf(r, id)
    <3>1. ASSUME PutOf(r, id) PROVE FALSE
      <4>1. Stored(id)
        BY Zenon, <2>2, <2>5, <3>1 DEF Stored, PutOf
      <4>2. QED
        BY Zenon, <2>3, <3>1, <4>1, OnlyWriter
    <3>2. QED
      BY Zenon, <3>1
  <2>7. ~PutOf(r, id)' /\ MovesOnly(r)
    BY Zenon, <2>2, <2>3, <2>6 DEF PutOf, MovesOnly
  <2>8. Puts(id)' = Puts(id)
    BY Zenon, <1>1, <2>6, <2>7, PutsMove
  <2>9. Answer(r, "failed", {}).h # "assetWriteFailed"
    BY DEF Answer
  <2>10. FailsSame(id)
    BY Zenon, <1>1, <2>2, <2>9, FailsStay
  <2>11. Same(id)
    BY Zenon, <2>2, <2>8, <2>10 DEF Same, Stored, Adding
  <2>12. QED
    BY Zenon, <2>11, SameKeeps
<1>3. CASE WriteThrows
  <2>1. PICK r : r = Head(queue).r
    OBVIOUS
  <2>2. /\ queue # <<>> /\ queue' = Tail(queue) /\ Head(queue).op = "call"
        /\ call[r].op = "put" /\ UNCHANGED <<call, index, rows, doing, worker>>
        /\ posted' = posted \o <<[h |-> "assetWriteFailed", id |-> call[r].id],
                                 Answer(r, "failed", {})>>
    BY Zenon, <1>3, <2>1 DEF WriteThrows, TakeCall
  <2>3. Busy' = Busy \ {r} /\ r \in Queued
    BY Zenon, <1>1, <2>1, <2>2, BusyServed
  <2>4. QED
    BY Zenon, <2>2, <2>3, FailedOnce
<1>4. CASE RecordThrows
  <2>1. PICK r : r = worker.r
    OBVIOUS
  <2>2. /\ worker.at = "written" /\ worker' = Idle /\ UNCHANGED <<call, index, rows, doing, queue>>
        /\ posted' = posted \o <<[h |-> "assetWriteFailed", id |-> call[r].id],
                                 Answer(r, "failed", {})>>
    BY Zenon, <1>4, <2>1 DEF RecordThrows
  <2>3. Busy' = Busy \ {r} /\ r \in Writing
    BY Zenon, <1>1, <2>1, <2>2, BusyRecorded
  <2>4. call[r].op = "put"
    BY <1>1, <2>1, <2>2 DEF WorkerKnows
  <2>5. QED
    BY Zenon, <2>2, <2>3, <2>4, FailedOnce
<1>5. CASE RecordAssetPosition
  <2>1. PICK r : r = worker.r
    OBVIOUS
  <2>2. /\ worker.at = "written" /\ worker' = Idle /\ UNCHANGED <<call, index, doing, queue>>
        /\ posted' = Append(posted, Answer(r, "ok", {}))
    BY Zenon, <1>5, <2>1 DEF RecordAssetPosition
  <2>3. Busy' = Busy \ {r} /\ r \in Writing
    BY Zenon, <1>1, <2>1, <2>2, BusyRecorded
  <2>4. /\ r \in Reqs /\ call[r] # None /\ call[r].op = "put" /\ call[r] \in Call
        /\ \A db \in Dbs, i \in Ids :
              rows'[db][i] = IF db = call[r].db /\ i = call[r].id THEN r ELSE rows[db][i]
    BY Zenon, <1>1, <1>5, <2>1, RowInserted
  <2>5. Answer(r, "ok", {}).h # "assetWriteFailed"
    BY DEF Answer
  <2>6. FailsSame(id)
    BY Zenon, <1>1, <2>2, <2>5, FailsStay
  <2>7. CASE call[r].id # id
    <3>1. ~PutOf(r, id) /\ ~PutOf(r, id)' /\ MovesOnly(r)
      BY Zenon, <2>2, <2>3, <2>7 DEF PutOf, MovesOnly
    <3>2. Puts(id)' = Puts(id)
      BY Zenon, <1>1, <3>1, PutsMove
    <3>3. Stored(id)' <=> Stored(id)
      BY Zenon, <2>4, <2>7 DEF Stored
    <3>4. Same(id)
      BY Zenon, <2>2, <2>6, <3>2, <3>3 DEF Same, Adding
    <3>5. QED
      BY Zenon, <3>4, SameKeeps
  <2>8. CASE call[r].id = id
    <3>1. PutOf(r, id)
      BY Zenon, <2>4, <2>8 DEF PutOf
    <3>2. Puts(id)' = {} /\ id \in index /\ ~Stored(id) /\ ~Failing(id)
      BY Zenon, <2>3, <3>1, OnlyWriter
    <3>3. call[r].db \in Dbs /\ r # None
      BY <2>4, ConstantsAssumption DEF Call
    <3>4. Stored(id)'
      BY Zenon, <2>4, <2>8, <3>3 DEF Stored
    <3>5. FailsOnce(id)' /\ ~Failing(id)'
      BY Zenon, <2>6, <3>2 DEF OneWriter, FailsSame
    <3>6. QED
      BY Zenon, <2>2, <3>2, <3>4, <3>5 DEF OneWriter
  <2>9. QED
    BY Zenon, <2>7, <2>8
<1>6. QED
  BY Zenon, <1>2, <1>3, <1>4, <1>5

\* The id of a failed write leaves the index.
LEMMA UnindexedOnce ==
    ASSUME BackendInv, [Next]_vars, NEW id \in Ids, OneWriter(id), AssetWriteFailed
    PROVE  OneWriter(id)'
<1>1. /\ TypeOK /\ CallsMade /\ OnePlace
  BY Zenon DEF BackendInv, PromiseInv, DiskInv
<1>2. PICK x : x = Head(posted)
  OBVIOUS
<1>3. /\ posted # <<>> /\ posted' = Tail(posted) /\ x.h = "assetWriteFailed"
      /\ index' = index \ {x.id} /\ UNCHANGED <<rows, doing>>
  BY Zenon, <1>2 DEF AssetWriteFailed, RunHandler
<1>4. x = WriteFailed(id) <=> x.id = id
  <2>1. x \in Handler
    BY SMTT(60), <1>1, <1>2, <1>3 DEF TypeOK
  <2>2. QED
    BY SMTT(60), <1>3, <2>1 DEF Handler, WriteFailed
<1>5. Puts(id)' = Puts(id)
  BY Zenon, <1>1, BusySame, PutsStay
<1>6. CASE x.id # id
  <2>1. FailsSame(id)
    BY Zenon, <1>1, <1>2, <1>3, <1>4, <1>6, FailsStay
  <2>2. Same(id)
    BY Zenon, <1>3, <1>5, <1>6, <2>1 DEF Same, Stored, Adding
  <2>3. QED
    BY Zenon, <2>2, SameKeeps
<1>7. CASE x.id = id
  <2>1. Failing(id) /\ (FailsOnce(id) => FailsOnce(id)' /\ ~Failing(id)')
    BY Zenon, <1>1, <1>2, <1>3, <1>4, <1>7, FailHandled
  <2>2. Puts(id)' = {} /\ ~Stored(id)'
    BY Zenon, <1>3, <1>5, <2>1 DEF OneWriter, Stored
  <2>3. id \notin index'
    BY Zenon, <1>3, <1>7
  <2>4. QED
    BY Zenon, <2>1, <2>2, <2>3 DEF OneWriter
<1>8. QED
  BY Zenon, <1>6, <1>7

\* With nothing on its way the index is exact if it names what is stored.
LEMMA NothingBusy ==
    ASSUME queue = <<>>, posted = <<>>, worker = Idle, \A t \in Threads : doing[t] = Free,
           NEW id
    PROVE  /\ Puts(id) = {} /\ ~Failing(id) /\ FailsOnce(id)
           /\ OneWriter(id) <=> (id \in index <=> Stored(id))
<1>1. DOMAIN posted = {} /\ DOMAIN queue = {}
  OBVIOUS
<1>2. Held = {} /\ Writing = {}
  BY DEF Held, Holds, Free, Writing, Idle
<1>3. Queued = {}
  BY Zenon, <1>1 DEF Queued, Names
<1>4. Puts(id) = {}
  BY Zenon, <1>2, <1>3 DEF Puts, Busy
<1>5. ~Failing(id) /\ FailsOnce(id)
  BY Zenon, <1>1 DEF Failing, FailsOnce, Has, HasOnce
<1>6. QED
  BY Zenon, <1>4, <1>5 DEF OneWriter

\* A process that comes up reads the index from the files.
LEMMA RestartOnce ==
    ASSUME DownEmpty, Restart, NEW id \in Ids
    PROVE  OneWriter(id)'
<1>1. /\ index' = {i \in Ids : Stored(i)} /\ rows' = rows
      /\ queue' = <<>> /\ posted' = <<>> /\ worker' = Idle
      /\ \A t \in Threads : doing'[t] = Free
  BY Zenon DEF DownEmpty, Restart
<1>2. DOMAIN posted' = {} /\ DOMAIN queue' = {}
  BY <1>1
<1>3. Held' = {} /\ Writing' = {}
  BY <1>1 DEF Held, Holds, Free, Writing, Idle
<1>4. Queued' = {}
  BY Zenon, <1>2 DEF Queued, Names
<1>5. Puts(id)' = {}
  BY Zenon, <1>3, <1>4 DEF Puts, Busy
<1>6. ~Failing(id)' /\ FailsOnce(id)'
  BY Zenon, <1>2 DEF Failing, FailsOnce, Has, HasOnce
<1>7. id \in index' <=> Stored(id)'
  BY Zenon, <1>1 DEF Stored
<1>8. QED
  BY Zenon, <1>5, <1>6, <1>7 DEF OneWriter

\* A process that was down comes up by a restart.
LEMMA ComesUp ==
    ASSUME TypeOK, CallsMade, [Next]_vars, life = "down", life' # "down"
    PROVE  Restart
<1>1. CASE Quiet \/ Served
  BY Zenon, <1>1 DEF Quiet, Served
<1>2. CASE Asks
  BY Zenon, <1>2 DEF Asks, GetAsset, StoreAsset, QueueOnly, Begin, Runs
<1>3. ASSUME NEW t \in Threads, StoreAddNewId(t) \/ StoreEnqueue(t) PROVE FALSE
  BY Zenon, <1>3 DEF StoreAddNewId, StoreEnqueue
<1>4. CASE \/ BeginPurgeLocals \/ OnPurgeTimer \/ RunCallback \/ AssetWriteFailed
           \/ UnindexLocals \/ ScheduleDelete \/ ProcessEnds
  BY Zenon, <1>4
  DEF BeginPurgeLocals, OnPurgeTimer, RunCallback, AssetWriteFailed, UnindexLocals,
      RunHandler, Runs, ScheduleDelete, ProcessEnds
<1>5. CASE \/ WriteNewAsset \/ WriteRejected \/ WriteThrows
           \/ RecordAssetPosition \/ RecordThrows \/ RemoveLocalsIndex
  BY <1>5
  DEF WriteNewAsset, WriteRejected, WriteThrows, RecordAssetPosition,
      RecordThrows, RemoveLocalsIndex, TakeCall, TakeItem
<1>6. QED
  BY Zenon, <1>1, <1>2, <1>3, <1>4, <1>5, Sorted DEF Others

\* Every step keeps IndexExact.
LEMMA ExactStep ==
    ASSUME BackendInv, IndexExact, [Next]_vars, PullReqs = {}, "storage" \notin Faults
    PROVE  IndexExact'
<1>1. /\ TypeOK /\ CallsMade /\ DownEmpty
  BY Zenon DEF BackendInv, PromiseInv, DiskInv
<1> SUFFICES ASSUME life' # "down", NEW id \in Ids, ~Purged(id)'
             PROVE  OneWriter(id)'
  BY Zenon DEF IndexExact
<1>2. CASE Restart
  BY Zenon, <1>1, <1>2, RestartOnce
<1>3. CASE life # "down"
  <2>1. OneWriter(id)
    BY Zenon, <1>1, <1>3, PurgedStays DEF IndexExact
  <2>2. CASE Same(id)
    BY Zenon, <2>1, <2>2, SameKeeps
  <2>3. CASE Quiet \/ Served
    BY Zenon, <2>2, <2>3, QuietSame, ServedSame
  <2>4. CASE Asks
    <3>1. ASSUME NEW r \in Reqs, NEW i \in Ids, NEW db \in Dbs, StoreAsset(r, i, db)
          PROVE  OneWriter(id)'
      <4>1. CASE i # id \/ i \in index
        BY Zenon, <2>2, <3>1, <4>1, AskedSame
      <4>2. CASE i = id /\ i \notin index
        BY Zenon, <2>1, <3>1, <4>2, AskedOnce
      <4>3. QED
        BY Zenon, <4>1, <4>2
    <3>2. ASSUME NEW r \in Reqs, NEW i \in Ids,
                 GetAsset(r, i) \/ \E op \in {"purge", "status", "list"} : QueueOnly(r, op, i)
          PROVE  OneWriter(id)'
      BY Zenon, <2>2, <3>2, AskedSame
    <3>3. QED
      BY Zenon, <2>4, <3>1, <3>2 DEF Asks
  <2>5. CASE \/ BeginPurgeLocals \/ OnPurgeTimer \/ RunCallback \/ ScheduleDelete
             \/ WriteNewAsset \/ \E t \in Threads : StoreEnqueue(t)
    BY Zenon, <2>2, <2>5, QuietSame
  <2>6. CASE UnindexLocals \/ RemoveLocalsIndex
    BY Zenon, <2>2, <2>6, PurgeSame
  <2>7. ASSUME NEW t \in Threads, StoreAddNewId(t) PROVE OneWriter(id)'
    BY Zenon, <2>1, <2>7, AddedOnce
  <2>8. CASE WriteRejected \/ WriteThrows \/ RecordAssetPosition \/ RecordThrows
    BY Zenon, <2>1, <2>8, WorkerOnce
  <2>9. CASE AssetWriteFailed
    BY Zenon, <2>1, <2>9, UnindexedOnce
  <2>10. CASE ProcessEnds
    BY Zenon, <2>10 DEF ProcessEnds
  <2>11. QED
    BY Zenon, <1>1, <1>2, <2>3, <2>4, <2>5, <2>6, <2>7, <2>8, <2>9, <2>10, Sorted
    DEF Others
<1>4. QED
  BY Zenon, <1>1, <1>2, <1>3, ComesUp

\* At rest the existence index names exactly what is stored, but for local
\* assets that went with a purge, for any number of calls, ids, directories,
\* purges and restarts, and although reads, inserts into the index file,
\* listings and removals fail: as long as the pull thread does not store and
\* no data file fails to be written.
THEOREM IndexSafety ==
    ASSUME PullReqs = {}, "storage" \notin Faults
    PROVE  Spec => []IndexAgrees
<1> DEFINE ExactInv == BackendInv /\ IndexExact
<1>1. Init => ExactInv
  <2> SUFFICES ASSUME Init, NEW id \in Ids PROVE OneWriter(id)
    BY Zenon, InitBackend DEF IndexExact
  <2>1. /\ queue = <<>> /\ posted = <<>> /\ worker = Idle /\ index = {}
        /\ \A t \in Threads : doing[t] = Free
        /\ \A db \in Dbs : rows[db][id] = None
    BY DEF Init
  <2>2. ~Stored(id) /\ id \notin index
    BY Zenon, <2>1 DEF Stored
  <2>3. QED
    BY Zenon, <2>1, <2>2, NothingBusy
<1>2. ExactInv /\ [Next]_vars => ExactInv'
  BY Zenon, BackendStep, ExactStep
<1>3. ExactInv => IndexAgrees
  <2> SUFFICES ASSUME ExactInv, Settled, NEW id \in Ids
               PROVE  (id \in index <=> Stored(id)) \/ Purged(id)
    BY Zenon DEF IndexAgrees
  <2>1. life # "down"
    BY DEF Settled
  <2>2. Purged(id) \/ OneWriter(id)
    BY Zenon, <2>1 DEF IndexExact
  <2>3. QED
    BY Zenon, <2>2, NothingBusy DEF Settled
<1> HIDE DEF ExactInv
<1>4. QED
  BY <1>1, <1>2, <1>3, PTL DEF Spec
=============================================================================
