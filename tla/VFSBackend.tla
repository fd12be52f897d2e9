----------------------------- MODULE VFSBackend -----------------------------
(***************************************************************************)
(* The disk storage backend of the WHIP asset server                       *)
(* (src/whip-server/whip/VFSBackend.cpp and the classes below it).         *)
(*                                                                         *)
(* Three threads meet here.  The ASIO thread runs the calls of the clients *)
(* and every handler posted to the main io_service; the pull replication   *)
(* thread calls storeAsset; the disk worker takes requests off a FIFO      *)
(* queue and posts their outcome back to the io_service.  The existence    *)
(* index and the queue have a lock each, so a call that uses both is       *)
(* several steps.  Files survive a crash, everything else is rebuilt.      *)
(***************************************************************************)
EXTENDS Naturals, Sequences, FiniteSets

CONSTANTS
    Reqs,       \* calls made on the backend; a PUT's name is also its asset
    PullReqs,   \* the calls among them that the pull replication thread makes
    Ids,        \* asset UUIDs
    NHeads,     \* number of first-level directories (0x1000 in the code)
    HeadOf,     \* the directory of an id, named by the start of the UUID
    Faults,     \* which operations of the disk may fail
    MaxPurges,  \* bound: how often the locals purge is started
    None

FaultKinds == {"storage", "sqlite", "list", "read", "remove"}
Heads == 0 .. (NHeads - 1)
Dbs == {"globals", "locals"}
Threads == {"asio", "pull"}
Assets == Reqs
CallOps == {"get", "put", "purge", "status", "list"}
Call == [op : CallOps, id : Ids, db : Dbs]

ASSUME ConstantsAssumption ==
    /\ PullReqs \subseteq Reqs
    /\ NHeads \in Nat \ {0}
    /\ HeadOf \in [Ids -> Heads]
    /\ Faults \subseteq FaultKinds
    /\ MaxPurges \in Nat
    /\ None \notin Reqs \cup Call

VARIABLES
    call,       \* the arguments of each call that was made
    reply,      \* what its callback was given
    index,      \* _existenceIndex: ids believed to be stored
    rows,       \* the .idx files: the asset recorded for an id
    data,       \* the .data files: the assets whose bytes were appended
    queue,      \* _workQueue
    posted,     \* handlers posted to the main io_service, in order
    worker,     \* where the disk worker is inside a request
    doing,      \* where a thread is inside storeAsset or unindexLocals
    purge,      \* _isPurgingLocals, _currentLocalsPurgeIndex, rounds started
    pushed,     \* assets handed to push replication
    life        \* "up", "stopping" (shutdown waits for the worker), "down"

vars == <<call, reply, index, rows, data, queue, posted, worker, doing,
          purge, pushed, life>>

Results == {"ok", "found", "notfound", "exists", "failed", "lost"}
Reply == [res : Results, got : SUBSET Assets]
NoReply == [res |-> "none", got |-> {}]

WorkItem == [op : {"call"}, r : Reqs]
            \cup [op : {"purgeLocals", "deleteLocals"}, head : Heads]
Handler == [h : {"reply"}, r : Reqs, val : Reply]
           \cup [h : {"assetWriteFailed"}, id : Ids]
           \cup [h : {"unindexLocals"}, ids : SUBSET Ids, head : Heads]
           \cup [h : {"ioLoopFailed"}]
WorkerStep == [at : {"idle"}]
              \cup [at : {"written"}, r : Reqs]
              \cup [at : {"unlinked"}, head : Heads]
ThreadStep == [at : {"free"}]
              \cup [at : {"addNewId", "enqueue"}, r : Reqs]
              \cup [at : {"scheduleDelete"}, head : Heads]

Idle == [at |-> "idle"]
Free == [at |-> "free"]
NoPurge(rounds) == [active |-> FALSE, next |-> 0, rounds |-> rounds]

Init ==
    /\ call = [r \in Reqs |-> None]
    /\ reply = [r \in Reqs |-> NoReply]
    /\ index = {}
    /\ rows = [db \in Dbs |-> [id \in Ids |-> None]]
    /\ data = [db \in Dbs |-> [h \in Heads |-> {}]]
    /\ queue = <<>>
    /\ posted = <<>>
    /\ worker = Idle
    /\ doing = [t \in Threads |-> Free]
    /\ purge = NoPurge(0)
    /\ pushed = {}
    /\ life = "up"

(***************************************************************************)
(* Helpers                                                                 *)
(***************************************************************************)
Answer(r, res, got) ==
    [h |-> "reply", r |-> r, val |-> [res |-> res, got |-> got]]

\* DatabaseSet::storeAsset: the database is chosen by the asset's local flag.
DbFor(r) == call[r].db

\* DatabaseSet::getAsset: the globals first, then the locals.
Lookup(id) ==
    IF rows["globals"][id] # None THEN rows["globals"][id]
    ELSE rows["locals"][id]

Stored(id) == \E db \in Dbs : rows[db][id] # None

\* The thread may start a call or a handler.
Runs(t) == life = "up" /\ doing[t] = Free

ThreadOf(r) == IF r \in PullReqs THEN "pull" ELSE "asio"

Begin(r, op, id, db) ==
    /\ call[r] = None
    /\ Runs(ThreadOf(r))
    /\ call' = [call EXCEPT ![r] = [op |-> op, id |-> id, db |-> db]]

(***************************************************************************)
(* Calls on the backend                                                    *)
(***************************************************************************)
\* Faulty variant: reads jump the queue.
BadGetAssetFirst(r, id) ==
    /\ r \notin PullReqs
    /\ Begin(r, "get", id, "globals")
    /\ IF id \notin index
       THEN /\ posted' = Append(posted, Answer(r, "notfound", {}))
            /\ UNCHANGED queue
       ELSE /\ queue' = <<[op |-> "call", r |-> r]>> \o queue
            /\ UNCHANGED posted
    /\ UNCHANGED <<reply, index, rows, data, worker, doing, purge, pushed,
                   life>>

GetAsset(r, id) ==
    /\ r \notin PullReqs
    /\ Begin(r, "get", id, "globals")
    /\ IF id \notin index
       THEN /\ posted' = Append(posted, Answer(r, "notfound", {}))
            /\ UNCHANGED queue
       ELSE /\ queue' = Append(queue, [op |-> "call", r |-> r])
            /\ UNCHANGED posted
    /\ UNCHANGED <<reply, index, rows, data, worker, doing, purge, pushed,
                   life>>

\* storeAsset, up to and including the test of the existence index.  An
\* asset that comes from a master is one of its globals.
StoreAsset(r, id, db) ==
    /\ r \in PullReqs => db = "globals"
    /\ Begin(r, "put", id, db)
    /\ IF id \in index
       THEN /\ posted' = Append(posted, Answer(r, "exists", {}))
            /\ UNCHANGED doing
       ELSE /\ doing' = [doing EXCEPT
                           ![ThreadOf(r)] = [at |-> "addNewId", r |-> r]]
            /\ UNCHANGED posted
    /\ UNCHANGED <<reply, index, rows, data, queue, worker, purge, pushed,
                   life>>

StoreAddNewId(t) ==
    /\ life = "up"
    /\ doing[t].at = "addNewId"
    /\ index' = index \cup {call[doing[t].r].id}
    /\ doing' = [doing EXCEPT ![t] = [at |-> "enqueue", r |-> doing[t].r]]
    /\ UNCHANGED <<call, reply, rows, data, queue, posted, worker, purge,
                   pushed, life>>

StoreEnqueue(t) ==
    /\ life = "up"
    /\ doing[t].at = "enqueue"
    /\ queue' = Append(queue, [op |-> "call", r |-> doing[t].r])
    /\ doing' = [doing EXCEPT ![t] = Free]
    /\ UNCHANGED <<call, reply, index, rows, data, posted, worker, purge,
                   pushed, life>>

\* purgeAsset, getStatus and getStoredAssetIDsWithPrefix only queue.
QueueOnly(r, op, id) ==
    /\ r \notin PullReqs
    /\ op \in {"purge", "status", "list"}
    /\ Begin(r, op, id, "globals")
    /\ queue' = Append(queue, [op |-> "call", r |-> r])
    /\ UNCHANGED <<reply, index, rows, data, posted, worker, doing, purge,
                   pushed, life>>

BeginPurgeLocals ==
    /\ Runs("asio")
    /\ ~purge.active
    /\ purge.rounds < MaxPurges
    /\ purge' = [active |-> TRUE, next |-> 0, rounds |-> purge.rounds + 1]
    /\ UNCHANGED <<call, reply, index, rows, data, queue, posted, worker,
                   doing, pushed, life>>

\* Faulty variant: the purge stops one directory early.
BadPurgeTimerEarly ==
    /\ Runs("asio")
    /\ purge.active
    /\ queue' = Append(queue, [op |-> "purgeLocals", head |-> purge.next])
    /\ purge' = IF purge.next + 2 < NHeads
                THEN [active |-> TRUE, next |-> purge.next + 1,
                      rounds |-> purge.rounds]
                ELSE NoPurge(purge.rounds)
    /\ UNCHANGED <<call, reply, index, rows, data, posted, worker, doing,
                   pushed, life>>

\* The timer is armed exactly while _isPurgingLocals is set.
OnPurgeTimer ==
    /\ Runs("asio")
    /\ purge.active
    /\ queue' = Append(queue, [op |-> "purgeLocals", head |-> purge.next])
    /\ purge' = IF purge.next + 1 < NHeads
                THEN [active |-> TRUE, next |-> purge.next + 1,
                      rounds |-> purge.rounds]
                ELSE NoPurge(purge.rounds)
    /\ UNCHANGED <<call, reply, index, rows, data, posted, worker, doing,
                   pushed, life>>

(***************************************************************************)
(* Handlers posted to the io_service                                       *)
(***************************************************************************)
RunHandler(h) ==
    /\ Runs("asio")
    /\ posted # <<>>
    /\ Head(posted).h = h
    /\ posted' = Tail(posted)
    /\ UNCHANGED <<call, rows, data, queue, worker, purge, pushed, life>>

RunCallback ==
    /\ RunHandler("reply")
    /\ reply' = [reply EXCEPT ![Head(posted).r] = Head(posted).val]
    /\ UNCHANGED <<index, doing>>

AssetWriteFailed ==
    /\ RunHandler("assetWriteFailed")
    /\ index' = index \ {Head(posted).id}
    /\ UNCHANGED <<reply, doing>>

UnindexLocals ==
    /\ RunHandler("unindexLocals")
    /\ index' = index \ Head(posted).ids
    /\ doing' = [doing EXCEPT
                   !["asio"] = [at |-> "scheduleDelete",
                                head |-> Head(posted).head]]
    /\ UNCHANGED reply

\* The second half of unindexLocals, under the lock of the queue.
ScheduleDelete ==
    /\ life = "up"
    /\ doing["asio"].at = "scheduleDelete"
    /\ queue' = Append(queue, [op |-> "deleteLocals",
                               head |-> doing["asio"].head])
    /\ doing' = [doing EXCEPT !["asio"] = Free]
    /\ UNCHANGED <<call, reply, index, rows, data, posted, worker, purge,
                   pushed, life>>

IoLoopFailed ==
    /\ RunHandler("ioLoopFailed")
    /\ UNCHANGED <<reply, index, doing>>

(***************************************************************************)
(* The disk worker                                                         *)
(***************************************************************************)
\* workLoop: take the front request, which is a call of the given kind.
TakeCall(op) ==
    /\ life = "up"
    /\ worker = Idle
    /\ queue # <<>>
    /\ Head(queue).op = "call"
    /\ call[Head(queue).r].op = op
    /\ queue' = Tail(queue)

TakeItem(op) ==
    /\ life = "up"
    /\ worker = Idle
    /\ queue # <<>>
    /\ Head(queue).op = op
    /\ queue' = Tail(queue)

PerformDiskRead ==
    LET r == Head(queue).r
        asset == Lookup(call[r].id)
    IN  /\ TakeCall("get")
        /\ \/ /\ asset # None
              /\ posted' = Append(posted, Answer(r, "found", {asset}))
           \/ /\ asset = None
              /\ posted' = Append(posted, Answer(r, "notfound", {}))
           \/ /\ "read" \in Faults
              /\ posted' = Append(posted, Answer(r, "failed", {}))
        /\ UNCHANGED <<call, reply, index, rows, data, worker, doing, purge,
                       pushed, life>>

\* Faulty variants: an id that has a row is written again; success is
\* reported before the row is inserted.
BadWriteAgain ==
    LET r == Head(queue).r
    IN  /\ TakeCall("put")
        /\ data' = [data EXCEPT ![DbFor(r)][HeadOf[call[r].id]] = @ \cup {r}]
        /\ worker' = [at |-> "written", r |-> r]
        /\ UNCHANGED <<call, reply, index, rows, posted, doing, purge, pushed,
                       life>>
BadWriteAcksEarly ==
    LET r == Head(queue).r
        id == call[r].id
    IN  /\ TakeCall("put")
        /\ rows[DbFor(r)][id] = None
        /\ data' = [data EXCEPT ![DbFor(r)][HeadOf[id]] = @ \cup {r}]
        /\ posted' = Append(posted, Answer(r, "ok", {}))
        /\ worker' = [at |-> "written", r |-> r]
        /\ UNCHANGED <<call, reply, index, rows, doing, purge, pushed, life>>

\* performDiskWrite up to the end of DataFile::writeNewAsset.
WriteNewAsset ==
    LET r == Head(queue).r
        id == call[r].id
    IN  /\ TakeCall("put")
        /\ rows[DbFor(r)][id] = None
        /\ data' = [data EXCEPT ![DbFor(r)][HeadOf[id]] = @ \cup {r}]
        /\ worker' = [at |-> "written", r |-> r]
        /\ UNCHANGED <<call, reply, index, rows, posted, doing, purge, pushed,
                       life>>

\* Faulty variant: the error is swallowed.
BadWriteRejectedSilently ==
    LET r == Head(queue).r
    IN  /\ TakeCall("put")
        /\ rows[DbFor(r)][call[r].id] # None \/ "storage" \in Faults
        /\ UNCHANGED <<call, reply, index, rows, data, posted, worker, doing,
                       purge, pushed, life>>

\* An AssetStorageError: the asset is already in that database, or the
\* directory, an index file or the data file could not be opened or written.
WriteRejected ==
    LET r == Head(queue).r
    IN  /\ TakeCall("put")
        /\ rows[DbFor(r)][call[r].id] # None \/ "storage" \in Faults
        /\ posted' = Append(posted, Answer(r, "failed", {}))
        /\ UNCHANGED <<call, reply, index, rows, data, worker, doing, purge,
                       pushed, life>>

\* Any other exception: the index query of assetExists failed.
WriteThrows ==
    LET r == Head(queue).r
    IN  /\ TakeCall("put")
        /\ "sqlite" \in Faults
        /\ posted' = posted \o <<[h |-> "assetWriteFailed",
                                  id |-> call[r].id],
                                 Answer(r, "failed", {})>>
        /\ UNCHANGED <<call, reply, index, rows, data, worker, doing, purge,
                       pushed, life>>

\* The row is inserted, the success posted and the asset handed to push replication.
RecordAssetPosition ==
    LET r == worker.r
    IN  /\ life # "down"
        /\ worker.at = "written"
        /\ rows' = [rows EXCEPT ![DbFor(r)][call[r].id] = r]
        /\ posted' = Append(posted, Answer(r, "ok", {}))
        /\ pushed' = pushed \cup {r}
        /\ worker' = Idle
        /\ UNCHANGED <<call, reply, index, data, queue, doing, purge, life>>

\* Faulty variant: the id of the failed write stays in the existence index.
BadRecordThrowsKeepsId ==
    LET r == worker.r
    IN  /\ life # "down"
        /\ worker.at = "written"
        /\ "sqlite" \in Faults
        /\ posted' = Append(posted, Answer(r, "failed", {}))
        /\ worker' = Idle
        /\ UNCHANGED <<call, reply, index, rows, data, queue, doing, purge,
                       pushed, life>>

\* The INSERT into the index file failed.
RecordThrows ==
    LET r == worker.r
    IN  /\ life # "down"
        /\ worker.at = "written"
        /\ "sqlite" \in Faults
        /\ posted' = posted \o <<[h |-> "assetWriteFailed",
                                  id |-> call[r].id],
                                 Answer(r, "failed", {})>>
        /\ worker' = Idle
        /\ UNCHANGED <<call, reply, index, rows, data, queue, doing, purge,
                       pushed, life>>

\* performDiskPurge has an empty body: the callback is dropped.
PerformDiskPurge ==
    /\ TakeCall("purge")
    /\ UNCHANGED <<call, reply, index, rows, data, posted, worker, doing,
                   purge, pushed, life>>

PerformGetStatus ==
    /\ TakeCall("status")
    /\ posted' = Append(posted, Answer(Head(queue).r, "ok", {}))
    /\ UNCHANGED <<call, reply, index, rows, data, worker, doing, purge,
                   pushed, life>>

\* The ids are told apart by the assets recorded for them.
GlobalsUnder(head) ==
    {rows["globals"][id] : id \in {i \in Ids : /\ HeadOf[i] = head
                                               /\ rows["globals"][i] # None}}

PerformGetStoredAssetIds ==
    LET r == Head(queue).r
    IN  /\ TakeCall("list")
        /\ \/ posted' = Append(posted, Answer(r, "ok",
                                     GlobalsUnder(HeadOf[call[r].id])))
           \/ /\ "list" \in Faults
              /\ posted' = Append(posted, [h |-> "ioLoopFailed"])
        /\ UNCHANGED <<call, reply, index, rows, data, worker, doing, purge,
                       pushed, life>>

LocalsUnder(head) ==
    {id \in Ids : HeadOf[id] = head /\ rows["locals"][id] # None}

PerformDiskPurgeLocals ==
    LET head == Head(queue).head
    IN  /\ TakeItem("purgeLocals")
        /\ \/ posted' = Append(posted, [h |-> "unindexLocals",
                                        ids |-> LocalsUnder(head),
                                        head |-> head])
           \/ /\ "list" \in Faults
              /\ posted' = Append(posted, [h |-> "ioLoopFailed"])
        /\ UNCHANGED <<call, reply, index, rows, data, worker, doing, purge,
                       pushed, life>>

\* Faulty variant: the data file is removed before the index file.
BadRemoveDataFirst ==
    LET head == Head(queue).head
    IN  /\ TakeItem("deleteLocals")
        /\ data' = [data EXCEPT !["locals"][head] = {}]
        /\ worker' = [at |-> "unlinked", head |-> head]
        /\ UNCHANGED <<call, reply, index, rows, posted, doing, purge, pushed,
                       life>>

\* performLocalsPhysicalDeletion: locals.idx first, then locals.data.
RemoveLocalsIndex ==
    LET head == Head(queue).head
    IN  /\ TakeItem("deleteLocals")
        /\ rows' = [rows EXCEPT !["locals"] =
                      [id \in Ids |-> IF HeadOf[id] = head THEN None
                                      ELSE rows["locals"][id]]]
        /\ worker' = [at |-> "unlinked", head |-> head]
        /\ UNCHANGED <<call, reply, index, data, posted, doing, purge, pushed,
                       life>>

RemoveLocalsData ==
    /\ life # "down"
    /\ worker.at = "unlinked"
    /\ data' = [data EXCEPT !["locals"][worker.head] = {}]
    /\ worker' = Idle
    /\ UNCHANGED <<call, reply, index, rows, queue, posted, doing, purge,
                   pushed, life>>

\* fs::remove throws on the index file or on the data file.
RemoveThrows ==
    /\ life # "down"
    /\ "remove" \in Faults
    /\ \/ TakeItem("deleteLocals") /\ UNCHANGED worker
       \/ worker.at = "unlinked" /\ worker' = Idle /\ UNCHANGED queue
    /\ posted' = Append(posted, [h |-> "ioLoopFailed"])
    /\ UNCHANGED <<call, reply, index, rows, data, doing, purge, pushed, life>>

(***************************************************************************)
(* The process                                                             *)
(***************************************************************************)
\* The ASIO thread runs AssetServer::stop: the replication threads are
\* joined first, then shutdown waits for the worker to leave its loop.
Shutdown ==
    /\ Runs("asio")
    /\ doing["pull"] = Free
    /\ life' = "stopping"
    /\ UNCHANGED <<call, reply, index, rows, data, queue, posted, worker,
                   doing, purge, pushed>>

\* What was only in memory is gone, and the calls in progress get no answer
\* any more.
ProcessEnds ==
    /\ life' = "down"
    /\ index' = {}
    /\ queue' = <<>>
    /\ posted' = <<>>
    /\ worker' = Idle
    /\ doing' = [t \in Threads |-> Free]
    /\ purge' = NoPurge(purge.rounds)
    /\ reply' = [r \in Reqs |->
                   IF call[r] # None /\ reply[r] = NoReply
                   THEN [res |-> "lost", got |-> {}] ELSE reply[r]]
    /\ UNCHANGED <<call, rows, data, pushed>>

\* The worker has left its loop without draining the queue, and the
\* io_service is stopped.
ShutdownCompletes == life = "stopping" /\ worker = Idle /\ ProcessEnds

Crash == life # "down" /\ ProcessEnds

\* The constructor reads every .idx file before the worker starts.
Restart ==
    /\ life = "down"
    /\ index' = {id \in Ids : Stored(id)}
    /\ life' = "up"
    /\ UNCHANGED <<call, reply, rows, data, queue, posted, worker, doing,
                   purge, pushed>>

Calls ==
    \/ \E r \in Reqs, id \in Ids :
          \/ GetAsset(r, id)
          \/ \E db \in Dbs : StoreAsset(r, id, db)
          \/ \E op \in {"purge", "status", "list"} : QueueOnly(r, op, id)
    \/ BeginPurgeLocals

ThreadSteps(t) == StoreAddNewId(t) \/ StoreEnqueue(t)

AsioSteps ==
    \/ ThreadSteps("asio")
    \/ RunCallback
    \/ AssetWriteFailed
    \/ UnindexLocals
    \/ ScheduleDelete
    \/ IoLoopFailed

WorkerSteps ==
    \/ PerformDiskRead
    \/ WriteNewAsset
    \/ WriteRejected
    \/ WriteThrows
    \/ RecordAssetPosition
    \/ RecordThrows
    \/ PerformDiskPurge
    \/ PerformGetStatus
    \/ PerformGetStoredAssetIds
    \/ PerformDiskPurgeLocals
    \/ RemoveLocalsIndex
    \/ RemoveLocalsData
    \/ RemoveThrows

Next ==
    \/ Calls
    \/ AsioSteps
    \/ ThreadSteps("pull")
    \/ OnPurgeTimer
    \/ WorkerSteps
    \/ Shutdown
    \/ ShutdownCompletes
    \/ Crash
    \/ Restart

Spec == Init /\ [][Next]_vars

\* The io_service runs every posted handler and every expired timer, and the
\* operating system schedules all three threads, so a shutdown that has begun
\* ends.  Nothing makes a client call, and nothing makes the process crash,
\* shut down or start.
Fairness ==
    /\ WF_vars(AsioSteps)
    /\ WF_vars(ThreadSteps("pull"))
    /\ WF_vars(OnPurgeTimer)
    /\ WF_vars(WorkerSteps)
    /\ WF_vars(ShutdownCompletes)

FairSpec == Spec /\ Fairness

(***************************************************************************)
(* Properties                                                              *)
(***************************************************************************)
\* Every variable keeps its shape.
TypeOK ==
    /\ call \in [Reqs -> Call \cup {None}]
    /\ reply \in [Reqs -> Reply \cup {NoReply}]
    /\ index \in SUBSET Ids
    /\ rows \in [Dbs -> [Ids -> Assets \cup {None}]]
    /\ data \in [Dbs -> [Heads -> SUBSET Assets]]
    /\ queue \in Seq(WorkItem)
    /\ posted \in Seq(Handler)
    /\ worker \in WorkerStep
    /\ doing \in [Threads -> ThreadStep]
    /\ purge \in [active : BOOLEAN, next : Heads, rounds : 0 .. MaxPurges]
    /\ pushed \in SUBSET Assets
    /\ life \in {"up", "stopping", "down"}

\* Whatever names a call names one that was made: its arguments are known
\* wherever a thread, the queue, the worker, a handler or an answer has it.
CallsMade ==
    /\ \A t \in Threads : doing[t].at \in {"addNewId", "enqueue"}
                             => call[doing[t].r] # None
    /\ \A i \in DOMAIN queue : queue[i].op = "call"
                                  => call[queue[i].r] # None
    /\ worker.at = "written" => call[worker.r] # None
    /\ \A i \in DOMAIN posted : posted[i].h = "reply"
                                   => call[posted[i].r] # None
    /\ \A r \in Reqs : reply[r] # NoReply => call[r] # None

\* Between its two steps the worker relies on what it found before: the row
\* it will insert is still free and the bytes are there; the index file it
\* removed is still empty.
WorkerKnows ==
    /\ worker.at = "written" =>
          /\ call[worker.r].op = "put"
          /\ rows[DbFor(worker.r)][call[worker.r].id] = None
          /\ worker.r \in data[DbFor(worker.r)][HeadOf[call[worker.r].id]]
    /\ worker.at = "unlinked" =>
          \A id \in Ids : HeadOf[id] = worker.head => rows["locals"][id] = None

\* A posted success of a global PUT is already true.
PostedAcksKept ==
    \A i \in DOMAIN posted :
        /\ posted[i].h = "reply"
        /\ posted[i].val.res = "ok"
        /\ call[posted[i].r].op = "put"
        /\ call[posted[i].r].db = "globals"
        => rows["globals"][call[posted[i].r].id] = posted[i].r

\* An index row never points at bytes that are not in the data file, whatever
\* fails and wherever the process dies: storeAsset appends the data before it
\* inserts the row, and the locals purge removes the index file before the
\* data file.
RowsHaveData ==
    \A db \in Dbs, id \in Ids :
        rows[db][id] # None => rows[db][id] \in data[db][HeadOf[id]]

\* A global asset whose PUT was answered with success is on disk under its
\* own id from then on, through failed writes, duplicate PUTs by the two
\* storing threads, locals purges, shutdowns and crashes (performDiskWrite
\* posts the success after the row is inserted).
AckedGlobalKept ==
    \A r \in Reqs :
        /\ call[r] # None
        /\ call[r].op = "put"
        /\ reply[r].res = "ok"
        /\ call[r].db = "globals"
        => rows["globals"][call[r].id] = r

\* The inductive invariant behind RowsHaveData and AckedGlobalKept.
DiskInv ==
    /\ TypeOK
    /\ CallsMade
    /\ WorkerKnows
    /\ RowsHaveData
    /\ PostedAcksKept
    /\ AckedGlobalKept

\* No step replaces or removes what an id means in the globals database:
\* VFSDatabase::storeAsset refuses an id that has a row.
GlobalsImmutable ==
    [][\A id \in Ids : rows["globals"][id] # None
                          => rows'["globals"][id] = rows["globals"][id]]_vars

\* A global asset a GET was answered with stays what its id means: it was PUT
\* under that id and is still there, however many other PUTs of the id came
\* from the two storing threads.
GlobalReadsLast ==
    \A r \in Reqs : \A asset \in reply[r].got :
        call[r].op = "get" /\ call[asset].db = "globals"
            => rows["globals"][call[r].id] = asset

\* A callback runs at most once: no later handler changes an answer given.
AnsweredOnce ==
    [][\A r \in Reqs : reply[r] # NoReply => reply'[r] = reply[r]]_vars

\* Nothing is in progress.
Settled ==
    /\ life = "up"
    /\ queue = <<>>
    /\ posted = <<>>
    /\ worker = Idle
    /\ \A t \in Threads : doing[t] = Free

\* A local asset with this id was put, and a locals purge may have removed it.
PutOf(r, id) == call[r] # None /\ call[r].op = "put" /\ call[r].id = id
Purged(id) == purge.rounds > 0 /\ \E r \in Reqs : PutOf(r, id) /\ call[r].db = "locals"

\* assetExists answers true for every asset that is stored and for no other
\* (IAsyncStorageBackend.h:43), at least whenever nothing is in progress and
\* unless the asset was local and went with a purge.
IndexAgrees ==
    Settled => \A id \in Ids : (id \in index <=> Stored(id)) \/ Purged(id)

\* A GET that passed the existence test stands behind the PUT it relies on:
\* the asset is stored, or its PUT is ahead in the queue or being written, or
\* that PUT was processed and failed (the comment at VFSBackend.cpp:310-314),
\* or the asset was local and went with a purge.
WriteHappensFirst ==
    \A i \in DOMAIN queue :
        queue[i].op = "call" /\ call[queue[i].r].op = "get" =>
            LET id == call[queue[i].r].id
            IN  \/ Stored(id) \/ Purged(id)
                \/ worker.at = "written" /\ PutOf(worker.r, id)
                \/ \E j \in 1 .. (i - 1) :
                      queue[j].op = "call" /\ PutOf(queue[j].r, id)
                \/ \E r \in Reqs :
                      /\ PutOf(r, id)
                      /\ \/ reply[r].res = "failed"
                         \/ \E k \in DOMAIN posted :
                               posted[k] = Answer(r, "failed", {})

\* Every GET, PUT and status call gets its callback, unless the process ends
\* first: each path of performDiskRead, performDiskWrite and performGetStatus
\* posts it, whatever fails.  A list call does where listing cannot throw, which
\* workLoop would only log; a purge has no callback (performDiskPurge is empty).
Answerable == {"get", "put", "status"} \cup {op \in {"list"} : op \notin Faults}
EveryCallAnswered ==
    \A r \in Reqs :
        call[r] # None /\ call[r].op \in Answerable ~> reply[r] # NoReply

\* A locals purge reaches every directory: a local asset that is on disk when
\* the purge starts is removed, if the files can be listed and removed and the
\* process goes on (beginPurgeLocals, onPurgeTimer up to 0xFFF, the three steps that
\* performDiskPurgeLocals starts).
PurgeReachesEveryLocal ==
    \A id \in Ids, a \in Assets :
        purge.active /\ purge.next = 0 /\ rows["locals"][id] = a
            ~> rows["locals"][id] # a \/ life # "up"

\* The backend keeps the promise of AssetStore: seen from outside, with the
\* globals' index rows as the assets kept, every step of the three threads, the
\* disk, a crash or a restart is one step of that store or none.
Store == INSTANCE AssetStore WITH kept <- rows["globals"]
KeepsPromise == Store!Spec

\* The calls named by the elements of a sequence that belong to K, and that
\* no call is named twice.
Names(s, K) == {s[i].r : i \in {j \in DOMAIN s : s[j] \in K}}
Once(s, K) == \A i, j \in DOMAIN s : s[i] \in K /\ s[j] \in K /\ s[i].r = s[j].r
                                        => i = j

\* The calls that a storing thread, the queue, the worker and the posted
\* handlers have.
CallItems == {x \in WorkItem : x.op = "call"}
Replies == {x \in Handler : x.h = "reply"}
Holds(t) == doing[t].at \in {"addNewId", "enqueue"}
Held == {doing[t].r : t \in {u \in Threads : Holds(u)}}
Queued == Names(queue, CallItems)
Writing == IF worker.at = "written" THEN {worker.r} ELSE {}
Answering == Names(posted, Replies)

\* A call in progress is in one place only, and it has not been answered.
OnePlace ==
    /\ Once(queue, CallItems) /\ Once(posted, Replies)
    /\ \A t \in Threads : Holds(t) => ThreadOf(doing[t].r) = t
    /\ Held \cap Queued = {} /\ (Held \cup Queued) \cap Writing = {}
    /\ (Held \cup Queued \cup Writing) \cap Answering = {}
    /\ \A r \in Held \cup Queued \cup Writing \cup Answering : reply[r] = NoReply

\* The row of an id names a PUT of that id into that database, and not one
\* that is still on its way to the disk.
RowsGenuine ==
    \A db \in Dbs, id \in Ids : rows[db][id] # None =>
        LET a == rows[db][id]
        IN  /\ call[a] = [op |-> "put", id |-> id, db |-> db]
            /\ a \notin Held \cup Queued \cup Writing

\* A posted answer is one the store may give, now and until it is given.
PostedLegal ==
    \A i \in DOMAIN posted :
        posted[i].h = "reply" =>
            Store!Legal(posted[i].r, posted[i].val.res, posted[i].val.got)

\* A GET was answered with an asset that was PUT under its id.
ReadsGenuine ==
    \A r \in Reqs : call[r] # None /\ call[r].op = "get" =>
        \A a \in reply[r].got : Store!Genuine(call[r].id, a)

\* The inductive invariant behind AnsweredOnce, GlobalReadsLast and
\* KeepsPromise.
PromiseInv == DiskInv /\ OnePlace /\ RowsGenuine /\ PostedLegal /\ ReadsGenuine
=============================================================================
