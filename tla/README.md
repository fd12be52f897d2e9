# Verification of the WHIP asset server and its clients

TLA+ specifications of the asset server in `src/whip-server/whip`, of the Aperture texture server in
`src/aperture/aperture` and of the .NET client in `src/whip-dotnet-client/client`; the TLC configurations that
check them on small instances; and TLAPS proofs of the properties that matter most, for every instance. Paths below
are relative to `src/whip-server/whip` unless they start with `src/`.

`PROJECT.json` lists the parts of the repository, the source lines of every definition ("map"), the runs, for every
property a faulty variant of a definition that breaks it ("mutants"), the hazards of the code at their lines, and
the theorems.

## The system and its modules

WHIP is a write-once store of assets. One ASIO thread runs every socket handler, timer and posted callback of the
clients and of the mesh. A disk worker thread serves a queue of requests. A push replication thread forwards every
stored asset to a slave, and a pull replication thread copies what a master has and this server lacks. The servers
of a mesh ask each other for assets they do not have. A client's GET goes to the cache, then to the disk, then to
the mesh; a PUT goes to the disk and, when it is stored, to the cache and to push replication. Aperture serves
textures over HTTP and gets them from WHIP; the .NET client is what a simulator uses.

| module | part | sources |
|---|---|---|
| `AssetStore` | what a storage backend promises its callers: the abstract specification | IAsyncStorageBackend.h |
| `VFSBackend` | disk storage, existence index, purge of local assets, crash and restart | VFSBackend, VFSQueueTypes, VFSDatabase, DatabaseSet, DataFile, IndexFile, SQLiteIndexFile, ExistenceIndex |
| `MeshSearch` | searches on the mesh, and the two sockets of a connected peer | AssetSearch, MeshStorageBackend, MeshServer, MeshQueryConnection |
| `IntraMesh` | connecting to a peer and losing it, with the peer that answers the queries | IntraMeshService, IntraMeshQueryClient, MeshServer, MeshQueryConnection |
| `LRUCache` | the cache template, as functions of a cache | lru_cache.h, AssetSizeCalculator.h |
| `ClientSession` | client connections, over the cache, the promise of `AssetStore` and a mesh that answers | AssetClient, CSUnauthenticated, CSAuthenticated, AssetServer, AssetCache |
| `RemoteAssetService` | the client side of an asset connection, as functions that both replications use | RemoteAssetService |
| `PushReplication`, `PullReplication` | the two replication threads, each over a `RemoteAssetService` | PushReplicationService, PullReplicationService |
| `ApertureUpstream`, `Aperture` | the connection to WHIP; HTTP connections, caps, cache and token buckets over it | src/aperture/aperture |
| `WhipClient` | the .NET client: callers, the receive thread, reconnection, Stop | src/whip-dotnet-client/client/RemoteServer.cs |
| `MC...` | instances for TLC | |
| `...Proofs` | theorems and their proofs | |

How the modules fit together:

- `VFSBackend` implements `AssetStore` (`KeepsPromise`, with the globals' index rows as what is kept), and
  `ClientSession` uses `AssetStore` as its storage (`INSTANCE AssetStore`). What is shown about sessions therefore
  holds over the real backend.
- `MeshSearch` starts with connected peers and follows the searches; `IntraMesh` makes and loses the connections.
  That every search is answered (`MeshSearch`) is what `ClientSession` takes for granted of its mesh.
- `ClientSession` answers the requests of a connection in their order, one at a time. That is what `WhipClient`,
  `ApertureUpstream` and `RemoteAssetService` take for granted of a server.
- `PullReplication` stores through the second storing thread (`PullReqs`) of `VFSBackend`.

Handlers of one thread that call each other (replication, Aperture) are functions from a world, the record of the
variables, to the next world, so that one action is one handler with all it calls. Where several threads share
state (`VFSBackend`, `WhipClient`), an action is what a thread does between two lock operations. A behaviour is
followed up to the first event the code does not get over (an exception nobody catches, the use of a freed object, a
pop of an empty queue), which is recorded in `trouble` or `bug`.

## The models

### VFSBackend

| state | code |
|---|---|
| `call`, `reply` | the arguments of a call and what its callback was given |
| `index` | `_existenceIndex` |
| `rows`, `data` | index files and data files of the globals and locals databases: a row names the asset whose bytes it points at |
| `queue`, `worker` | `_workQueue`, and where the worker is between two effects on the disk |
| `posted` | handlers posted to the main `io_service` |
| `doing` | where a thread is inside `storeAsset` or `unindexLocals`, which take several locks one after the other |
| `purge`, `pushed`, `life` | the locals purge, what was handed to push replication, and up, stopping or down |

`storeAsset` is three actions (existence test, `addNewId`, push on the queue), because the pull thread and the ASIO
thread both call it and the lock is released in between. `performDiskWrite` is two effects (append the data, insert
the row) with a failure possible at each, because the process may die between them. File offsets, SQL and formats
are abstracted; a UUID's directory is `HeadOf`.

### MeshSearch and IntraMesh

`MeshSearch` has, for every peer, the outstanding read and write of each socket, the queues (`_sendQueue`,
`_transferRequestQueue`, `_assetCallbackQueue`), `_currentSearches`, and what the peer was asked and owes; for every
search its phase, its timer, `_queriedServers` and its answers. An operation started on an open socket may have
finished when the socket is closed, so its handler can still report success; one started on a closed socket fails.
`IntraMesh` has two servers: every attempt of A to connect is a MeshServer with two sockets and, once accepted, an
IntraMeshQueryClient of B with its reads, answers and heartbeats.

### ClientSession and LRUCache

A session is half duplex: `out` counts its outstanding operations by kind (socket reads and writes, callbacks given
to the cache, the storage and the mesh). `used` is a history variable, the keys by their last use. `LRUCache` keeps
the list, the index and the running total of the code apart, so that they can disagree. It defines `Without` and
`Least` itself because modules that extend the larger community modules take several times as long to prove.

### Replication

`RemoteAssetService` has the handshake, the three requests, their queues, the responses, `close` with the callbacks
it runs, and the safe kill. Its callbacks run inside its handlers and call it again, so the operators that run them
(`close`, `onRead`, `onAfterWriteAssetRequest`, `onHandshake`) take them as parameters; each replication passes its
own once, in `Close`, `onWrite`, `onResponse` and `onConnect`. `close` runs callbacks until a queue is empty;
`DrainLimit` bounds how many, and is larger than the queues of the runs can become (the theorems about push
replication hold for any). `PushReplication` adds the monitor, the waiting assets and settings that change;
`PullReplication` the step machine over prefixes and batches.

### Aperture and WhipClient

`Aperture` has every connection with its read, write, kill timer and throttled reply, the caps with their queues and
buckets, the cache and the upstream connection with shared transfers. `WhipClient` has every call with its waiter
and thread, `_waitingRequests`, `_getResponseWaiters`, the connection and the receive thread; its actions end where
a lock is released.

## Runs

| run | instance | checks | result |
|---|---|---|---|
| vfs_safety | three calls of one id, one purge; SQLite, list, read and remove failures, shutdown, crash, restart | RowsHaveData, AckedGlobalKept, IndexAgrees, WriteHappensFirst | holds |
| vfs_liveness | two calls by the two storing threads, two directories, failing writes, SQLite and reads | KeepsPromise, EveryCallAnswered, PurgeReachesEveryLocal | holds |
| mesh_faults | two searches for one id, two peers, every connection may fail | NothingUnexpected, EntriesWait, AskedFor, KilledIdle | holds |
| mesh_liveness | three searches for two ids, one peer, failures and late timers | AnswersInStep, EverySearchAnswered | holds |
| intramesh | two attempts, two queries, heartbeats; refused, broken and untrusted connections | FreedIdle, QueriesConserved, ClosedClientLeaves, LossIsNoticed | holds |
| intramesh_lost | two attempts, one query, breaking connections | PeerIsReplaced | violated |
| sessions | two clients, two ids, three requests, a cache of two with an asset of three; drops and misses | OneOutstanding, NoDanglingCallback, AnswersItsRequest, CacheHonest, CacheSound | holds |
| sessions_liveness | two clients, one id, two requests, invalid messages as well | EveryRequestAnswered | holds |
| push | three assets, two slaves, refusals, drops, errors, one change of the settings, a stop | OneAttempt, FreedIdle, PushesInTurn, LostIsNoticed | holds |
| pull | two assets under one of two prefixes, the same faults and failing storage | BatchAccounted, OneDriver, RoundComplete, RoundsGoOn | holds |
| aperture | a viewer that pipelines and a simulator that manages the cap, two assets, a cache of three units, a bucket | OneCaller, RightAsset, TransfersDriven, EveryRequestAnswered | holds |
| client | two calls with any of three kinds of requests; resets, closes, invalid messages, a Stop | InStep, ListsDriven, CallbackOnce, EveryCallReturns, StopReturns | holds |

**intramesh_lost** is a defect. `MeshQueryConnection::close` (MeshQueryConnection.cpp:163) reports the end of a
connection only when neither a read nor a write is outstanding. If the read fails while a query is being written and
the write then succeeds, nobody calls `close` again: the server keeps its place among the peers and is never
connected to again, against IntraMeshService.cpp:111, "for any peers we're not currently connected or connecting to,
initiate a connection". `LossIsNoticed` shows that this is the only way to lose a peer unnoticed.

Bounds:

- VFSBackend: the worst races need two PUTs of one id and a GET, which are three calls. Directories differ only in
  being first or last in the purge's walk; a second purge repeats the first. The calls of vfs_safety are
  interchangeable (`ReqSymmetry`), which is sound because it checks invariants only.
- MeshSearch: two peers let an answer of one meet a search that the other has ended; two searches of one id share a
  query, and a third with another id makes queues of two ids.
- IntraMesh: the second attempt is the first that can meet what an earlier one left behind.
- ClientSession: two clients compete for one id, and of the assets one is too large for the cache and two fill it.
- Replication: three assets with `MAX_QUEUE_SIZE = 0` fill the queue of the push thread (one on the wire, one
  waiting, one dropped). One change of the settings covers another slave or master, and none.
- Aperture: three requests are enough for a pipelined pair and the request that manages the cap.
- WhipClient: two calls share a request, or one sends while the other is freed. The connection may be replaced any
  number of times, and calls may begin while the client is being stopped. Three calls (2,126,660 states) were checked
  once with the same result.

Deadlock is checked in the mesh_ runs. The other systems may really stop: processes are shut down, clients go away,
bounded numbers of requests run out.

Fairness, in the runs with liveness properties:

- VFSBackend: threads that block only on an empty queue go on while they have something to do, the purge timer
  fires, a shutdown that waits completes. Nothing is assumed about a restart.
- MeshSearch: armed timers fire, handlers of finished operations run, and a peer that was asked for an asset on the
  service connection answers or the connection breaks. It need not ever answer a query: that is what the timer is
  for. A transfer from a peer that stays connected and silent has no time limit in the code.
- IntraMesh: attempts are made, accepted and end; B's heartbeat timer fires; what was sent is read.
- ClientSession: storage and mesh answer, and a write to a client finishes or fails. Clients need not send. A list is
  answered only if listing cannot fail (`MayBeForgotten`): `EveryCallAnswered` of VFSBackend promises no more.
- Replication: timers and handlers run, and a peer goes on with what it was sent or breaks the connection. An idle
  peer need not break. The storage returns.
- Aperture: handlers and timers run, WHIP answers or its connection breaks. Nothing makes a client send, and nothing
  ends a reply of which chunks of no bytes are written (`Starved`).
- WhipClient: the threads run, the server answers or the connection breaks. An attempt to connect may fail for ever.

## Proofs

All theorems are for any number of calls, ids, directories, peers, searches, clients and requests, and for any set
of faults unless one is excluded below. They rest on the assumptions about the constants named in the modules
(numbers are natural, every id has a directory, `None` is none of the other values), which TLC evaluates in the runs.

| module | theorem | states |
|---|---|---|
| VFSBackendProofs | TypeSafety, RowsSafety, AckedSafety, GlobalsSafety | TypeOK, RowsHaveData, AckedGlobalKept, GlobalsImmutable |
| | Refinement, ReadsSafety, OnceSafety | KeepsPromise, GlobalReadsLast, AnsweredOnce |
| VFSIndexProofs | FirstSafety | WriteHappensFirst, if `PullReqs = {}` |
| | IndexSafety | IndexAgrees, if `PullReqs = {}` and data files can be written (`"storage" \notin Faults`) |
| ClientSessionProofs | OutstandingSafety, DanglingSafety, OwnedSafety | OneOutstanding, NoDanglingCallback, CallsOwned |
| | AnswersSafety, HonestSafety, CacheSafety | AnswersItsRequest, CacheHonest, CacheSound |
| LRUCacheProofs | (lemmas) | every operation of the cache keeps list, index, total and order in agreement, and eviction ends |
| MeshSearchProofs | TypeSafety, EntriesSafety, StepSafety, AskedSafety, KilledSafety | TypeOK, EntriesWait, AnswersInStep, AskedFor, KilledIdle |
| | UnexpectedSafety | NothingUnexpected, if no timer is late |
| IntraMeshProofs | TypeSafety, FreedSafety, ConnectionSafety | TypeOK, FreedIdle, OneConnection |
| PushReplicationProofs | OneAttemptAlways, FreedIdleAlways, PushesInTurnAlways | OneAttempt, FreedIdle, PushesInTurn |
| WhipClientProofs | TypeSafety, DrivenSafety, OnceSafety, OrderSafety | TypeOK, ListsDriven, CallbackOnce, InStep |

The inductive invariants, and why the properties are not inductive themselves:

- **DiskInv** (VFSBackend). The worker inserts a row for data it appended one step earlier (`WorkerKnows`: the data
  is still there and the row still free), an acknowledgement is a handler posted earlier (`PostedAcksKept`), and both
  speak of the arguments of a call (`CallsMade`).
- **PromiseInv** adds that a call in progress is in one place and not answered yet (`OnePlace`), that rows name PUTs
  of their id (`RowsGenuine`) and that a posted answer is one the store may still give (`PostedLegal`). With it every
  step maps to a step of `AssetStore` or to none: the answer of a PUT becomes a step of the store when its handler
  runs, and keeping the asset when the row is inserted.
- **BackendInv, IndexBacked, GetsBacked** (VFSIndexProofs). A GET is queued because its id is in the index, so the
  index must be backed: what it names is on the disk, or was and was purged, or its PUT failed, or is in the queue, or
  is about to be queued by the one storing thread. When that thread queues its PUT no GET has overtaken it, because
  GETs come from the same thread.
- **IndexExact** (VFSIndexProofs). At most one PUT of an id is on its way, and only while the id is neither stored
  nor about to leave the index because a write failed; the id is indexed exactly if it is one of these
  (`OneWriter`). The two exclusions are real: with the pull thread a GET can overtake a PUT, and a failing duplicate
  takes a stored asset out of the index; a data file that cannot be written leaves a phantom id. TLC reaches all
  three.
- **SessionInv** (ClientSession) ties the one outstanding operation to the storage call that waits. It is why a
  session cannot be freed under a callback: while the cache, the storage or the mesh has its callback, no socket
  handler is outstanding that could notice a disconnection.
- **ContentInv** says that an asset on its way to a client, a search and a storage call for one belong to a GET of
  its id (`AnswerInv`), and that the cache is sound and holds only assets that may be shown for their ids
  (`CacheInv`). An asset that may be shown stays so, because the store never changes what it keeps. The operations of
  the cache enter through the lemmas of LRUCacheProofs. The eviction loop and the total are recursive functions;
  the proofs replace induction by the least element of a set of naturals and tables of partial sums.
- **MeshInv**. `close` leaves `_currentSearches` alone, so only the searches know that they no longer wait for a
  closed peer (`EntriesEnd`); `SocketsEnd` says what is left of a connection whose end was reported; `DataOwed` that
  an asset is read only while one is owed; `Once` and `TimerMeans` that a search is in one queue of one peer, and
  that its timer was cancelled when it was found. The actions are sorted into a few kinds of step, so that each
  conjunct has one case per kind.
- **LinkInv** (IntraMesh). `checkSafeKill` looks at flags and not at the operations of the query connection;
  `Linked` is what the flags mean. `onSafeToKill` drops whatever server is among the peers, so it takes
  `OneConnection` to know that it is the one that was checked.
- **ClientInv, OrderInv** (WhipClient). A call is in a list only between its begin and its first callback, and a
  list that is not empty is driven by somebody; as long as the first connection lasts no waiter was freed and one
  call at most is between queueing its waiter and sending.
- **IInv** (PushReplication) is the shape of the world and `Fine`, which is `Base`, `Counted` and `Driven`. `Base`
  holds in the middle of a handler too, whatever callback just ran: each operation of the connection is outstanding
  once and has at most one handler ready (`Orderly`), only a service the monitor knows as connected has any, and
  nothing is sent or waits without it. That is why `makeConnection` frees idle services only. A callback that an
  earlier connection posted is ready before the handler that ends the handshake of the next (`ConnLast`), so it has
  run when that connection is up; without this `onAfterAssetPut` could take the asset of the new connection for
  answered. `Counted` and `Driven` are what PushesInTurn and OneAttempt need between handlers. Each handler is a
  function of the world and has a lemma; `close` runs callbacks in a loop, and its lemmas show `Base` after every
  round, by the least round at which it would fail.

Only model-checked:

- every liveness property: fairness and ENABLED are out of the prover's reach;
- the invariants of pull replication (BatchAccounted, OneDriver, RoundComplete): `runStep` calls itself through its
  callbacks and is a RECURSIVE operator, and the prover has no SMT backend in a module that declares one;
- the Aperture invariants (OneCaller, RightAsset, TransfersDriven): its handlers run all waiting callbacks with
  FoldSet and FoldLeft, whose recursive definitions take an operator as a parameter;
- QueriesConserved of IntraMesh, which is about sequences filtered with SelectSeq.

## What the models reach beyond the properties

Where a property excepts a case, the case is reachable:

- VFSBackend: with the pull thread, a GET ahead of its PUT (VFSBackend.cpp:313) and a failing duplicate that
  unindexes a stored asset; a phantom id after a failing write of a data file (:112); a local PUT between the listing
  and the deletion of its directory is acknowledged, deleted and left indexed (:178).
- MeshSearch: after a close, a search told again after it was found, a search used after it was freed, the
  assertion in `onReadResponseHeader` (MeshServer.cpp:533), and a `close` that goes on with a server that the inner
  `close` destroyed (:62); with a late timer, a freed search (AssetSearch.cpp:117).
- ClientSession: a purge request is never answered (AssetCache.cpp:81), nor is a request for the list of stored ids
  when the index file cannot be read: `performGetStoredAssetIds` throws, and `workLoop` only logs (VFSBackend.cpp:93).
- Push replication: a response without a waiter, once the settings changed or a stop came.
- Pull replication: a connection lost while an asset of a batch is stored leaves an id in `_inProgressAssets` that
  nothing removes, and replication stands still (PullReplicationService.cpp:269); so it does when the master was
  removed before the reconnect timer fires (:107).
- Aperture: the write handler of a closed upstream connection pops an empty queue (AssetServer.cpp:311); REMCAP of a
  paused cap forgets its queued requests (request_handler.cpp:406); ADDCAP with a limit that is not a number leaves
  by an exception (:359); a limit of 0 makes `try_send_next_chunk` write chunks of no bytes for ever
  (connection.cpp:288).
- WhipClient: after a reconnection between queueing a waiter and sending its request, an answer meets the wrong
  waiter or none (RemoteServer.cs:371); requests sent during a handshake that fails are not freed (:281); a Stop may
  leave calls waiting for ever.

## Not modelled

- `server::handle_stop` of Aperture and an accept that fails; the Cloud Files connector, which cannot start:
  `requestNewAuthToken` looks for "serviceCatelog" (src/aperture/aperture/RackspaceAuthorizer.cpp:100).
- In the .NET client, callbacks that call the client again. In IntraMesh, the flags of heartbeats and status reports.
- Packet layouts, validation, settings, logging, statistics and hashing: no state of their own, or output only. The
  sessions model what is accepted and what is refused.
- SQLite wrappers and files: their outcomes, failures included, are in `VFSBackend`.
- Joke (generated parsers, a sequential interpreter), PhysX.Net (a wrapper), the prim exporter, chrysalis,
  import-export, the setup tools, whipstress and whipclone: converters, wrappers and tools.
- sqlite, ooid and antlr: third party. `sqlite3.c` alone is two thirds of the lines of the tree, and PhysX.Net and
  Joke are most of the rest, so the modelled lines are a small share of the tree.
