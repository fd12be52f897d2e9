--------------------------- MODULE ClientSession ---------------------------
(***************************************************************************)
(* The client connections of the WHIP server: AssetServer's accepting,     *)
(* AssetClient, CSUnauthenticated and CSAuthenticated, composed with the   *)
(* asset cache in front of the storage (AssetCache.cpp), with the promise  *)
(* of the storage backend (AssetStore) and with a mesh that answers every  *)
(* search once.                                                            *)
(*                                                                         *)
(* Everything runs on the ASIO thread, one handler at a time.  A session   *)
(* is half duplex: it reads a request, has it answered by the cache, the   *)
(* storage or the mesh, writes the response and reads the next request.    *)
(* The handlers of its socket keep the session alive; the callbacks it     *)
(* gives to the cache, the storage and the mesh hold a plain pointer.      *)
(***************************************************************************)
EXTENDS LRUCache

CONSTANTS
    Clients,        \* connections
    Reqs,           \* calls made on the storage; a PUT's name is its asset
    Ids,            \* asset UUIDs; also the name of the peers' copy
    Faults,         \* "drop": a connection breaks; "bad": a message is not
                    \* valid; "miss": the storage fails or has lost an asset
    MaxRequests,    \* bound: requests accepted by the server
    None

ASSUME ConstantsAssumption ==
    /\ Faults \subseteq {"drop", "bad", "miss"}
    /\ MaxRequests \in Nat
    /\ None \notin Clients \cup Reqs \cup Ids
    /\ Reqs \cap Ids = {}
    /\ MaxSize \in Nat
    /\ \A a \in Reqs \cup Ids : SizeOf[a] \in Nat

VARIABLES
    call, reply, kept,  \* the storage backend, see AssetStore
    conn,       \* "new", "in" (the client is in _clients), "gone" (freed)
    mesh,       \* _isMeshConnection
    out,        \* operations outstanding: reads and writes of the socket,
                \* and callbacks given away
    req,        \* _currentRequest: what the session was asked
    resp,       \* the response it is writing
    owner,      \* the session whose callback a storage call will run
    cache,      \* AssetCache::_cache
    used,       \* history: the keys by their last use, the latest first
    asked,      \* number of requests accepted
    trouble     \* "dangling": a callback ran for a session that was freed;
                \* "escaped": an exception left a handler, the server ends

storage == <<call, reply, kept>>
caching == <<cache, used>>
vars == <<storage, conn, mesh, out, req, resp, owner, caching, asked, trouble>>

Store == INSTANCE AssetStore

Sockets == {"challenge", "authResponse", "authSuccess", "authFailure",
            "request", "putData", "header", "data"}
Callbacks == {"cacheHit", "storage", "mesh"}
OpKinds == Sockets \cup Callbacks
Nothing == [k \in OpKinds |-> 0]
RequestTypes == {"get", "getDontCache", "put", "test", "purge", "purgeLocals",
                 "status", "list"}
NoRequest == [type |-> "none", id |-> None]
NoResponse == [code |-> "none", got |-> None]

Init ==
    /\ Store!Init
    /\ conn = [c \in Clients |-> "new"]
    /\ mesh = [c \in Clients |-> FALSE]
    /\ out = [c \in Clients |-> Nothing]
    /\ req = [c \in Clients |-> NoRequest]
    /\ resp = [c \in Clients |-> NoResponse]
    /\ owner = [r \in Reqs |-> None]
    /\ cache = EmptyCache
    /\ used = <<>>
    /\ asked = 0
    /\ trouble = {}

(***************************************************************************)
(* Helpers                                                                 *)
(***************************************************************************)
Up == trouble = {}
Outstanding(c, k) == Up /\ out[c][k] > 0

\* A handler of kind k has run and started an operation of kind j, or none.
Starts(c, k, j) == out' = [out EXCEPT ![c][k] = @ - 1, ![c][j] = @ + 1]
Ends(c, k) == out' = [out EXCEPT ![c][k] = @ - 1]

\* AssetClient::disconnect in a handler of kind k, which frees the session.
Disconnect(c, k) ==
    /\ conn' = [conn EXCEPT ![c] = "gone"]
    /\ Ends(c, k)
    /\ req' = [req EXCEPT ![c] = NoRequest]
    /\ resp' = [resp EXCEPT ![c] = NoResponse]

waitForRequest(c, k) ==
    /\ Starts(c, k, "request")
    /\ req' = [req EXCEPT ![c] = NoRequest]
    /\ resp' = [resp EXCEPT ![c] = NoResponse]

Uses(k) == used' = Latest(used, k)

\* CSAuthenticated::sendResponse, sendError.
sendResponse(c, k, code, got) ==
    /\ Starts(c, k, "header")
    /\ resp' = [resp EXCEPT ![c] = [code |-> code, got |-> got]]

\* Faulty variant: the session goes on reading while the storage works.
BadCallStorage(c, k, op, id, db) ==
    \E r \in Reqs :
        /\ Store!Ask(r, [op |-> op, id |-> id, db |-> db])
        /\ owner' = [owner EXCEPT ![r] = c]
        /\ out' = [out EXCEPT ![c]["storage"] = @ + 1]

\* A call on the storage with a callback of session c.
CallStorage(c, k, op, id, db) ==
    \E r \in Reqs :
        /\ Store!Ask(r, [op |-> op, id |-> id, db |-> db])
        /\ owner' = [owner EXCEPT ![r] = c]
        /\ Starts(c, k, "storage")

(***************************************************************************)
(* Connecting and authenticating                                           *)
(***************************************************************************)
\* handleAccept, AssetClient::start, clientConnect, sendAuthChallenge.
handleAccept(c) ==
    /\ Up /\ conn[c] = "new"
    /\ conn' = [conn EXCEPT ![c] = "in"]
    /\ out' = [out EXCEPT ![c]["challenge"] = @ + 1]
    /\ UNCHANGED <<storage, mesh, req, resp, owner, caching, asked, trouble>>

handleWriteChallenge(c) ==
    /\ Outstanding(c, "challenge")
    /\ Starts(c, "challenge", "authResponse")
    /\ UNCHANGED <<storage, conn, mesh, req, resp, owner, caching, asked, trouble>>

handleReadChallengeResponse(c) ==
    /\ Outstanding(c, "authResponse")
    /\ \/ /\ mesh' \in {mesh, [mesh EXCEPT ![c] = TRUE]}
          /\ Starts(c, "authResponse", "authSuccess")
       \/ /\ "bad" \in Faults
          /\ Starts(c, "authResponse", "authFailure")
          /\ UNCHANGED mesh
    /\ UNCHANGED <<storage, conn, req, resp, owner, caching, asked, trouble>>

handleWriteAuthFailure(c) ==
    /\ Outstanding(c, "authFailure")
    /\ Disconnect(c, "authFailure")
    /\ UNCHANGED <<storage, mesh, owner, caching, asked, trouble>>

\* handleWriteAuthSuccess and CSAuthenticated::start.  The outcome of the write
\* is not looked at; if the connection is down, asking for its remote endpoint
\* throws, and nothing catches it.
handleWriteAuthSuccess(c) ==
    /\ Outstanding(c, "authSuccess")
    /\ \/ waitForRequest(c, "authSuccess") /\ UNCHANGED trouble
       \/ /\ "drop" \in Faults
          /\ Ends(c, "authSuccess")
          /\ trouble' = {"escaped"}
          /\ UNCHANGED <<req, resp>>
    /\ UNCHANGED <<storage, conn, mesh, owner, caching, asked>>

(***************************************************************************)
(* Requests                                                                *)
(***************************************************************************)
\* handleClientRequestHeaderRead, with the part that is common to all types.
RequestRead(c, type, id) ==
    /\ Outstanding(c, "request")
    /\ asked < MaxRequests
    /\ asked' = asked + 1
    /\ req' = [req EXCEPT ![c] = [type |-> type, id |-> id]]

\* handleGetRequest and AssetCache::getAsset.
handleGetRequest(c, type, id) ==
    /\ type \in {"get", "getDontCache"}
    /\ RequestRead(c, type, id)
    /\ cache' = fetch(cache, id)
    /\ \/ /\ exists(cache, id)
          /\ Starts(c, "request", "cacheHit")
          /\ resp' = [resp EXCEPT ![c] = [code |-> "none", got |-> fetched(cache, id)]]
          /\ Uses(id)
          /\ UNCHANGED <<storage, owner>>
       \/ /\ ~exists(cache, id)
          /\ CallStorage(c, "request", "get", id, "globals")
          /\ UNCHANGED <<resp, used>>
    /\ UNCHANGED <<conn, mesh, trouble>>

\* handlePutRequest: the asset follows.
handlePutRequest(c, id) ==
    /\ RequestRead(c, "put", id)
    /\ Starts(c, "request", "putData")
    /\ UNCHANGED <<storage, conn, mesh, resp, owner, caching, trouble>>

\* handleStatusGet and handleStoredAssetIdsGet.
handleStorageQuery(c, type, id) ==
    /\ type \in {"status", "list"}
    /\ RequestRead(c, type, id)
    /\ CallStorage(c, "request", type, id, "globals")
    /\ UNCHANGED <<conn, mesh, resp, caching, trouble>>

\* handleTestRequest and AssetCache::assetExists: what the existence index
\* says is not part of the storage's promise.
handleTestRequest(c, id) ==
    /\ RequestRead(c, "test", id)
    /\ \E stored \in BOOLEAN :
          sendResponse(c, "request",
                       IF exists(cache, id) \/ stored THEN "FOUND" ELSE "NOTFOUND",
                       None)
    /\ UNCHANGED <<storage, conn, mesh, owner, caching, trouble>>

handlePurgeLocals(c) ==
    /\ RequestRead(c, "purgeLocals", None)
    /\ sendResponse(c, "request", "OK", None)
    /\ UNCHANGED <<storage, conn, mesh, owner, caching, trouble>>

\* handlePurgeRequest: AssetCache::purgeAsset has an empty body.
handlePurgeRequest(c, id) ==
    /\ RequestRead(c, "purge", id)
    /\ Ends(c, "request")
    /\ UNCHANGED <<storage, conn, mesh, resp, owner, caching, trouble>>

\* A UUID that is not valid, where the handler looks at it.
InvalidId(c, type) ==
    /\ "bad" \in Faults
    /\ type \in {"get", "getDontCache", "test", "purge"}
    /\ RequestRead(c, type, None)
    /\ sendResponse(c, "request", "ERROR", None)
    /\ UNCHANGED <<storage, conn, mesh, owner, caching, trouble>>

\* The header itself is not valid: the session is ended.
InvalidHeader(c) ==
    /\ "bad" \in Faults
    /\ Outstanding(c, "request")
    /\ Disconnect(c, "request")
    /\ UNCHANGED <<storage, mesh, owner, caching, asked, trouble>>

\* The asset is stored under the UUID in its data, whatever the header says.
handleAssetDataRead(c) ==
    /\ Outstanding(c, "putData")
    /\ \/ /\ \E id \in Ids, db \in {"globals", "locals"} :
               CallStorage(c, "putData", "put", id, db)
          /\ UNCHANGED resp
       \/ /\ "bad" \in Faults
          /\ sendResponse(c, "putData", "ERROR", None)
          /\ UNCHANGED <<storage, owner>>
    /\ UNCHANGED <<conn, mesh, req, caching, asked, trouble>>

(***************************************************************************)
(* Answers                                                                 *)
(***************************************************************************)
\* A callback with a plain pointer to the session runs.
CallbackFinds(c) == trouble' = IF conn[c] = "in" THEN {} ELSE {"dangling"}

Caches(id, a) == cache' = insert(cache, id, a) /\ Uses(id)

\* Faulty variant: the client is told before the mesh is asked.
BadStorageGetFailed(c) ==
    /\ resp' = [resp EXCEPT ![c] = [code |-> "NOTFOUND", got |-> None]]
    /\ out' = [out EXCEPT ![c] = [@ EXCEPT !["storage"] = @ - 1,
                                           !["header"] = @ + 1, !["mesh"] = @ + 1]]

\* Faulty variant: a peer's request is not answered.
BadStorageGetFailedSilently(c) ==
    /\ IF mesh[c] THEN Ends(c, "storage") ELSE Starts(c, "storage", "mesh")
    /\ UNCHANGED resp

\* The storage does not have the asset, for whatever reason: a client's
\* request goes on to the mesh, a peer's does not.
StorageGetFailed(c) ==
    \/ ~mesh[c] /\ Starts(c, "storage", "mesh") /\ UNCHANGED resp
    \/ mesh[c] /\ sendResponse(c, "storage", "NOTFOUND", None)

\* asyncGetCompleted and handleStorageGetResponse.
StorageGetResponse(c, r, res, got) ==
    \/ /\ res = "found"
       /\ \E a \in got :
            /\ IF req[c].type = "getDontCache" THEN UNCHANGED caching
               ELSE Caches(call[a].id, a)
            /\ sendResponse(c, "storage", "FOUND", a)
    \/ res # "found" /\ StorageGetFailed(c) /\ UNCHANGED caching

\* Faulty variant: the asset is cached whether or not it was stored.
BadStorageWriteResponse(c, r, res) ==
    /\ Caches(call[r].id, r)
    /\ sendResponse(c, "storage", IF res = "ok" THEN "OK" ELSE "ERROR", None)

\* Faulty variant: the asset is cached under the UUID of the request's header.
BadWriteCachedByHeader(c, r, res) ==
    /\ IF res = "ok" THEN Caches(req[c].id, r) ELSE UNCHANGED caching
    /\ sendResponse(c, "storage", IF res = "ok" THEN "OK" ELSE "ERROR", None)

\* asyncPutCompleted and handleStorageWriteResponse.
StorageWriteResponse(c, r, res) ==
    /\ IF res = "ok" THEN Caches(call[r].id, r) ELSE UNCHANGED caching
    /\ sendResponse(c, "storage", IF res = "ok" THEN "OK" ELSE "ERROR", None)

\* What the storage may answer here: an asset it keeps is found unless
\* something failed, and the list of ids is not looked at.
Plausible(r, res, got) ==
    /\ call[r].op = "get" /\ "miss" \notin Faults =>
          /\ res # "failed"
          /\ res = "notfound" => kept[call[r].id] = None
    /\ call[r].op = "put" /\ res = "failed" => "miss" \in Faults
    /\ call[r].op = "list" => got = {}

\* The storage's callback for call r runs.
StorageAnswers(r) ==
    LET c == owner[r]
    IN  /\ Up
        /\ Store!Waits(r)
        /\ \E res \in Store!Results, got \in SUBSET Reqs :
             /\ Store!Answer(r, res, got)
             /\ Plausible(r, res, got)
             /\ \/ call[r].op = "get" /\ StorageGetResponse(c, r, res, got)
                \/ call[r].op = "put" /\ StorageWriteResponse(c, r, res)
                \/ /\ call[r].op \in {"status", "list"}
                   /\ sendResponse(c, "storage", "OK", None)
                   /\ UNCHANGED caching
        /\ CallbackFinds(c)
        /\ UNCHANGED <<conn, mesh, req, owner, asked>>

\* The asset of a PUT becomes durable.
StorageKeeps(r) ==
    /\ Up
    /\ Store!Keep(r)
    /\ UNCHANGED <<conn, mesh, out, req, resp, owner, caching, asked, trouble>>

\* The posted callback of a cache hit, with the asset that was fetched.
CacheHitRuns(c) ==
    /\ Outstanding(c, "cacheHit")
    /\ sendResponse(c, "cacheHit", "FOUND", resp[c].got)
    /\ CallbackFinds(c)
    /\ UNCHANGED <<storage, conn, mesh, req, owner, caching, asked>>

\* The search ends: searchComplete informs the cache, and
\* handleIntrameshGetResponse answers the client.
MeshAnswers(c) ==
    /\ Outstanding(c, "mesh")
    /\ \/ /\ Caches(req[c].id, req[c].id)
          /\ sendResponse(c, "mesh", "FOUND", req[c].id)
       \/ /\ sendResponse(c, "mesh", "NOTFOUND", None)
          /\ UNCHANGED caching
    /\ CallbackFinds(c)
    /\ UNCHANGED <<storage, conn, mesh, req, owner, asked>>

\* A response has data unless it is a code alone.
HasData(c) == \/ resp[c].got # None
              \/ resp[c].code = "ERROR"
              \/ req[c].type \in {"status", "list"}

handleResponseHeaderWrite(c) ==
    /\ Outstanding(c, "header")
    /\ IF HasData(c) THEN Starts(c, "header", "data") /\ UNCHANGED <<req, resp>>
       ELSE waitForRequest(c, "header")
    /\ UNCHANGED <<storage, conn, mesh, owner, caching, asked, trouble>>

handleResponseDataWrite(c) ==
    /\ Outstanding(c, "data")
    /\ waitForRequest(c, "data")
    /\ UNCHANGED <<storage, conn, mesh, owner, caching, asked, trouble>>

\* Every other handler of the socket disconnects when it gets an error.
handleIoFailure(c, k) ==
    /\ "drop" \in Faults
    /\ k \in Sockets \ {"authSuccess", "authFailure"}
    /\ Outstanding(c, k)
    /\ Disconnect(c, k)
    /\ UNCHANGED <<storage, mesh, owner, caching, asked, trouble>>

(***************************************************************************)
(* The specification                                                       *)
(***************************************************************************)
Authenticating(c) ==
    \/ handleAccept(c) \/ handleWriteChallenge(c)
    \/ handleReadChallengeResponse(c)
    \/ handleWriteAuthFailure(c) \/ handleWriteAuthSuccess(c)

Requesting(c) ==
    \/ \E id \in Ids :
          \/ \E type \in RequestTypes : \/ handleGetRequest(c, type, id)
                                       \/ handleStorageQuery(c, type, id)
          \/ handlePutRequest(c, id)
          \/ handleTestRequest(c, id)
          \/ handlePurgeRequest(c, id)
    \/ handlePurgeLocals(c)
    \/ \E type \in RequestTypes : InvalidId(c, type)
    \/ InvalidHeader(c)
    \/ handleAssetDataRead(c)

Answering(c) ==
    \/ CacheHitRuns(c) \/ MeshAnswers(c)
    \/ handleResponseHeaderWrite(c) \/ handleResponseDataWrite(c)

Next ==
    \/ \E c \in Clients : \/ Authenticating(c) \/ Requesting(c) \/ Answering(c)
                          \/ \E k \in Sockets : handleIoFailure(c, k)
    \/ \E r \in Reqs : StorageAnswers(r) \/ StorageKeeps(r)

Spec == Init /\ [][Next]_vars

\* Listing the stored ids may throw on the disk worker, which only logs it: then
\* nobody ever calls back.
MayBeForgotten(op) == op = "list" /\ "miss" \in Faults

\* The storage calls back whatever fails, but for a list (EveryCallAnswered), and
\* so does the mesh (EverySearchAnswered), posted handlers run, and a write
\* finishes or fails.  Nothing makes a client send.
Fairness ==
    /\ \A r \in Reqs : WF_vars(StorageAnswers(r) /\ ~MayBeForgotten(call[r].op))
    /\ \A c \in Clients : WF_vars(Answering(c))

FairSpec == Spec /\ Fairness

(***************************************************************************)
(* Properties                                                              *)
(***************************************************************************)
Assets == Reqs \cup Ids

\* Every variable keeps its shape.
TypeOK ==
    /\ call \in [Reqs -> Store!Call \cup {None}]
    /\ conn \in [Clients -> {"new", "in", "gone"}]
    /\ mesh \in [Clients -> BOOLEAN]
    /\ out \in [Clients -> [OpKinds -> Nat]]
    /\ req \in [Clients -> [type : RequestTypes \cup {"none"}, id : Ids \cup {None}]]
    /\ resp \in [Clients -> [code : {"none", "FOUND", "NOTFOUND", "OK", "ERROR"},
                            got : Assets \cup {None}]]
    /\ owner \in [Reqs -> Clients \cup {None}]
    /\ asked \in 0 .. MaxRequests
    /\ trouble \subseteq {"dangling", "escaped"}

\* Exactly one operation of a session that is connected is outstanding, of
\* whatever kind, and none of one that is not.  A purge is the exception: it
\* leaves a session that nothing will ever wake.
OneOutstanding ==
    \A c \in Clients :
        \/ /\ conn[c] = "in"
           /\ \E k \in OpKinds : out[c] = [Nothing EXCEPT ![k] = 1]
        \/ out[c] = Nothing /\ (conn[c] = "in" => req[c].type = "purge" \/ ~Up)

\* A storage call that waits belongs to the request its session is working
\* on, and a session waits for at most one.
CallsOwned ==
    \A r \in Reqs :
        Store!Waits(r) =>
            /\ owner[r] \in Clients
            /\ out[owner[r]]["storage"] = 1
            /\ \A q \in Reqs : Store!Waits(q) /\ owner[q] = owner[r] => q = r

\* No callback ever runs on a session that was freed, although the cache, the
\* storage and the mesh hold plain pointers and a client may drop its
\* connection at any time: while they have one, no handler of the socket is
\* outstanding that could notice.
NoDanglingCallback == "dangling" \notin trouble

\* A response carries an asset with the id that was asked for, whichever of
\* the cache, the storage or the mesh produced it and however the requests of
\* several clients interleave.
IdOfAsset(a) == IF a \in Ids THEN a ELSE call[a].id
AnswersItsRequest ==
    \A c \in Clients : resp[c].got # None =>
        /\ req[c].type \in {"get", "getDontCache"}
        /\ IdOfAsset(resp[c].got) = req[c].id

\* A cached asset is filed under its own id, and one that was PUT here as a
\* global asset is what the storage keeps for it: the cache never shows what a
\* failed or a competing PUT tried to store.
CacheHonest ==
    \A i \in DOMAIN cache.list :
        LET e == cache.list[i]
        IN  /\ IdOfAsset(e.data) = e.key
            /\ e.data \in Reqs /\ call[e.data].db = "globals" => kept[e.key] = e.data

\* The cache holds the most recently used keys, in the order of their use, and
\* its list, index and total agree and the total stays in bounds, through
\* replacements, evictions and assets too large to be cached.
CacheSound == Agrees(cache) /\ InOrder(cache, used)

\* A request that was read is answered or its connection ends: the session
\* comes back to reading.  The exceptions are a purge, after which a session is
\* never busy (AssetCache::purgeAsset), and a list of which the storage was
\* asked and may have failed to make (VFSBackend::performGetStoredAssetIds).
Busy(c) == \E k \in Callbacks \cup {"header", "data"} : out[c][k] > 0
EveryRequestAnswered ==
    \A c \in Clients :
        Busy(c) ~> \/ out[c]["request"] > 0 \/ conn[c] = "gone" \/ ~Up
                   \/ out[c]["storage"] > 0 /\ MayBeForgotten(req[c].type)
============================================================================
