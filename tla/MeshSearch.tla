----------------------------- MODULE MeshSearch -----------------------------
(***************************************************************************)
(* Looking for an asset on the peers of the mesh                           *)
(* (src/whip-server/whip/AssetSearch.cpp, MeshServer.cpp,                  *)
(* MeshQueryConnection.cpp, MeshStorageBackend.cpp).                       *)
(*                                                                         *)
(* Everything runs on the ASIO thread, one handler at a time; what is      *)
(* concurrent is the peers, the timers and the order in which completed    *)
(* operations get their handler.  Each peer has a query socket, on which   *)
(* an id is asked for, and a service socket, from which the asset is       *)
(* fetched.  An operation that was started before its socket was closed    *)
(* may have completed by then, so its handler can still report success;    *)
(* one started on a closed socket ("dead") fails.  A behaviour is followed *)
(* up to the first event recorded in bug.                                  *)
(***************************************************************************)
EXTENDS Naturals, Sequences, FiniteSets, Functions

CONSTANTS
    Servers,    \* peers with both connections established
    Searches,   \* calls of getAsset and assetExists
    Ids,
    IdOf,       \* the id each search is for
    Full,       \* the searches that fetch the asset (getAsset)
    Faults      \* "close": connections fail; "late": a timer's handler may
                \* already be queued when the timer is cancelled

ASSUME ConstantsAssumption ==
    /\ IdOf \in [Searches -> Ids] /\ IsFiniteSet(Searches)
    /\ Full \subseteq Searches
    /\ Faults \subseteq {"close", "late"}

VARIABLES
    est,        \* _assetConnectionEstablished; the service socket is open
    qest,       \* _meshQueryConnectionEstablished
    qopen,      \* MeshQueryConnection::_isConnected; the query socket is open
    fired,      \* _disconnectCallbackFired
    alive,      \* the server is in _remoteServers
    sread,      \* read outstanding on the service socket (_recvActive)
    swrite,     \* write outstanding on the service socket (_sendActive)
    qread,      \* the same for the query socket
    qwrite,
    sendq,      \* MeshQueryConnection::_sendQueue
    transferq,  \* _transferRequestQueue: the searches waiting to ask
    callbackq,  \* _assetCallbackQueue: the searches waiting for an answer
    cur,        \* _currentSearches
    asked,      \* queries on the wire the peer has not answered
    owed,       \* the ids requested on the wire that the peer has not delivered
    phase,      \* "new", "active" (in _activeSearches), "done" (freed)
    found,      \* _wasFound
    queried,    \* _queriedServers
    timer,      \* _timeoutTimer
    answers,    \* what the callback of a search was called with
    posted,     \* searches whose callback getAsset posted to the io_service
    bug         \* events the code does not expect: a search is told a result
                \* after it was found, a response has no waiter, a search or a
                \* server is used after it was freed

sockets == <<est, qest, qopen, fired, alive, sread, swrite, qread, qwrite>>
queues == <<sendq, transferq, callbackq, cur, asked, owed>>
searching == <<phase, found, queried, timer, answers, posted>>
vars == <<sockets, queues, searching, bug>>

Init ==
    /\ est = [s \in Servers |-> TRUE]
    /\ qest = [s \in Servers |-> TRUE]
    /\ qopen = [s \in Servers |-> TRUE]
    /\ fired = [s \in Servers |-> FALSE]
    /\ alive = [s \in Servers |-> TRUE]
    /\ sread = [s \in Servers |-> "header"]
    /\ swrite = [s \in Servers |-> "none"]
    /\ qread = [s \in Servers |-> "live"]
    /\ qwrite = [s \in Servers |-> "none"]
    /\ sendq = [s \in Servers |-> <<>>]
    /\ transferq = [s \in Servers |-> <<>>]
    /\ callbackq = [s \in Servers |-> <<>>]
    /\ cur = [s \in Servers |-> {}]
    /\ asked = [s \in Servers |-> [id \in Ids |-> 0]]
    /\ owed = [s \in Servers |-> <<>>]
    /\ phase = [x \in Searches |-> "new"]
    /\ found = [x \in Searches |-> FALSE]
    /\ queried = [x \in Searches |-> {}]
    /\ timer = [x \in Searches |-> "off"]
    /\ answers = [x \in Searches |-> <<>>]
    /\ posted = {}
    /\ bug = {}

(***************************************************************************)
(* Searches                                                                *)
(***************************************************************************)
\* The callback of the searches in X is called with a, and they are freed.
Complete(X, a) ==
    /\ answers' = [x \in Searches |-> IF x \in X THEN Append(answers[x], a)
                                      ELSE answers[x]]
    /\ phase' = [x \in Searches |-> IF x \in X THEN "done" ELSE phase[x]]

\* Faulty variant: the timer is left running.
BadCancelTimer(X) == UNCHANGED timer

\* cancelTimeoutTimer: a handler that is already queued will still run.
CancelTimer(X) ==
    timer' = [x \in Searches |->
                IF x \in X /\ timer[x] = "armed" THEN "off" ELSE timer[x]]

\* Faulty variant: the servers are not told.
BadCurWithout(X) == cur

\* cancelRemainingServers: what is left of _currentSearches, and of the
\* servers waited for, when the searches in X are withdrawn.
CurWithout(X) == [t \in Servers |-> {y \in cur[t] : y \notin X \/ t \notin queried[y]}]
NobodyQueried(X) == [x \in Searches |-> IF x \in X THEN {} ELSE queried[x]]

\* A write or read started now on a socket that is open or not.
Op(open, kind) == IF open THEN kind ELSE "dead"

\* The searches that wait for an answer about id from s.
Waiting(s, id) == {x \in cur[s] : IdOf[x] = id /\ phase[x] = "active"}

\* The searches in X with no other server to wait for.
Exhausted(X, s) == {x \in X : queried[x] \subseteq {s}}

\* initiateSearch for every server, MeshServer::search and
\* MeshQueryConnection::search: x is made on the servers in Q.
SearchOn(x, Q) ==
    LET New(s) == s \in Q /\ \A y \in cur[s] : IdOf[y] # IdOf[x]
        Sends(s) == New(s) /\ qopen[s] /\ qwrite[s] = "none"
        Queues(s) == New(s) /\ qopen[s] /\ qwrite[s] # "none"
    IN  /\ queried' = [queried EXCEPT ![x] = Q]
        /\ cur' = [s \in Servers |-> IF s \in Q THEN cur[s] \cup {x} ELSE cur[s]]
        /\ qwrite' = [s \in Servers |-> IF Sends(s) THEN "live" ELSE qwrite[s]]
        /\ asked' = [s \in Servers |->
                       IF Sends(s) THEN [asked[s] EXCEPT ![IdOf[x]] = @ + 1]
                       ELSE asked[s]]
        /\ sendq' = [s \in Servers |-> IF Queues(s) THEN Append(sendq[s], IdOf[x])
                                       ELSE sendq[s]]

\* MeshStorageBackend::getAsset or assetExists, and performSearch.
\* Q: the servers that are not timed out and report to be readable.
PerformSearch(x) ==
    /\ phase[x] = "new"
    /\ bug = {}
    /\ \E Q \in SUBSET {s \in Servers : alive[s] /\ est[s]} :
          /\ SearchOn(x, Q)
          /\ phase' = [phase EXCEPT ![x] = IF Q = {} THEN "done" ELSE "active"]
          /\ answers' = IF Q = {} THEN [answers EXCEPT ![x] = <<"null">>] ELSE answers
          /\ timer' = [timer EXCEPT ![x] = IF Q = {} THEN "off" ELSE "armed"]
    /\ UNCHANGED <<est, qest, qopen, fired, alive, sread, swrite, qread,
                   transferq, callbackq, owed, found, posted, bug>>

TimerExpires(x) ==
    /\ bug = {}
    /\ timer[x] = "armed"
    /\ timer' = [timer EXCEPT ![x] = "queued"]
    /\ UNCHANGED <<sockets, queues, phase, found, queried, answers, posted, bug>>

\* Faulty variant: the servers are told, the caller is not.
BadOnTimeout(x) ==
    /\ bug = {}
    /\ timer[x] = "queued" \/ ("late" \notin Faults /\ timer[x] = "armed")
    /\ timer' = [timer EXCEPT ![x] = "off"]
    /\ cur' = CurWithout({x})
    /\ queried' = NobodyQueried({x})
    /\ UNCHANGED <<sockets, sendq, transferq, callbackq, asked, owed, phase,
                   answers, found, posted, bug>>

\* onTimeout.  The handler holds a plain pointer to the search.
OnTimeout(x) ==
    /\ bug = {}
    /\ timer[x] = "queued" \/ ("late" \notin Faults /\ timer[x] = "armed")
    /\ timer' = [timer EXCEPT ![x] = "off"]
    /\ \/ /\ phase[x] = "active" /\ ~found[x]
          /\ cur' = CurWithout({x})
          /\ queried' = NobodyQueried({x})
          /\ Complete({x}, "null")
          /\ UNCHANGED bug
       \/ /\ phase[x] = "active" /\ found[x]
          /\ UNCHANGED <<cur, queried, answers, phase, bug>>
       \/ /\ phase[x] = "done"
          /\ bug' = {"deadSearch"}
          /\ UNCHANGED <<cur, queried, answers, phase>>
    /\ UNCHANGED <<sockets, sendq, transferq, callbackq, asked, owed, found,
                   posted>>

(***************************************************************************)
(* MeshServer::close, together with MeshQueryConnection::close             *)
(***************************************************************************)
\* Faulty variant: a write may be outstanding.
BadSafeToKill(e, sr, sw, qe) == ~e /\ sr = "none" /\ ~qe

\* checkSafeKill: the server is erased from _remoteServers and destroyed.
SafeToKill(e, sr, sw, qe) == ~e /\ sr = "none" /\ sw = "none" /\ ~qe

\* The operations of s that are outstanding when it is called are sr, sw, qr
\* and qw.  The query connection reports its end, once, as soon as it has no
\* operation left: by is "query" when that report is what closes the server.
\* When the report comes in the middle of a close it closes the server a
\* second time, and the inner close may destroy the object the outer one is
\* working on.
CloseServer(s, sr, sw, qr, qw, by) ==
    LET cancelled == Range(transferq[s]) \cup Range(callbackq[s])
        told == {x \in cur[s] : phase[x] = "active" /\ x \notin cancelled}
        ends == qr = "none" /\ qw = "none" /\ ~fired[s]
        qend == qest[s] /\ ~ends
    IN  /\ est' = [est EXCEPT ![s] = FALSE]
        /\ qopen' = [qopen EXCEPT ![s] = FALSE]
        /\ fired' = [fired EXCEPT ![s] = @ \/ ends]
        /\ qest' = [qest EXCEPT ![s] = qend]
        /\ alive' = [alive EXCEPT ![s] = @ /\ ~SafeToKill(FALSE, sr, sw, qend)]
        /\ sread' = [sread EXCEPT ![s] = sr]
        /\ swrite' = [swrite EXCEPT ![s] = sw]
        /\ qread' = [qread EXCEPT ![s] = qr]
        /\ qwrite' = [qwrite EXCEPT ![s] = qw]
        /\ transferq' = [transferq EXCEPT ![s] = <<>>]
        /\ callbackq' = [callbackq EXCEPT ![s] = <<>>]
        /\ queried' = [x \in Searches |-> IF x \in told THEN queried[x] \ {s}
                                          ELSE queried[x]]
        /\ Complete({x \in cancelled : phase[x] = "active"} \cup Exhausted(told, s),
                    "null")
        /\ CancelTimer(Exhausted(told, s))
        /\ bug' = UNION {IF \E x \in told : found[x] THEN {"afterFound"} ELSE {},
                         IF \E x \in cancelled : phase[x] = "done"
                         THEN {"deadSearch"} ELSE {},
                         IF ends /\ by = "service" /\ SafeToKill(FALSE, sr, sw, FALSE)
                         THEN {"deadServer"} ELSE {}}
        /\ UNCHANGED <<sendq, cur, posted, found>>

\* MeshQueryConnection::close, called from a handler of the query socket.
CloseQuery(s, qr, qw) ==
    \/ /\ qr = "none" /\ qw = "none" /\ ~fired[s]
       /\ CloseServer(s, sread[s], swrite[s], qr, qw, "query")
    \/ /\ qr # "none" \/ qw # "none" \/ fired[s]
       /\ qopen' = [qopen EXCEPT ![s] = FALSE]
       /\ qread' = [qread EXCEPT ![s] = qr]
       /\ qwrite' = [qwrite EXCEPT ![s] = qw]
       /\ UNCHANGED <<est, qest, fired, alive, sread, swrite, sendq, transferq,
                      callbackq, cur, searching, bug>>

\* An outstanding operation can fail: its connection broke or was closed.
CanFail(op, open) == op = "dead" \/ (op # "none" /\ ("close" \in Faults \/ ~open))
Completes(op) == op \notin {"none", "dead"}

(***************************************************************************)
(* The query connection                                                    *)
(***************************************************************************)
\* Faulty variant: what is queued stays queued.
BadQueryWritten(s) ==
    /\ bug = {}
    /\ Completes(qwrite[s])
    /\ qwrite' = [qwrite EXCEPT ![s] = "none"]
    /\ UNCHANGED <<est, qest, qopen, fired, alive, sread, swrite, qread, queues,
                   searching, bug>>

\* onAfterMeshMessageWritten, and writeNextMessage: the next query is sent
\* even if the connection was closed meanwhile.
QueryWritten(s) ==
    LET next == sendq[s] # <<>>
    IN  /\ bug = {}
        /\ Completes(qwrite[s])
        /\ qwrite' = [qwrite EXCEPT ![s] = IF next THEN Op(qopen[s], "live")
                                           ELSE "none"]
        /\ sendq' = [sendq EXCEPT ![s] = IF next THEN Tail(@) ELSE @]
        /\ asked' = IF next /\ qopen[s]
                    THEN [asked EXCEPT ![s][Head(sendq[s])] = @ + 1]
                    ELSE asked
        /\ UNCHANGED <<est, qest, qopen, fired, alive, sread, swrite, qread,
                       transferq, callbackq, cur, owed, searching, bug>>

\* A query whose write failed did not reach the peer.
QueryWriteFails(s) ==
    /\ bug = {}
    /\ CanFail(qwrite[s], qopen[s])
    /\ \/ /\ qwrite[s] = "live"
          /\ \E id \in Ids : /\ asked[s][id] > 0
                             /\ asked' = [asked EXCEPT ![s][id] = @ - 1]
       \/ qwrite[s] = "dead" /\ UNCHANGED asked
    /\ CloseQuery(s, qread[s], "none")
    /\ UNCHANGED owed

\* onSearchResult(found) of the searches in X, answered by s about id:
\* MeshServer::getAsset queues the transfers of those that want the asset.
Orders(X) == UNION {Bijection(1 .. n, X) : n \in 0 .. Cardinality(Searches)}
FoundOn(s, id, X) ==
    \E order \in Orders(X \cap Full) :
        LET send == order # <<>> /\ swrite[s] = "none"
        IN  /\ Complete(X \ Full, "yes")
            /\ found' = [x \in Searches |-> found[x] \/ x \in X \cap Full]
            /\ CancelTimer(X)
            /\ cur' = [CurWithout(X) EXCEPT ![s] = {y \in @ : IdOf[y] # id}]
            /\ queried' = NobodyQueried(X)
            /\ posted' = IF est[s] THEN posted ELSE posted \cup (X \cap Full)
            /\ swrite' = [swrite EXCEPT ![s] = IF send THEN Op(est[s], "live")
                                               ELSE @]
            /\ owed' = [owed EXCEPT ![s] = IF send /\ est[s] THEN Append(@, id)
                                           ELSE @]
            /\ callbackq' = [callbackq EXCEPT ![s] =
                               IF send THEN Append(@, Head(order)) ELSE @]
            /\ transferq' = [transferq EXCEPT ![s] =
                               @ \o (IF send THEN Tail(order) ELSE order)]

\* onSearchResult(not found) of the searches in X.
NotFoundOn(s, id, X) ==
    /\ Complete(Exhausted(X, s), "null")
    /\ CancelTimer(Exhausted(X, s))
    /\ cur' = [cur EXCEPT ![s] = {y \in @ : IdOf[y] # id}]
    /\ queried' = [x \in Searches |-> IF x \in X THEN queried[x] \ {s}
                                      ELSE queried[x]]
    /\ UNCHANGED <<found, posted, swrite, owed, callbackq, transferq>>

\* onAfterMeshMessageReceived, onQueryAnswerRcvd and postResponse, then the
\* next read.  A heartbeat only refreshes what PerformSearch chooses from.
QueryAnswered(s) ==
    /\ bug = {}
    /\ Completes(qread[s])
    /\ \E id \in Ids :
         LET X == Waiting(s, id)
         IN  /\ asked[s][id] > 0
             /\ asked' = [asked EXCEPT ![s][id] = @ - 1]
             /\ bug' = IF \E x \in X : found[x] THEN {"afterFound"} ELSE {}
             /\ FoundOn(s, id, X) \/ NotFoundOn(s, id, X)
    /\ qread' = [qread EXCEPT ![s] = Op(qopen[s], "live")]
    /\ UNCHANGED <<est, qest, qopen, fired, alive, sread, qwrite, sendq>>

HeartbeatRead(s) ==
    /\ bug = {}
    /\ Completes(qread[s])
    /\ qread' = [qread EXCEPT ![s] = Op(qopen[s], "live")]
    /\ UNCHANGED <<est, qest, qopen, fired, alive, sread, swrite, qwrite, queues,
                   searching, bug>>

QueryReadFails(s) ==
    /\ bug = {}
    /\ CanFail(qread[s], qopen[s])
    /\ CloseQuery(s, "none", qwrite[s])
    /\ UNCHANGED <<asked, owed>>

(***************************************************************************)
(* The service connection                                                  *)
(***************************************************************************)
\* onAfterWriteAssetRequest without an error, and checkSafeKill.
RequestWritten(s) ==
    LET next == est[s] /\ transferq[s] # <<>>
    IN  /\ bug = {}
        /\ Completes(swrite[s])
        /\ swrite' = [swrite EXCEPT ![s] = IF next THEN "live" ELSE "none"]
        /\ callbackq' = [callbackq EXCEPT ![s] =
                           IF next THEN Append(@, Head(transferq[s])) ELSE @]
        /\ owed' = [owed EXCEPT ![s] =
                      IF next THEN Append(@, IdOf[Head(transferq[s])]) ELSE @]
        /\ transferq' = [transferq EXCEPT ![s] = IF next THEN Tail(@) ELSE @]
        /\ alive' = [alive EXCEPT ![s] =
                       @ /\ ~SafeToKill(est[s], sread[s], swrite'[s], qest[s])]
        /\ UNCHANGED <<est, qest, qopen, fired, sread, qread, qwrite, sendq, cur,
                       asked, searching, bug>>

\* A request whose write failed did not reach the peer, so it is not the one
\* the peer is answering.
Front(queue) == SubSeq(queue, 1, Len(queue) - 1)
RequestWriteFails(s) ==
    /\ bug = {}
    /\ CanFail(swrite[s], est[s])
    /\ \/ /\ swrite[s] = "live"
          /\ Len(owed[s]) > IF sread[s] = "data" THEN 1 ELSE 0
          /\ owed' = [owed EXCEPT ![s] = Front(@)]
       \/ swrite[s] = "dead" /\ UNCHANGED owed
    /\ CloseServer(s, sread[s], "none", qread[s], qwrite[s], "service")
    /\ UNCHANGED asked

\* Faulty variant: the waiter stays in the queue.
BadDeliver(s, a, kind) ==
    LET x == Head(callbackq[s])
    IN  /\ Complete({x} \ {y \in Searches : phase[y] = "done"}, a)
        /\ bug' = IF phase[x] = "done" THEN {"deadSearch"} ELSE {}
        /\ sread' = [sread EXCEPT ![s] = Op(est[s], kind)]
        /\ UNCHANGED <<est, qest, qopen, fired, alive, swrite, qread, qwrite,
                       sendq, transferq, callbackq, cur, found, queried, timer,
                       posted>>

\* The first waiter of s gets a, and the next read of the service socket is of
\* kind.
Deliver(s, a, kind) ==
    LET x == Head(callbackq[s])
    IN  /\ callbackq' = [callbackq EXCEPT ![s] = Tail(@)]
        /\ Complete({x} \ {y \in Searches : phase[y] = "done"}, a)
        /\ bug' = IF phase[x] = "done" THEN {"deadSearch"} ELSE {}
        /\ sread' = [sread EXCEPT ![s] = Op(est[s], kind)]
        /\ UNCHANGED <<est, qest, qopen, fired, alive, swrite, qread, qwrite,
                       sendq, transferq, cur, found, queried, timer, posted>>

\* onReadResponseHeader when the peer sends the asset it was asked for.
HeaderFound(s) ==
    /\ bug = {}
    /\ sread[s] = "header" /\ owed[s] # <<>>
    /\ sread' = [sread EXCEPT ![s] = Op(est[s], "data")]
    /\ UNCHANGED <<est, qest, qopen, fired, alive, swrite, qread, qwrite, queues,
                   searching, bug>>

\* onReadResponseHeader when the peer answers that it failed, with or without
\* a message to skip.
HeaderError(s) ==
    /\ bug = {}
    /\ sread[s] = "header" /\ owed[s] # <<>>
    /\ owed' = [owed EXCEPT ![s] = Tail(@)]
    /\ UNCHANGED asked
    /\ \/ /\ callbackq[s] = <<>>
          /\ bug' = {"noWaiter"}
          /\ sread' = [sread EXCEPT ![s] = "none"]
          /\ UNCHANGED <<est, qest, qopen, fired, alive, swrite, qread, qwrite,
                         sendq, transferq, callbackq, cur, searching>>
       \/ /\ callbackq[s] # <<>> /\ IdOf[Head(callbackq[s])] # Head(owed[s])
          /\ CloseServer(s, "none", swrite[s], qread[s], qwrite[s], "service")
       \/ /\ callbackq[s] # <<>> /\ IdOf[Head(callbackq[s])] = Head(owed[s])
          /\ \E kind \in {"header", "discard"} : Deliver(s, "null", kind)

\* onReadResponseData.
ResponseData(s) ==
    /\ bug = {}
    /\ sread[s] = "data"
    /\ owed' = [owed EXCEPT ![s] = Tail(@)]
    /\ UNCHANGED asked
    /\ \/ /\ est[s] /\ callbackq[s] = <<>>
          /\ bug' = {"noWaiter"}
          /\ sread' = [sread EXCEPT ![s] = "none"]
          /\ UNCHANGED <<est, qest, qopen, fired, alive, swrite, qread, qwrite,
                         sendq, transferq, callbackq, cur, searching>>
       \/ /\ est[s] /\ callbackq[s] # <<>>
          /\ IdOf[Head(callbackq[s])] = Head(owed[s])
          /\ Deliver(s, Head(owed[s]), "header")
       \/ /\ ~est[s] \/ (callbackq[s] # <<>> /\ IdOf[Head(callbackq[s])] # Head(owed[s]))
          /\ CloseServer(s, "none", swrite[s], qread[s], qwrite[s], "service")

\* onHandleRequestErrorData.
DiscardData(s) ==
    /\ bug = {}
    /\ sread[s] = "discard"
    /\ sread' = [sread EXCEPT ![s] = Op(est[s], "header")]
    /\ UNCHANGED <<est, qest, qopen, fired, alive, swrite, qread, qwrite, queues,
                   searching, bug>>

\* The read handlers with an error, or with a header that is not valid.
ServiceReadFails(s) ==
    /\ bug = {}
    /\ CanFail(sread[s], est[s])
    /\ CloseServer(s, "none", swrite[s], qread[s], qwrite[s], "service")
    /\ UNCHANGED <<asked, owed>>

\* onFullAssetRcvd(null), posted by getAsset.
RunPosted(x) ==
    /\ bug = {}
    /\ x \in posted
    /\ posted' = posted \ {x}
    /\ Complete({x} \ {y \in Searches : phase[y] = "done"}, "null")
    /\ bug' = IF phase[x] = "done" THEN {"deadSearch"} ELSE {}
    /\ UNCHANGED <<sockets, queues, found, queried, timer>>

(***************************************************************************)
(* The specification                                                       *)
(***************************************************************************)
\* Every search was answered and nothing is left to do, or the behaviour
\* ended at a recorded event.
Quiet ==
    /\ bug # {} \/ \A x \in Searches : phase[x] = "done"
    /\ UNCHANGED vars

SocketStep(s) ==
    \/ QueryWritten(s) \/ QueryWriteFails(s)
    \/ QueryAnswered(s) \/ HeartbeatRead(s) \/ QueryReadFails(s)
    \/ RequestWritten(s) \/ RequestWriteFails(s)
    \/ HeaderFound(s) \/ HeaderError(s) \/ ResponseData(s) \/ DiscardData(s)
    \/ ServiceReadFails(s)

Next ==
    \/ \E x \in Searches : PerformSearch(x) \/ OnTimeout(x) \/ RunPosted(x)
    \/ "late" \in Faults /\ \E x \in Searches : TimerExpires(x)
    \/ \E s \in Servers : SocketStep(s)
    \/ Quiet

Spec == Init /\ [][Next]_vars

\* A timer that is armed fires, a finished operation gets its handler, a
\* write or a read of a closed socket finishes, and the service peer answers
\* what it was asked or the connection breaks; nothing is assumed of the
\* peer's query service.
Fairness ==
    /\ \A x \in Searches : WF_vars(OnTimeout(x) \/ TimerExpires(x))
    /\ \A x \in Searches : WF_vars(RunPosted(x))
    /\ \A s \in Servers :
         /\ WF_vars(RequestWritten(s) \/ RequestWriteFails(s))
         /\ WF_vars(HeaderFound(s) \/ HeaderError(s) \/ ResponseData(s)
                    \/ DiscardData(s) \/ (~est[s] /\ ServiceReadFails(s)))

FairSpec == Spec /\ Fairness

(***************************************************************************)
(* Properties                                                              *)
(***************************************************************************)
\* Every field holds what the code stores in it, and an answer fits the
\* call: an asset reaches only a search for its id.
TypeOK ==
    /\ {est, qest, qopen, fired, alive} \subseteq [Servers -> BOOLEAN]
    /\ sread \in [Servers -> {"none", "header", "data", "discard", "dead"}]
    /\ {swrite, qread, qwrite} \subseteq [Servers -> {"none", "live", "dead"}]
    /\ {transferq, callbackq} \subseteq [Servers -> Seq(Searches)]
    /\ {sendq, owed} \subseteq [Servers -> Seq(Ids)]
    /\ cur \in [Servers -> SUBSET Searches]
    /\ asked \in [Servers -> [Ids -> Nat]]
    /\ phase \in [Searches -> {"new", "active", "done"}]
    /\ found \in [Searches -> BOOLEAN]
    /\ queried \in [Searches -> SUBSET Servers]
    /\ timer \in [Searches -> {"off", "armed", "queued"}]
    /\ answers \in [Searches -> Seq(Ids \cup {"null", "yes"})]
    /\ \A x \in Searches :
         answers[x] \in Seq({"null", IF x \in Full THEN IdOf[x] ELSE "yes"})
    /\ posted \subseteq Searches
    /\ bug \subseteq {"afterFound", "deadSearch", "deadServer", "noWaiter"}

\* While every service connection holds and no timer's handler is queued too
\* early, the searches, their timers and the servers' queues never meet an event
\* the code warns about or asserts against: no search is used after
\* markSearchComplete freed it, none gets a result after it was found, every answer
\* has a waiter.  Each such event, if it comes, comes after a close.
NothingUnexpected == bug # {} => \E s \in Servers : ~est[s]

\* _currentSearches and _queriedServers agree: a search waits only for
\* servers that will tell it, and a connected server keeps no entry of a
\* search that has ended, which would keep the id from being asked for again.
EntriesWait ==
    \A s \in Servers, x \in Searches :
        /\ phase[x] = "active" /\ s \in queried[x] => x \in cur[s]
        /\ est[s] /\ x \in cur[s] => phase[x] = "active" /\ s \in queried[x]

\* As long as a server is fully connected, every id in its _currentSearches is
\* on the wire or in the send queue, and a queue that is not empty has a write
\* before it whose completion sends the next query.
AskedFor ==
    \A s \in Servers :
        est[s] /\ qopen[s] =>
            /\ \A x \in cur[s] : asked[s][IdOf[x]] > 0 \/ IdOf[x] \in Range(sendq[s])
            /\ sendq[s] # <<>> => qwrite[s] # "none"

\* While the service connection is up, the callbacks waiting in
\* _assetCallbackQueue are, in order, for exactly the ids the peer still owes:
\* an asset never reaches the caller of another one.
AnswersInStep ==
    \A s \in Servers :
        est[s] => owed[s] = [i \in DOMAIN callbackq[s] |-> IdOf[callbackq[s][i]]]

\* A server is destroyed only when no operation with a pointer to it is
\* outstanding and no search waits for it or for a transfer from it.
KilledIdle ==
    \A s \in Servers :
        ~alive[s] =>
            /\ {sread[s], swrite[s], qread[s], qwrite[s]} = {"none"}
            /\ transferq[s] = <<>> /\ callbackq[s] = <<>>
            /\ \A x \in Searches : phase[x] = "active" => s \notin queried[x]

\* Every getAsset and assetExists on the mesh calls its callback in the end:
\* the timer covers the time until the asset is found, the service connection
\* or its close the time after.
EverySearchAnswered ==
    \A x \in Searches : phase[x] = "active" ~> (phase[x] = "done" \/ bug # {})
=============================================================================
