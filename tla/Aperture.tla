------------------------------ MODULE Aperture ------------------------------
(***************************************************************************)
(* The Aperture texture server (src/aperture/aperture): HTTP connections   *)
(* (connection.cpp, connection_manager.cpp), the handling of capabilities  *)
(* ("caps") and of requests for assets (request_handler.cpp), the cache,   *)
(* the token buckets (TokenBucket.cpp), and the connection to WHIP         *)
(* (ApertureUpstream).                                                     *)
(*                                                                         *)
(* One thread runs all handlers, in the order in which they become ready.  *)
(* A handler calls through several of these parts, so the operations are   *)
(* functions from a world w, a record of the variables, to the next one.   *)
(***************************************************************************)
EXTENDS ApertureUpstream, LRUCache, FiniteSetsExt, SequencesExt

CONSTANTS
    Conns,                  \* connections that may be accepted
    Caps,
    AddedCaps,              \* the caps that were added before the model starts
    Junk,                   \* a limit that is no number
    Batches,                \* Batches[c]: requests that one read of c may complete
    MaxRequests,            \* bound: requests read while the model runs
    MaxBuckets,             \* bound: token buckets made
    MAX_QUEUED_REQUESTS,    \* 50 in the code
    Faults                  \* "drop": the connection of a client breaks; "lose": that
                            \* to WHIP breaks or is refused, or WHIP's answer is none

RequestOps == {"asset", "add", "rem", "pause", "resume", "limit", "refused", "bad"}

\* What comes after a request that is no HTTP is not parsed.
ASSUME ConstantsAssumption ==
    /\ {MaxSize, MaxRequests, MaxBuckets, MAX_QUEUED_REQUESTS} \subseteq Nat
    /\ AddedCaps \subseteq Caps
    /\ Faults \subseteq {"drop", "lose"}
    /\ \A x \in Ids : SizeOf[x] \in Nat
    /\ \A c \in Conns : \A b \in Batches[c] : \A i \in DOMAIN b :
         b[i].op \in RequestOps /\ (b[i].op = "bad" => i = Len(b))

VARIABLES
    conn,       \* the connections
    valid,      \* _validCapIds
    paused,     \* the keys of _queuedRequests
    queued,     \* _queuedRequests
    bucket,     \* _capsBuckets: the number of the bucket of a cap, or 0
    buckets,    \* the buckets made, [burst, tokens]
    cache,      \* _assetCache
    up,         \* _whipAssetServer
    dropped,    \* connections whose request a REMCAP forgot
    trouble,    \* what ended the model: "underflow", a pop of an empty queue;
                \* "dangling", a reply to a connection that was freed; "escaped", an
                \* exception nobody catches
    nread       \* number of requests read

front == <<conn, valid, paused, queued, bucket, buckets, cache, up, dropped, trouble>>
vars == <<front, nread>>

World == [conn |-> conn, valid |-> valid, paused |-> paused, queued |-> queued,
          bucket |-> bucket, buckets |-> buckets, cache |-> cache, up |-> up,
          dropped |-> dropped, trouble |-> trouble]

Becomes(next) ==
    \E w \in {next} :
        /\ conn' = w.conn /\ valid' = w.valid /\ paused' = w.paused
        /\ queued' = w.queued /\ bucket' = w.bucket /\ buckets' = w.buckets
        /\ cache' = w.cache /\ up' = w.up /\ dropped' = w.dropped
        /\ trouble' = w.trouble

\* The model ends where the program's behaviour is no longer defined.
Up == trouble = {}

\* A connection that was not accepted: kill is _connKillTimer, op the one socket
\* operation or the wait for tokens, reqs the requests read and not answered,
\* busy _requestInProgress, closing _closeAfterResponseWritten; got, left and tb
\* are the asset, the bytes not sent and the bucket of the reply.
NewConnection ==
    [managed |-> FALSE, open |-> FALSE, kill |-> "none", op |-> NoOp, reqs |-> <<>>,
     busy |-> FALSE, closing |-> FALSE, got |-> None, left |-> 0, tb |-> 0]

Init ==
    /\ conn = [c \in Conns |-> NewConnection]
    /\ valid = AddedCaps /\ paused = {} /\ queued = [k \in Caps |-> <<>>]
    /\ bucket = [k \in Caps |-> 0] /\ buckets = <<>>
    /\ cache = EmptyCache
    /\ up = NewUpstream
    /\ dropped = {} /\ trouble = {}
    /\ nread = 0

\* The manager, an outstanding socket operation or the kill timer keeps a
\* connection from being freed; the wait for tokens does not.
Alive(h) ==
    h.managed \/ h.kill \in {"armed", "cancelled"} \/ h.op.is \notin {"none", "wait"}

Starts(w, c, kind) == [w EXCEPT !.conn[c].op = Begin(w.conn[c], kind)]

(***************************************************************************)
(* Replies                                                                 *)
(***************************************************************************)
getBucket(w, k) == w.bucket[k]

\* reply_ready, for a reply with asset got, or for a stock reply.  Only the former
\* has a token, by which it finds its bucket.
reply_ready(w, c, got) ==
    LET h == w.conn[c]
        r == Head(h.reqs)
        b == IF got = None THEN 0 ELSE getBucket(w, r.cap)
    IN  Starts([w EXCEPT !.conn[c].closing = @ \/ r.close,
                         !.conn[c].got = got,
                         !.conn[c].left = IF got = None THEN 0 ELSE SizeOf[got],
                         !.conn[c].tb = b,
                         !.trouble = @ \cup IF Alive(h) THEN {} ELSE {"dangling"}],
               c, IF b = 0 THEN "write" ELSE "header")

Stock(w, c) == reply_ready(w, c, None)

\* sendResponse fails on a range that cannot be read or served.
sendResponse(w, c, got) ==
    reply_ready(w, c, IF Head(w.conn[c].reqs).range THEN got ELSE None)

\* asset_response_callback, for an asset from WHIP: got is None for an asset that
\* is neither a texture nor a mesh, too.
asset_response_callback(w, c, got) ==
    IF got = None THEN Stock(w, c)
    ELSE sendResponse(IF MaxSize = 0 THEN w
                      ELSE [w EXCEPT !.cache = insert(@, Head(w.conn[c].reqs).id, got)],
                      c, got)

Tell(w, waiters, got) ==
    FoldSet(LAMBDA c, v : asset_response_callback(v, c, got), w, waiters)

\* The connection to WHIP is closed, and the waiters are told.
CloseUpstream(w) == Tell([w EXCEPT !.up = close(@)], Waiters(w.up), None)

(***************************************************************************)
(* Requests                                                                *)
(***************************************************************************)
processRequest(w, c) ==
    LET x == Head(w.conn[c].reqs).id
    IN  IF MaxSize # 0 /\ exists(w.cache, x)
        THEN sendResponse([w EXCEPT !.cache = fetch(@, x)], c, fetched(w.cache, x))
        ELSE IF w.up.state = "connected" THEN [w EXCEPT !.up = getAsset(@, x, c)]
        ELSE Stock(w, c)

\* Faulty variant: the newest request of a queue that is full is forgotten.
BadAssetRequest(w, c) ==
    LET k == Head(w.conn[c].reqs).cap
        q == Append(w.queued[k], c)
    IN  IF k \notin w.valid THEN Stock(w, c)
        ELSE IF k \notin w.paused THEN processRequest(w, c)
        ELSE IF Len(q) <= MAX_QUEUED_REQUESTS THEN [w EXCEPT !.queued[k] = q]
        ELSE w

handle_asset_request(w, c) ==
    LET k == Head(w.conn[c].reqs).cap
        q == Append(w.queued[k], c)
    IN  IF k \notin w.valid THEN Stock(w, c)
        ELSE IF k \notin w.paused THEN processRequest(w, c)
        ELSE IF Len(q) <= MAX_QUEUED_REQUESTS THEN [w EXCEPT !.queued[k] = q]
        ELSE Stock([w EXCEPT !.queued[k] = Tail(q)], Head(q))

\* A cap gets a new, full bucket.
Limited(w, k, limit) ==
    [w EXCEPT !.buckets = Append(@, [burst |-> limit, tokens |-> limit]),
              !.bucket[k] = Len(w.buckets) + 1]

handle_add_cap(w, c, r) ==
    LET added == [w EXCEPT !.valid = @ \cup {r.cap}]
    IN  IF r.limit = Junk THEN [added EXCEPT !.trouble = @ \cup {"escaped"}]
        ELSE Stock(IF r.limit = None THEN added ELSE Limited(added, r.cap, r.limit), c)

\* The requests that wait for the cap are dropped, and never answered.
handle_rem_cap(w, c, r) ==
    Stock([w EXCEPT !.valid = @ \ {r.cap}, !.paused = @ \ {r.cap},
                    !.queued[r.cap] = <<>>, !.bucket[r.cap] = 0,
                    !.dropped = @ \cup Range(w.queued[r.cap])], c)

handle_pause_cap(w, c, r) == Stock([w EXCEPT !.paused = @ \cup {r.cap}], c)

handle_resume_cap(w, c, r) ==
    Stock([FoldLeft(processRequest, w, w.queued[r.cap])
             EXCEPT !.paused = @ \ {r.cap}, !.queued[r.cap] = <<>>], c)

handle_limit_cap(w, c, r) ==
    Stock(IF r.limit \in {None, Junk} \/ r.cap \notin w.valid THEN w
          ELSE Limited(w, r.cap, r.limit), c)

handle_request(w, c) ==
    LET r == Head(w.conn[c].reqs)
    IN  CASE r.op = "asset"   -> handle_asset_request(w, c)
          [] r.op = "add"     -> handle_add_cap(w, c, r)
          [] r.op = "rem"     -> handle_rem_cap(w, c, r)
          [] r.op = "pause"   -> handle_pause_cap(w, c, r)
          [] r.op = "resume"  -> handle_resume_cap(w, c, r)
          [] r.op = "limit"   -> handle_limit_cap(w, c, r)
          [] r.op = "refused" -> Stock(w, c)

(***************************************************************************)
(* Connections                                                             *)
(***************************************************************************)
\* The next request that was read is processed; without one, more is read.
process_next_request(w, c) ==
    LET h == w.conn[c]
    IN  IF h.reqs = <<>> THEN Starts([w EXCEPT !.conn[c].busy = FALSE], c, "read")
        ELSE IF Head(h.reqs).op = "bad"
             THEN Starts([w EXCEPT !.conn[c].busy = TRUE, !.conn[c].closing = TRUE,
                                   !.conn[c].got = None],
                         c, "write")
             ELSE handle_request([w EXCEPT !.conn[c].busy = TRUE], c)

Cancelled(timer) == IF timer = "armed" THEN "cancelled" ELSE timer

\* connection_manager::stop and connection::stop, called from a handler of the
\* connection.  Nothing looks at its requests and its reply again.
StopConnection(w, c) ==
    [w EXCEPT !.conn[c] = [NewConnection EXCEPT !.kill = Cancelled(w.conn[c].kill),
                                                !.busy = w.conn[c].busy]]

handle_write(w, c) ==
    LET popped == [w EXCEPT !.conn[c].reqs = Tail(@), !.conn[c].got = None,
                            !.conn[c].left = 0, !.conn[c].tb = 0]
    IN  IF w.conn[c].closing THEN StopConnection(popped, c)
        ELSE process_next_request(popped, c)

\* What is sent at a time: a bucketful at most.
transmissionSize(w, c) == Min({w.conn[c].left, w.buckets[w.conn[c].tb].burst})

removeTokens(w, b, n) == [w EXCEPT !.buckets[b].tokens = @ - n]

try_send_next_chunk(w, c) ==
    LET b == w.conn[c].tb
        n == transmissionSize(w, c)
    IN  IF w.conn[c].left = 0 THEN handle_write(w, c)
        ELSE IF w.buckets[b].tokens >= n
             THEN Starts(removeTokens(w, b, n), c, "chunk")
             ELSE Starts(w, c, "wait")

\* What was written of the reply's content is what was to be.
handle_tb_write(w, c) ==
    try_send_next_chunk([w EXCEPT !.conn[c].left = @ - transmissionSize(w, c)], c)

(***************************************************************************)
(* The handlers                                                            *)
(***************************************************************************)
Idle(w, c) == [w EXCEPT !.conn[c].op = NoOp]

start(w, c) ==
    Starts([w EXCEPT !.conn[c].managed = TRUE, !.conn[c].open = TRUE,
                     !.conn[c].kill = "armed"],
           c, "read")

handle_accept(c) ==
    /\ Up /\ conn[c] = NewConnection
    /\ Becomes(start(World, c))
    /\ UNCHANGED nread

Limits(r) == r.op \in {"add", "limit"} /\ r.limit \notin {None, Junk}

\* A read completes one or more requests; one that completes none is followed by
\* another.
handle_read(c) ==
    /\ Up /\ conn[c].op.is = "read"
    /\ \E ok \in Outcomes(conn[c].op, "drop" \in Faults) :
         IF ok
         THEN \E b \in Batches[c] :
                /\ nread + Len(b) <= MaxRequests
                /\ Len(buckets) + Len(SelectSeq(conn[c].reqs \o b, Limits)) <= MaxBuckets
                /\ nread' = nread + Len(b)
                /\ Becomes(process_next_request(
                              [Idle(World, c) EXCEPT !.conn[c].reqs = @ \o b], c))
         ELSE /\ Becomes(StopConnection(Idle(World, c), c))
              /\ UNCHANGED nread

\* A reply, the header of a reply or a part of one was written.
HandleWritten(c) ==
    /\ Up /\ conn[c].op.is \in {"write", "header", "chunk"}
    /\ \E ok \in Outcomes(conn[c].op, "drop" \in Faults) :
         LET done == Idle(World, c)
             kind == conn[c].op.is
         IN  Becomes(CASE ~ok -> StopConnection(done, c)
                       [] ok /\ kind = "write"  -> handle_write(done, c)
                       [] ok /\ kind = "header" -> try_send_next_chunk(done, c)
                       [] ok /\ kind = "chunk"  -> handle_tb_write(done, c))
    /\ UNCHANGED nread

on_tb_wait_timeout(c) ==
    /\ Up /\ conn[c].op.is = "wait"
    /\ Becomes(try_send_next_chunk(Idle(World, c), c))
    /\ UNCHANGED nread

\* The kill timer expired: only the socket is closed, which ends the read.
Expired(h) ==
    IF h.busy THEN h ELSE [h EXCEPT !.open = FALSE, !.op = Shut(@), !.kill = "gone"]

on_timeout(c) ==
    /\ Up /\ conn[c].kill = "armed"
    /\ conn' = [conn EXCEPT ![c] = Expired(@)]
    /\ UNCHANGED <<valid, paused, queued, bucket, buckets, cache, up, dropped, trouble,
                   nread>>

\* The kill timer was cancelled when the connection was stopped.  If it had expired
\* before, it is armed again while _requestInProgress.
KillTimerCancelled(c) ==
    /\ Up /\ conn[c].kill = "cancelled"
    /\ \E t \in {"gone"} \cup IF conn[c].busy THEN {"armed"} ELSE {} :
         conn' = [conn EXCEPT ![c].kill = t]
    /\ UNCHANGED <<valid, paused, queued, bucket, buckets, cache, up, dropped, trouble,
                   nread>>

\* Time passes, and a bucket that is not full gets a token.
drip(b) ==
    /\ Up /\ b <= Len(buckets) /\ buckets[b].tokens < buckets[b].burst
    /\ buckets' = [buckets EXCEPT ![b].tokens = @ + 1]
    /\ UNCHANGED <<conn, valid, paused, queued, bucket, cache, up, dropped, trouble,
                   nread>>

(***************************************************************************)
(* The handlers of the connection to WHIP.  Its timer is armed again by    *)
(* every close, and expires long after the handlers of the old socket.     *)
(***************************************************************************)
onReconnect ==
    /\ Up /\ up.timer /\ Quiet(up)
    /\ Becomes([World EXCEPT !.up = connect(@)])
    /\ UNCHANGED nread

\* onConnect, onRecvChallenge, onChallengeResponseWrite, onAuthenticationStatus; a
\* wrong answer counts as a failure.
HandshakeStep ==
    /\ Up /\ up.hs.is # "none"
    /\ \E ok \in Outcomes(up.hs, "lose" \in Faults) :
         Becomes(IF ok THEN [World EXCEPT !.up = Authenticated(@)]
                 ELSE CloseUpstream([World EXCEPT !.up.hs = NoOp]))
    /\ UNCHANGED nread

onWriteAssetRequest ==
    /\ Up /\ up.wr.is # "none"
    /\ \E ok \in Outcomes(up.wr, "lose" \in Faults) :
         Becomes(CASE ~ok -> CloseUpstream([World EXCEPT !.up.wr = NoOp])
                   [] ok /\ up.sends # <<>> -> [World EXCEPT !.up = Written(@)]
                   [] ok /\ up.sends = <<>> -> [World EXCEPT !.trouble = {"underflow"}])
    /\ UNCHANGED nread

\* Faulty variant: whoever waits is told.
BadReceivers(u) == Waiters(u)

\* The waiters of the asset that the answer names.
Receivers(u) == IF u.wire = <<>> THEN {} ELSE u.pend[Head(u.wire)]

\* The answer is complete, with asset got or without one.
Received(got) == Tell([World EXCEPT !.up = Answered(@)], Receivers(up), got)

onReadResponseHeader ==
    /\ Up /\ up.rd.is = "header"
    /\ \E ok \in Outcomes(up.rd, "lose" \in Faults) :
         IF ok
         THEN \E r \in Headers(up, "lose" \in Faults) :
                Becomes(CASE r = "absent"  -> Received(None)
                          [] r = "invalid" -> CloseUpstream([World EXCEPT !.up.rd = NoOp])
                          [] OTHER -> [World EXCEPT !.up.rd =
                                         Begin(up, IF r = "found" THEN "data" ELSE r)])
         ELSE Becomes(CloseUpstream([World EXCEPT !.up.rd = NoOp]))
    /\ UNCHANGED nread

\* onReadResponseData and onHandleRequestErrorData.
onReadResponse ==
    /\ Up /\ up.rd.is \in {"data", "message"}
    /\ \E ok \in Outcomes(up.rd, "lose" \in Faults) :
         IF ok
         THEN \E got \in {None} \cup IF up.rd.is = "data" /\ up.wire # <<>>
                                     THEN {Head(up.wire)} ELSE {} :
                Becomes(Received(got))
         ELSE Becomes(CloseUpstream([World EXCEPT !.up.rd = NoOp]))
    /\ UNCHANGED nread

Next ==
    \/ \E c \in Conns : \/ handle_accept(c) \/ handle_read(c) \/ HandleWritten(c)
                        \/ on_tb_wait_timeout(c) \/ on_timeout(c)
                        \/ KillTimerCancelled(c)
    \/ \E b \in 1 .. MaxBuckets : drip(b)
    \/ onReconnect \/ HandshakeStep \/ onWriteAssetRequest
    \/ onReadResponseHeader \/ onReadResponse

\* A reply that is throttled to no bytes at all: chunks of no bytes are sent for
\* ever, which are steps that change nothing.
Starved(c) ==
    conn[c].op.is = "chunk" /\ conn[c].left > 0 /\ transmissionSize(World, c) = 0

\* Handlers that are ready are run, timers expire, what is written is sent or
\* fails, unless it is nothing, and WHIP answers what it is asked or the connection
\* to it breaks.  Nothing makes a client send a request.  Actions that are never
\* enabled together share a condition.
Fairness ==
    /\ \A c \in Conns :
         /\ WF_vars(\/ handle_read(c) /\ conn[c].op.on # "live"
                    \/ HandleWritten(c) /\ ~Starved(c)
                    \/ on_tb_wait_timeout(c))
         /\ WF_vars(on_timeout(c) \/ KillTimerCancelled(c))
    /\ \A b \in 1 .. MaxBuckets : WF_vars(drip(b))
    /\ WF_vars(onReconnect \/ HandshakeStep \/ onWriteAssetRequest)
    /\ WF_vars(\/ onReadResponseHeader /\ (up.wire # <<>> \/ up.rd.on # "live")
               \/ onReadResponse)

Spec == Init /\ [][Next]_vars /\ Fairness

(***************************************************************************)
(* What is checked                                                         *)
(***************************************************************************)
\* Everything that will call connection c some time: an operation or a wait, a
\* transfer from WHIP, the queue of a paused cap; or nothing, after a REMCAP.
Callers(c) ==
    {<<x>> : x \in IF conn[c].op.is # "none" THEN {"op"} ELSE {}}
      \cup {<<"whip", x>> : x \in {y \in Ids : c \in up.pend[y]}}
      \cup {<<"queue", q[1], q[2]>> :
              q \in {p \in Caps \X (1 .. MAX_QUEUED_REQUESTS + 1) :
                       p[2] <= Len(queued[p[1]]) /\ queued[p[1]][p[2]] = c}}
      \cup {<<x>> : x \in IF c \in dropped THEN {"dropped"} ELSE {}}

\* A connection that the manager has waits for exactly one thing, and is not idle
\* (_requestInProgress) unless that is a read: no second answer, no second read of
\* its buffer, and none that is forgotten.  Nobody but the socket or a timer will
\* call one that the manager let go, although WHIP's callbacks and the queues of
\* paused caps hold plain pointers (connection.cpp, request_handler.cpp).
OneCaller ==
    /\ "dangling" \notin trouble
    /\ Up => \A c \in Conns :
         IF conn[c].managed
         THEN /\ Cardinality(Callers(c)) = 1
              /\ conn[c].busy <=> conn[c].op.is # "read"
         ELSE Callers(c) \subseteq {<<"op">>}

\* The asset in a reply is the one that the front request of its connection asks
\* for, also when several share a transfer, are pipelined or were queued
\* (AssetServer.cpp fireAssetRcvdCallbacks, request_handler.cpp).
RightAsset ==
    \A c \in Conns :
        conn[c].got # None =>
            /\ Head(conn[c].reqs).op = "asset"
            /\ conn[c].got = Head(conn[c].reqs).id

\* While the connection to WHIP is up, each asset somebody waits for was asked for
\* or is about to be, once; a write is outstanding as long as there is something
\* to write, and a read as long as an answer is due.  While it is not, the
\* handshake or the timer of the next attempt goes on (AssetServer.cpp).
TransfersDriven ==
    Up => /\ up.state = "connecting" => up.hs.is # "none"
          /\ up.state = "wait" => up.timer /\ Waiters(up) = {} /\ up.sends = <<>>
          /\ up.state = "connected" /\ up.open =>
                LET asked == up.wire \o IF up.sends = <<>> THEN <<>> ELSE Tail(up.sends)
                IN  /\ up.hs.is = "none" /\ ~up.timer
                    /\ up.wr.is # "none" <=> up.sends # <<>>
                    /\ up.rd.is # "none" <=> Waiters(up) # {}
                    /\ IsInjective(asked)
                    /\ Range(asked) = {x \in Ids : up.pend[x] # {}}

\* A request that is in progress is answered, or its connection is closed, unless
\* its cap is paused, was removed while it was paused, or has a limit of no bytes
\* at all (connection.cpp, request_handler.cpp, AssetServer.cpp).
Waits(c) == c \in dropped \/ \E k \in Caps : c \in Range(queued[k])
EveryRequestAnswered ==
    \A c \in Conns :
        conn[c].managed /\ conn[c].busy
            ~> ~Up \/ ~conn[c].managed \/ ~conn[c].busy \/ Waits(c) \/ Starved(c)
=============================================================================
