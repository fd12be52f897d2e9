----------------------------- MODULE WhipClient -----------------------------
(***************************************************************************)
(* The client library of the WHIP server for .NET                          *)
(* (src/whip-dotnet-client/client/RemoteServer.cs).  Any thread may call   *)
(* it: a call puts a waiter into the queue of requests, sends its request  *)
(* and waits.  One thread receives the answers, hands each to the oldest   *)
(* waiter, and connects again when the connection is lost.  GETs of one    *)
(* asset share a request.                                                  *)
(*                                                                         *)
(* A call stands for its thread, its request and its waiter.  The locks    *)
(* (_waitingRequests, _getResponseWaiters, _sendSync) are the grain of the *)
(* steps.  The WHIP server answers the requests of a connection in their   *)
(* order, as ClientSession shows, or the connection breaks.                *)
(***************************************************************************)
EXTENDS Naturals, Sequences, Functions

CONSTANTS
    Calls, Ids, None,
    Plans,      \* Plans[c]: what call c may be, [op, id] with op "get", "async" or "other"
    Faults      \* subset of {"reset", "close", "invalid", "stop"}

\* A GET names an asset, and so does everything else, if only with zeros (ZERO_UUID).
ASSUME PlansAssumption ==
    /\ Plans \in [Calls -> SUBSET [op : {"get", "async", "other"}, id : Ids]]
    /\ None \notin Calls \cup Ids

VARIABLES
    call,       \* the calls, each with its ResponseWaiter
    waiting,    \* _waitingRequests
    lists,      \* _getResponseWaiters; no entry is an empty set
    conn,       \* _conn, and the requests on it that are not answered
    recv,       \* the receive thread, and the message it has
    stop,       \* the thread that calls Stop; _stopping unless "no"
    trouble     \* what the client does not get over

vars == <<call, waiting, lists, conn, recv, stop, trouble>>

NewCall == [pc |-> "new", op |-> None, id |-> None,
            event |-> FALSE, called |-> 0]

NewSocket == [state |-> "off", connected |-> FALSE, wire |-> <<>>,
              spoiled |-> FALSE, early |-> {}, first |-> FALSE]

\* After a Start that succeeded.
Init ==
    /\ call = [c \in Calls |-> NewCall]
    /\ waiting = <<>>
    /\ lists = [x \in Ids |-> {}]
    /\ conn = [NewSocket EXCEPT !.state = "up", !.connected = TRUE, !.first = TRUE]
    /\ recv = [pc |-> "loop", msg |-> None]
    /\ stop = "no"
    /\ trouble = {}

\* The model ends with a trouble, and when Stop has returned or thrown.
Up == trouble = {} /\ stop \notin {"stopped", "failed"}
Escapes == trouble' = trouble \cup {"escaped"}
Sound == UNCHANGED trouble

IsGet(c) == call[c].op \in {"get", "async"}
Async(c) == call[c].op = "async"

(***************************************************************************)
(* Freeing the waiters, in two steps with a lock each.                     *)
(***************************************************************************)
\* Faulty variant: the event is not set.
BadFailed(S, calls) ==
    [c \in Calls |->
       IF c \notin S THEN call[c]
       ELSE [call[c] EXCEPT !.called = IF calls /\ Async(c) THEN @ + 1 ELSE @]]

Failed(S, calls) ==
    [c \in Calls |->
       IF c \notin S THEN call[c]
       ELSE [call[c] EXCEPT !.event = TRUE,
                            !.called = IF calls /\ Async(c) THEN @ + 1 ELSE @]]

Listed == UNION {lists[x] : x \in Ids}

\* Faulty variant: the lists are freed before the queue.
BadFreed(step) ==
    IF step = 2
    THEN [calls |-> Failed(Range(waiting), FALSE), queue |-> <<>>, entries |-> lists]
    ELSE [calls |-> Failed(Listed, TRUE), queue |-> waiting, entries |-> [x \in Ids |-> {}]]

\* FreeAllWaitersWithError: the queue, and then the lists with their callbacks.
Freed(step) ==
    IF step = 1
    THEN [calls |-> Failed(Range(waiting), FALSE), queue |-> <<>>, entries |-> lists]
    ELSE [calls |-> Failed(Listed, TRUE), queue |-> waiting, entries |-> [x \in Ids |-> {}]]

Frees(step) == waiting' = Freed(step).queue /\ lists' = Freed(step).entries

(***************************************************************************)
(* The calls.  One that holds _sendSync is "sending".                      *)
(***************************************************************************)
Get(p) == p.op \in {"get", "async"}
Rest(op) == IF op = "async" THEN "done" ELSE "waits"

\* The call begins, as p, and is to be sent or joins those that wait for the answer.
Begins(c, p, pc) ==
    call' = [call EXCEPT ![c] = [@ EXCEPT !.op = p.op, !.id = p.id, !.pc = pc]]

\* GetAsset, GetAssetAsync, PutAsset and the others, up to the lists: the first
\* GET of an asset, and every other request, is to be sent, also by a client
\* that is being stopped.
QueueGetWaiter(c) ==
    /\ Up /\ call[c].pc = "new"
    /\ \E p \in Plans[c] :
         \/ /\ Get(p)
            /\ lists' = [lists EXCEPT ![p.id] = @ \cup {c}]
            /\ Begins(c, p, IF lists[p.id] = {} THEN "queued" ELSE Rest(p.op))
         \/ ~Get(p) /\ Begins(c, p, "queued") /\ UNCHANGED lists
    /\ UNCHANGED <<waiting, conn, recv, stop, trouble>>

\* Faulty variant: without _sendSync.
BadEnqueue(c) ==
    /\ Up /\ call[c].pc = "queued"
    /\ waiting' = Append(waiting, c)
    /\ call' = [call EXCEPT ![c].pc = "sending"]
    /\ UNCHANGED <<lists, conn, recv, stop, trouble>>

Enqueue(c) ==
    /\ Up /\ call[c].pc = "queued"
    /\ \A d \in Calls : call[d].pc # "sending"
    /\ waiting' = Append(waiting, c)
    /\ call' = [call EXCEPT ![c].pc = "sending"]
    /\ UNCHANGED <<lists, conn, recv, stop, trouble>>

Handshake == recv.pc \in {"challenge", "status"}
Early(c) == IF Handshake THEN {c} ELSE {}

\* On the connection of the moment, also during its handshake ("early").  A request
\* that gets ahead of the answer to the challenge spoils the handshake.  The first one
\* after the server has closed the connection is sent in vain.  A closed Socket throws
\* what no call catches.
Send(c) ==
    /\ Up /\ call[c].pc = "sending"
    /\ conn' = CASE conn.state = "up" /\ recv.pc = "challenge" ->
                        [conn EXCEPT !.spoiled = TRUE, !.early = @ \cup {c}]
                 [] conn.state = "up" /\ recv.pc # "challenge" ->
                        [conn EXCEPT !.wire = Append(@, c), !.early = @ \cup Early(c)]
                 [] conn.state = "closed" ->
                        [conn EXCEPT !.state = "reset", !.early = @ \cup Early(c)]
                 [] conn.state = "reset"  -> [conn EXCEPT !.connected = FALSE]
                 [] OTHER -> conn
    /\ call' = [call EXCEPT ![c].pc =
                  CASE conn.state \in {"up", "closed"} -> Rest(call[c].op)
                    [] conn.state \in {"off", "reset", "shut"} -> "failed"
                    [] conn.state = "disposed" -> "done"]
    /\ UNCHANGED <<waiting, lists, recv, stop, trouble>>

\* WaitOne and CheckThrowError.
WaitOne(c) ==
    /\ Up /\ call[c].pc = "waits" /\ call[c].event
    /\ call' = [call EXCEPT ![c].pc = "done"]
    /\ UNCHANGED <<waiting, lists, conn, recv, stop, trouble>>

HandleSendError(c) ==
    /\ Up
    /\ \/ /\ call[c].pc = "failed" /\ Frees(1)
          /\ call' = [Freed(1).calls EXCEPT ![c].pc = "freeing"]
       \/ /\ call[c].pc = "freeing" /\ Frees(2)
          /\ call' = [Freed(2).calls EXCEPT ![c].pc = "done"]
    /\ UNCHANGED <<conn, recv, stop, trouble>>

(***************************************************************************)
(* The receive thread.                                                     *)
(***************************************************************************)
RecvAt(pc) == Up /\ recv.pc = pc
RecvGoes(pc) == recv' = [pc |-> pc, msg |-> None]

\* while (! _stopping)
ReceiveLoop ==
    /\ RecvAt("loop")
    /\ RecvGoes(IF stop = "no" THEN "receive" ELSE "ended")
    /\ UNCHANGED <<call, waiting, lists, conn, stop, trouble>>

\* ServerResponseMsg: the answer to the oldest request, which may be no response.
Receive ==
    /\ RecvAt("receive") /\ conn.wire # <<>>
    /\ recv' = [pc |-> "got", msg |-> Head(conn.wire)]
    /\ conn' = [conn EXCEPT !.wire = Tail(@)]
    /\ UNCHANGED <<call, waiting, lists, stop, trouble>>

ReceiveInvalid ==
    /\ RecvAt("receive") /\ conn.wire # <<>> /\ conn.state = "up"
    /\ "invalid" \in Faults
    /\ conn' = NewSocket
    /\ RecvGoes("error")
    /\ UNCHANGED <<call, waiting, lists, stop, trouble>>

\* What a read does on a connection that does not go on: at the end of the stream
\* the Socket stays Connected.  One that is closed during the read throws a
\* SocketException, one that was closed before throws what nobody catches.
ReadEnds(atEnd, failed) ==
    /\ conn.wire = <<>>
    /\ \/ conn.state \in {"closed", "shut"} /\ atEnd /\ UNCHANGED conn
       \/ conn.state = "reset" /\ failed /\ conn' = [conn EXCEPT !.connected = FALSE]
       \/ conn.state = "disposed" /\ failed /\ UNCHANGED conn
       \/ conn.state = "disposed" /\ Escapes /\ UNCHANGED <<conn, recv>>

ReceiveFails ==
    /\ RecvAt("receive")
    /\ ReadEnds(RecvGoes("error") /\ Sound, RecvGoes("error") /\ Sound)
    /\ UNCHANGED <<call, waiting, lists, stop>>

\* Whether the answer to request m is one to the request of c, too.
Answers(m, c) == m = c \/ (IsGet(m) /\ IsGet(c) /\ call[m].id = call[c].id)

\* The oldest waiter has its answer; an empty queue throws what nobody catches.
Dequeue ==
    /\ RecvAt("got")
    /\ IF waiting = <<>>
       THEN Escapes /\ UNCHANGED <<call, waiting, recv>>
       ELSE LET top == Head(waiting)
            IN  /\ waiting' = Tail(waiting)
                /\ call' = [call EXCEPT ![top].event = TRUE]
                /\ recv' = IF IsGet(top) THEN [recv EXCEPT !.pc = "notify"]
                           ELSE [pc |-> "loop", msg |-> None]
                /\ trouble' = IF Answers(recv.msg, top) THEN trouble
                              ELSE trouble \cup {"mismatch"}
    /\ UNCHANGED <<lists, conn, stop>>

\* Faulty variant: the entry is not removed.
BadCalled(x) == lists

Called(x) == [lists EXCEPT ![x] = {}]

CallGetWaiters ==
    /\ RecvAt("notify")
    /\ LET x == call[recv.msg].id
       IN  /\ call' = [c \in Calls |->
                         IF c \notin lists[x] THEN call[c]
                         ELSE [call[c] EXCEPT !.event = TRUE,
                                 !.called = IF Async(c) THEN @ + 1 ELSE @]]
           /\ lists' = Called(x)
    /\ RecvGoes("loop")
    /\ UNCHANGED <<waiting, conn, stop, trouble>>

HandleReceiveError ==
    /\ \/ RecvAt("error") /\ Frees(1) /\ call' = Freed(1).calls /\ RecvGoes("freeing")
       \/ RecvAt("freeing") /\ Frees(2) /\ call' = Freed(2).calls /\ RecvGoes("retry")
    /\ UNCHANGED <<conn, stop, trouble>>

\* Connect on a new Socket.  Only a SocketException is caught.
Connect ==
    \/ /\ conn' = [NewSocket EXCEPT !.state = "up", !.connected = TRUE]
       /\ RecvGoes("challenge")
    \/ conn' = NewSocket /\ RecvGoes("sleep")

\* Faulty variant: the loop does not look at _stopping.
BadReconnect ==
    /\ RecvAt("retry")
    /\ IF conn.connected THEN RecvGoes("loop") /\ UNCHANGED conn ELSE Connect
    /\ UNCHANGED <<call, waiting, lists, stop, trouble>>

\* while (! _stopping && !_conn.Connected)
Reconnect ==
    /\ RecvAt("retry")
    /\ IF stop # "no" \/ conn.connected THEN RecvGoes("loop") /\ UNCHANGED conn ELSE Connect
    /\ UNCHANGED <<call, waiting, lists, stop, trouble>>

\* RECONNECT_WAIT_TIME is over.
Slept ==
    /\ RecvAt("sleep")
    /\ RecvGoes("retry")
    /\ UNCHANGED <<call, waiting, lists, conn, stop, trouble>>

\* The challenge was read and is answered.
Challenged ==
    /\ RecvAt("challenge") /\ conn.state = "up"
    /\ RecvGoes("status")
    /\ UNCHANGED <<call, waiting, lists, conn, stop, trouble>>

\* The server refuses an answer that a request got ahead of.
Authenticated ==
    /\ RecvAt("status") /\ conn.state = "up"
    /\ IF conn.spoiled THEN Escapes /\ UNCHANGED <<conn, recv>>
       ELSE RecvGoes("retry") /\ conn' = [conn EXCEPT !.early = {}] /\ Sound
    /\ UNCHANGED <<call, waiting, lists, stop>>

\* The waiters of requests that were sent in the meantime are not freed.
Abandons ==
    trouble' = IF \A c \in conn.early : call[c].event THEN trouble ELSE trouble \cup {"lost"}

HandshakeFails ==
    /\ Up /\ Handshake
    /\ ReadEnds(Escapes /\ UNCHANGED recv, RecvGoes("sleep") /\ Abandons)
    /\ UNCHANGED <<call, waiting, lists, stop>>

(***************************************************************************)
(* The connection breaks, with some of the answers already received; the   *)
(* client is stopped.                                                      *)
(***************************************************************************)
Cut(state) ==
    \E n \in 0 .. (IF Handshake THEN 0 ELSE Len(conn.wire)) :
        conn' = [conn EXCEPT !.state = state, !.wire = SubSeq(@, 1, n)]

Breaks ==
    /\ Up /\ conn.state = "up"
    /\ \/ "reset" \in Faults /\ Cut("reset")
       \/ "close" \in Faults /\ Cut("closed")
    /\ UNCHANGED <<call, waiting, lists, recv, stop, trouble>>

\* Stop: _stopping is set, and the Socket shut down; one that is not connected throws.
BeginStop ==
    /\ Up /\ stop = "no" /\ "stop" \in Faults
    /\ \/ conn.state \in {"up", "closed"} /\ stop' = "shut" /\ Cut("shut")
       \/ conn.state \in {"off", "reset"} /\ stop' = "failed" /\ UNCHANGED conn
    /\ UNCHANGED <<call, waiting, lists, recv, trouble>>

\* The Socket is closed, and the receive thread waited for.
Stop ==
    /\ Up
    /\ \/ /\ stop = "shut" /\ stop' = "closed"
          /\ conn' = [conn EXCEPT !.state = "disposed", !.connected = FALSE, !.wire = <<>>]
       \/ /\ stop = "closed" /\ recv.pc = "ended"
          /\ stop' = "stopped" /\ UNCHANGED conn
    /\ UNCHANGED <<call, waiting, lists, recv, trouble>>

CallStep(c) == Enqueue(c) \/ Send(c) \/ WaitOne(c) \/ HandleSendError(c)

RecvStep ==
    \/ ReceiveLoop \/ Receive \/ ReceiveInvalid \/ ReceiveFails \/ Dequeue
    \/ CallGetWaiters \/ HandleReceiveError \/ Reconnect \/ Slept
    \/ Challenged \/ Authenticated \/ HandshakeFails

Next ==
    \/ \E c \in Calls : QueueGetWaiter(c) \/ CallStep(c)
    \/ RecvStep \/ Breaks \/ BeginStop \/ Stop

\* The threads run; there are finitely many calls of finitely many steps, so that it is
\* enough that some call goes on when one can.  In the receive thread this includes that
\* the server answers a request or the connection breaks.
Fairness ==
    /\ WF_vars(\E c \in Calls : CallStep(c))
    /\ WF_vars(RecvStep) /\ WF_vars(Stop)

Spec == Init /\ [][Next]_vars
FairSpec == Spec /\ Fairness

-----------------------------------------------------------------------------
\* Every variable has its shape; the lists have GETs of their asset only
\* (QueueGetWaiter).
TypeOK ==
    /\ call \in [Calls ->
         [pc : {"new", "queued", "sending", "waits", "failed", "freeing", "done"},
          op : {None, "get", "async", "other"}, id : Ids \cup {None},
          event : BOOLEAN, called : Nat]]
    /\ waiting \in Seq(Calls)
    /\ lists \in [Ids -> SUBSET Calls]
    /\ \A x \in Ids : \A c \in lists[x] : IsGet(c) /\ call[c].id = x
    /\ conn \in [state : {"off", "up", "closed", "reset", "shut", "disposed"},
                 connected : BOOLEAN, wire : Seq(Calls), spoiled : BOOLEAN,
                 early : SUBSET Calls, first : BOOLEAN]
    /\ recv \in [pc : {"loop", "receive", "got", "notify", "error", "freeing", "retry",
                       "sleep", "challenge", "status", "ended"}, msg : Calls \cup {None}]
    /\ stop \in {"no", "shut", "closed", "stopped", "failed"}
    /\ trouble \subseteq {"escaped", "mismatch", "lost"}

\* The requests that were sent and whose waiters were not found yet.
Due == IF recv.pc = "got" THEN <<recv.msg>> \o conn.wire ELSE conn.wire

\* As long as the first connection lasts the queue has exactly the waiters of the
\* requests that are not answered, in the order in which they were sent, so that each
\* answer gets to its own waiter (SendRequest: "the right waiter here in the right
\* order", and ReceiveLoop).
InStep ==
    conn.first /\ conn.state = "up" =>
        IF \A c \in Calls : call[c].pc # "sending" THEN waiting = Due
        ELSE \E c \in Calls : call[c].pc = "sending" /\ waiting = Append(Due, c)

\* Nobody joins a list that nobody will empty: whenever GETs of an asset wait in its
\* list, one of them is about to be queued or is in the queue, or some thread is about
\* to empty the list (QueueGetWaiter, FreeAllWaitersWithError).
ListsDriven ==
    \A x \in Ids : lists[x] # {} =>
        \/ \E c \in lists[x] : call[c].pc = "queued" \/ c \in Range(waiting)
        \/ recv.pc = "notify" /\ call[recv.msg].id = x
        \/ recv.pc = "freeing" \/ \E c \in Calls : call[c].pc = "freeing"
        \/ trouble # {}

\* The callback of GetAssetAsync is called once at most, though an answer, a failing
\* read and failing sends of any number of threads may call it (CallGetWaiters,
\* FreeAllWaitersWithError).
CallbackOnce == \A c \in Calls : call[c].called <= 1

\* Every call returns, and a callback is called, with an answer or an error: through
\* shared requests, breaks and reconnections, unless the client is stopped.
EveryCallReturns ==
    \A c \in Calls :
        call[c].pc # "new"
          ~> \/ call[c].pc = "done" /\ (Async(c) => call[c].called = 1)
             \/ stop # "no" \/ trouble # {}

\* A Stop that could shut the connection down gets to its end: the receive thread
\* notices it wherever it is, in a read, between two messages or in an attempt to
\* connect (Stop, HandleReceiveError).
StopReturns == stop = "shut" ~> stop = "stopped" \/ trouble # {}
=============================================================================
