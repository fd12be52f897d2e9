------------------------- MODULE RemoteAssetService -------------------------
(***************************************************************************)
(* The client side of an asset connection, which push and pull replication *)
(* share (src/whip-server/whip/RemoteAssetService.cpp), and the io_service *)
(* of the thread that runs it.                                             *)
(*                                                                         *)
(* Callbacks run inside the handlers and call the service again, so every  *)
(* operation is a function from a world w to the next one: w.ras is the    *)
(* service, w.posted the handlers that are ready to run, in order, and the *)
(* other fields belong to the user of the service.  An operator that runs  *)
(* callbacks takes them as parameters, and the user passes its own:        *)
(* Answer(w, q, outcome) for request q, Kill(w), the safe kill, and        *)
(* Told(w, success) at the end of the handshake.                           *)
(***************************************************************************)
EXTENDS Naturals, Sequences

CONSTANT DrainLimit \* bound: callbacks one close() runs per queue

ASSUME DrainAssumption == DrainLimit \in Nat

\* A service for ep that was not asked to connect, and none.
NewService(ep) ==
    [ep |-> ep, phase |-> "new", est |-> FALSE, open |-> FALSE, tcp |-> FALSE,
     recv |-> "none", send |-> FALSE, transferq |-> <<>>, callbackq |-> <<>>,
     owed |-> <<>>]
NoService == [NewService("") EXCEPT !.phase = "none"]

Handshake == {"connect", "challenge", "response", "status"}

\* Then(w, F) is F(w); the bound v makes TLC evaluate w once.
Then(w, F(_)) == CHOOSE r \in {F(v) : v \in {w}} : TRUE

(***************************************************************************)
(* The io_service: a handler [h, v] is ready, v its argument.  An operation*)
(* on a closed socket fails at once, and so does one that close() finds    *)
(* outstanding, unless its handler is ready already.                       *)
(***************************************************************************)
Post(w, h, v) == [w EXCEPT !.posted = Append(@, [h |-> h, v |-> v])]
Ready(w, h) == \E i \in DOMAIN w.posted : w.posted[i].h = h
Started(w, h) == IF w.ras.open THEN w ELSE Post(w, h, "fail")
Aborted(w, h, outstanding) ==
    IF outstanding /\ ~Ready(w, h) THEN Post(w, h, "fail") ELSE w

\* How the outstanding operation h may end: the peer answers its oldest request
\* with data, with an error and a message, or with a bare error; a connection
\* breaks ("drop") or is refused ("refuse").  A socket that was connected once
\* cannot be connected again.
Endings(w, h, faults) ==
    IF Ready(w, h) THEN {}
    ELSE CASE h = "recv" /\ w.ras.recv # "none" ->
                (IF w.ras.recv # "header" THEN {"rest"}
                 ELSE IF w.ras.owed = <<>> THEN {}
                 ELSE {"data"} \cup IF "error" \in faults THEN {"error", "bare"}
                                    ELSE {})
                  \cup IF "drop" \in faults THEN {"fail"} ELSE {}
           [] h = "send" /\ w.ras.send ->
                {"ok"} \cup IF "drop" \in faults THEN {"fail"} ELSE {}
           [] h = "conn" /\ w.ras.phase \in Handshake ->
                (IF w.ras.phase = "connect" /\ w.ras.tcp THEN {"fail"} ELSE {"ok"})
                  \cup IF "refuse" \in faults THEN {"fail"} ELSE {}
           [] OTHER -> {}

\* Its end is to be expected: a connection on which nothing is due may stay up
\* for ever.
Expected(w, h) == h = "recv" => w.ras.recv # "header" \/ w.ras.owed # <<>>

\* It ends with v.  The peer has a request once it was written.
Ends(w, h, v) ==
    Post(IF h = "send" /\ v = "ok"
         THEN [w EXCEPT !.ras.owed = Append(@, w.ras.callbackq[Len(w.ras.callbackq)])]
         ELSE w,
         h, v)

(***************************************************************************)
(* Requests                                                                *)
(***************************************************************************)
\* sendGetRequest, sendPutRequest, sendAssetIdsRequest.
Send(w, q) ==
    Started([w EXCEPT !.ras.send = TRUE, !.ras.callbackq = Append(@, q)], "send")

\* getAsset, putAsset, getStoredAssetIDsWithPrefix: without a connection the
\* callback is posted an error, and the request is made all the same.
Request(w, q) ==
    LET told == IF w.ras.est THEN w ELSE Post(w, "error", q)
    IN  IF ~w.ras.send THEN Send(told, q)
        ELSE [told EXCEPT !.ras.transferq = Append(@, q)]

Killable(w) == ~w.ras.est /\ w.ras.recv = "none" /\ ~w.ras.send
CheckSafeKill(w, Kill(_)) == IF Killable(w) THEN Kill(w) ELSE w

(***************************************************************************)
(* Closing                                                                 *)
(***************************************************************************)
\* The socket is closed.
Shut(w) ==
    LET cancelled == Aborted(Aborted(Aborted(w, "recv", w.ras.recv # "none"),
                                     "send", w.ras.send),
                             "conn", w.ras.phase \in Handshake)
    IN  [cancelled EXCEPT !.ras.est = FALSE, !.ras.open = FALSE]

\* The callbacks of a queue are run until it is empty, those included that the
\* callbacks themselves add.
FailTransfer(w, Answer(_, _, _)) ==
    IF w.ras.transferq = <<>> THEN w
    ELSE [Answer(w, Head(w.ras.transferq), "fatal") EXCEPT !.ras.transferq = Tail(@)]
FailCallback(w, Answer(_, _, _)) ==
    IF w.ras.callbackq = <<>> THEN w
    ELSE [Answer(w, Head(w.ras.callbackq), "fatal") EXCEPT !.ras.callbackq = Tail(@)]
DrainTransfers(w, Answer(_, _, _)) ==
    LET after[n \in 0 .. DrainLimit] ==
            IF n = 0 THEN w ELSE FailTransfer(after[n - 1], Answer)
    IN  after[DrainLimit]
DrainCallbacks(w, Answer(_, _, _)) ==
    LET after[n \in 0 .. DrainLimit] ==
            IF n = 0 THEN w ELSE FailCallback(after[n - 1], Answer)
    IN  after[DrainLimit]

close(w, Answer(_, _, _), Kill(_)) ==
    LET told == Then(DrainTransfers(Shut(w), Answer),
                     LAMBDA v : DrainCallbacks(v, Answer))
    IN  Then(told, LAMBDA v : CheckSafeKill(v, Kill))

doNextQueuedRequest(w) ==
    IF w.ras.est /\ w.ras.transferq # <<>>
    THEN Request([w EXCEPT !.ras.transferq = Tail(@)], Head(w.ras.transferq))
    ELSE w

onAfterWriteAssetRequest(w, result, Answer(_, _, _), Kill(_)) ==
    LET sent == [w EXCEPT !.ras.send = FALSE]
    IN  IF result = "fail" THEN close(sent, Answer, Kill)
        ELSE CheckSafeKill(doNextQueuedRequest(sent), Kill)

(***************************************************************************)
(* Responses                                                               *)
(***************************************************************************)
\* A read is started: of a header, of data or of the message of an error.
Read(w, kind) == Started([w EXCEPT !.ras.recv = kind], "recv")

Wrong(w, what) == [w EXCEPT !.trouble = @ \cup {what}]

\* The front callback was run and is dropped, and the next header is read.  It may
\* have closed the connection, which drops it first, or given the service up,
\* which is used all the same.
NextHeader(w, outcome) ==
    IF w.ras.phase # "done" THEN Wrong(w, "usedFreed")
    ELSE IF w.ras.callbackq # <<>>
         THEN Read([w EXCEPT !.ras.callbackq = Tail(@)], "header")
    ELSE IF outcome = "ok" THEN Read(w, "header")
    ELSE Wrong(w, "noWaiter")

\* The response to the peer's oldest request was read: the front callback is run.
Answered(w, Answer(_, _, _), outcome) ==
    LET told == Answer([w EXCEPT !.ras.owed = Tail(@)], Head(w.ras.callbackq), outcome)
    IN  IF w.ras.callbackq = <<>> THEN Wrong(w, "noWaiter")
        ELSE Then(told, LAMBDA v : NextHeader(v, outcome))

\* onReadResponseHeader, onReadResponseData with handleConfirmation,
\* handleAssetReturned and handleDataReturned, and onHandleRequestErrorData.
onRead(w, result, Answer(_, _, _), Kill(_)) ==
    LET idle == [w EXCEPT !.ras.recv = "none"]
    IN  CASE result = "fail" -> close(idle, Answer, Kill)
          [] result = "bare" -> Answered(idle, Answer, "refused")
          [] result \in {"data", "error"} -> Read(idle, result)
          [] result = "rest" /\ w.ras.recv = "data" ->
                IF w.ras.est THEN Answered(idle, Answer, "ok")
                ELSE close(idle, Answer, Kill)
          [] result = "rest" /\ w.ras.recv = "error" ->
                Answered(idle, Answer, "refused")

(***************************************************************************)
(* Connecting                                                              *)
(***************************************************************************)
\* connect: a second attempt uses the socket of the first.
connect(w) ==
    [w EXCEPT !.ras.phase = "connect", !.ras.open = TRUE,
              !.ras.tcp = @ /\ w.ras.open,
              !.trouble = @ \cup IF w.ras.phase \in Handshake THEN {"connectedTwice"}
                                 ELSE {}]

NextPhase == [connect |-> "challenge", challenge |-> "response",
              response |-> "status"]

\* onConnect, onRecvChallenge and onChallengeResponseWrite: the handshake goes on.
\* Setting the options of a closed socket throws.
GoesOn(w) ==
    IF w.ras.phase = "connect" /\ ~w.ras.open THEN Wrong(w, "escaped")
    ELSE Started([w EXCEPT !.ras.phase = NextPhase[@], !.ras.tcp = TRUE], "conn")

\* onConnectionResult, after the user was told: the first header is read.
Listens(w) ==
    IF w.ras.phase # "done" THEN Wrong(w, "usedFreed")
    ELSE IF w.ras.est THEN Read(w, "header") ELSE w

\* A step of the handshake, or its end in onAuthenticationStatus.
onHandshake(w, result, Told(_, _)) ==
    IF result = "fail"
    THEN Told([w EXCEPT !.ras.phase = "failed", !.ras.est = FALSE], FALSE)
    ELSE IF w.ras.phase = "status"
    THEN Then(Told([w EXCEPT !.ras.phase = "done", !.ras.est = TRUE], TRUE), Listens)
    ELSE GoesOn(w)
=============================================================================
