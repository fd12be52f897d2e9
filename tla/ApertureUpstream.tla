-------------------------- MODULE ApertureUpstream --------------------------
(***************************************************************************)
(* The connection of the Aperture texture server to its WHIP server        *)
(* (src/aperture/aperture/AssetServer.cpp): requests are written one after *)
(* the other, answers are read while any are due, and requests for the same*)
(* asset share one.  All of it runs on the one thread of the io_service.   *)
(*                                                                         *)
(* Every operation is a function of the connection u; a waiter of an asset *)
(* stands for the callback it passed to getAsset.                          *)
(***************************************************************************)
EXTENDS Integers, Sequences

CONSTANTS Ids, None

(***************************************************************************)
(* Operations on sockets.  One that is outstanding when its socket is      *)
(* closed ("stale") fails, unless it was done already and its handler only *)
(* waits to be run; one that is begun on a closed socket ("dead") fails.   *)
(***************************************************************************)
NoOp == [is |-> "none", on |-> "live"]
Begin(s, kind) == [is |-> kind, on |-> IF s.open THEN "live" ELSE "dead"]
Shut(op) == IF op.is # "none" /\ op.on = "live" THEN [op EXCEPT !.on = "stale"] ELSE op

\* What its handler may be told; breaks: a connection may break.
Outcomes(op, breaks) ==
    (IF op.on # "dead" THEN {TRUE} ELSE {})
      \cup (IF op.on # "live" \/ breaks THEN {FALSE} ELSE {})

(***************************************************************************)
(* The connection: pend[x] are the waiters of asset x (_pendingTransfers), *)
(* sends the requests to write (_pendingSends), wire those the WHIP server *)
(* has or is being sent and did not answer.                                *)
(***************************************************************************)
Waiters(u) == UNION {u.pend[x] : x \in Ids}
Quiet(u) == u.hs.is = "none" /\ u.rd.is = "none" /\ u.wr.is = "none"

connect(u) ==
    [u EXCEPT !.state = "connecting", !.open = TRUE, !.timer = FALSE,
              !.hs = [is |-> "connect", on |-> "live"]]

NewUpstream ==
    connect([state |-> "disconnected", open |-> FALSE, timer |-> FALSE,
             hs |-> NoOp, rd |-> NoOp, wr |-> NoOp,
             sends |-> <<>>, wire |-> <<>>, pend |-> [x \in Ids |-> {}]])

\* Faulty variant: a second close does not arm the timer it has stopped.
BadClose(u) ==
    [u EXCEPT !.state = "wait", !.open = FALSE, !.timer = u.state # "wait",
              !.hs = Shut(@), !.rd = Shut(@), !.wr = Shut(@),
              !.sends = <<>>, !.wire = <<>>, !.pend = [x \in Ids |-> {}]]

\* close and tryReconnect, of a connection that is up, coming up or waiting to.
\* The waiters are told, by the caller here, that there is no asset.
close(u) ==
    [u EXCEPT !.state = "wait", !.open = FALSE, !.timer = TRUE,
              !.hs = Shut(@), !.rd = Shut(@), !.wr = Shut(@),
              !.sends = <<>>, !.wire = <<>>, !.pend = [x \in Ids |-> {}]]

\* A step of the handshake is done: the next one begins, or the connection is up.
Authenticated(u) ==
    CASE u.hs.is = "connect"   -> [u EXCEPT !.hs = Begin(u, "challenge")]
      [] u.hs.is = "challenge" -> [u EXCEPT !.hs = Begin(u, "response")]
      [] u.hs.is = "response"  -> [u EXCEPT !.hs = Begin(u, "status")]
      [] u.hs.is = "status"    -> [u EXCEPT !.hs = NoOp, !.state = "connected"]

processNextSendItem(u) ==
    [u EXCEPT !.wr = Begin(u, "write"),
              !.wire = IF u.open THEN Append(@, Head(u.sends)) ELSE @]

beginResponseHeaderRead(u) == [u EXCEPT !.rd = Begin(u, "header")]

getAsset(u, x, waiter) ==
    IF u.pend[x] # {} THEN [u EXCEPT !.pend[x] = @ \cup {waiter}]
    ELSE LET asked == [u EXCEPT !.sends = Append(@, x)]
             sent  == IF Len(asked.sends) = 1 THEN processNextSendItem(asked) ELSE asked
             reads == IF Waiters(u) = {} THEN beginResponseHeaderRead(sent) ELSE sent
         IN  [reads EXCEPT !.pend[x] = {waiter}]

\* onWriteAssetRequest and tryProcessNextSendItem, the request written.
Written(u) ==
    LET popped == [u EXCEPT !.wr = NoOp, !.sends = Tail(@)]
    IN  IF popped.sends = <<>> THEN popped ELSE processNextSendItem(popped)

\* Faulty variant: the next answer is not read.
BadAnswered(u) ==
    IF u.wire = <<>> THEN [u EXCEPT !.rd = NoOp]
    ELSE [u EXCEPT !.rd = NoOp, !.wire = Tail(@), !.pend[Head(u.wire)] = {}]

\* fireAssetRcvdCallbacks and testContinueRecv: the answer to the oldest request
\* was read.  A stale answer finds no transfer.
Answered(u) ==
    LET told == IF u.wire = <<>> THEN [u EXCEPT !.rd = NoOp]
                ELSE [u EXCEPT !.rd = NoOp, !.wire = Tail(@),
                               !.pend[Head(u.wire)] = {}]
    IN  IF Waiters(told) = {} THEN told ELSE beginResponseHeaderRead(told)

\* What a header may say: the asset follows, there is none, or an error with a
\* message; garbled: it may be no header.  Nothing is read before the WHIP server
\* was asked.
Headers(u, garbled) ==
    IF u.rd.on = "live" /\ u.wire = <<>> THEN {}
    ELSE {"found", "absent", "message"} \cup IF garbled THEN {"invalid"} ELSE {}
=============================================================================
