-------------------------- MODULE PushReplication --------------------------
(***************************************************************************)
(* Push replication of the WHIP server                                     *)
(* (src/whip-server/whip/PushReplicationService.cpp): a thread with its own*)
(* io_service that keeps a connection to the slave and sends it every new  *)
(* asset, one at a time.  The disk worker posts the assets, the settings   *)
(* may name another slave at any time, and the connection may break        *)
(* between any two handlers.                                               *)
(***************************************************************************)
EXTENDS RemoteAssetService, FiniteSets

CONSTANTS
    NumAssets,      \* bound: assets written to the disk while the model runs
    Slaves,         \* endpoints of slaves
    FirstSlave,     \* the one the server was started with, or ""
    MAX_QUEUE_SIZE, \* 250 in the code
    Faults,         \* "drop": a connection breaks; "refuse": no connection;
                    \* "error": the slave refuses an asset; "stop"
    MaxChanges      \* bound: how often the settings name another slave

ASSUME ConstantsAssumption ==
    /\ {MAX_QUEUE_SIZE, MaxChanges, NumAssets} \subseteq Nat
    /\ "" \notin Slaves /\ FirstSlave \in Slaves \cup {""}
    /\ Faults \subseteq {"drop", "refuse", "error", "stop"}

Assets == 1 .. NumAssets

VARIABLES
    ras,        \* _replSlave
    connected,  \* _connected
    sending,    \* _sending
    waiting,    \* _waitingAssets
    endpoint,   \* _replicationSlaveEndpoint
    monitor,    \* _connectionMonitor is armed
    stop,       \* _stop
    posted,     \* handlers posted to the io_service of the thread, in order
    slave,      \* the setting replication_slave
    changes,    \* number of changes of it
    written,    \* number of assets written to the disk so far
    trouble     \* what went wrong: "busyFreed", a service was freed with an
                \* operation outstanding; "noWaiter", a response without callback

service == <<ras, connected, sending, waiting, endpoint, monitor, stop, posted,
             trouble>>
vars == <<service, slave, changes, written>>

World == [ras |-> ras, connected |-> connected, sending |-> sending,
          waiting |-> waiting, endpoint |-> endpoint, monitor |-> monitor,
          stop |-> stop, posted |-> posted, trouble |-> trouble]

\* The service's part of the next state.
Becomes(next) ==
    \E w \in {next} :
        /\ ras' = w.ras /\ connected' = w.connected /\ sending' = w.sending
        /\ waiting' = w.waiting /\ endpoint' = w.endpoint /\ monitor' = w.monitor
        /\ stop' = w.stop /\ posted' = w.posted /\ trouble' = w.trouble

Init ==
    /\ ras = NoService
    /\ connected = FALSE /\ sending = FALSE /\ waiting = <<>>
    /\ endpoint = "" /\ monitor = TRUE /\ stop = FALSE /\ posted = <<>>
    /\ slave = FirstSlave
    /\ changes = 0
    /\ written = 0
    /\ trouble = {}

(***************************************************************************)
(* The service's methods                                                   *)
(***************************************************************************)
doPutAsset(w, x) ==
    IF w.stop THEN w ELSE Request([w EXCEPT !.sending = TRUE], x)

pushNextWaitingAsset(w) ==
    IF w.connected /\ ~w.stop /\ w.waiting # <<>>
    THEN doPutAsset([w EXCEPT !.waiting = Tail(@)], Head(w.waiting))
    ELSE w

\* Faulty variant: a failed asset ends the pushing.
BadAfterAssetPut(w, x, outcome) ==
    IF outcome = "ok" THEN pushNextWaitingAsset([w EXCEPT !.sending = FALSE])
    ELSE [w EXCEPT !.sending = FALSE]

onAfterAssetPut(w, x, outcome) ==
    pushNextWaitingAsset([w EXCEPT !.sending = FALSE])

\* Faulty variant: the flag survives the connection.
BadSafeKillFlag(w) == [w EXCEPT !.sending = FALSE, !.waiting = <<>>]

onSafeKillConnection(w) ==
    [w EXCEPT !.connected = FALSE, !.sending = FALSE, !.waiting = <<>>]

Close(w) == close(w, onAfterAssetPut, onSafeKillConnection)

resetConnectionMonitor(w) == IF w.stop THEN w ELSE [w EXCEPT !.monitor = TRUE]

Idle(r) == r.recv = "none" /\ ~r.send /\ r.phase \notin Handshake

\* The old service is freed when the new one takes its place.
makeConnection(w) ==
    connect([w EXCEPT !.ras = NewService(w.endpoint),
                      !.trouble = @ \cup IF Idle(w.ras) THEN {} ELSE {"busyFreed"}])

\* Faulty variant: the new endpoint is connected to at once.
BadEndpointChanged(w, ep) == makeConnection([w EXCEPT !.endpoint = ep])

endpointChanged(w, ep) ==
    LET moved == [w EXCEPT !.endpoint = ep]
    IN  IF w.connected THEN resetConnectionMonitor(Close(moved))
        ELSE makeConnection(moved)

doQueueAssetForPush(w, x) ==
    IF ~w.connected \/ w.stop THEN w
    ELSE IF w.sending
         THEN IF Len(w.waiting) > MAX_QUEUE_SIZE THEN w
              ELSE [w EXCEPT !.waiting = Append(@, x)]
    ELSE doPutAsset(w, x)

doStop(w) ==
    LET stopped == [w EXCEPT !.stop = TRUE]
    IN  IF w.connected THEN Close(stopped) ELSE stopped

\* Faulty variant: the monitor is not set again after a failure.
BadServiceConnectionStatus(w, success) ==
    IF success THEN resetConnectionMonitor([w EXCEPT !.connected = TRUE]) ELSE w

onServiceConnectionStatus(w, success) ==
    resetConnectionMonitor([w EXCEPT !.connected = @ \/ success])

onCheckConnection(w) ==
    IF w.stop THEN w
    ELSE IF slave = "" THEN resetConnectionMonitor(IF w.connected THEN Close(w) ELSE w)
    ELSE IF slave # w.endpoint THEN endpointChanged(w, slave)
    ELSE IF w.connected THEN resetConnectionMonitor(w)
    ELSE makeConnection(w)

(***************************************************************************)
(* Handlers of the io_service                                              *)
(***************************************************************************)
Runs == trouble = {}

\* The handlers of the connection, with the service's callbacks.
onWrite(w, result) ==
    onAfterWriteAssetRequest(w, result, onAfterAssetPut, onSafeKillConnection)
onResponse(w, result) == onRead(w, result, onAfterAssetPut, onSafeKillConnection)
onConnect(w, result) == onHandshake(w, result, onServiceConnectionStatus)

\* The handlers run in the order in which they became ready.
RunPosted ==
    LET e == Head(posted)
        w == [World EXCEPT !.posted = Tail(@)]
    IN  /\ Runs /\ posted # <<>>
        /\ \/ e.h = "monitor" /\ Becomes(onCheckConnection(w))
           \/ e.h = "queue" /\ Becomes(doQueueAssetForPush(w, e.v))
           \/ e.h = "error" /\ Becomes(onAfterAssetPut(w, e.v, "error"))
           \/ e.h = "stop" /\ Becomes(doStop(w))
           \/ e.h = "conn" /\ Becomes(onConnect(w, e.v))
           \/ e.h = "send" /\ Becomes(onWrite(w, e.v))
           \/ e.h = "recv" /\ Becomes(onResponse(w, e.v))
        /\ UNCHANGED <<slave, changes, written>>

\* An operation of the connection ends.
OperationEnds(h) ==
    /\ Runs
    /\ \E v \in Endings(World, h, Faults) : Becomes(Ends(World, h, v))
    /\ UNCHANGED <<slave, changes, written>>

MonitorFires ==
    /\ Runs /\ monitor
    /\ Becomes(Post([World EXCEPT !.monitor = FALSE], "monitor", ""))
    /\ UNCHANGED <<slave, changes, written>>

(***************************************************************************)
(* Other threads                                                           *)
(***************************************************************************)
\* The disk worker, after it has written an asset.
queueAssetForPush ==
    /\ Runs /\ written < NumAssets
    /\ written' = written + 1
    /\ Becomes(Post(World, "queue", written + 1))
    /\ UNCHANGED <<slave, changes>>

\* AssetServer::stop, which waits for the thread.
Stop ==
    /\ Runs /\ "stop" \in Faults /\ ~stop /\ ~Ready(World, "stop")
    /\ Becomes(Post(World, "stop", ""))
    /\ UNCHANGED <<slave, changes, written>>

\* The settings are loaded again.
SettingsChange ==
    /\ Runs /\ changes < MaxChanges
    /\ slave' \in (Slaves \cup {""}) \ {slave}
    /\ changes' = changes + 1
    /\ UNCHANGED <<service, written>>

Next ==
    \/ RunPosted \/ MonitorFires
    \/ \E h \in {"conn", "send", "recv"} : OperationEnds(h)
    \/ queueAssetForPush
    \/ Stop \/ SettingsChange

Spec == Init /\ [][Next]_vars

\* Timers fire and handlers run.  A peer goes on with the handshake or breaks it
\* off, and takes and answers what it is sent or breaks the connection; one that
\* is idle need not break.
Fairness ==
    /\ WF_vars(RunPosted)
    /\ WF_vars(MonitorFires)
    /\ \A h \in {"conn", "send", "recv"} :
          WF_vars(Expected(World, h) /\ OperationEnds(h))

FairSpec == Spec /\ Fairness

(***************************************************************************)
(* Properties                                                              *)
(***************************************************************************)
\* The service never gives up and never works on two connections: exactly one
\* of the monitor's timer, its handler and a connection attempt is under way.
OneAttempt ==
    ~stop =>
             /\ monitor \/ Ready(World, "monitor") \/ ras.phase \in Handshake
             /\ ~(monitor /\ Ready(World, "monitor"))
             /\ ras.phase \in Handshake => ~monitor /\ ~Ready(World, "monitor")

\* makeConnection replaces, and so frees, a service only when none of its
\* handlers is outstanding: they hold a plain pointer to it.
FreedIdle == "busyFreed" \notin trouble

\* While the connection is up, one asset at a time is with the slave, and
\* nothing waits unless one is: the answer to it will send the next.  No callback
\* is left that an earlier connection posted and that would take the asset for
\* answered.
PushesInTurn ==
    ras.est =>
        /\ ~Ready(World, "error")
        /\ ~stop => /\ Len(ras.callbackq) + Len(ras.transferq) = IF sending THEN 1 ELSE 0
                    /\ waiting # <<>> => sending

\* A connection that was lost or closed is given up in the end, so that the
\* monitor can make another one: some outstanding handler always reaches
\* checkSafeKill.
LostIsNoticed == (connected /\ ~ras.est) ~> (~connected \/ trouble # {})
============================================================================
