-------------------------- MODULE PullReplication --------------------------
(***************************************************************************)
(* Pull replication of the WHIP server                                     *)
(* (src/whip-server/whip/PullReplicationService.cpp): a thread with its own*)
(* io_service that goes through the asset ids of the master, prefix by     *)
(* prefix, and fetches in batches the assets this server does not have.    *)
(* A round that is complete is followed by a pause.  The settings may name *)
(* another master, or none, at any time.                                   *)
(*                                                                         *)
(* A request is <<"ids", prefix>> or <<"get", id>>.                        *)
(***************************************************************************)
EXTENDS RemoteAssetService, FiniteSets, SequencesExt

CONSTANTS
    Holds,       \* the ids the master has: Holds[prefix] is a sequence
    BatchSize,   \* pull_replication_batch_size
    Masters,     \* endpoints of masters
    FirstMaster, \* the one the server was started with
    Faults,      \* "drop": a connection breaks; "refuse": no connection; "error":
                 \* the master refuses a request; "store": the disk fails; "stop"
    MaxChanges   \* bound: how often the settings name another master

ASSUME ConstantsAssumption ==
    /\ BatchSize \in Nat \ {0} /\ MaxChanges \in Nat
    /\ "" \notin Masters /\ FirstMaster \in Masters
    /\ Faults \subseteq {"drop", "refuse", "error", "store", "stop"}

IdPrefixes == DOMAIN Holds
Held == UNION {Range(Holds[p]) : p \in IdPrefixes}

VARIABLES
    ras,        \* _assetSvc; its phase is "none" when there is none
    connected,  \* _connected
    step,       \* _currentStep
    prefix,     \* _currentAssetPrefix
    pending,    \* _pendingAssets
    inProgress, \* _inProgressAssets
    endpoint,   \* _replicationMasterEndpoint
    reconnect,  \* _reconnectTimer is armed
    restart,    \* _replRestartTimer is armed
    due,        \* _nextReplStart has come
    stop,       \* _stop
    posted,     \* handlers ready to run on the thread, in order
    storing,    \* ids of the assets the storage backend was given
    index,      \* the ids in the existence index
    skipped,    \* ids that were asked for and not stored
    trouble,    \* what went wrong
    master,     \* the setting replication_master
    changes,    \* number of changes of it
    drops       \* a connection was lost

service == <<ras, connected, step, prefix, pending, inProgress, endpoint, reconnect,
             restart, due, stop, posted, storing, skipped, trouble>>
vars == <<service, index, master, changes, drops>>

World ==
    [ras |-> ras, connected |-> connected, step |-> step, prefix |-> prefix,
     pending |-> pending, inProgress |-> inProgress, endpoint |-> endpoint,
     reconnect |-> reconnect, restart |-> restart, due |-> due, stop |-> stop,
     posted |-> posted, storing |-> storing, skipped |-> skipped,
     trouble |-> trouble]

\* The service's part of the next state.
Becomes(next) ==
    \E w \in {next} :
        /\ ras' = w.ras /\ connected' = w.connected /\ step' = w.step
        /\ prefix' = w.prefix /\ pending' = w.pending
        /\ inProgress' = w.inProgress /\ endpoint' = w.endpoint
        /\ reconnect' = w.reconnect /\ restart' = w.restart /\ due' = w.due
        /\ stop' = w.stop /\ posted' = w.posted /\ storing' = w.storing
        /\ skipped' = w.skipped /\ trouble' = w.trouble

\* run posts nothing: the first runStep is the first thing the thread does.
Init ==
    /\ ras = NoService /\ connected = FALSE /\ step = "NONE"
    /\ prefix = 1 /\ pending = <<>> /\ inProgress = {}
    /\ endpoint = FirstMaster
    /\ reconnect = FALSE /\ restart = FALSE /\ due = FALSE /\ stop = FALSE
    /\ posted = <<[h |-> "runStep", v |-> ""]>>
    /\ storing = <<>> /\ index \in SUBSET Held /\ skipped = {} /\ trouble = {}
    /\ master = FirstMaster /\ changes = 0 /\ drops = FALSE

(***************************************************************************)
(* Timers.  Setting one again cancels its wait, and the handler of a       *)
(* cancelled wait runs all the same: none looks at its error code.         *)
(***************************************************************************)
setReconnectTimer(w) ==
    [IF w.reconnect THEN Post(w, "verify", "") ELSE w EXCEPT !.reconnect = TRUE]
setReplicationRestartTimer(w) ==
    [IF w.restart THEN Post(w, "runStep", "") ELSE w EXCEPT !.restart = TRUE]

(***************************************************************************)
(* The steps of a round.  runStep, the callbacks of the service and its    *)
(* safe kill call each other.                                              *)
(***************************************************************************)
RECURSIVE runStep(_)

Skip(w, id) == [w EXCEPT !.inProgress = @ \ {id}, !.skipped = @ \cup {id}]

\* Faulty variant: the next id list is asked for at once, even after the last.
BadRetrieveNextIdList(w) ==
    IF w.prefix + 1 \in IdPrefixes
    THEN runStep([w EXCEPT !.step = "IDLIST", !.prefix = @ + 1])
    ELSE [w EXCEPT !.step = "WAIT", !.prefix = 1, !.due = FALSE]

retrieveNextIdList(w) ==
    IF w.prefix + 1 \in IdPrefixes
    THEN runStep([w EXCEPT !.step = "IDLIST", !.prefix = @ + 1])
    ELSE setReplicationRestartTimer(
            [w EXCEPT !.step = "WAIT", !.prefix = 1, !.due = FALSE])

onGetStoredAssetIds(w, p, outcome) ==
    LET missing == SelectSeq(Holds[p], LAMBDA id : id \notin index)
    IN  IF ~w.connected \/ outcome = "fatal" THEN w
        ELSE IF outcome # "ok" THEN runStep(w)
        ELSE IF Holds[p] = <<>> THEN retrieveNextIdList(w)
        ELSE LET listed == [w EXCEPT !.pending = missing]
             IN  IF missing = <<>> THEN retrieveNextIdList(listed)
                 ELSE runStep([listed EXCEPT !.step = "RETRIEVE"])

\* Faulty variant: a refused asset stays in progress.
BadAssetRetrieved(w, id, outcome) ==
    IF ~w.connected THEN w
    ELSE IF outcome = "ok" THEN [w EXCEPT !.storing = Append(@, id)]
    ELSE [w EXCEPT !.skipped = @ \cup {id}]

onAssetRetrieved(w, id, outcome) ==
    IF ~w.connected THEN w
    ELSE IF outcome = "ok" THEN [w EXCEPT !.storing = Append(@, id)]
    ELSE LET left == Skip(w, id)
         IN  IF outcome # "fatal" /\ left.inProgress = {} THEN runStep(left)
             ELSE left

Answer(w, q, outcome) ==
    IF q[1] = "ids" THEN onGetStoredAssetIds(w, q[2], outcome)
    ELSE onAssetRetrieved(w, q[2], outcome)

\* Faulty variant: the storage callbacks that are to come are not thought of.
BadServerConnectionFailed(w) ==
    LET lost == [w EXCEPT !.connected = FALSE, !.ras = NoService]
    IN  IF ~w.connected THEN w
        ELSE IF w.step \notin {"NOMASTER", "WAIT"} THEN runStep(lost)
        ELSE IF w.step = "NOMASTER" THEN setReplicationRestartTimer(lost)
        ELSE lost

onServerConnectionFailed(w) ==
    LET lost == [w EXCEPT !.connected = FALSE, !.ras = NoService]
    IN  IF ~w.connected THEN w
        ELSE IF w.inProgress = {} /\ w.step \notin {"NOMASTER", "WAIT"}
             THEN runStep(lost)
        ELSE IF w.step = "NOMASTER" THEN setReplicationRestartTimer(lost)
        ELSE lost

Close(w) ==
    IF w.ras.phase = "none" THEN [w EXCEPT !.trouble = @ \cup {"noService"}]
    ELSE close(w, Answer, onServerConnectionFailed)

\* The end of verifyConnection.
Connect(w) ==
    IF w.connected THEN w
    ELSE connect(IF w.ras.phase = "none"
                 THEN [w EXCEPT !.ras = NewService(w.endpoint)] ELSE w)

\* Looks at the settings between rounds only.
Unsettled(w) == w.step \in {"NONE", "WAIT", "NOMASTER"}
Leaves(w) == Unsettled(w) /\ master # "" /\ master # w.endpoint

verifyConnection(w) ==
    LET moved == [w EXCEPT !.step = "NONE", !.endpoint = master]
    IN  IF w.stop THEN w
        ELSE IF Unsettled(w) /\ master = ""
             THEN IF w.step = "NOMASTER" THEN w
                  ELSE Close([w EXCEPT !.step = "NOMASTER"])
        ELSE IF Leaves(w)
             THEN IF w.connected THEN Close(moved) ELSE Connect(moved)
        ELSE Connect(w)

\* The value verifyConnection returns.
Verified(w) ==
    /\ ~w.stop
    /\ (Unsettled(w) /\ master = "") \/ (w.connected /\ ~Leaves(w))

\* Faulty variant: the rest of the list is dropped after the first asset.
BadNextMissingAssetBatch(w) ==
    LET missing == SelectSeq(w.pending, LAMBDA id : id \notin index)
        popping == [w EXCEPT !.pending = <<>>]
    IN  IF missing = <<>> THEN retrieveNextIdList(popping)
        ELSE Request([popping EXCEPT !.inProgress = @ \cup {Head(missing)}],
                     <<"get", Head(missing)>>)

retrieveNextMissingAssetBatch(w) ==
    LET missing == SelectSeq(w.pending, LAMBDA id : id \notin index)
        batch == SubSeq(missing, 1, IF Len(missing) < BatchSize THEN Len(missing)
                                    ELSE BatchSize)
        popped == IF Len(missing) < BatchSize THEN Len(w.pending)
                  ELSE CHOOSE n \in DOMAIN w.pending : w.pending[n] = Last(batch)
        ask(v, id) == Request([v EXCEPT !.inProgress = @ \cup {id}], <<"get", id>>)
        popping == [w EXCEPT !.pending = SubSeq(@, popped + 1, Len(@))]
    IN  IF batch = <<>> THEN retrieveNextIdList(popping)
        ELSE FoldLeft(ask, popping, batch)

replicateStep(w) ==
    CASE w.step = "NONE" ->
            Request([w EXCEPT !.prefix = 1], <<"ids", 1>>)
      [] w.step = "IDLIST" -> Request(w, <<"ids", w.prefix>>)
      [] w.step = "RETRIEVE" -> retrieveNextMissingAssetBatch(w)
      [] w.step = "WAIT" ->
            IF w.due THEN runStep([w EXCEPT !.step = "NONE"])
            ELSE setReplicationRestartTimer(w)
      [] w.step = "NOMASTER" -> setReplicationRestartTimer(w)

runStep(w) ==
    IF w.trouble # {} THEN w
    ELSE IF Verified(w) THEN Then(verifyConnection(w), replicateStep)
    ELSE verifyConnection(w)

onServiceConnectionStatus(w, success) ==
    IF success THEN runStep([w EXCEPT !.connected = TRUE])
    ELSE setReconnectTimer(w)

onAfterAssetStored(w, id) ==
    LET stored == [w EXCEPT !.inProgress = @ \ {id}]
    IN  IF stored.inProgress = {} THEN runStep(stored) ELSE stored

doStop(w) == Close([w EXCEPT !.stop = TRUE])

(***************************************************************************)
(* The thread                                                              *)
(***************************************************************************)
Runs == trouble = {}

\* The handlers of the connection, with the service's callbacks.
onWrite(w, result) == onAfterWriteAssetRequest(w, result, Answer, onServerConnectionFailed)
onResponse(w, result) == onRead(w, result, Answer, onServerConnectionFailed)
onConnect(w, result) == onHandshake(w, result, onServiceConnectionStatus)

\* The handlers run in the order in which they became ready.
RunPosted ==
    LET e == Head(posted)
        w == [World EXCEPT !.posted = Tail(@)]
    IN  /\ Runs /\ posted # <<>>
        /\ \/ e.h = "runStep" /\ Becomes(runStep(w))
           \/ e.h = "verify" /\ Becomes(verifyConnection(w))
           \/ e.h = "error" /\ Becomes(Answer(w, e.v, "error"))
           \/ e.h = "stored" /\ Becomes(onAfterAssetStored(w, e.v))
           \/ e.h = "stop" /\ Becomes(doStop(w))
           \/ e.h = "conn" /\ Becomes(onConnect(w, e.v))
           \/ e.h = "send" /\ Becomes(onWrite(w, e.v))
           \/ e.h = "recv" /\ Becomes(onResponse(w, e.v))
        /\ UNCHANGED <<index, master, changes, drops>>

\* An operation of the connection ends.
OperationEnds(h) ==
    /\ Runs
    /\ \E v \in Endings(World, h, Faults) :
          /\ Becomes(Ends(World, h, v))
          /\ drops' = (drops \/ v = "fail")
    /\ UNCHANGED <<index, master, changes>>

ReconnectFires ==
    /\ Runs /\ reconnect
    /\ Becomes(Post([World EXCEPT !.reconnect = FALSE], "verify", ""))
    /\ UNCHANGED <<index, master, changes, drops>>

RestartFires ==
    /\ Runs /\ restart
    /\ Becomes(Post([World EXCEPT !.restart = FALSE], "runStep", ""))
    /\ UNCHANGED <<index, master, changes, drops>>

(***************************************************************************)
(* Other threads                                                           *)
(***************************************************************************)
\* The storage backend stores the oldest asset it was given, or fails, and calls
\* onAfterAssetStoredStub.
StorageReturns(ok) ==
    /\ Runs /\ storing # <<>>
    /\ ok \/ "store" \in Faults
    /\ index' = IF ok THEN index \cup {Head(storing)} ELSE index
    /\ LET w == [World EXCEPT !.storing = Tail(@),
                              !.skipped = IF ok THEN @ ELSE @ \cup {Head(storing)}]
       IN  Becomes(Post(w, "stored", Head(storing)))
    /\ UNCHANGED <<master, changes, drops>>

\* A client stores an asset the master has as well.
ClientStores ==
    /\ Runs
    /\ \E id \in Held \ index : index' = index \cup {id}
    /\ UNCHANGED <<service, master, changes, drops>>

\* The pause between two rounds ends.
RoundDue ==
    /\ Runs /\ step = "WAIT" /\ ~due
    /\ due' = TRUE
    /\ UNCHANGED <<ras, connected, step, prefix, pending, inProgress, endpoint,
                   reconnect, restart, stop, posted, storing, skipped, trouble,
                   index, master, changes, drops>>

\* AssetServer::stop.
Stop ==
    /\ Runs /\ "stop" \in Faults /\ ~stop /\ ~Ready(World, "stop")
    /\ Becomes(Post(World, "stop", ""))
    /\ UNCHANGED <<index, master, changes, drops>>

\* The settings are loaded again.
SettingsChange ==
    /\ Runs /\ changes < MaxChanges
    /\ master' \in (Masters \cup {""}) \ {master}
    /\ changes' = changes + 1
    /\ UNCHANGED <<service, index, drops>>

Next ==
    \/ RunPosted \/ ReconnectFires \/ RestartFires
    \/ \E h \in {"conn", "send", "recv"} : OperationEnds(h)
    \/ \E ok \in BOOLEAN : StorageReturns(ok)
    \/ ClientStores \/ RoundDue \/ Stop \/ SettingsChange

Spec == Init /\ [][Next]_vars

\* Timers fire and handlers run, time passes and the storage answers.  A peer goes
\* on with the handshake or breaks it off, and takes and answers what it is sent
\* or breaks the connection; one that is idle need not break.
Fairness ==
    /\ WF_vars(RunPosted)
    /\ WF_vars(ReconnectFires) /\ WF_vars(RestartFires) /\ WF_vars(RoundDue)
    /\ WF_vars(\E ok \in BOOLEAN : StorageReturns(ok))
    /\ \A h \in {"conn", "send", "recv"} :
          WF_vars(Expected(World, h) /\ OperationEnds(h))

FairSpec == Spec /\ Fairness

(***************************************************************************)
(* Properties                                                              *)
(***************************************************************************)
\* The requests that were not answered.
AskedFor == ras.callbackq \o ras.transferq

\* While the connection is up, no asset is fetched twice at a time, and
\* _inProgressAssets is what is being fetched or stored: the last one of them to
\* come back, and no other, takes the next step.
BatchAccounted ==
    LET gets == SelectSeq(AskedFor, LAMBDA q : q[1] = "get")
        returned == {posted[i].v : i \in {j \in DOMAIN posted : posted[j].h = "stored"}}
        fetched == {gets[i][2] : i \in DOMAIN gets}
    IN  ras.est /\ trouble = {} =>
            /\ inProgress = fetched \cup Range(storing) \cup returned
            /\ Cardinality(inProgress)
                 = Len(gets) + Len(storing) + Cardinality(returned)

\* What can make the service take its next step.
Drivers ==
    (IF reconnect THEN {"reconnect"} ELSE {})
    \cup (IF restart THEN {"restart"} ELSE {})
    \cup ({posted[i].h : i \in DOMAIN posted} \cap {"runStep", "verify"})
    \cup (IF ras.phase \in Handshake THEN {"connecting"} ELSE {})
    \cup (IF inProgress # {} THEN {"batch"} ELSE {})
    \cup (IF \E i \in DOMAIN AskedFor : AskedFor[i][1] = "ids" THEN {"list"} ELSE {})

\* As long as the settings stay, the service takes one step at a time: at no time
\* are there two things that make it take the next one.
OneDriver ==
    changes = 0 /\ ~stop /\ (connected => ras.est) => Cardinality(Drivers) <= 1

\* A complete round leaves nothing out: what the master has was stored, or an
\* attempt to fetch it failed.
RoundComplete ==
    step = "WAIT" /\ changes = 0 => Held \subseteq index \cup skipped

\* As long as no connection fails and the settings stay, one round follows the
\* other, unless the master refuses requests for ever.
Refused == \E i \in DOMAIN posted : posted[i].h = "recv" /\ posted[i].v \in {"error", "bare"}
RoundsGoOn ==
    \/ <>(drops \/ changes > 0 \/ stop \/ trouble # {})
    \/ []<>Refused
    \/ []<>(step = "WAIT") /\ []<>(step # "WAIT")
============================================================================
