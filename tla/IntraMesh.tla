----------------------------- MODULE IntraMesh -----------------------------
(***************************************************************************)
(* Two servers of a mesh: A, whose IntraMeshService connects to its peer B *)
(* and keeps the connection up, and B, which serves the queries            *)
(* (src/whip-server/whip/IntraMeshService.cpp, MeshServer.cpp,             *)
(* MeshQueryConnection.cpp, IntraMeshQueryClient.cpp).  Every attempt n to *)
(* connect is a MeshServer of A, with a service socket and a query socket, *)
(* and, once accepted, an IntraMeshQueryClient of B.  Both servers send a  *)
(* heartbeat at intervals; A's also starts the next attempt.               *)
(*                                                                         *)
(* What a MeshServer does on its service socket once it is connected, and  *)
(* the searches, are in MeshSearch.  An operation started on a closed      *)
(* socket ("dead") fails; one that was started before may have completed.  *)
(***************************************************************************)
EXTENDS Naturals, Sequences, FiniteSets

CONSTANTS
    MaxLinks,   \* bound: attempts to connect
    MaxQueries, \* bound: queries A writes
    MaxBeats,   \* bound: heartbeats of B that A has not read
    Faults      \* "close": a connection breaks; "refuse": an attempt fails;
                \* "untrusted": B does not know A when A connects

ASSUME ConstantsAssumption ==
    /\ {MaxLinks, MaxQueries, MaxBeats} \subseteq Nat
    /\ Faults \subseteq {"close", "refuse", "untrusted"}

Links == 1 .. MaxLinks
Beat == 0 \* a heartbeat; a query and its answer are their number

VARIABLES
    server,  \* A's MeshServers
    client,  \* B's IntraMeshQueryClients
    toB,     \* queries on the wire, as long as they can still be read
    toA,     \* answers and heartbeats on the wire, likewise
    asked,   \* number of queries A's searches made
    got      \* the last answer A received

vars == <<server, client, toB, toA, asked, got>>

\* where: "none", "pending" (_pendingServerConnections), "remote"
\* (_remoteServers), "failed" (_connectFailedServers), "gone" (destroyed);
\* results: _numConnectResultsRcvd; est, qest: the connections established;
\* open: the service socket; recv: its outstanding operation; conn, fired,
\* qrecv, qsend, queue: the MeshQueryConnection; kill: the safe kill callback.
NoServer ==
    [where |-> "none", results |-> 0, est |-> FALSE, open |-> FALSE,
     recv |-> "none", qest |-> FALSE, conn |-> FALSE, fired |-> FALSE,
     qrecv |-> "none", qsend |-> "none", queue |-> <<>>, sent |-> 0,
     kill |-> "none"]

\* met: "called" once A's query socket is connected, "yes" once B accepted it; in: a
\* member of _connectedClients; send: what is being sent; dead: on a closed socket.
NoClient ==
    [met |-> "no", in |-> FALSE, open |-> FALSE, recv |-> "none", send |-> <<>>,
     dead |-> FALSE, pending |-> <<>>]

Init ==
    /\ server = [n \in Links |-> NoServer]
    /\ client = [n \in Links |-> NoClient]
    /\ toB = [n \in Links |-> <<>>]
    /\ toA = [n \in Links |-> <<>>]
    /\ asked = 0
    /\ got = 0

(***************************************************************************)
(* A: closing a MeshServer.  S is the function of all of them.             *)
(***************************************************************************)
\* A destroyed server: only the handlers that point to it can be left.
Destroyed(m) ==
    [NoServer EXCEPT !.where = "gone", !.recv = m.recv, !.qrecv = m.qrecv,
                     !.qsend = m.qsend]

\* Faulty variant: the query connection may still be up.
BadCheckSafeKill(S, n) ==
    IF ~S[n].est /\ S[n].recv = "none" /\ S[n].kill # "none"
    THEN [S EXCEPT ![n] = Destroyed(@)] ELSE S

\* checkSafeKill.  onSafeToKill drops whatever server is in _remoteServers for
\* the peer; onConnectFailedSafekill drops this one.
CheckSafeKill(S, n) ==
    IF ~S[n].est /\ S[n].recv = "none" /\ ~S[n].qest
    THEN [k \in Links |->
            IF \/ S[n].kill = "remote" /\ S[k].where = "remote"
               \/ S[n].kill = "failed" /\ k = n
            THEN Destroyed(S[k]) ELSE S[k]]
    ELSE S

\* MeshQueryConnection::close without its callback, and whether that is called.
Shut(S, n) == [S EXCEPT ![n].conn = FALSE]
Ends(m) == m.qrecv \notin {"live", "dead"} /\ m.qsend = "none" /\ ~m.fired

\* MeshServer::close: the query connection, if it ends, closes the server once
\* more before the outer call goes on.
CloseServer(S, n) ==
    LET shut == [Shut(S, n) EXCEPT ![n].open = FALSE]
        ended == [shut EXCEPT ![n].fired = TRUE, ![n].qest = FALSE, ![n].est = FALSE]
    IN  CheckSafeKill([IF Ends(S[n]) THEN CheckSafeKill(ended, n) ELSE shut
                         EXCEPT ![n].est = FALSE],
                      n)

\* Faulty variant: queryEndpointClosed does not close the server.
BadCloseQuery(S, n) ==
    IF Ends(S[n]) THEN [Shut(S, n) EXCEPT ![n].fired = TRUE, ![n].qest = FALSE]
    ELSE Shut(S, n)

\* MeshQueryConnection::close from one of its own handlers; queryEndpointClosed.
CloseQuery(S, n) ==
    IF Ends(S[n])
    THEN CloseServer([Shut(S, n) EXCEPT ![n].fired = TRUE, ![n].qest = FALSE], n)
    ELSE Shut(S, n)

(***************************************************************************)
(* A: connecting                                                           *)
(***************************************************************************)
\* The peer is neither connected nor being connected.
Missing == \A n \in Links : server[n].where \notin {"remote", "pending"}

\* doHeartBeat and connectToMeshServer.
Connect(n) ==
    /\ Missing
    /\ \A k \in 1 .. n - 1 : server[k].where # "none"
    /\ server[n].where = "none"
    /\ server' = [server EXCEPT ![n].where = "pending", ![n].open = TRUE,
                                ![n].recv = "connect", ![n].qrecv = "connect"]
    /\ UNCHANGED <<client, toB, toA, asked, got>>

\* onConnectionResult and onConnectAttemptCompleted.
ConnectionResult(S, n) ==
    LET m == S[n]
        counted == [S EXCEPT ![n].results = @ + 1]
    IN  IF m.results + 1 < 2 THEN counted
        ELSE IF m.est /\ m.qest
             THEN [counted EXCEPT ![n].recv = IF m.open THEN "live" ELSE "dead",
                                  ![n].where = "remote", ![n].kill = "remote"]
        ELSE CloseServer([counted EXCEPT ![n].where = "failed", ![n].kill = "failed"], n)

Fails(what) == what \in Faults

\* onConnect to onAuthenticationStatus.  The last handler can run after the query
\* connection closed the server; an earlier one's next operation fails then.
ServiceConnected(n) ==
    /\ server[n].recv = "connect"
    /\ server' = ConnectionResult([server EXCEPT ![n].recv = "none", ![n].est = TRUE], n)
    /\ UNCHANGED <<client, toB, toA, asked, got>>

ServiceRefused(n) ==
    /\ server[n].recv = "connect"
    /\ Fails("refuse") \/ ~server[n].open
    /\ server' = ConnectionResult([server EXCEPT ![n].recv = "none", ![n].est = FALSE], n)
    /\ UNCHANGED <<client, toB, toA, asked, got>>

\* onAfterMeshServiceConnect and onQueryConnectionConnectResult.
QueryConnected(n) ==
    /\ server[n].qrecv = "connect"
    /\ server' = ConnectionResult([server EXCEPT ![n].qrecv = "live", ![n].conn = TRUE,
                                                 ![n].qest = TRUE], n)
    /\ client' = [client EXCEPT ![n].met = "called"]
    /\ UNCHANGED <<toB, toA, asked, got>>

QueryRefused(n) ==
    /\ server[n].qrecv = "connect"
    /\ Fails("refuse")
    /\ server' = ConnectionResult([server EXCEPT ![n].qrecv = "none"], n)
    /\ UNCHANGED <<client, toB, toA, asked, got>>

\* The service socket breaks, or its read ends after it was closed.
ServiceReadFails(n) ==
    /\ server[n].recv \in {"live", "dead"}
    /\ Fails("close") \/ ~server[n].open
    /\ server' = CloseServer([server EXCEPT ![n].recv = "none"], n)
    /\ UNCHANGED <<client, toB, toA, asked, got>>

(***************************************************************************)
(* A: queries                                                              *)
(***************************************************************************)
\* How an operation on the query socket starts.
Op(m) == IF m.conn THEN "live" ELSE "dead"

\* MeshServer::search and MeshQueryConnection::search.
Search(n) ==
    LET m == server[n]
    IN  /\ m.where = "remote" /\ m.est /\ m.conn
        /\ asked < MaxQueries
        /\ asked' = asked + 1
        /\ server' = IF m.qsend = "none"
                     THEN [server EXCEPT ![n].qsend = "live", ![n].sent = asked + 1]
                     ELSE [server EXCEPT ![n].queue = Append(@, asked + 1)]
        /\ UNCHANGED <<client, toB, toA, got>>

\* onAfterMeshMessageWritten and writeNextMessage.
QueryWritten(n) ==
    LET m == server[n]
    IN  /\ m.qsend = "live"
        /\ toB' = IF client[n].met = "yes" /\ ~client[n].open /\ client[n].recv = "none"
                  THEN toB ELSE [toB EXCEPT ![n] = Append(@, m.sent)]
        /\ server' = IF m.queue = <<>> THEN [server EXCEPT ![n].qsend = "none", ![n].sent = 0]
                     ELSE [server EXCEPT ![n].qsend = Op(m), ![n].sent = Head(m.queue),
                                         ![n].queue = Tail(m.queue)]
        /\ UNCHANGED <<client, toA, asked, got>>

\* Either end closed its query socket, or the connection broke.
Closed(n) == ~server[n].conn \/ (client[n].met = "yes" /\ ~client[n].open)
Broken(n) == Fails("close") \/ Closed(n)

QueryWriteFails(n) ==
    /\ server[n].qsend = "dead" \/ (server[n].qsend = "live" /\ Broken(n))
    /\ server' = CloseQuery([server EXCEPT ![n].qsend = "none"], n)
    /\ UNCHANGED <<client, toB, toA, asked, got>>

\* onAfterMeshMessageReceived and onQueryAnswerRcvd.
AnswerRead(n) ==
    /\ server[n].qrecv = "live" /\ toA[n] # <<>>
    /\ toA' = [toA EXCEPT ![n] = Tail(@)]
    /\ got' = IF Head(toA[n]) = Beat THEN got ELSE Head(toA[n])
    /\ server' = [server EXCEPT ![n].qrecv = Op(server[n])]
    /\ UNCHANGED <<client, toB, asked>>

QueryReadFails(n) ==
    /\ server[n].qrecv = "dead" \/ (server[n].qrecv = "live" /\ Broken(n))
    /\ server' = CloseQuery([server EXCEPT ![n].qrecv = "none"], n)
    /\ toA' = [toA EXCEPT ![n] = <<>>]
    /\ UNCHANGED <<client, toB, asked, got>>

(***************************************************************************)
(* B: the query clients                                                    *)
(***************************************************************************)
\* close and queryClientDisconnected, which destroys the client.
CloseClient(c) ==
    IF c.recv = "none" /\ c.send = <<>> THEN [NoClient EXCEPT !.met = "yes"]
    ELSE [c EXCEPT !.open = FALSE]

Listens(c) == [c EXCEPT !.recv = IF c.open THEN "live" ELSE "dead"]

\* Faulty variant: the message being sent is replaced.
BadSends(c, m) == [c EXCEPT !.send = <<m>>, !.dead = ~c.open]

\* sendQueryResponse, sendHeartbeat.
Sends(c, m) ==
    IF c.send = <<>> THEN [c EXCEPT !.send = <<m>>, !.dead = ~c.open]
    ELSE [c EXCEPT !.pending = Append(@, m)]

processQueuedSend(c) ==
    IF c.pending = <<>> THEN c
    ELSE [c EXCEPT !.send = <<Head(c.pending)>>, !.dead = ~c.open,
                   !.pending = Tail(c.pending)]

ClientBecomes(n, c) ==
    /\ client' = [client EXCEPT ![n] = c]
    /\ UNCHANGED <<server, asked, got>>

\* handleAfterAccept; the peer's address is known even if A closed its end since.
Accept(n) ==
    /\ client[n].met = "called"
    /\ \/ ClientBecomes(n, Listens([NoClient EXCEPT !.met = "yes", !.in = TRUE, !.open = TRUE]))
       \/ Fails("untrusted") /\ ClientBecomes(n, [NoClient EXCEPT !.met = "yes"])
    /\ UNCHANGED <<toB, toA>>

\* onMeshMessageReceived and processMeshQuery.
QueryRead(n) ==
    /\ client[n].recv = "live" /\ toB[n] # <<>>
    /\ toB' = [toB EXCEPT ![n] = Tail(@)]
    /\ ClientBecomes(n, Sends([client[n] EXCEPT !.recv = "none"], Head(toB[n])))
    /\ UNCHANGED toA

ReadFails(n) ==
    /\ client[n].recv = "dead"
       \/ (client[n].recv = "live"
           /\ (Fails("close") \/ ~client[n].open \/ (~server[n].conn /\ toB[n] = <<>>)))
    /\ ClientBecomes(n, CloseClient([client[n] EXCEPT !.recv = "none"]))
    /\ toB' = [toB EXCEPT ![n] = <<>>]
    /\ UNCHANGED toA

\* onAfterSendQueryResponse, onAfterSendHeartbeat.
AfterSend(c, m) ==
    LET free == [c EXCEPT !.send = <<>>]
    IN  processQueuedSend(IF m = Beat THEN free ELSE Listens(free))

MessageSent(n) ==
    LET c == client[n]
    IN  /\ c.send # <<>> /\ ~c.dead
        /\ toA' = IF server[n].qrecv = "none" THEN toA
                  ELSE [toA EXCEPT ![n] = Append(@, Head(c.send))]
        /\ ClientBecomes(n, AfterSend(c, Head(c.send)))
        /\ UNCHANGED toB

SendFails(n) ==
    LET c == client[n]
    IN  /\ c.send # <<>>
        /\ c.dead \/ Fails("close") \/ ~c.open \/ ~server[n].conn
        /\ ClientBecomes(n, CloseClient([c EXCEPT !.send = <<>>]))
        /\ toB' = IF c.recv = "none" THEN [toB EXCEPT ![n] = <<>>] ELSE toB
        /\ UNCHANGED toA

\* Heartbeats of B on their way.
Unread(n) == Len(SelectSeq((IF client[n].open THEN toA[n] ELSE <<>>)
                             \o client[n].send \o client[n].pending,
                           LAMBDA m : m = Beat))

\* Faulty variant: closed clients get no heartbeat.
BadHeartBeat ==
    /\ \E n \in Links : client[n].open
    /\ \A n \in Links : client[n].open => Unread(n) < MaxBeats
    /\ client' = [n \in Links |-> IF client[n].open THEN Sends(client[n], Beat)
                                  ELSE client[n]]
    /\ UNCHANGED <<server, toB, toA, asked, got>>

\* doHeartBeat of B.
HeartBeat ==
    /\ \E n \in Links : client[n].in
    /\ \A n \in Links : client[n].in => Unread(n) < MaxBeats
    /\ client' = [n \in Links |-> IF client[n].in THEN Sends(client[n], Beat)
                                  ELSE client[n]]
    /\ UNCHANGED <<server, toB, toA, asked, got>>

(***************************************************************************)
(* Specification                                                           *)
(***************************************************************************)
Establishes(n) ==
    \/ ServiceConnected(n) \/ ServiceRefused(n)
    \/ QueryConnected(n) \/ QueryRefused(n)

Next ==
    \/ HeartBeat
    \/ \E n \in Links :
         \/ Connect(n) \/ Establishes(n) \/ ServiceReadFails(n)
         \/ Search(n) \/ QueryWritten(n) \/ QueryWriteFails(n)
         \/ AnswerRead(n) \/ QueryReadFails(n)
         \/ Accept(n) \/ QueryRead(n) \/ ReadFails(n)
         \/ MessageSent(n) \/ SendFails(n)

Spec == Init /\ [][Next]_vars

\* An attempt to connect is made, accepted and ends, a query is written and read,
\* and a read ends once its socket is closed at either end.  On one connection
\* there are finitely many of these steps, so that one weak fairness stands for all.
Proceeds(n) ==
    \/ Connect(n) \/ Accept(n) \/ Establishes(n)
    \/ QueryWritten(n) \/ QueryWriteFails(n) \/ QueryRead(n)
    \/ ~server[n].open /\ ServiceReadFails(n)
    \/ Closed(n) /\ (QueryReadFails(n) \/ ReadFails(n))

\* The timer of B fires, and what it sends is sent and read.
Fairness ==
    /\ WF_vars(HeartBeat)
    /\ \A n \in Links : WF_vars(Proceeds(n)) /\ WF_vars(AnswerRead(n))
                       /\ WF_vars(MessageSent(n) \/ SendFails(n))

FairSpec == Spec /\ Fairness

(***************************************************************************)
(* Properties                                                              *)
(***************************************************************************)
\* The servers and clients there can be.
Server ==
    [where : {"none", "pending", "remote", "failed", "gone"}, results : 0 .. 2,
     est : BOOLEAN, open : BOOLEAN, recv : {"none", "connect", "live", "dead"},
     qest : BOOLEAN, conn : BOOLEAN, fired : BOOLEAN,
     qrecv : {"none", "connect", "live", "dead"}, qsend : {"none", "live", "dead"},
     queue : Seq(1 .. MaxQueries), sent : 0 .. MaxQueries,
     kill : {"none", "remote", "failed"}]
Client ==
    [met : {"no", "called", "yes"}, in : BOOLEAN, open : BOOLEAN,
     recv : {"none", "live", "dead"}, send : Seq(0 .. MaxQueries), dead : BOOLEAN,
     pending : Seq(0 .. MaxQueries)]

\* Every variable keeps its shape.
TypeOK ==
    /\ server \in [Links -> Server]
    /\ client \in [Links -> Client]
    /\ toB \in [Links -> Seq(1 .. MaxQueries)]
    /\ toA \in [Links -> Seq(0 .. MaxQueries)]
    /\ asked \in 0 .. MaxQueries
    /\ got \in 0 .. MaxQueries

\* A has at most one connection to its peer and works on at most one: two would
\* share their place in _remoteServers.
OneConnection ==
    \A n, k \in Links :
        {server[n].where, server[k].where} \subseteq {"pending", "remote"} => n = k

\* A MeshServer is destroyed only when no handler that points to it is
\* outstanding on either socket; so is a query client.
FreedIdle ==
    \A n \in Links :
        /\ server[n].where = "gone" =>
               server[n].recv = "none" /\ server[n].qrecv = "none"
                 /\ server[n].qsend = "none"
        /\ ~client[n].in =>
               client[n].recv = "none" /\ client[n].send = <<>>

\* No query is lost, overtaken or answered twice while the connection is up: what
\* A got, what is on its way and what waits is every query A made, in order.
QueriesConserved ==
    \A n \in Links :
        LET Answers(s) == SelectSeq(s, LAMBDA m : m # Beat)
            m == server[n]
            way == Answers(toA[n]) \o Answers(client[n].send \o client[n].pending)
                     \o toB[n] \o (IF m.qsend = "live" THEN <<m.sent>> ELSE <<>>)
                     \o m.queue
        IN  m.conn /\ m.where = "remote" /\ (client[n].met = "yes" => client[n].open) =>
                /\ \A i \in DOMAIN way : way[i] = asked - Len(way) + i
                /\ got <= asked - Len(way)

\* A query client whose socket was closed leaves _connectedClients, at the latest
\* when the next heartbeat fails.
ClosedClientLeaves ==
    []<>(\A n \in Links : client[n].in => client[n].open)

\* A connection that lost one of its sockets is given up, and the peer connected
\* to again, unless the query connection failed while a query was written and the
\* write still succeeded: then nobody is told.
Unnoticed(m) == ~m.conn /\ m.qest /\ m.qrecv = "none" /\ m.qsend = "none"
LossIsNoticed ==
    []<>(\A n \in Links :
            server[n].where = "remote" =>
                (server[n].conn /\ server[n].est) \/ Unnoticed(server[n]))

\* "for any peers we're not currently connected or connecting to, initiate a
\* connection": a server whose connection is gone does not keep its place in
\* _remoteServers, which keeps doHeartBeat from connecting, for ever.
PeerIsReplaced ==
    []<>(\A n \in Links : server[n].where = "remote" => server[n].conn /\ server[n].est)
============================================================================
