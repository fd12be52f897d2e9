-------------------------- MODULE IntraMeshProofs --------------------------
(***************************************************************************)
(* Proofs about connecting to a peer of the mesh and letting it go, for    *)
(* any number of attempts, queries and heartbeats and any faults.          *)
(*                                                                         *)
(* That a MeshServer is destroyed with nothing outstanding (FreedIdle) is  *)
(* not inductive: checkSafeKill looks at the flags of the server and not   *)
(* at the operations of its query connection.  Linked is what the flags    *)
(* mean: a query connection that is not established has no operation, and  *)
(* a server that is still connecting has no safe kill callback.  And since *)
(* onSafeToKill drops whatever server is in _remoteServers, it takes       *)
(* OneConnection to know that it is the one that was checked.              *)
(***************************************************************************)
EXTENDS IntraMesh, SequenceTheorems, TLAPS

\* How many of a server's two results are still to come.
ToCome(m) == (IF m.recv = "connect" THEN 1 ELSE 0) + (IF m.qrecv = "connect" THEN 1 ELSE 0)

\* The flags of a server and its operations agree.
Linked(m) ==
    /\ m.where = "none" => m.results = 0 /\ ~m.fired
    /\ m.where \in {"none", "gone"} => m.recv = "none" /\ ~m.qest
    /\ m.kill = "remote" <=> m.where = "remote"
    /\ m.kill = "failed" <=> m.where = "failed"
    /\ m.where = "pending" => m.recv \in {"none", "connect"} /\ m.results + ToCome(m) = 2
    /\ m.where # "pending" => m.recv # "connect" /\ m.qrecv # "connect"
    /\ ~m.qest => m.qrecv \in {"none", "connect"} /\ m.qsend = "none" /\ ~m.conn
    /\ m.qest => m.qrecv # "connect" /\ ~m.fired
    /\ m.fired => m.qrecv # "connect"
    /\ m.qsend # "none" => m.sent # 0

Busy(m) == m.where \in {"pending", "remote"}

\* What holds of all servers.
Good(S) ==
    /\ S \in [Links -> Server]
    /\ \A n \in Links : Linked(S[n])
    /\ \A n, k \in Links : Busy(S[n]) /\ Busy(S[k]) => n = k

\* Another state of one server.
LEMMA PutGood ==
    ASSUME NEW S, Good(S), NEW n \in Links, NEW T,
           T = [k \in Links |-> T[k]], \A k \in Links \ {n} : T[k] = S[k],
           T[n] \in Server, Linked(T[n]), Busy(T[n]) => Busy(S[n])
    PROVE  Good(T)
<1>1. T \in [Links -> Server]
  BY Zenon DEF Good
<1>2. \A k \in Links : Linked(T[k]) /\ (Busy(T[k]) => Busy(S[k]))
  BY Zenon DEF Good
<1>3. QED
  BY Zenon, <1>1, <1>2 DEF Good

\* A server without anything.
Fresh(w, f) ==
    [where |-> w, results |-> 0, est |-> f, open |-> f, recv |-> "none", qest |-> f,
     conn |-> f, fired |-> f, qrecv |-> "none", qsend |-> "none", queue |-> <<>>,
     sent |-> 0, kill |-> "none"]

\* It is a server.
LEMMA FreshTyped ==
    ASSUME NEW w \in {"none", "pending", "remote", "failed", "gone"}, NEW f \in BOOLEAN
    PROVE  Fresh(w, f) \in Server
  BY ConstantsAssumption DEF Fresh, Server

\* The server that was not made yet.
LEMMA NoServerIs ==
    /\ NoServer \in Server /\ NoServer.where = "none" /\ NoServer.results = 0
    /\ NoServer.kill = "none" /\ ~NoServer.qest /\ ~NoServer.conn /\ ~NoServer.fired
    /\ NoServer.recv = "none" /\ NoServer.qrecv = "none" /\ NoServer.qsend = "none"
<1>1. PICK f \in BOOLEAN : f = FALSE
  BY Zenon
<1>2. NoServer = Fresh("none", f)
  BY Zenon, <1>1 DEF NoServer, Fresh
<1>3. Fresh("none", f) \in Server
  BY Zenon, FreshTyped
<1>4. QED
  BY Zenon, <1>1, <1>2, <1>3 DEF Fresh

\* What is left of a server that was idle.
LEMMA DestroyedGood ==
    ASSUME NEW m, m.recv = "none", m.qrecv = "none", m.qsend = "none"
    PROVE  Destroyed(m) \in Server /\ Linked(Destroyed(m)) /\ ~Busy(Destroyed(m))
<1>1. PICK z \in Server : z = NoServer
  BY Zenon, NoServerIs
<1>2. /\ z.kill = "none" /\ ~z.qest /\ ~z.conn /\ ~z.fired
  BY Zenon, <1>1, NoServerIs
<1> DEFINE d == [z EXCEPT !.where = "gone", !.recv = "none", !.qrecv = "none", !.qsend = "none"]
<1>3. d \in Server /\ Linked(d) /\ ~Busy(d)
  BY ZenonT(60), <1>2 DEF Server, Linked, Busy
<1>4. Destroyed(m) = d
  BY <1>1, Zenon DEF Destroyed
<1>5. QED
  BY Zenon, <1>3, <1>4

\* checkSafeKill destroys no server that anybody uses.
LEMMA KillGood ==
    ASSUME NEW S, Good(S), NEW n \in Links
    PROVE  Good(CheckSafeKill(S, n))
<1> DEFINE T == CheckSafeKill(S, n)
<1>1. CASE ~(~S[n].est /\ S[n].recv = "none" /\ ~S[n].qest /\ S[n].kill # "none")
  <2>1. CheckSafeKill(S, n) = S
    BY Zenon, <1>1 DEF CheckSafeKill, Good
  <2>2. QED
    BY Zenon, <2>1
<1>2. CASE ~S[n].est /\ S[n].recv = "none" /\ ~S[n].qest /\ S[n].kill # "none"
  <2>1. /\ T = [k \in Links |-> T[k]] /\ T[n] = Destroyed(S[n])
        /\ \A k \in Links \ {n} : T[k] = S[k]
    BY <1>2 DEF CheckSafeKill, Good, Linked, Busy, Server
  <2>2. S[n].qrecv = "none" /\ S[n].qsend = "none"
    BY Zenon, <1>2 DEF Good, Linked, Server
  <2>3. Destroyed(S[n]) \in Server /\ Linked(Destroyed(S[n])) /\ ~Busy(Destroyed(S[n]))
    BY Zenon, <1>2, <2>2, DestroyedGood
  <2> HIDE DEF T
  <2>4. Good(T)
    BY Zenon, <2>1, <2>3, PutGood
  <2>5. QED
    BY Zenon, <2>4 DEF T
<1>3. QED
  BY Zenon, <1>1, <1>2

\* Closing keeps what holds of the servers.
LEMMA CloseGood ==
    ASSUME NEW S, Good(S), NEW n \in Links, S[n].where # "none", S[n].qrecv # "connect"
    PROVE  Good(CloseServer(S, n))
<1> DEFINE shut == [Shut(S, n) EXCEPT ![n].open = FALSE]
           ended == [shut EXCEPT ![n].fired = TRUE, ![n].qest = FALSE, ![n].est = FALSE]
           inner == IF Ends(S[n]) THEN CheckSafeKill(ended, n) ELSE shut
           outer == [inner EXCEPT ![n].est = FALSE]
<1>1. S \in [Links -> Server] /\ S[n] \in Server /\ Linked(S[n])
  BY Zenon DEF Good
<1>2. Good(shut) /\ shut[n] = [S[n] EXCEPT !.conn = FALSE, !.open = FALSE]
  <2>1. /\ shut = [k \in Links |-> shut[k]] /\ \A k \in Links \ {n} : shut[k] = S[k]
        /\ shut[n] = [S[n] EXCEPT !.conn = FALSE, !.open = FALSE]
    BY Zenon, <1>1 DEF Shut, Server
  <2> HIDE DEF shut
  <2>2. shut[n] \in Server
    BY Zenon, <1>1, <2>1 DEF Server
  <2>3. Linked(shut[n]) /\ (Busy(shut[n]) => Busy(S[n]))
    <3>1. PICK m \in Server, p \in Server : m = S[n] /\ p = shut[n]
      BY Zenon, <1>1, <2>2
    <3>2. /\ ~p.conn
          /\ p.where = m.where /\ p.results = m.results /\ p.recv = m.recv
          /\ p.qest = m.qest /\ p.fired = m.fired /\ p.qrecv = m.qrecv
          /\ p.qsend = m.qsend /\ p.sent = m.sent /\ p.kill = m.kill
      BY ZenonT(60), <2>1, <3>1 DEF Server
    <3>3. ToCome(p) = ToCome(m)
      BY Zenon, <3>2 DEF ToCome
    <3>4. Linked(p) /\ (Busy(p) => Busy(m))
      BY ZenonT(60), <1>1, <3>1, <3>2, <3>3 DEF Linked, Busy
    <3>5. QED
      BY Zenon, <3>1, <3>4
  <2>4. QED
    BY Zenon, <2>1, <2>2, <2>3, PutGood
<1>3. ASSUME Ends(S[n]) PROVE Good(ended)
  <2>1. /\ ended = [k \in Links |-> ended[k]] /\ \A k \in Links \ {n} : ended[k] = shut[k]
        /\ ended[n] = [shut[n] EXCEPT !.fired = TRUE, !.qest = FALSE, !.est = FALSE]
    BY Zenon, <1>1 DEF Shut, Server
  <2> HIDE DEF shut, ended
  <2>2. shut[n] \in Server /\ Linked(shut[n])
    BY Zenon, <1>2 DEF Good
  <2>3. /\ shut[n].qrecv = "none" /\ shut[n].qsend = "none" /\ ~shut[n].conn /\ ~shut[n].fired
        /\ shut[n].where # "none"
    BY ZenonT(60), <1>1, <1>2, <1>3 DEF Ends, Server
  <2>4. ended[n] \in Server
    BY Zenon, <2>1, <2>2 DEF Server
  <2>5. Linked(ended[n]) /\ (Busy(ended[n]) => Busy(shut[n]))
    <3>1. PICK m, p : m = shut[n] /\ p = ended[n]
      BY Zenon
    <3>2. /\ ~p.qest /\ p.fired /\ p.conn = m.conn
          /\ p.where = m.where /\ p.results = m.results /\ p.recv = m.recv
          /\ p.qrecv = m.qrecv /\ p.qsend = m.qsend /\ p.sent = m.sent /\ p.kill = m.kill
      BY ZenonT(60), <2>1, <2>2, <3>1 DEF Server
    <3>3. ToCome(p) = ToCome(m)
      BY Zenon, <3>2 DEF ToCome
    <3>4. m.qrecv = "none" /\ m.qsend = "none" /\ ~m.conn /\ m.where # "none" /\ Linked(m)
      BY Zenon, <2>2, <2>3, <3>1
    <3>5. "none" # "connect"
      OBVIOUS
    <3>6. Linked(p) /\ (Busy(p) => Busy(m))
      BY ZenonT(60), <3>2, <3>3, <3>4, <3>5 DEF Linked, Busy
    <3>7. QED
      BY Zenon, <3>1, <3>6
  <2>6. QED
    BY Zenon, <1>2, <2>1, <2>4, <2>5, PutGood
<1>4. Good(inner)
  BY Zenon, <1>2, <1>3, KillGood
<1>5. Good(outer)
  <2> HIDE DEF inner
  <2>1. inner \in [Links -> Server] /\ inner[n] \in Server /\ Linked(inner[n])
    BY Zenon, <1>4 DEF Good
  <2>2. /\ outer = [k \in Links |-> outer[k]] /\ \A k \in Links \ {n} : outer[k] = inner[k]
        /\ outer[n] = [inner[n] EXCEPT !.est = FALSE]
    BY Zenon, <2>1 DEF Server
  <2>3. outer[n] \in Server
    BY Zenon, <2>1, <2>2 DEF Server
  <2>4. Linked(outer[n]) /\ (Busy(outer[n]) => Busy(inner[n]))
    BY ZenonT(60), <2>1, <2>2 DEF Linked, Busy, ToCome, Server
  <2> HIDE DEF outer
  <2>5. QED
    BY Zenon, <1>4, <2>2, <2>3, <2>4, PutGood
<1>6. CloseServer(S, n) = CheckSafeKill(outer, n)
  BY Zenon DEF CloseServer
<1> HIDE DEF outer
<1>7. QED
  BY Zenon, <1>5, <1>6, KillGood

\* The flags of a server whose query connection reports its end.
LEMMA EndedLinked ==
    ASSUME NEW m \in Server, Linked(m), Ends(m), m.where # "none", m.qrecv # "connect", NEW r,
           r = [m EXCEPT !.conn = FALSE, !.fired = TRUE, !.qest = FALSE]
    PROVE  Linked(r) /\ r.where = m.where /\ r.qrecv = m.qrecv
<1>1. m.qrecv = "none" /\ m.qsend = "none"
  BY Zenon DEF Ends, Server
<1>2. /\ r.where = m.where /\ r.qrecv = m.qrecv /\ r.recv = m.recv /\ r.kill = m.kill
      /\ r.results = m.results /\ r.qsend = m.qsend /\ ~r.qest /\ ~r.conn
  BY Zenon DEF Server
<1>3. QED
  BY Zenon, <1>1, <1>2 DEF Linked, ToCome

\* Both results are there: the server has failed.
LEMMA FailedLinked ==
    ASSUME NEW m \in Server, Linked(m), m.where = "pending", m.results = 2
    PROVE  /\ m.recv # "connect" /\ m.qrecv # "connect"
           /\ Linked([m EXCEPT !.where = "failed", !.kill = "failed"])
<1>1. m.recv # "connect" /\ m.qrecv # "connect"
  BY DEF Linked, ToCome
<1>2. QED
  BY Zenon, <1>1 DEF Linked, ToCome, Server

\* Or it is connected.
LEMMA MadeLinked ==
    ASSUME NEW m \in Server, Linked(m), m.where = "pending", m.results = 2, m.qest,
           NEW o \in {"live", "dead"}, NEW r,
           r = [m EXCEPT !.recv = o, !.where = "remote", !.kill = "remote"]
    PROVE  Linked(r)
<1>1. m.recv # "connect" /\ m.qrecv # "connect"
  BY DEF Linked, ToCome
<1>2. QED
  BY Zenon, <1>1 DEF Linked, ToCome, Server

\* So does closing the query connection.
LEMMA CloseQueryGood ==
    ASSUME NEW S, Good(S), NEW n \in Links, S[n].where # "none", S[n].qrecv # "connect"
    PROVE  Good(CloseQuery(S, n))
<1> DEFINE shut == Shut(S, n)
           ended == [shut EXCEPT ![n].fired = TRUE, ![n].qest = FALSE]
<1>1. S \in [Links -> Server] /\ S[n] \in Server /\ Linked(S[n])
  BY Zenon DEF Good
<1>2. CASE ~Ends(S[n])
  <2>1. /\ shut = [k \in Links |-> shut[k]] /\ \A k \in Links \ {n} : shut[k] = S[k]
        /\ shut[n] = [S[n] EXCEPT !.conn = FALSE]
    BY Zenon, <1>1 DEF Shut, Server
  <2>2. CloseQuery(S, n) = shut
    BY Zenon, <1>2 DEF CloseQuery
  <2> HIDE DEF shut
  <2>3. shut[n] \in Server
    BY Zenon, <1>1, <2>1 DEF Server
  <2>4. Linked(shut[n]) /\ (Busy(shut[n]) => Busy(S[n]))
    BY SMTT(60), <1>1, <2>1 DEF Linked, Busy, ToCome, Server
  <2>5. QED
    BY <2>1, <2>2, <2>3, <2>4, PutGood
<1>3. CASE Ends(S[n])
  <2>1. /\ ended = [k \in Links |-> ended[k]] /\ \A k \in Links \ {n} : ended[k] = S[k]
        /\ ended[n] = [S[n] EXCEPT !.conn = FALSE, !.fired = TRUE, !.qest = FALSE]
    BY Zenon, <1>1 DEF Shut, Server
  <2>2. CloseQuery(S, n) = CloseServer(ended, n)
    BY Zenon, <1>3 DEF CloseQuery
  <2> HIDE DEF shut, ended
  <2>3. ended[n] \in Server
    BY ZenonT(60), <1>1, <2>1 DEF Server
  <2>4. /\ Linked(ended[n]) /\ (Busy(ended[n]) => Busy(S[n]))
        /\ ended[n].where # "none" /\ ended[n].qrecv # "connect"
    BY Zenon, <1>1, <1>3, <2>1, EndedLinked DEF Busy
  <2>5. Good(ended)
    BY Zenon, <2>1, <2>3, <2>4, PutGood
  <2>6. QED
    BY Zenon, <2>2, <2>4, <2>5, CloseGood
<1>4. QED
  BY Zenon, <1>2, <1>3

\* A result of connecting is counted, and the last one decides.
LEMMA ResultGood ==
    ASSUME NEW S, Good(S), NEW n \in Links, Busy(S[n]), NEW T,
           T = [k \in Links |-> T[k]], \A k \in Links \ {n} : T[k] = S[k],
           T[n] \in Server, T[n].where = "pending", T[n].results < 2,
           Linked([T[n] EXCEPT !.results = T[n].results + 1])
    PROVE  Good(ConnectionResult(T, n))
<1> DEFINE m == T[n]
           counted == [T EXCEPT ![n].results = @ + 1]
           made == [counted EXCEPT ![n].recv = IF m.open THEN "live" ELSE "dead",
                                   ![n].where = "remote", ![n].kill = "remote"]
           failed == [counted EXCEPT ![n].where = "failed", ![n].kill = "failed"]
<1>1. T \in [Links -> Server]
  BY Zenon DEF Good
<1>2. /\ counted = [k \in Links |-> counted[k]] /\ \A k \in Links \ {n} : counted[k] = T[k]
      /\ counted[n] = [T[n] EXCEPT !.results = T[n].results + 1]
  BY Zenon, <1>1 DEF Server
<1>3. /\ made = [k \in Links |-> made[k]] /\ \A k \in Links \ {n} : made[k] = T[k]
      /\ made[n] = [counted[n] EXCEPT !.recv = IF m.open THEN "live" ELSE "dead",
                                      !.where = "remote", !.kill = "remote"]
  BY Zenon, <1>1, <1>2 DEF Server
<1>4. /\ failed = [k \in Links |-> failed[k]] /\ \A k \in Links \ {n} : failed[k] = T[k]
      /\ failed[n] = [counted[n] EXCEPT !.where = "failed", !.kill = "failed"]
  BY Zenon, <1>1, <1>2 DEF Server
<1>5. ConnectionResult(T, n) = IF m.results + 1 < 2 THEN counted
                               ELSE IF m.est /\ m.qest THEN made ELSE CloseServer(failed, n)
  BY Zenon DEF ConnectionResult
<1> HIDE DEF counted, made, failed
<1>6. /\ counted[n] \in Server /\ Linked(counted[n]) /\ counted[n].where = "pending"
      /\ counted[n].results = m.results + 1 /\ counted[n].qest = m.qest
  <2>1. m.results + 1 \in 0 .. 2
    BY DEF Server
  <2>2. QED
    BY ZenonT(60), <1>2, <2>1 DEF Server
<1>7. CASE m.results + 1 < 2
  BY <1>2, <1>5, <1>6, <1>7, PutGood
<1>8. CASE m.results + 1 >= 2
  <2>1. counted[n].results = 2
    BY <1>6, <1>8 DEF Server
  <2>2. counted[n].recv # "connect" /\ counted[n].qrecv # "connect"
    BY Zenon, <1>6, <2>1, FailedLinked
  <2>3. CASE m.est /\ m.qest
    <3>1. made[n] \in Server
      BY ZenonT(60), <1>3, <1>6 DEF Server
    <3>2. Linked(made[n])
      <4>1. PICK o \in {"live", "dead"} :
               made[n] = [counted[n] EXCEPT !.recv = o, !.where = "remote", !.kill = "remote"]
        BY Zenon, <1>3
      <4>2. counted[n].qest
        BY Zenon, <1>6, <2>3
      <4>3. PICK c \in Server : c = counted[n]
        BY Zenon, <1>6
      <4>4. Linked(c) /\ c.where = "pending" /\ c.results = 2 /\ c.qest
        BY Zenon, <1>6, <2>1, <4>2, <4>3
      <4>5. QED
        BY Zenon, <4>1, <4>3, <4>4, MadeLinked
    <3>3. Good(made)
      BY <1>3, <3>1, <3>2, PutGood
    <3>4. QED
      BY <1>5, <1>8, <2>3, <3>3 DEF Server
  <2>4. CASE ~(m.est /\ m.qest)
    <3>1. failed[n] \in Server
      BY ZenonT(60), <1>4, <1>6 DEF Server
    <3>2. Linked(failed[n])
      BY Zenon, <1>4, <1>6, <2>1, FailedLinked
    <3>3. failed[n].where # "none" /\ failed[n].qrecv # "connect"
      BY Zenon, <1>4, <1>6, <2>2 DEF Server
    <3>4. Good(failed)
      BY <1>4, <3>1, <3>2, PutGood
    <3>5. Good(CloseServer(failed, n))
      BY Zenon, <3>3, <3>4, CloseGood
    <3>6. QED
      BY <1>5, <1>8, <2>4, <3>5 DEF Server
  <2>5. QED
    BY Zenon, <2>3, <2>4
<1>9. QED
  BY <1>7, <1>8 DEF Server

(***************************************************************************)
(* The steps of A.                                                         *)
(***************************************************************************)
\* A step that changes one server in place.
LEMMA InPlace ==
    ASSUME NEW S, Good(S), NEW n \in Links, NEW m \in Server, Linked(m), m.where = S[n].where,
           NEW T, T = [S EXCEPT ![n] = m]
    PROVE  Good(T)
<1>1. /\ T = [k \in Links |-> T[k]] /\ \A k \in Links \ {n} : T[k] = S[k]
      /\ T[n] = m
  BY Zenon DEF Good
<1>2. QED
  BY ZenonT(60), <1>1, PutGood DEF Busy

\* The results of connecting.
LEMMA EstablishesGood ==
    ASSUME Good(server), NEW n \in Links, Establishes(n)
    PROVE  Good(server')
<1> DEFINE m == server[n]
<1>1. server \in [Links -> Server] /\ m \in Server /\ Linked(m)
  BY Zenon DEF Good
<1>2. ASSUME NEW r \in Server, m.recv = "connect" \/ m.qrecv = "connect",
             r.where = m.where, r.results = m.results, r.kill = m.kill,
             ToCome(r) = ToCome(m) - 1, r.qest => r.qrecv # "connect" /\ ~r.fired,
             ~r.qest => r.qrecv \in {"none", "connect"} /\ r.qsend = "none" /\ ~r.conn,
             r.fired => r.qrecv # "connect", r.recv \in {"none", "connect"},
             r.qsend # "none" => r.sent # 0, NEW T, T = [server EXCEPT ![n] = r]
      PROVE  Good(ConnectionResult(T, n))
  <2>1. m.where = "pending" /\ m.results + ToCome(m) = 2 /\ ToCome(m) \in 1 .. 2
    BY <1>1, <1>2 DEF Linked, ToCome
  <2>2. m.results \in 0 .. 1
    BY <1>1, <2>1 DEF Server
  <2>3. Linked([r EXCEPT !.results = r.results + 1])
    <3> DEFINE d == [r EXCEPT !.results = r.results + 1]
    <3>1. /\ d.where = "pending" /\ d.results = m.results + 1 /\ d.kill = m.kill
          /\ d.recv = r.recv /\ d.qrecv = r.qrecv /\ d.qsend = r.qsend
          /\ d.qest = r.qest /\ d.conn = r.conn /\ d.fired = r.fired /\ d.sent = r.sent
      BY Zenon, <1>2, <2>1 DEF Server
    <3>2. ToCome(d) = ToCome(r) /\ d.results + ToCome(d) = 2
      BY <1>2, <2>1, <2>2, <3>1 DEF ToCome
    <3> HIDE DEF d
    <3>3. QED
      BY Zenon, <1>1, <1>2, <2>1, <3>1, <3>2 DEF Linked, d
  <2>4. /\ T = [k \in Links |-> T[k]] /\ \A k \in Links \ {n} : T[k] = server[k]
    BY Zenon, <1>1, <1>2
  <2>5. /\ T[n] \in Server /\ T[n].where = "pending" /\ T[n].results < 2
        /\ Linked([T[n] EXCEPT !.results = T[n].results + 1]) /\ Busy(server[n])
    BY <1>1, <1>2, <2>1, <2>2, <2>3 DEF Busy
  <2>6. QED
    BY Zenon, <2>4, <2>5, ResultGood
<1>3. CASE ServiceConnected(n)
  <2> DEFINE r == [m EXCEPT !.recv = "none", !.est = TRUE]
  <2>1. /\ m.recv = "connect"
        /\ server' = ConnectionResult([server EXCEPT ![n] = r], n)
    BY Zenon, <1>1, <1>3 DEF ServiceConnected
  <2>2. r \in Server
    BY Zenon, <1>1 DEF Server
  <2>3. /\ r.where = m.where /\ r.results = m.results /\ r.kill = m.kill /\ r.qrecv = m.qrecv
        /\ r.recv = "none" /\ r.qest = m.qest /\ r.fired = m.fired /\ r.qsend = m.qsend
        /\ r.conn = m.conn /\ r.sent = m.sent
    BY Zenon, <1>1 DEF Server
  <2> HIDE DEF r, m
  <2>4. ToCome(r) = ToCome(m) - 1
    BY <2>1, <2>3 DEF ToCome
  <2>5. QED
    BY Zenon, <1>1, <1>2, <2>1, <2>2, <2>3, <2>4 DEF Linked
<1>4. CASE ServiceRefused(n)
  <2> DEFINE r == [m EXCEPT !.recv = "none", !.est = FALSE]
  <2>1. /\ m.recv = "connect"
        /\ server' = ConnectionResult([server EXCEPT ![n] = r], n)
    BY Zenon, <1>1, <1>4 DEF ServiceRefused
  <2>2. r \in Server
    BY Zenon, <1>1 DEF Server
  <2>3. /\ r.where = m.where /\ r.results = m.results /\ r.kill = m.kill /\ r.qrecv = m.qrecv
        /\ r.recv = "none" /\ r.qest = m.qest /\ r.fired = m.fired /\ r.qsend = m.qsend
        /\ r.conn = m.conn /\ r.sent = m.sent
    BY Zenon, <1>1 DEF Server
  <2> HIDE DEF r, m
  <2>4. ToCome(r) = ToCome(m) - 1
    BY <2>1, <2>3 DEF ToCome
  <2>5. QED
    BY Zenon, <1>1, <1>2, <2>1, <2>2, <2>3, <2>4 DEF Linked
<1>5. CASE QueryConnected(n)
  <2> DEFINE r == [m EXCEPT !.qrecv = "live", !.conn = TRUE, !.qest = TRUE]
  <2>1. /\ m.qrecv = "connect"
        /\ server' = ConnectionResult([server EXCEPT ![n] = r], n)
    BY Zenon, <1>1, <1>5 DEF QueryConnected
  <2>2. r \in Server
    BY Zenon, <1>1 DEF Server
  <2>3. /\ r.where = m.where /\ r.results = m.results /\ r.kill = m.kill /\ r.recv = m.recv
        /\ r.qrecv = "live" /\ r.qest /\ r.fired = m.fired /\ r.qsend = m.qsend
        /\ r.sent = m.sent
    BY Zenon, <1>1 DEF Server
  <2> HIDE DEF r, m
  <2>4. ToCome(r) = ToCome(m) - 1
    BY <2>1, <2>3 DEF ToCome
  <2>5. QED
    BY Zenon, <1>1, <1>2, <2>1, <2>2, <2>3, <2>4 DEF Linked
<1>6. CASE QueryRefused(n)
  <2> DEFINE r == [m EXCEPT !.qrecv = "none"]
  <2>1. /\ m.qrecv = "connect"
        /\ server' = ConnectionResult([server EXCEPT ![n] = r], n)
    BY Zenon, <1>1, <1>6 DEF QueryRefused
  <2>2. r \in Server
    BY Zenon, <1>1 DEF Server
  <2>3. /\ r.where = m.where /\ r.results = m.results /\ r.kill = m.kill /\ r.recv = m.recv
        /\ r.qrecv = "none" /\ r.qest = m.qest /\ r.fired = m.fired /\ r.qsend = m.qsend
        /\ r.conn = m.conn /\ r.sent = m.sent
    BY Zenon, <1>1 DEF Server
  <2> HIDE DEF r, m
  <2>4. ToCome(r) = ToCome(m) - 1
    BY <2>1, <2>3 DEF ToCome
  <2>5. QED
    BY Zenon, <1>1, <1>2, <2>1, <2>2, <2>3, <2>4 DEF Linked
<1>7. QED
  BY Zenon, <1>3, <1>4, <1>5, <1>6 DEF Establishes

\* The operations of a connected server.
LEMMA OperationsGood ==
    ASSUME TypeOK, Good(server), NEW n \in Links,
           \/ ServiceReadFails(n) \/ Search(n) \/ QueryWritten(n) \/ QueryWriteFails(n)
           \/ AnswerRead(n) \/ QueryReadFails(n)
    PROVE  Good(server')
<1> DEFINE m == server[n]
<1>1. server \in [Links -> Server] /\ m \in Server /\ Linked(m)
  BY Zenon DEF Good
<1>2. CASE ServiceReadFails(n)
  <2> DEFINE r == [m EXCEPT !.recv = "none"]
             S == [server EXCEPT ![n] = r]
  <2>1. m.recv \in {"live", "dead"} /\ server' = CloseServer(S, n)
    BY Zenon, <1>1, <1>2 DEF ServiceReadFails
  <2>2. r \in Server /\ Linked(r) /\ r.where = m.where
    BY Zenon, <1>1, <2>1 DEF Server, Linked, ToCome
  <2>3. m.where # "none" /\ m.where # "pending"
    BY Zenon, <1>1, <2>1 DEF Linked, ToCome, Server
  <2>4. r.where # "none" /\ r.qrecv # "connect"
    BY Zenon, <1>1, <2>3 DEF Server, Linked
  <2> HIDE DEF r
  <2>5. S[n] = r
    BY Zenon, <1>1
  <2> HIDE DEF S
  <2>6. Good(S)
    BY Zenon, <2>2, InPlace DEF S
  <2>7. QED
    BY Zenon, <2>1, <2>4, <2>5, <2>6, CloseGood
<1>3. CASE QueryWriteFails(n)
  <2> DEFINE r == [m EXCEPT !.qsend = "none"]
             S == [server EXCEPT ![n] = r]
  <2>1. m.qsend # "none" /\ server' = CloseQuery(S, n)
    BY Zenon, <1>1, <1>3 DEF QueryWriteFails
  <2>2. r \in Server /\ Linked(r) /\ r.where = m.where
    BY ZenonT(60), <1>1, <2>1 DEF Server, Linked, ToCome
  <2>3. r.where # "none" /\ r.qrecv # "connect"
    BY Zenon, <1>1, <2>1 DEF Linked, Server
  <2> HIDE DEF r
  <2>4. S[n] = r
    BY Zenon, <1>1
  <2> HIDE DEF S
  <2>5. Good(S)
    BY Zenon, <2>2, InPlace DEF S
  <2>6. QED
    BY Zenon, <2>1, <2>3, <2>4, <2>5, CloseQueryGood
<1>4. CASE QueryReadFails(n)
  <2> DEFINE r == [m EXCEPT !.qrecv = "none"]
             S == [server EXCEPT ![n] = r]
  <2>1. m.qrecv \in {"live", "dead"} /\ server' = CloseQuery(S, n)
    BY Zenon, <1>1, <1>4 DEF QueryReadFails
  <2>2. r \in Server /\ Linked(r) /\ r.where = m.where
    BY ZenonT(60), <1>1, <2>1 DEF Server, Linked, ToCome
  <2>3. r.where # "none" /\ r.qrecv # "connect"
    BY Zenon, <1>1, <2>1 DEF Linked, Server
  <2> HIDE DEF r
  <2>4. S[n] = r
    BY Zenon, <1>1
  <2> HIDE DEF S
  <2>5. Good(S)
    BY Zenon, <2>2, InPlace DEF S
  <2>6. QED
    BY Zenon, <2>1, <2>3, <2>4, <2>5, CloseQueryGood
<1>5. CASE AnswerRead(n)
  <2> DEFINE r == [m EXCEPT !.qrecv = Op(m)]
  <2>1. m.qrecv = "live" /\ server' = [server EXCEPT ![n] = r]
    BY Zenon, <1>1, <1>5 DEF AnswerRead
  <2>2. r \in Server /\ Linked(r) /\ r.where = m.where
    BY ZenonT(60), <1>1, <2>1 DEF Server, Linked, ToCome, Op
  <2> HIDE DEF r
  <2>3. QED
    BY Zenon, <2>1, <2>2, InPlace
<1>6. CASE Search(n)
  <2>1. m.where = "remote" /\ m.conn /\ asked + 1 \in 1 .. MaxQueries
    BY <1>6, ConstantsAssumption DEF Search, TypeOK
  <2>2. m.qest
    BY Zenon, <1>1, <2>1 DEF Linked
  <2>3. CASE m.qsend = "none"
    <3> DEFINE r == [m EXCEPT !.qsend = "live", !.sent = asked + 1]
    <3>1. server' = [server EXCEPT ![n] = r]
      BY Zenon, <1>1, <1>6, <2>3 DEF Search
    <3>2. asked + 1 \in 0 .. MaxQueries /\ asked + 1 # 0
      BY <2>1, ConstantsAssumption
    <3>3. r \in Server
      BY Zenon, <1>1, <3>2 DEF Server
    <3>4. Linked(r) /\ r.where = m.where
      BY ZenonT(60), <1>1, <2>2, <3>2 DEF Server, Linked, ToCome
    <3> HIDE DEF r
    <3>5. QED
      BY Zenon, <3>1, <3>3, <3>4, InPlace
  <2>4. CASE m.qsend # "none"
    <3> DEFINE r == [m EXCEPT !.queue = Append(m.queue, asked + 1)]
    <3>1. server' = [server EXCEPT ![n] = r]
      BY Zenon, <1>1, <1>6, <2>4 DEF Search
    <3>2. Append(m.queue, asked + 1) \in Seq(1 .. MaxQueries)
      BY <1>1, <2>1 DEF Server
    <3>3. r \in Server /\ Linked(r) /\ r.where = m.where
      BY ZenonT(60), <1>1, <3>2 DEF Server, Linked, ToCome
    <3> HIDE DEF r
    <3>4. QED
      BY Zenon, <3>1, <3>3, InPlace
  <2>5. QED
    BY Zenon, <2>3, <2>4
<1>7. CASE QueryWritten(n)
  <2>1. m.qsend = "live"
    BY Zenon, <1>7 DEF QueryWritten
  <2>2. CASE m.queue = <<>>
    <3> DEFINE r == [m EXCEPT !.qsend = "none", !.sent = 0]
    <3>1. server' = [server EXCEPT ![n] = r]
      BY Zenon, <1>1, <1>7, <2>2 DEF QueryWritten
    <3>2. 0 \in 0 .. MaxQueries
      BY ConstantsAssumption
    <3>3. r \in Server
      BY Zenon, <1>1, <3>2 DEF Server
    <3>4. Linked(r) /\ r.where = m.where
      BY Zenon, <1>1, <2>1 DEF Server, Linked, ToCome
    <3> HIDE DEF r
    <3>5. QED
      BY Zenon, <3>1, <3>3, <3>4, InPlace
  <2>3. CASE m.queue # <<>>
    <3> DEFINE r == [m EXCEPT !.qsend = Op(m), !.sent = Head(m.queue), !.queue = Tail(m.queue)]
    <3>1. server' = [server EXCEPT ![n] = r]
      BY Zenon, <1>1, <1>7, <2>3 DEF QueryWritten
    <3>2. m.queue \in Seq(1 .. MaxQueries)
      BY Zenon, <1>1 DEF Server
    <3>3. Head(m.queue) \in 1 .. MaxQueries /\ Tail(m.queue) \in Seq(1 .. MaxQueries)
      BY Zenon, <2>3, <3>2, HeadTailProperties
    <3>4. MaxQueries \in Nat
      BY Zenon, ConstantsAssumption
    <3>5. Head(m.queue) \in 0 .. MaxQueries /\ Head(m.queue) # 0
      BY <3>3, <3>4
    <3>6. r \in Server /\ Linked(r) /\ r.where = m.where
      BY ZenonT(60), <1>1, <2>1, <3>3, <3>5 DEF Server, Linked, ToCome, Op
    <3> HIDE DEF r
    <3>7. QED
      BY Zenon, <3>1, <3>6, InPlace
  <2>4. QED
    BY Zenon, <2>2, <2>3
<1>8. QED
  BY Zenon, <1>2, <1>3, <1>4, <1>5, <1>6, <1>7

\* Every step keeps what holds of the servers.
LEMMA ServersNext ==
    ASSUME TypeOK, Good(server), [Next]_vars
    PROVE  Good(server')
<1>1. ASSUME NEW n \in Links, Connect(n)
      PROVE  Good(server')
  <2> DEFINE m == server[n]
             r == [m EXCEPT !.where = "pending", !.open = TRUE, !.recv = "connect",
                            !.qrecv = "connect"]
  <2>1. server \in [Links -> Server] /\ m \in Server /\ Linked(m)
    BY Zenon DEF Good
  <2>2. /\ m.where = "none" /\ server' = [server EXCEPT ![n] = r]
        /\ \A k \in Links : ~Busy(server[k])
    BY Zenon, <1>1, <2>1 DEF Connect, Missing, Busy
  <2>3. r \in Server
    BY Zenon, <2>1 DEF Server
  <2>4. Linked(r)
    BY <2>1, <2>2 DEF Server, Linked, ToCome
  <2> HIDE DEF r
  <2>5. \A k \in Links : server'[k] = IF k = n THEN r ELSE server[k]
    BY Zenon, <2>1, <2>2
  <2>6. server' \in [Links -> Server]
    BY Zenon, <2>1, <2>2, <2>3
  <2>7. QED
    BY Zenon, <2>2, <2>4, <2>5, <2>6 DEF Good
<1>2. CASE UNCHANGED server
  BY Zenon, <1>2 DEF Good
<1>3. ASSUME NEW n \in Links,
             Accept(n) \/ QueryRead(n) \/ ReadFails(n) \/ MessageSent(n) \/ SendFails(n)
      PROVE  UNCHANGED server
  BY Zenon, <1>3 DEF Accept, QueryRead, ReadFails, MessageSent, SendFails, ClientBecomes
<1>4. CASE HeartBeat
  BY Zenon, <1>2, <1>4 DEF HeartBeat
<1>5. QED
  BY Zenon, <1>1, <1>2, <1>3, <1>4, EstablishesGood, OperationsGood DEF Next, vars

(***************************************************************************)
(* The query clients                                                       *)
(***************************************************************************)
\* A client that is not in _connectedClients has nothing outstanding.
Held(c) == c \in Client /\ (~c.in => c.recv = "none" /\ c.send = <<>>)

\* A client that is gone, and one that was just accepted.
LEMMA FreshHeld ==
    ASSUME NEW a \in {"no", "called", "yes"}
    PROVE  NoClient \in Client /\ Held([NoClient EXCEPT !.met = a])
<1> DEFINE c(f) == [met |-> "no", in |-> f, open |-> f, recv |-> "none", send |-> <<>>,
                    dead |-> f, pending |-> <<>>]
<1>1. ASSUME NEW f \in BOOLEAN
      PROVE  c(f) \in Client
  BY DEF Client
<1>2. PICK f \in BOOLEAN : f = FALSE
  BY Zenon
<1>3. c(f) = NoClient
  BY <1>2, Zenon DEF NoClient
<1>4. PICK z \in Client : z = NoClient
  BY Zenon, <1>1, <1>3
<1>5. z.recv = "none" /\ z.send = <<>>
  BY Zenon, <1>4 DEF NoClient
<1>6. [z EXCEPT !.met = a] \in Client
  BY Zenon DEF Client
<1>7. Held([z EXCEPT !.met = a])
  BY Zenon, <1>5, <1>6 DEF Held, Client
<1>8. QED
  BY Zenon, <1>4, <1>7

\* It closes its socket.
LEMMA CloseHeld ==
    ASSUME NEW c \in Client, c.in
    PROVE  Held(CloseClient(c))
<1>1. [c EXCEPT !.open = FALSE] \in Client
  BY Zenon DEF Client
<1>2. Held([c EXCEPT !.open = FALSE])
  BY Zenon, <1>1 DEF Held, Client
<1>3. Held([NoClient EXCEPT !.met = "yes"])
  <2>1. PICK a \in {"no", "called", "yes"} : a = "yes"
    BY Zenon
  <2>2. QED
    BY Zenon, <2>1, FreshHeld
<1>4. QED
  BY Zenon, <1>2, <1>3 DEF CloseClient

\* It listens for the next query.
LEMMA ListensHeld ==
    ASSUME NEW c \in Client, c.in
    PROVE  Listens(c) \in Client /\ Listens(c).in /\ Held(Listens(c))
<1>1. Listens(c) \in Client
  BY Zenon DEF Client, Listens
<1>2. Listens(c).in
  BY Zenon DEF Client, Listens
<1>3. QED
  BY Zenon, <1>1, <1>2 DEF Held

\* It sends, or queues, a message.
LEMMA SendsHeld ==
    ASSUME NEW c \in Client, c.in, NEW m \in 0 .. MaxQueries
    PROVE  Held(Sends(c, m))
<1>1. c.pending \in Seq(0 .. MaxQueries) /\ <<m>> \in Seq(0 .. MaxQueries)
  BY DEF Client
<1>2. Append(c.pending, m) \in Seq(0 .. MaxQueries)
  BY Zenon, <1>1, AppendProperties
<1>3. CASE c.send = <<>>
  <2> DEFINE r == [c EXCEPT !.send = <<m>>, !.dead = ~c.open]
  <2>1. (~c.open) \in BOOLEAN
    BY Zenon DEF Client
  <2>2. r \in Client /\ r.in
    BY Zenon, <1>1, <2>1 DEF Client
  <2>3. QED
    BY Zenon, <1>3, <2>2 DEF Held, Sends
<1>4. CASE c.send # <<>>
  <2> DEFINE r == [c EXCEPT !.pending = Append(c.pending, m)]
  <2>1. r \in Client /\ r.in
    BY Zenon, <1>2 DEF Client
  <2>2. QED
    BY Zenon, <1>4, <2>1 DEF Held, Sends
<1>5. QED
  BY Zenon, <1>3, <1>4

\* It goes on with the next message.
LEMMA QueuedHeld ==
    ASSUME NEW c \in Client, c.in
    PROVE  Held(processQueuedSend(c))
<1>1. CASE c.pending = <<>>
  BY Zenon, <1>1 DEF processQueuedSend, Held
<1>2. CASE c.pending # <<>>
  <2> DEFINE r == [c EXCEPT !.send = <<Head(c.pending)>>, !.dead = ~c.open,
                            !.pending = Tail(c.pending)]
  <2>1. c.pending \in Seq(0 .. MaxQueries)
    BY Zenon DEF Client
  <2>2. Head(c.pending) \in 0 .. MaxQueries /\ Tail(c.pending) \in Seq(0 .. MaxQueries)
    BY Zenon, <1>2, <2>1, HeadTailProperties
  <2>3. (~c.open) \in BOOLEAN /\ <<Head(c.pending)>> \in Seq(0 .. MaxQueries)
    BY <2>2 DEF Client
  <2>4. r \in Client /\ r.in
    BY Zenon, <2>2, <2>3 DEF Client
  <2>5. QED
    BY Zenon, <1>2, <2>4 DEF Held, processQueuedSend
<1>3. QED
  BY Zenon, <1>1, <1>2

\* A message was sent.
LEMMA AfterSendHeld ==
    ASSUME NEW c \in Client, c.in, NEW m
    PROVE  Held(AfterSend(c, m))
<1> DEFINE free == [c EXCEPT !.send = <<>>]
<1>5. <<>> \in Seq(0 .. MaxQueries)
  OBVIOUS
<1>1. free \in Client /\ free.in
  BY Zenon, <1>5 DEF Client
<1> HIDE DEF free
<1>2. PICK next \in Client : next = (IF m = Beat THEN free ELSE Listens(free)) /\ next.in
  BY Zenon, <1>1, ListensHeld
<1>3. Held(processQueuedSend(next))
  BY Zenon, <1>2, QueuedHeld
<1>4. QED
  BY Zenon, <1>2, <1>3 DEF AfterSend, free

\* Every step keeps what holds of the clients.
LEMMA ClientsNext ==
    ASSUME TypeOK, \A n \in Links : Held(client[n]), [Next]_vars
    PROVE  client' \in [Links -> Client] /\ \A n \in Links : Held(client'[n])
<1>1. client \in [Links -> Client] /\ MaxQueries \in Nat
  BY Zenon, ConstantsAssumption DEF TypeOK
<1>2. CASE UNCHANGED client
  BY Zenon, <1>1, <1>2
<1>3. ASSUME NEW n \in Links, NEW c, Held(c), client' = [client EXCEPT ![n] = c]
      PROVE  client' \in [Links -> Client] /\ \A k \in Links : Held(client'[k])
  BY Zenon, <1>1, <1>3 DEF Held
<1>4. ASSUME NEW n \in Links, QueryConnected(n)
      PROVE  client' \in [Links -> Client] /\ \A k \in Links : Held(client'[k])
  <2> DEFINE c == [client[n] EXCEPT !.met = "called"]
  <2>1. client' = [client EXCEPT ![n] = c]
    BY Zenon, <1>1, <1>4 DEF QueryConnected
  <2>2. client[n] \in Client /\ Held(client[n])
    BY Zenon, <1>1
  <2>3. Held(c)
    BY Zenon, <2>2 DEF Held, Client
  <2> HIDE DEF c
  <2>4. QED
    BY Zenon, <1>3, <2>1, <2>3
<1>5. ASSUME NEW n \in Links, Accept(n)
      PROVE  client' \in [Links -> Client] /\ \A k \in Links : Held(client'[k])
  <2>1. PICK z \in Client : z = [NoClient EXCEPT !.met = "yes"] /\ Held(z)
    <3>1. PICK a \in {"no", "called", "yes"} : a = "yes"
      BY Zenon
    <3>2. Held([NoClient EXCEPT !.met = a])
      BY Zenon, FreshHeld
    <3>3. QED
      BY Zenon, <3>1, <3>2 DEF Held
  <2> DEFINE y == [z EXCEPT !.in = TRUE, !.open = TRUE]
  <2>2. y \in Client /\ y.in
    BY Zenon DEF Client
  <2>3. y = [NoClient EXCEPT !.met = "yes", !.in = TRUE, !.open = TRUE]
    BY Zenon, <2>1
  <2> HIDE DEF y
  <2>4. Held(Listens(y))
    BY Zenon, <2>2, ListensHeld
  <2>5. \/ client' = [client EXCEPT ![n] = Listens(y)]
        \/ client' = [client EXCEPT ![n] = z]
    BY Zenon, <1>5, <2>1, <2>3 DEF Accept, ClientBecomes
  <2>6. QED
    BY Zenon, <1>3, <2>1, <2>4, <2>5
<1>6. ASSUME NEW n \in Links, QueryRead(n)
      PROVE  client' \in [Links -> Client] /\ \A k \in Links : Held(client'[k])
  <2>1. client[n] \in Client /\ client[n].in
    BY Zenon, <1>1, <1>6 DEF QueryRead, Held
  <2> DEFINE c == [client[n] EXCEPT !.recv = "none"]
  <2>2. c \in Client /\ c.in
    BY Zenon, <2>1 DEF Client
  <2> HIDE DEF c
  <2>3. toB[n] \in Seq(1 .. MaxQueries) /\ toB[n] # <<>>
    BY Zenon, <1>6 DEF TypeOK, QueryRead
  <2>4. Head(toB[n]) \in 1 .. MaxQueries
    BY Zenon, <2>3, HeadTailProperties
  <2>5. Head(toB[n]) \in 0 .. MaxQueries
    BY <1>1, <2>4
  <2>6. Held(Sends(c, Head(toB[n])))
    BY Zenon, <2>2, <2>5, SendsHeld
  <2>7. QED
    BY Zenon, <1>3, <1>6, <2>6 DEF QueryRead, ClientBecomes, c
<1>7. ASSUME NEW n \in Links, ReadFails(n)
      PROVE  client' \in [Links -> Client] /\ \A k \in Links : Held(client'[k])
  <2>1. client[n] \in Client /\ client[n].in
    BY Zenon, <1>1, <1>7 DEF ReadFails, Held
  <2> DEFINE c == [client[n] EXCEPT !.recv = "none"]
  <2>2. c \in Client /\ c.in
    BY Zenon, <2>1 DEF Client
  <2> HIDE DEF c
  <2>3. Held(CloseClient(c))
    BY Zenon, <2>2, CloseHeld
  <2>4. QED
    BY Zenon, <1>3, <1>7, <2>3 DEF ReadFails, ClientBecomes, c
<1>8. ASSUME NEW n \in Links, MessageSent(n)
      PROVE  client' \in [Links -> Client] /\ \A k \in Links : Held(client'[k])
  <2>1. client[n] \in Client /\ client[n].in
    BY Zenon, <1>1, <1>8 DEF MessageSent, Held
  <2>2. PICK m : m = Head(client[n].send)
    BY Zenon
  <2>3. Held(AfterSend(client[n], m))
    BY Zenon, <2>1, AfterSendHeld
  <2>4. QED
    BY Zenon, <1>3, <1>8, <2>2, <2>3 DEF MessageSent, ClientBecomes
<1>9. ASSUME NEW n \in Links, SendFails(n)
      PROVE  client' \in [Links -> Client] /\ \A k \in Links : Held(client'[k])
  <2>1. client[n] \in Client /\ client[n].in
    BY Zenon, <1>1, <1>9 DEF SendFails, Held
  <2>2. <<>> \in Seq(0 .. MaxQueries)
    OBVIOUS
  <2> DEFINE c == [client[n] EXCEPT !.send = <<>>]
  <2>3. c \in Client /\ c.in
    BY Zenon, <2>1, <2>2 DEF Client
  <2> HIDE DEF c
  <2>4. Held(CloseClient(c))
    BY Zenon, <2>3, CloseHeld
  <2>5. QED
    BY Zenon, <1>3, <1>9, <2>4 DEF SendFails, ClientBecomes, c
<1>10. CASE HeartBeat
  <2>1. client' = [n \in Links |-> IF client[n].in THEN Sends(client[n], Beat)
                                   ELSE client[n]]
    BY Zenon, <1>10 DEF HeartBeat
  <2>2. PICK b \in 0 .. MaxQueries : b = Beat
    BY <1>1 DEF Beat
  <2>3. ASSUME NEW n \in Links
        PROVE  Held(client'[n])
    <3>1. client[n] \in Client /\ Held(client[n])
      BY Zenon, <1>1
    <3>2. client[n].in => Held(Sends(client[n], Beat))
      BY Zenon, <2>2, <3>1, SendsHeld
    <3>3. QED
      BY Zenon, <2>1, <3>1, <3>2
  <2>4. \A n \in Links : client'[n] \in Client
    BY Zenon, <2>3 DEF Held
  <2>5. client' = [n \in Links |-> client'[n]]
    BY Zenon, <2>1
  <2>6. QED
    BY Zenon, <2>3, <2>4, <2>5
<1>11. ASSUME NEW n \in Links,
              \/ Connect(n) \/ ServiceConnected(n) \/ ServiceRefused(n) \/ QueryRefused(n)
              \/ ServiceReadFails(n) \/ Search(n) \/ QueryWritten(n)
              \/ QueryWriteFails(n) \/ AnswerRead(n) \/ QueryReadFails(n)
       PROVE  UNCHANGED client
  BY Zenon, <1>11 DEF Connect, ServiceConnected, ServiceRefused, QueryRefused, ServiceReadFails,
     Search, QueryWritten, QueryWriteFails, AnswerRead, QueryReadFails
<1>12. QED
  BY Zenon, <1>2, <1>4, <1>5, <1>6, <1>7, <1>8, <1>9, <1>10, <1>11 DEF Next, Establishes, vars

(***************************************************************************)
(* The wires, and the inductive invariant                                  *)
(***************************************************************************)
\* The wires and the counters keep their shape.
LEMMA WiresNext ==
    ASSUME TypeOK, Good(server), [Next]_vars
    PROVE  /\ toB' \in [Links -> Seq(1 .. MaxQueries)]
           /\ toA' \in [Links -> Seq(0 .. MaxQueries)]
           /\ asked' \in 0 .. MaxQueries /\ got' \in 0 .. MaxQueries
<1> DEFINE P == /\ toB' \in [Links -> Seq(1 .. MaxQueries)]
                /\ toA' \in [Links -> Seq(0 .. MaxQueries)]
                /\ asked' \in 0 .. MaxQueries /\ got' \in 0 .. MaxQueries
<1>1. /\ toB \in [Links -> Seq(1 .. MaxQueries)] /\ toA \in [Links -> Seq(0 .. MaxQueries)]
      /\ asked \in 0 .. MaxQueries /\ got \in 0 .. MaxQueries /\ MaxQueries \in Nat
  BY Zenon, ConstantsAssumption DEF TypeOK
<1>2. <<>> \in Seq(1 .. MaxQueries) /\ <<>> \in Seq(0 .. MaxQueries)
  OBVIOUS
<1>3. CASE UNCHANGED <<toB, toA, asked, got>>
  BY Zenon, <1>1, <1>3
<1>4. ASSUME NEW n \in Links, Search(n)
      PROVE  P
  BY <1>1, <1>4 DEF Search
<1>5. ASSUME NEW n \in Links, QueryWritten(n)
      PROVE  P
  <2>1. server[n] \in Server /\ Linked(server[n]) /\ server[n].qsend = "live"
    BY Zenon, <1>5 DEF Good, QueryWritten
  <2>2. server[n].sent \in 1 .. MaxQueries
    BY <1>1, <2>1 DEF Server, Linked
  <2>3. toB[n] \in Seq(1 .. MaxQueries)
    BY Zenon, <1>1
  <2>4. Append(toB[n], server[n].sent) \in Seq(1 .. MaxQueries)
    BY Zenon, <2>2, <2>3, AppendProperties
  <2>5. toB' \in [Links -> Seq(1 .. MaxQueries)]
    BY Zenon, <1>1, <1>5, <2>4 DEF QueryWritten
  <2>6. QED
    BY Zenon, <1>1, <1>5, <2>5 DEF QueryWritten
<1>6. ASSUME NEW n \in Links, AnswerRead(n)
      PROVE  P
  <2>1. toA[n] \in Seq(0 .. MaxQueries) /\ toA[n] # <<>>
    BY Zenon, <1>1, <1>6 DEF AnswerRead
  <2>2. Head(toA[n]) \in 0 .. MaxQueries /\ Tail(toA[n]) \in Seq(0 .. MaxQueries)
    BY Zenon, <2>1, HeadTailProperties
  <2>3. toA' \in [Links -> Seq(0 .. MaxQueries)]
    BY Zenon, <1>1, <1>6, <2>2 DEF AnswerRead
  <2>4. QED
    BY Zenon, <1>1, <1>6, <2>2, <2>3 DEF AnswerRead
<1>7. ASSUME NEW n \in Links, QueryRead(n)
      PROVE  P
  <2>1. toB[n] \in Seq(1 .. MaxQueries) /\ toB[n] # <<>>
    BY Zenon, <1>1, <1>7 DEF QueryRead
  <2>2. Tail(toB[n]) \in Seq(1 .. MaxQueries)
    BY Zenon, <2>1, HeadTailProperties
  <2>3. QED
    BY Zenon, <1>1, <1>7, <2>2 DEF QueryRead, ClientBecomes
<1>8. ASSUME NEW n \in Links, MessageSent(n)
      PROVE  P
  <2>1. /\ toA[n] \in Seq(0 .. MaxQueries) /\ client[n].send \in Seq(0 .. MaxQueries)
        /\ client[n].send # <<>>
    BY Zenon, <1>1, <1>8 DEF MessageSent, TypeOK, Client
  <2>2. Append(toA[n], Head(client[n].send)) \in Seq(0 .. MaxQueries)
    BY Zenon, <2>1, HeadTailProperties, AppendProperties
  <2>3. toA' \in [Links -> Seq(0 .. MaxQueries)]
    BY Zenon, <1>1, <1>8, <2>2 DEF MessageSent
  <2>4. QED
    BY Zenon, <1>1, <1>8, <2>3 DEF MessageSent, ClientBecomes
<1>9. ASSUME NEW n \in Links, QueryReadFails(n) \/ ReadFails(n) \/ SendFails(n)
      PROVE  P
  BY Zenon, <1>1, <1>2, <1>9 DEF QueryReadFails, ReadFails, SendFails, ClientBecomes
<1>10. ASSUME NEW n \in Links,
              \/ Connect(n) \/ Establishes(n) \/ ServiceReadFails(n)
              \/ QueryWriteFails(n) \/ Accept(n)
       PROVE  UNCHANGED <<toB, toA, asked, got>>
  BY Zenon, <1>10 DEF Connect, Establishes, ServiceConnected, ServiceRefused, QueryConnected,
     QueryRefused, ServiceReadFails, QueryWriteFails, Accept, ClientBecomes
<1>11. HeartBeat \/ UNCHANGED vars => UNCHANGED <<toB, toA, asked, got>>
  BY Zenon DEF HeartBeat, vars
<1>12. QED
  BY Zenon, <1>3, <1>4, <1>5, <1>6, <1>7, <1>8, <1>9, <1>10, <1>11 DEF Next

\* The inductive invariant.
LinkInv == TypeOK /\ Good(server) /\ \A n \in Links : Held(client[n])

\* It holds at the start.
LEMMA LinkInit == Init => LinkInv
<1> SUFFICES ASSUME Init PROVE LinkInv
  BY Zenon
<1>1. PICK z \in Server : z = NoServer /\ Linked(z) /\ ~Busy(z)
  BY Zenon, NoServerIs DEF Linked, Busy, ToCome
<1>2. server = [n \in Links |-> z]
  BY Zenon, <1>1 DEF Init
<1>3. Good(server)
  BY Zenon, <1>1, <1>2 DEF Good
<1>4. Held(NoClient)
  <2>1. NoClient \in Client
    <3>1. PICK a \in {"no", "called", "yes"} : TRUE
      BY Zenon
    <3>2. QED
      BY Zenon, <3>1, FreshHeld
  <2>2. NoClient.recv = "none" /\ NoClient.send = <<>>
    BY Zenon DEF NoClient
  <2>3. QED
    BY Zenon, <2>1, <2>2 DEF Held
<1>5. PICK y \in Client : y = NoClient /\ Held(y)
  BY Zenon, <1>4 DEF Held
<1>6. client = [n \in Links |-> y]
  BY Zenon, <1>5 DEF Init
<1>7. client \in [Links -> Client] /\ \A n \in Links : Held(client[n])
  BY Zenon, <1>5, <1>6
<1>8. 0 \in 0 .. MaxQueries
  BY ConstantsAssumption
<1>9. asked \in 0 .. MaxQueries /\ got \in 0 .. MaxQueries
  BY Zenon, <1>8 DEF Init
<1>10. toB \in [Links -> Seq(1 .. MaxQueries)] /\ toA \in [Links -> Seq(0 .. MaxQueries)]
  BY DEF Init
<1>11. QED
  BY Zenon, <1>3, <1>7, <1>9, <1>10 DEF LinkInv, TypeOK, Good

\* Every step keeps it.
LEMMA LinkNext == LinkInv /\ [Next]_vars => LinkInv'
<1> SUFFICES ASSUME LinkInv, [Next]_vars PROVE LinkInv'
  BY Zenon
<1>1. Good(server')
  BY Zenon, ServersNext DEF LinkInv
<1>2. client' \in [Links -> Client] /\ \A n \in Links : Held(client'[n])
  BY Zenon, ClientsNext DEF LinkInv
<1>3. /\ toB' \in [Links -> Seq(1 .. MaxQueries)] /\ toA' \in [Links -> Seq(0 .. MaxQueries)]
      /\ asked' \in 0 .. MaxQueries /\ got' \in 0 .. MaxQueries
  BY Zenon, WiresNext DEF LinkInv
<1>4. TypeOK'
  BY Zenon, <1>1, <1>2, <1>3 DEF TypeOK, Good
<1>5. QED
  BY Zenon, <1>1, <1>2, <1>4 DEF LinkInv

\* The invariant of the two servers' connections holds in every reachable state.
THEOREM LinkSafety == Spec => []LinkInv
  BY LinkInit, LinkNext, PTL DEF Spec

\* Every variable keeps its shape.
THEOREM TypeSafety == Spec => []TypeOK
<1>1. LinkInv => TypeOK
  BY Zenon DEF LinkInv
<1>2. QED
  BY <1>1, LinkSafety, PTL

\* A MeshServer is destroyed (checkSafeKill and the callbacks it runs), and a
\* query client leaves _connectedClients, only when no handler points to it.
THEOREM FreedSafety == Spec => []FreedIdle
<1>1. LinkInv => FreedIdle
  <2> SUFFICES ASSUME LinkInv, NEW n \in Links
               PROVE  /\ server[n].where = "gone" =>
                             server[n].recv = "none" /\ server[n].qrecv = "none"
                               /\ server[n].qsend = "none"
                      /\ ~client[n].in => client[n].recv = "none" /\ client[n].send = <<>>
    BY Zenon DEF FreedIdle
  <2>1. server[n] \in Server /\ Linked(server[n]) /\ Held(client[n])
    BY Zenon DEF LinkInv, Good
  <2>2. QED
    BY Zenon, <2>1 DEF Linked, Held
<1>2. QED
  BY <1>1, LinkSafety, PTL

\* A never has, or works on, two connections to its peer: doHeartBeat connects
\* only to a peer that is in neither map, and a server leaves its place only when
\* it is destroyed.
THEOREM ConnectionSafety == Spec => []OneConnection
<1>1. LinkInv => OneConnection
  BY Zenon DEF LinkInv, Good, Busy, OneConnection
<1>2. QED
  BY <1>1, LinkSafety, PTL
============================================================================
