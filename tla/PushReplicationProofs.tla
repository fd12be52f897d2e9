----------------------- MODULE PushReplicationProofs -----------------------
(***************************************************************************)
(* Proofs about push replication, for any number of assets, slaves and     *)
(* changes of the settings, any limit of the queue and any faults.         *)
(*                                                                         *)
(* Base is the part of the inductive invariant that holds of the world in  *)
(* the middle of a handler, too: each operation of the connection is       *)
(* outstanding once and has at most one handler ready, only a service that *)
(* is connected has any, and a callback that was posted by an earlier      *)
(* connection is ahead of the handler that makes the next one.  Counted    *)
(* and Driven hold between handlers.                                       *)
(***************************************************************************)
EXTENDS PushReplication, SequenceTheorems, WellFoundedInduction, TLAPS

(***************************************************************************)
(* Handlers in the order in which they are ready.                          *)
(***************************************************************************)
Handler ==
    [h : {"monitor", "stop"}, v : {""}]
      \cup [h : {"queue", "error"}, v : Assets]
      \cup [h : {"conn", "send"}, v : {"ok", "fail"}]
      \cup [h : {"recv"}, v : {"fail", "bare", "data", "error", "rest"}]
Handlers == Seq(Handler)

Has(p, h) == \E i \in DOMAIN p : p[i].h = h
One(p, h) == \A i, j \in DOMAIN p : p[i].h = h /\ p[j].h = h => i = j
Rest(p) == \E i \in DOMAIN p : p[i].h = "recv" /\ p[i].v = "rest"
ConnLast(p) == \A i, j \in DOMAIN p : p[i].h = "conn" /\ p[j].h = "error" => j < i

\* A handler becomes ready.
LEMMA Posted ==
    ASSUME NEW p \in Handlers, NEW e \in Handler
    PROVE  /\ Append(p, e) \in Handlers
           /\ \A h : Has(Append(p, e), h) <=> Has(p, h) \/ e.h = h
           /\ \A h : One(p, h) /\ (e.h = h => ~Has(p, h)) => One(Append(p, e), h)
           /\ Rest(Append(p, e)) <=> Rest(p) \/ (e.h = "recv" /\ e.v = "rest")
           /\ ConnLast(p) /\ (e.h = "error" => ~Has(p, "conn")) => ConnLast(Append(p, e))
<1>1. PICK q : q = Append(p, e)
  BY Zenon
<1>2. PICK n \in Nat : n = Len(p) /\ DOMAIN p = 1 .. n
  BY Zenon, LenProperties DEF Handlers
<1>3. /\ q \in Handlers /\ DOMAIN q = 1 .. n + 1
      /\ q[n + 1] = e /\ \A i \in 1 .. n : q[i] = p[i]
  <2>1. /\ Append(p, e) \in Seq(Handler) /\ Len(Append(p, e)) = Len(p) + 1
        /\ Append(p, e)[Len(p) + 1] = e /\ \A i \in 1 .. Len(p) : Append(p, e)[i] = p[i]
    BY AppendProperties DEF Handlers
  <2>2. DOMAIN Append(p, e) = 1 .. Len(Append(p, e))
    BY Zenon, <2>1, LenProperties
  <2>3. QED
    BY Zenon, <1>1, <1>2, <2>1, <2>2 DEF Handlers
<1>4. \A i \in DOMAIN q : (i \in DOMAIN p /\ q[i] = p[i]) \/ (i = n + 1 /\ q[i] = e)
  <2>1. \A i \in 1 .. n + 1 : i \in 1 .. n \/ i = n + 1
    BY <1>2
  <2>2. QED
    BY Zenon, <1>2, <1>3, <2>1
<1>5. DOMAIN p \subseteq DOMAIN q /\ n + 1 \in DOMAIN q /\ \A i \in DOMAIN p : q[i] = p[i]
  BY <1>2, <1>3
<1>6. ASSUME NEW h PROVE Has(q, h) <=> Has(p, h) \/ e.h = h
  BY Zenon, <1>3, <1>4, <1>5 DEF Has
<1>7. ASSUME NEW h, One(p, h), e.h = h => ~Has(p, h) PROVE One(q, h)
  BY Zenon, <1>4, <1>7 DEF One, Has
<1>8. Rest(q) <=> Rest(p) \/ (e.h = "recv" /\ e.v = "rest")
  BY Zenon, <1>3, <1>4, <1>5 DEF Rest
<1>9. ASSUME ConnLast(p), e.h = "error" => ~Has(p, "conn") PROVE ConnLast(q)
  <2> SUFFICES ASSUME NEW i \in DOMAIN q, NEW j \in DOMAIN q, q[i].h = "conn", q[j].h = "error"
               PROVE  j < i
    BY Zenon DEF ConnLast
  <2>1. CASE i \in DOMAIN p /\ q[i] = p[i]
    <3>1. e.h # "error"
      BY Zenon, <1>9, <2>1 DEF Has
    <3>2. j \in DOMAIN p /\ q[j] = p[j]
      BY Zenon, <1>4, <3>1
    <3>3. QED
      BY Zenon, <1>9, <2>1, <3>2 DEF ConnLast
  <2>2. CASE i = n + 1 /\ q[i] = e
    <3>1. e.h # "error"
      BY <2>2
    <3>2. j \in DOMAIN p
      BY Zenon, <1>4, <3>1
    <3>3. QED
      BY <1>2, <2>2, <3>2
  <2>3. QED
    BY Zenon, <1>4, <2>1, <2>2
<1>10. QED
  BY Zenon, <1>1, <1>3, <1>6, <1>7, <1>8, <1>9

\* The first of the ready handlers is run.
LEMMA Taken ==
    ASSUME NEW p \in Handlers, p # <<>>
    PROVE  /\ Tail(p) \in Handlers /\ Head(p) \in Handler
           /\ \A h : Has(p, h) <=> Has(Tail(p), h) \/ Head(p).h = h
           /\ \A h : One(p, h) => One(Tail(p), h) /\ (Head(p).h = h => ~Has(Tail(p), h))
           /\ Head(p).h = "recv" /\ Head(p).v = "rest" => Rest(p)
           /\ Rest(Tail(p)) => Rest(p)
           /\ ConnLast(p) => /\ ConnLast(Tail(p))
                             /\ Head(p).h = "conn" => ~Has(Tail(p), "error")
<1>1. PICK q : q = Tail(p)
  BY Zenon
<1>2. PICK n \in Nat : n + 1 = Len(p) /\ DOMAIN p = 1 .. n + 1
  <2>1. Len(p) \in Nat \ {0} /\ DOMAIN p = 1 .. Len(p)
    BY Zenon, LenProperties, EmptySeq DEF Handlers
  <2>2. \A m \in Nat \ {0} : m - 1 \in Nat /\ (m - 1) + 1 = m
    OBVIOUS
  <2>3. QED
    BY Zenon, <2>1, <2>2
<1>3. /\ q \in Handlers /\ DOMAIN q = 1 .. n /\ Head(p) = p[1] /\ p[1] \in Handler
      /\ \A i \in 1 .. n : q[i] = p[i + 1]
  <2>1. q \in Handlers /\ Len(q) = n /\ \A i \in 1 .. n : q[i] = p[i + 1]
    <3>1. /\ q \in Handlers /\ Len(q) = Len(p) - 1
          /\ \A i \in 1 .. Len(q) : q[i] = p[i + 1]
      BY Zenon, <1>1, HeadTailProperties DEF Handlers
    <3>2. Len(q) = n
      BY <1>2, <3>1
    <3>3. QED
      BY Zenon, <3>1, <3>2
  <2>2. DOMAIN q = 1 .. n
    BY Zenon, <2>1, LenProperties DEF Handlers
  <2>3. Head(p) = p[1] /\ Head(p) \in Handler
    BY HeadTailProperties DEF Handlers
  <2>4. QED
    BY Zenon, <2>1, <2>2, <2>3
<1>4. /\ 1 \in DOMAIN p
      /\ \A i \in DOMAIN q : i + 1 \in DOMAIN p /\ i + 1 # 1 /\ q[i] = p[i + 1] /\ i \in Nat
      /\ \A i \in DOMAIN p : i = 1 \/ \E j \in DOMAIN q : i = j + 1
  <2>1. \A i \in DOMAIN p : i # 1 => i - 1 \in DOMAIN q /\ i = (i - 1) + 1
    BY <1>2, <1>3
  <2>2. \A i \in DOMAIN q : i + 1 \in DOMAIN p /\ i + 1 # 1 /\ q[i] = p[i + 1] /\ i \in Nat
    BY <1>2, <1>3
  <2>3. 1 \in DOMAIN p
    BY <1>2
  <2>4. QED
    BY Zenon, <2>1, <2>2, <2>3
<1>5. ASSUME NEW h PROVE Has(p, h) <=> Has(q, h) \/ Head(p).h = h
  <2>1. ASSUME Has(p, h), Head(p).h # h PROVE Has(q, h)
    <3>1. PICK i \in DOMAIN p : p[i].h = h
      BY Zenon, <2>1 DEF Has
    <3>2. PICK j \in DOMAIN q : i = j + 1
      BY Zenon, <1>3, <1>4, <2>1, <3>1
    <3>3. QED
      BY Zenon, <1>4, <3>1, <3>2 DEF Has
  <2>2. Head(p).h = h => Has(p, h)
    BY Zenon, <1>3, <1>4 DEF Has
  <2>3. Has(q, h) => Has(p, h)
    BY Zenon, <1>4 DEF Has
  <2>4. QED
    BY Zenon, <2>1, <2>2, <2>3
<1>6. ASSUME NEW h, One(p, h) PROVE One(q, h) /\ (Head(p).h = h => ~Has(q, h))
  <2>1. \A i, j \in DOMAIN q : i + 1 = j + 1 => i = j
    BY <1>4
  <2>2. One(q, h)
    BY Zenon, <1>4, <1>6, <2>1 DEF One
  <2>3. Head(p).h = h => ~Has(q, h)
    BY Zenon, <1>3, <1>4, <1>6 DEF One, Has
  <2>4. QED
    BY Zenon, <2>2, <2>3
<1>7. (Head(p).h = "recv" /\ Head(p).v = "rest" => Rest(p)) /\ (Rest(q) => Rest(p))
  BY Zenon, <1>3, <1>4 DEF Rest
<1>8. ASSUME ConnLast(p) PROVE ConnLast(q) /\ (Head(p).h = "conn" => ~Has(q, "error"))
  <2>1. \A i, j \in DOMAIN q : i + 1 < j + 1 => i < j
    BY <1>4
  <2>2. ConnLast(q)
    BY Zenon, <1>4, <1>8, <2>1 DEF ConnLast
  <2>3. \A i \in DOMAIN q : ~(i + 1 < 1)
    BY <1>4
  <2>4. Head(p).h = "conn" => ~Has(q, "error")
    BY Zenon, <1>3, <1>4, <1>8, <2>3 DEF ConnLast, Has
  <2>5. QED
    BY Zenon, <2>2, <2>4
<1>9. QED
  BY Zenon, <1>1, <1>3, <1>5, <1>6, <1>7, <1>8

\* What may become ready: the operations of the connection that are outstanding,
\* each once, and no callback after a handler of the connection that is made.
MayPost(e, p, r) ==
    /\ e.h \in {"monitor", "recv", "send", "conn"} => ~Has(p, e.h)
    /\ e.h = "recv" => r.recv # "none" /\ (e.v = "rest" => r.recv \in {"data", "error"})
    /\ e.h = "send" => r.send
    /\ e.h = "conn" => r.phase \in Handshake
    /\ e.h = "error" => r.phase \notin Handshake

Orderly(p, r) ==
    /\ \A h \in {"monitor", "recv", "send", "conn"} : One(p, h)
    /\ Has(p, "recv") => r.recv # "none"
    /\ Rest(p) => r.recv \in {"data", "error"}
    /\ Has(p, "send") => r.send
    /\ Has(p, "conn") => r.phase \in Handshake
    /\ ConnLast(p)

\* It becomes ready.
LEMMA PostOrderly ==
    ASSUME NEW p \in Handlers, NEW r, Orderly(p, r), NEW e \in Handler, MayPost(e, p, r)
    PROVE  Append(p, e) \in Handlers /\ Orderly(Append(p, e), r)
<1>1. PICK q : q = Append(p, e)
  BY Zenon
<1>2. /\ q \in Handlers
      /\ \A h : Has(q, h) <=> Has(p, h) \/ e.h = h
      /\ \A h : One(p, h) /\ (e.h = h => ~Has(p, h)) => One(q, h)
      /\ Rest(q) <=> Rest(p) \/ (e.h = "recv" /\ e.v = "rest")
      /\ ConnLast(p) /\ (e.h = "error" => ~Has(p, "conn")) => ConnLast(q)
  BY Zenon, <1>1, Posted
<1>3. \A h \in {"monitor", "recv", "send", "conn"} : One(q, h)
  BY Zenon, <1>2 DEF Orderly, MayPost
<1>4. /\ Has(q, "recv") => r.recv # "none"
      /\ Rest(q) => r.recv \in {"data", "error"}
      /\ Has(q, "send") => r.send
      /\ Has(q, "conn") => r.phase \in Handshake
  BY Zenon, <1>2 DEF Orderly, MayPost
<1>5. ConnLast(q)
  BY Zenon, <1>2 DEF Orderly, MayPost
<1>6. QED
  BY Zenon, <1>1, <1>2, <1>3, <1>4, <1>5 DEF Orderly

(***************************************************************************)
(* The world.                                                              *)
(***************************************************************************)
Queues == Seq(Assets)
Eps == Slaves \cup {""}
Phases == {"none", "new", "failed", "done", "connect", "challenge", "response", "status"}
Troubles == {"noWaiter", "usedFreed", "connectedTwice", "escaped", "busyFreed"}

RasT(O) ==
    [ep : Eps, phase : Phases, est : BOOLEAN, open : BOOLEAN, tcp : BOOLEAN,
     recv : {"none", "header", "data", "error"}, send : BOOLEAN, transferq : Queues,
     callbackq : Queues, owed : O]
WorldT(O) ==
    [ras : RasT(O), connected : BOOLEAN, sending : BOOLEAN, waiting : Queues,
     endpoint : Eps, monitor : BOOLEAN, stop : BOOLEAN, posted : Handlers,
     trouble : SUBSET Troubles]

\* What a handler leaves as it was, unless it is about connecting.
Keeps(v, w) ==
    /\ v.ras.phase = w.ras.phase /\ v.monitor = w.monitor /\ v.stop = w.stop
    /\ v.endpoint = w.endpoint /\ v.trouble = w.trouble
    /\ Has(v.posted, "monitor") <=> Has(w.posted, "monitor")

\* Handlers there can be.
LEMMA HandlersAre ==
    /\ [h |-> "monitor", v |-> ""] \in Handler /\ [h |-> "stop", v |-> ""] \in Handler
    /\ \A x \in Assets : [h |-> "queue", v |-> x] \in Handler /\ [h |-> "error", v |-> x] \in Handler
    /\ \A x \in {"ok", "fail"} : [h |-> "conn", v |-> x] \in Handler /\ [h |-> "send", v |-> x] \in Handler
    /\ \A x \in {"fail", "bare", "data", "error", "rest"} : [h |-> "recv", v |-> x] \in Handler
  BY DEF Handler

\* The world after an asset was sent, or queued behind the one that is being written; p are
\* the handlers that are ready then, but for the one, f, of a write that fails at once.
Sent(v, w, x, p, f) ==
    /\ v.sending = TRUE /\ v.connected = w.connected /\ v.waiting = w.waiting
    /\ v.endpoint = w.endpoint /\ v.monitor = w.monitor /\ v.stop = w.stop
    /\ v.trouble = w.trouble /\ v.ras.phase = w.ras.phase
    /\ v.ras.est = w.ras.est /\ v.ras.open = w.ras.open /\ v.ras.recv = w.ras.recv
    /\ v.ras.send = TRUE
    /\ w.ras.send => /\ v.posted = p /\ v.ras.callbackq = w.ras.callbackq
                     /\ v.ras.transferq = Append(w.ras.transferq, x)
    /\ ~w.ras.send => /\ v.posted = p \/ (~w.ras.open /\ v.posted = Append(p, f))
                      /\ v.ras.callbackq = Append(w.ras.callbackq, x)
                      /\ v.ras.transferq = w.ras.transferq

\* doPutAsset.
LEMMA PutIs ==
    ASSUME NEW O, NEW w \in WorldT(O), NEW x \in Assets, ~w.stop,
           NEW e, e = [h |-> "error", v |-> x], NEW f, f = [h |-> "send", v |-> "fail"],
           NEW p \in Handlers, p = IF w.ras.est THEN w.posted ELSE Append(w.posted, e)
    PROVE  doPutAsset(w, x) \in WorldT(O) /\ Sent(doPutAsset(w, x), w, x, p, f)
<1>1. PICK v : v = doPutAsset(w, x)
  BY Zenon
<1>2. PICK cb \in Queues : cb = Append(w.ras.callbackq, x)
  BY Zenon, AppendProperties DEF WorldT, RasT, Queues
<1>3. PICK tq \in Queues : tq = Append(w.ras.transferq, x)
  BY Zenon, AppendProperties DEF WorldT, RasT, Queues
<1>5. PICK p2 \in Handlers : p2 = Append(p, f)
  <2>1. f \in Handler
    BY Zenon, HandlersAre
  <2>2. QED
    BY Zenon, <2>1, Posted
<1>6. PICK t : t = [w EXCEPT !.sending = TRUE, !.posted = p]
  BY Zenon
<1>7. /\ t \in WorldT(O) /\ t.ras = w.ras /\ t.posted = p
      /\ t.sending = TRUE /\ t.connected = w.connected /\ t.waiting = w.waiting
      /\ t.endpoint = w.endpoint /\ t.monitor = w.monitor /\ t.stop = w.stop
      /\ t.trouble = w.trouble
  BY Zenon, <1>6 DEF WorldT
<1>8. v = IF ~w.ras.send THEN Send(t, x) ELSE [t EXCEPT !.ras.transferq = tq]
  BY Zenon, <1>1, <1>3, <1>6 DEF doPutAsset, Request, Post, WorldT
<1>9. CASE w.ras.send
  <2>1. v = [t EXCEPT !.ras.transferq = tq]
    BY Zenon, <1>8, <1>9
  <2>2. /\ v \in WorldT(O)
        /\ v.sending = TRUE /\ v.connected = w.connected /\ v.waiting = w.waiting
        /\ v.endpoint = w.endpoint /\ v.monitor = w.monitor /\ v.stop = w.stop
        /\ v.trouble = w.trouble /\ v.ras.phase = w.ras.phase
        /\ v.ras.est = w.ras.est /\ v.ras.open = w.ras.open /\ v.ras.recv = w.ras.recv
        /\ v.ras.send = TRUE /\ v.posted = p /\ v.ras.callbackq = w.ras.callbackq /\ v.ras.transferq = tq
    BY <1>7, <1>9, <2>1 DEF WorldT, RasT
  <2>3. QED
    BY Zenon, <1>1, <1>3, <1>7, <1>9, <2>1, <2>2 DEF Sent
<1>10. CASE ~w.ras.send /\ w.ras.open
  <2>1. v = [t EXCEPT !.ras.send = TRUE, !.ras.callbackq = cb]
    BY Zenon, <1>2, <1>7, <1>8, <1>10 DEF Send, Started, WorldT, RasT
  <2>2. /\ v \in WorldT(O)
        /\ v.sending = TRUE /\ v.connected = w.connected /\ v.waiting = w.waiting
        /\ v.endpoint = w.endpoint /\ v.monitor = w.monitor /\ v.stop = w.stop
        /\ v.trouble = w.trouble /\ v.ras.phase = w.ras.phase
        /\ v.ras.est = w.ras.est /\ v.ras.open = w.ras.open /\ v.ras.recv = w.ras.recv
        /\ v.ras.send = TRUE /\ v.posted = p /\ v.ras.callbackq = cb /\ v.ras.transferq = w.ras.transferq
    BY ZenonT(60), <1>7, <1>10, <2>1 DEF WorldT, RasT
  <2>3. QED
    BY Zenon, <1>1, <1>2, <1>7, <1>10, <2>1, <2>2 DEF Sent
<1>11. CASE ~w.ras.send /\ ~w.ras.open
  <2>1. v = [t EXCEPT !.ras.send = TRUE, !.ras.callbackq = cb, !.posted = p2]
    BY Zenon, <1>2, <1>5, <1>7, <1>8, <1>11 DEF Send, Started, Post, WorldT, RasT
  <2>2. /\ v \in WorldT(O)
        /\ v.sending = TRUE /\ v.connected = w.connected /\ v.waiting = w.waiting
        /\ v.endpoint = w.endpoint /\ v.monitor = w.monitor /\ v.stop = w.stop
        /\ v.trouble = w.trouble /\ v.ras.phase = w.ras.phase
        /\ v.ras.est = w.ras.est /\ v.ras.open = w.ras.open /\ v.ras.recv = w.ras.recv
        /\ v.ras.send = TRUE /\ v.posted = p2 /\ v.ras.callbackq = cb /\ v.ras.transferq = w.ras.transferq
    BY ZenonT(60), <1>7, <1>11, <2>1 DEF WorldT, RasT
  <2>3. QED
    BY Zenon, <1>1, <1>2, <1>5, <1>7, <1>11, <2>1, <2>2 DEF Sent
<1>12. QED
  BY Zenon, <1>9, <1>10, <1>11
(***************************************************************************)
(* What holds in the middle of a handler, too.                             *)
(***************************************************************************)
Base(w) ==
    /\ Orderly(w.posted, w.ras)
    /\ w.connected => w.ras.phase = "done"
    /\ w.ras.recv # "none" \/ w.ras.send \/ w.ras.est => w.connected
    /\ ~w.connected => ~w.sending /\ w.waiting = <<>>
    /\ w.ras.phase \in Handshake => w.ras.callbackq = <<>> /\ w.ras.transferq = <<>>
    /\ w.ras.est => ~Has(w.posted, "error")

\* The order of the handlers depends on little of the service.
LEMMA OrderlySame ==
    ASSUME NEW p, NEW r, NEW s, Orderly(p, r), s.recv = r.recv, s.phase = r.phase,
           r.send => s.send
    PROVE  Orderly(p, s)
  BY Zenon DEF Orderly

\* The phase of a connection that is made or given up.
LEMMA DoneIs == "done" \notin Handshake /\ Handshake \subseteq Phases
  BY DEF Handshake, Phases

\* A queue gets longer.
LEMMA Longer ==
    ASSUME NEW q \in Queues, NEW x \in Assets
    PROVE  /\ Append(q, x) \in Queues /\ Append(q, x) # <<>>
           /\ Len(Append(q, x)) = Len(q) + 1 /\ Len(q) \in Nat
  BY AppendProperties, LenProperties DEF Queues

\* The world after an asset was sent.
Puts(v, w) ==
    /\ Base(v) /\ Keeps(v, w) /\ v.connected /\ v.sending /\ v.waiting = w.waiting
    /\ v.ras.est = w.ras.est /\ v.ras.open = w.ras.open /\ v.ras.recv = w.ras.recv
    /\ Len(v.ras.callbackq) + Len(v.ras.transferq)
         = Len(w.ras.callbackq) + Len(w.ras.transferq) + 1
    /\ w.ras.callbackq # <<>> => v.ras.callbackq # <<>>
    /\ w.ras.transferq # <<>> => v.ras.transferq # <<>>

\* doPutAsset, with a connection.
LEMMA PutBase ==
    ASSUME NEW O, NEW w \in WorldT(O), Base(w), w.connected, ~w.stop, NEW x \in Assets
    PROVE  doPutAsset(w, x) \in WorldT(O) /\ Puts(doPutAsset(w, x), w)
<1>1. PICK v : v = doPutAsset(w, x)
  BY Zenon
<1>2. PICK e \in Handler : e = [h |-> "error", v |-> x] /\ e.h = "error"
  BY Zenon, HandlersAre
<1>3. PICK f \in Handler : f = [h |-> "send", v |-> "fail"] /\ f.h = "send"
  BY Zenon, HandlersAre
<1>4. /\ w.ras.phase = "done" /\ w.ras.phase \notin Handshake
      /\ w.ras.callbackq \in Queues /\ w.ras.transferq \in Queues
      /\ w.posted \in Handlers /\ Orderly(w.posted, w.ras)
  BY DoneIs DEF Base, WorldT, RasT
<1>5. Append(w.posted, e) \in Handlers
  BY Zenon, <1>4, Posted
<1>6. PICK p \in Handlers : p = IF w.ras.est THEN w.posted ELSE Append(w.posted, e)
  BY Zenon, <1>4, <1>5
<1>7. v \in WorldT(O) /\ Sent(v, w, x, p, f)
  BY Zenon, <1>1, <1>2, <1>3, <1>6, PutIs
<1>8. /\ Orderly(p, w.ras)
      /\ Has(p, "monitor") <=> Has(w.posted, "monitor")
      /\ Has(p, "send") <=> Has(w.posted, "send")
      /\ w.ras.est => ~Has(p, "error")
  <2>1. CASE w.ras.est
    BY Zenon, <1>4, <1>6, <2>1 DEF Base
  <2>2. CASE ~w.ras.est
    <3>1. p = Append(w.posted, e)
      BY Zenon, <1>6, <2>2
    <3>2. MayPost(e, w.posted, w.ras)
      BY <1>2, <1>4 DEF MayPost
    <3>3. Orderly(p, w.ras)
      BY Zenon, <1>4, <3>1, <3>2, PostOrderly
    <3>4. \A h : Has(p, h) <=> Has(w.posted, h) \/ e.h = h
      BY Zenon, <1>4, <3>1, Posted
    <3>5. QED
      BY <1>2, <2>2, <3>3, <3>4
  <2>3. QED
    BY Zenon, <2>1, <2>2
<1>9. Orderly(p, v.ras)
  BY Zenon, <1>7, <1>8, OrderlySame DEF Sent
<1>10. /\ Orderly(v.posted, v.ras)
       /\ Has(v.posted, "monitor") <=> Has(w.posted, "monitor")
       /\ w.ras.est => ~Has(v.posted, "error")
  <2>1. CASE v.posted = p
    BY Zenon, <1>8, <1>9, <2>1
  <2>2. CASE ~w.ras.send /\ v.posted = Append(p, f)
    <3>1. ~Has(p, "send") /\ v.ras.send
      BY Zenon, <1>4, <1>7, <1>8, <2>2 DEF Orderly, Sent
    <3>2. MayPost(f, p, v.ras)
      BY <1>3, <3>1 DEF MayPost
    <3>3. Orderly(v.posted, v.ras)
      BY Zenon, <1>9, <2>2, <3>2, PostOrderly
    <3>4. \A h : Has(Append(p, f), h) <=> Has(p, h) \/ f.h = h
      BY Zenon, Posted
    <3>5. QED
      BY <1>3, <1>8, <2>2, <3>3, <3>4
  <2>3. QED
    BY Zenon, <1>7, <2>1, <2>2 DEF Sent
<1>11. /\ Len(v.ras.callbackq) + Len(v.ras.transferq)
            = Len(w.ras.callbackq) + Len(w.ras.transferq) + 1
       /\ w.ras.callbackq # <<>> => v.ras.callbackq # <<>>
       /\ w.ras.transferq # <<>> => v.ras.transferq # <<>>
  <2>1. PICK c, t \in Queues : c = w.ras.callbackq /\ t = w.ras.transferq
    BY Zenon, <1>4
  <2>2. PICK c1, t1 : c1 = Append(c, x) /\ t1 = Append(t, x)
    BY Zenon
  <2>3. /\ c1 # <<>> /\ t1 # <<>> /\ Len(c1) = Len(c) + 1 /\ Len(t1) = Len(t) + 1
        /\ Len(c) \in Nat /\ Len(t) \in Nat
    BY Zenon, <2>2, Longer
  <2>4. Len(c1) + Len(t) = Len(c) + Len(t) + 1 /\ Len(c) + Len(t1) = Len(c) + Len(t) + 1
    BY <2>3
  <2>5. \/ v.ras.callbackq = c1 /\ v.ras.transferq = t
        \/ v.ras.callbackq = c /\ v.ras.transferq = t1
    BY Zenon, <1>7, <2>1, <2>2 DEF Sent
  <2>6. QED
    BY Zenon, <2>1, <2>3, <2>4, <2>5
<1>12. Base(v)
  BY Zenon, <1>4, <1>7, <1>10 DEF Base, Sent
<1>13. Keeps(v, w)
  BY Zenon, <1>7, <1>10 DEF Keeps, Sent
<1>14. QED
  BY Zenon, <1>1, <1>7, <1>11, <1>12, <1>13 DEF Sent, Puts

\* Base depends on little of the world, and on less of it while connected.
LEMMA BaseLike ==
    ASSUME NEW v, NEW w, Base(w), v.posted = w.posted, v.connected = w.connected,
           v.ras.phase = w.ras.phase, v.ras.recv = w.ras.recv, v.ras.send = w.ras.send,
           v.ras.est = w.ras.est,
           \/ v.connected
           \/ /\ ~v.sending /\ v.waiting = <<>>
              /\ v.ras.callbackq = w.ras.callbackq /\ v.ras.transferq = w.ras.transferq
    PROVE  Base(v)
<1>1. Orderly(v.posted, v.ras)
  BY Zenon, OrderlySame DEF Base
<1>2. v.ras.phase \in Handshake => v.ras.callbackq = <<>> /\ v.ras.transferq = <<>>
  BY Zenon, DoneIs DEF Base
<1>3. QED
  BY Zenon, <1>1, <1>2 DEF Base

\* The world after a callback: the next asset is sent, or none waits.
Answers(v, w) ==
    /\ Base(v) /\ Keeps(v, w) /\ v.connected = w.connected
    /\ v.ras.est = w.ras.est /\ v.ras.open = w.ras.open /\ v.ras.recv = w.ras.recv
    /\ w.ras.callbackq # <<>> => v.ras.callbackq # <<>>
    /\ w.ras.transferq # <<>> => v.ras.transferq # <<>>
    /\ \/ /\ v.connected /\ v.sending /\ ~v.stop
          /\ Len(v.ras.callbackq) + Len(v.ras.transferq)
               = Len(w.ras.callbackq) + Len(w.ras.transferq) + 1
       \/ /\ ~v.sending /\ v.ras.callbackq = w.ras.callbackq
          /\ v.ras.transferq = w.ras.transferq
          /\ v.connected /\ ~v.stop => v.waiting = <<>>

\* A queue that is not empty gets shorter.
LEMMA Shorter ==
    ASSUME NEW q \in Queues, q # <<>>
    PROVE  Head(q) \in Assets /\ Tail(q) \in Queues /\ Len(Tail(q)) = Len(q) - 1 /\ Len(q) \in Nat
  BY HeadTailProperties, LenProperties DEF Queues

\* onAfterAssetPut.
LEMMA AnswerBase ==
    ASSUME NEW O, NEW w \in WorldT(O), Base(w), NEW x, NEW o
    PROVE  onAfterAssetPut(w, x, o) \in WorldT(O) /\ Answers(onAfterAssetPut(w, x, o), w)
<1>1. PICK t : t = [w EXCEPT !.sending = FALSE]
  BY Zenon
<1>2. /\ t \in WorldT(O) /\ t.sending = FALSE /\ t.ras = w.ras /\ t.posted = w.posted
      /\ t.connected = w.connected /\ t.waiting = w.waiting /\ t.monitor = w.monitor
      /\ t.stop = w.stop /\ t.endpoint = w.endpoint /\ t.trouble = w.trouble
  BY Zenon, <1>1 DEF WorldT
<1>3. onAfterAssetPut(w, x, o) = pushNextWaitingAsset(t)
  BY Zenon, <1>1 DEF onAfterAssetPut
<1>4. Base(t)
  <2>1. ~t.connected => t.waiting = <<>>
    BY Zenon, <1>2 DEF Base
  <2>2. QED
    BY Zenon, <1>2, <2>1, BaseLike
<1>5. CASE t.connected /\ ~t.stop /\ t.waiting # <<>>
  <2>1. PICK y, q : y = Head(t.waiting) /\ q = Tail(t.waiting)
    BY Zenon
  <2>2. t.waiting \in Queues
    BY <1>2 DEF WorldT
  <2>3. y \in Assets /\ q \in Queues
    BY Zenon, <1>5, <2>1, <2>2, Shorter
  <2>4. PICK u : u = [t EXCEPT !.waiting = q]
    BY Zenon
  <2>5. /\ u \in WorldT(O) /\ u.ras = w.ras /\ u.posted = w.posted
        /\ u.connected = w.connected /\ u.monitor = w.monitor
        /\ u.stop = w.stop /\ u.endpoint = w.endpoint /\ u.trouble = w.trouble
    BY <1>2, <2>3, <2>4 DEF WorldT
  <2>6. Base(u)
    BY Zenon, <1>2, <1>4, <1>5, <2>5, BaseLike
  <2>7. PICK v : v = doPutAsset(u, y)
    BY Zenon
  <2>8. onAfterAssetPut(w, x, o) = v
    BY Zenon, <1>3, <1>5, <2>1, <2>4, <2>7 DEF pushNextWaitingAsset
  <2>9. v \in WorldT(O) /\ Puts(v, u)
    BY Zenon, <1>2, <1>5, <2>3, <2>5, <2>6, <2>7, PutBase
  <2>10. Keeps(v, w)
    BY Zenon, <2>5, <2>9 DEF Keeps, Puts
  <2>11. v.connected = w.connected /\ ~v.stop
    <3>1. v.connected /\ w.connected
      BY Zenon, <1>2, <1>5, <2>9 DEF Puts
    <3>2. ~v.stop
      BY Zenon, <1>2, <1>5, <2>10 DEF Keeps
    <3>3. QED
      BY <2>9, <3>1, <3>2 DEF WorldT
  <2>12. QED
    BY Zenon, <2>5, <2>8, <2>9, <2>10, <2>11 DEF Answers, Puts
<1>6. CASE ~(t.connected /\ ~t.stop /\ t.waiting # <<>>)
  <2>1. onAfterAssetPut(w, x, o) = t
    BY Zenon, <1>3, <1>6 DEF pushNextWaitingAsset
  <2>2. Keeps(t, w)
    BY Zenon, <1>2 DEF Keeps
  <2>3. QED
    BY Zenon, <1>2, <1>4, <1>6, <2>1, <2>2 DEF Answers
<1>7. QED
  BY Zenon, <1>5, <1>6

(***************************************************************************)
(* close.                                                                  *)
(***************************************************************************)
\* A connection that is being closed.
Closing(v, w) == Base(v) /\ Keeps(v, w) /\ v.connected /\ ~v.ras.est

FailT(w) == FailTransfer(w, onAfterAssetPut)
FailC(w) == FailCallback(w, onAfterAssetPut)

\* One callback of the queue of transfers is run.
LEMMA FailTClosing ==
    ASSUME NEW O, NEW w, NEW u \in WorldT(O), Closing(u, w)
    PROVE  FailT(u) \in WorldT(O) /\ Closing(FailT(u), w)
<1>1. CASE u.ras.transferq = <<>>
  <2>1. FailT(u) = u
    BY Zenon, <1>1 DEF FailT, FailTransfer
  <2>2. QED
    BY Zenon, <2>1
<1>2. CASE u.ras.transferq # <<>>
  <2>1. PICK a : a = onAfterAssetPut(u, Head(u.ras.transferq), "fatal")
    BY Zenon
  <2>2. a \in WorldT(O) /\ Answers(a, u)
    BY Zenon, <2>1, AnswerBase DEF Closing
  <2>3. a.ras.transferq # <<>>
    BY Zenon, <1>2, <2>2 DEF Answers
  <2>4. a.ras.transferq \in Queues
    BY <2>2 DEF WorldT, RasT
  <2>5. PICK q \in Queues : q = Tail(a.ras.transferq)
    BY Zenon, <2>3, <2>4, Shorter
  <2>6. PICK v : v = [a EXCEPT !.ras.transferq = q]
    BY Zenon
  <2>7. FailT(u) = v
    BY Zenon, <1>2, <2>1, <2>5, <2>6 DEF FailT, FailTransfer
  <2>8. /\ v \in WorldT(O) /\ v.posted = a.posted /\ v.connected = a.connected
        /\ v.ras.phase = a.ras.phase /\ v.ras.recv = a.ras.recv /\ v.ras.send = a.ras.send
        /\ v.ras.est = a.ras.est /\ v.monitor = a.monitor /\ v.stop = a.stop
        /\ v.endpoint = a.endpoint /\ v.trouble = a.trouble
    BY <2>2, <2>6 DEF WorldT, RasT
  <2>9. a.connected /\ ~a.ras.est /\ Keeps(a, w)
    BY Zenon, <2>2 DEF Answers, Closing, Keeps
  <2>10. Base(v)
    BY Zenon, <2>2, <2>8, <2>9, BaseLike DEF Answers
  <2>11. Keeps(v, w)
    BY Zenon, <2>8, <2>9 DEF Keeps
  <2>12. QED
    BY Zenon, <2>7, <2>8, <2>9, <2>10, <2>11 DEF Closing
<1>3. QED
  BY Zenon, <1>1, <1>2

\* The natural numbers are well ordered.
LEMMA NatMin ==
    ASSUME NEW T, T \subseteq Nat, T # {}
    PROVE  \E x \in T : \A y \in T : x <= y
<1> DEFINE R == {p \in Nat \X Nat : p[1] < p[2]}
<1>1. IsWellFoundedOn(R, Nat)
  BY Zenon, NatLessThanWellFounded DEF OpToRel
<1>2. \A x, y \in Nat : y < x => <<y, x>> \in R
  BY Zenon
<1> HIDE DEF R
<1>3. PICK x \in T : \A y \in T : ~ (<<y, x>> \in R)
  BY Zenon, <1>1, WFMin
<1>4. ASSUME NEW y \in T PROVE x <= y
  <2>1. x \in Nat /\ y \in Nat
    BY Zenon
  <2>2. ~(y < x)
    BY Zenon, <1>2, <1>3, <2>1
  <2>3. QED
    BY <2>1, <2>2
<1>5. QED
  BY Zenon, <1>4

\* One callback of the other queue is run.
LEMMA FailCClosing ==
    ASSUME NEW O, NEW w, NEW u \in WorldT(O), Closing(u, w)
    PROVE  FailC(u) \in WorldT(O) /\ Closing(FailC(u), w)
<1>1. CASE u.ras.callbackq = <<>>
  <2>1. FailC(u) = u
    BY Zenon, <1>1 DEF FailC, FailCallback
  <2>2. QED
    BY Zenon, <2>1
<1>2. CASE u.ras.callbackq # <<>>
  <2>1. PICK a : a = onAfterAssetPut(u, Head(u.ras.callbackq), "fatal")
    BY Zenon
  <2>2. a \in WorldT(O) /\ Answers(a, u)
    BY Zenon, <2>1, AnswerBase DEF Closing
  <2>3. a.ras.callbackq # <<>>
    BY Zenon, <1>2, <2>2 DEF Answers
  <2>4. a.ras.callbackq \in Queues
    BY <2>2 DEF WorldT, RasT
  <2>5. PICK q \in Queues : q = Tail(a.ras.callbackq)
    BY Zenon, <2>3, <2>4, Shorter
  <2>6. PICK v : v = [a EXCEPT !.ras.callbackq = q]
    BY Zenon
  <2>7. FailC(u) = v
    BY Zenon, <1>2, <2>1, <2>5, <2>6 DEF FailC, FailCallback
  <2>8. /\ v \in WorldT(O) /\ v.posted = a.posted /\ v.connected = a.connected
        /\ v.ras.phase = a.ras.phase /\ v.ras.recv = a.ras.recv /\ v.ras.send = a.ras.send
        /\ v.ras.est = a.ras.est /\ v.monitor = a.monitor /\ v.stop = a.stop
        /\ v.endpoint = a.endpoint /\ v.trouble = a.trouble
    BY Zenon, <2>2, <2>6 DEF WorldT, RasT
  <2>9. a.connected /\ ~a.ras.est /\ Keeps(a, w)
    BY Zenon, <2>2 DEF Answers, Closing, Keeps
  <2>10. Base(v)
    BY Zenon, <2>2, <2>8, <2>9, BaseLike DEF Answers
  <2>11. Keeps(v, w)
    BY Zenon, <2>8, <2>9 DEF Keeps
  <2>12. QED
    BY Zenon, <2>7, <2>8, <2>9, <2>10, <2>11 DEF Closing
<1>3. QED
  BY Zenon, <1>1, <1>2

\* Either queue; f is what emptying it goes through, from w and for m callbacks.
Fail(w, q) == IF q = "transfer" THEN FailT(w) ELSE FailC(w)
Fails(f, w, m, q) == f = [n \in 0 .. m |-> IF n = 0 THEN w ELSE Fail(f[n - 1], q)]

\* The recursive function exists.
LEMMA FailsExist ==
    ASSUME NEW w, NEW q, NEW m \in Nat
    PROVE  \E f : Fails(f, w, m, q)
<1> DEFINE T == {n \in Nat : ~\E f : Fails(f, w, n, q)}
<1>1. SUFFICES ASSUME T # {} PROVE FALSE
  BY Zenon
<1>2. PICK n \in T : \A l \in T : n <= l
  BY Zenon, <1>1, NatMin
<1>3. n \in Nat /\ ~\E f : Fails(f, w, n, q)
  BY Zenon
<1>4. CASE n = 0
  <2> DEFINE f == [l \in 0 .. 0 |-> w]
  <2>1. f = [l \in 0 .. 0 |-> IF l = 0 THEN w ELSE Fail(f[l - 1], q)]
    OBVIOUS
  <2>2. Fails(f, w, 0, q)
    BY Zenon, <2>1 DEF Fails
  <2>3. QED
    BY Zenon, <1>3, <1>4, <2>2
<1>5. CASE n # 0
  <2>1. n - 1 \in Nat /\ ~(n <= n - 1)
    BY <1>3, <1>5
  <2>2. n - 1 \notin T
    BY Zenon, <1>2, <2>1
  <2>3. PICK g : Fails(g, w, n - 1, q)
    BY Zenon, <2>1, <2>2
  <2>4. g = [l \in 0 .. n - 1 |-> IF l = 0 THEN w ELSE Fail(g[l - 1], q)]
    BY Zenon, <2>3 DEF Fails
  <2>5. \A l \in 0 .. n - 1 : g[l] = IF l = 0 THEN w ELSE Fail(g[l - 1], q)
    BY Zenon, <2>4
  <2> DEFINE f == [l \in 0 .. n |-> IF l < n THEN g[l] ELSE Fail(g[n - 1], q)]
             h == [l \in 0 .. n |-> IF l = 0 THEN w ELSE Fail(f[l - 1], q)]
  <2>6. ASSUME NEW l \in 0 .. n PROVE f[l] = h[l]
    <3>1. CASE l = 0
      BY <1>3, <1>5, <2>1, <2>5, <3>1
    <3>2. CASE l # 0
      <4>1. PICK k \in 0 .. n - 1 : k = l - 1 /\ k \in 0 .. n /\ k < n
        BY <1>3, <3>2
      <4>2. f[k] = g[k] /\ h[l] = Fail(f[k], q)
        BY Zenon, <3>2, <4>1
      <4>3. l < n => l \in 0 .. n - 1
        BY <1>3
      <4>4. l < n => f[l] = Fail(g[k], q)
        BY Zenon, <2>5, <3>2, <4>1, <4>3
      <4>5. ~(l < n) => k = n - 1
        BY <1>3, <4>1
      <4>6. ~(l < n) => f[l] = Fail(g[k], q)
        BY Zenon, <4>5
      <4>7. QED
        BY Zenon, <4>2, <4>4, <4>6
    <3>3. QED
      BY Zenon, <3>1, <3>2
  <2>7. f = h
    BY Zenon, <2>6
  <2>8. Fails(f, w, n, q)
    BY Zenon, <2>7 DEF Fails
  <2>9. QED
    BY Zenon, <1>3, <2>8
<1>6. QED
  BY Zenon, <1>4, <1>5

\* Whatever number of callbacks is run, the connection stays one that is being closed.
LEMMA FailsClosing ==
    ASSUME NEW O, NEW w, NEW u \in WorldT(O), Closing(u, w), NEW q,
           NEW m \in Nat, NEW f, Fails(f, u, m, q)
    PROVE  f[m] \in WorldT(O) /\ Closing(f[m], w)
<1> DEFINE P(l) == f[l] \in WorldT(O) /\ Closing(f[l], w)
           T == {l \in 0 .. m : ~P(l)}
<1>1. \A l \in 0 .. m : f[l] = IF l = 0 THEN u ELSE Fail(f[l - 1], q)
  <2>1. f = [l \in 0 .. m |-> IF l = 0 THEN u ELSE Fail(f[l - 1], q)]
    BY Zenon DEF Fails
  <2>2. QED
    BY Zenon, <2>1
<1>2. SUFFICES ASSUME T # {} PROVE FALSE
  <2>1. m \in 0 .. m
    OBVIOUS
  <2>2. QED
    BY Zenon, <2>1
<1>3. PICK l \in T : \A k \in T : l <= k
  <2>1. T \subseteq Nat
    OBVIOUS
  <2>2. QED
    BY Zenon, <1>2, <2>1, NatMin
<1>4. CASE l = 0
  BY Zenon, <1>1, <1>3, <1>4
<1>5. CASE l # 0
  <2>1. PICK k \in 0 .. m : k = l - 1 /\ ~(l <= k)
    BY <1>5
  <2>2. P(k)
    BY Zenon, <1>3, <2>1
  <2>3. f[l] = Fail(f[k], q)
    BY Zenon, <1>1, <1>5, <2>1
  <2>4. PICK g : g = f[k]
    BY Zenon
  <2>5. Fail(g, q) \in WorldT(O) /\ Closing(Fail(g, q), w)
    BY Zenon, <2>2, <2>4, FailTClosing, FailCClosing DEF Fail
  <2>6. QED
    BY Zenon, <1>3, <2>3, <2>4, <2>5
<1>6. QED
  BY Zenon, <1>4, <1>5

DrainT(w) == DrainTransfers(w, onAfterAssetPut)
DrainC(w) == DrainCallbacks(w, onAfterAssetPut)

\* The queue of transfers is emptied.
LEMMA DrainTClosing ==
    ASSUME NEW O, NEW w, NEW u \in WorldT(O), Closing(u, w)
    PROVE  DrainT(u) \in WorldT(O) /\ Closing(DrainT(u), w)
<1> DEFINE Q(f) == f = [n \in 0 .. DrainLimit |-> IF n = 0 THEN u ELSE FailT(f[n - 1])]
<1>1. DrainT(u) = (CHOOSE f : Q(f))[DrainLimit]
  BY Zenon DEF DrainT, DrainTransfers, FailT
<1>2. \A f : Fails(f, u, DrainLimit, "transfer") <=> Q(f)
  <2>1. \A x : Fail(x, "transfer") = FailT(x)
    BY Zenon DEF Fail
  <2>2. \A f : [n \in 0 .. DrainLimit |-> IF n = 0 THEN u ELSE Fail(f[n - 1], "transfer")]
                = [n \in 0 .. DrainLimit |-> IF n = 0 THEN u ELSE FailT(f[n - 1])]
    BY <2>1
  <2>3. QED
    BY Zenon, <2>2 DEF Fails
<1>3. PICK f : Q(f) /\ f = CHOOSE g : Q(g)
  BY Zenon, <1>2, DrainAssumption, FailsExist
<1> HIDE DEF Q
<1>4. Fails(f, u, DrainLimit, "transfer")
  BY Zenon, <1>2, <1>3
<1>5. QED
  BY Zenon, <1>1, <1>3, <1>4, DrainAssumption, FailsClosing

\* And the callbacks of the requests that were sent.
LEMMA DrainCClosing ==
    ASSUME NEW O, NEW w, NEW u \in WorldT(O), Closing(u, w)
    PROVE  DrainC(u) \in WorldT(O) /\ Closing(DrainC(u), w)
<1> DEFINE Q(f) == f = [n \in 0 .. DrainLimit |-> IF n = 0 THEN u ELSE FailC(f[n - 1])]
<1>1. DrainC(u) = (CHOOSE f : Q(f))[DrainLimit]
  BY Zenon DEF DrainC, DrainCallbacks, FailC
<1>2. \A f : Fails(f, u, DrainLimit, "callback") <=> Q(f)
  <2>1. "callback" # "transfer"
    OBVIOUS
  <2>2. \A x : Fail(x, "callback") = FailC(x)
    BY Zenon, <2>1 DEF Fail
  <2>3. \A f : [n \in 0 .. DrainLimit |-> IF n = 0 THEN u ELSE Fail(f[n - 1], "callback")]
                = [n \in 0 .. DrainLimit |-> IF n = 0 THEN u ELSE FailC(f[n - 1])]
    BY <2>2
  <2>4. QED
    BY Zenon, <2>3 DEF Fails
<1>3. PICK f : Q(f) /\ f = CHOOSE g : Q(g)
  BY Zenon, <1>2, DrainAssumption, FailsExist
<1> HIDE DEF Q
<1>4. Fails(f, u, DrainLimit, "callback")
  BY Zenon, <1>2, <1>3
<1>5. QED
  BY Zenon, <1>1, <1>3, <1>4, DrainAssumption, FailsClosing
\* A handler becomes ready, and nothing else changes.
Ready1(v, w, h) ==
    /\ Base(v) /\ v.ras = w.ras /\ v.connected = w.connected /\ v.sending = w.sending
    /\ v.waiting = w.waiting /\ v.endpoint = w.endpoint /\ v.monitor = w.monitor
    /\ v.stop = w.stop /\ v.trouble = w.trouble
    /\ \A g : Has(v.posted, g) <=> Has(w.posted, g) \/ h = g

\* Post.
LEMMA PostBase ==
    ASSUME NEW O, NEW w \in WorldT(O), Base(w), NEW h, NEW x,
           [h |-> h, v |-> x] \in Handler, MayPost([h |-> h, v |-> x], w.posted, w.ras),
           h # "error"
    PROVE  Post(w, h, x) \in WorldT(O) /\ Ready1(Post(w, h, x), w, h)
<1>1. PICK e \in Handler : e = [h |-> h, v |-> x] /\ e.h = h
  OBVIOUS
<1>2. w.posted \in Handlers
  BY DEF WorldT
<1>3. PICK p \in Handlers : p = Append(w.posted, e) /\ Orderly(p, w.ras)
  BY Zenon, <1>1, <1>2, PostOrderly DEF Base
<1>4. \A g : Has(p, g) <=> Has(w.posted, g) \/ h = g
  <2>1. \A g : Has(p, g) <=> Has(w.posted, g) \/ e.h = g
    BY Zenon, <1>2, <1>3, Posted
  <2>2. QED
    BY Zenon, <1>1, <2>1
<1>5. PICK v : v = [w EXCEPT !.posted = p]
  BY Zenon
<1>6. Post(w, h, x) = v
  BY Zenon, <1>1, <1>3, <1>5 DEF Post
<1>7. /\ v \in WorldT(O) /\ v.posted = p
      /\ v.ras = w.ras /\ v.connected = w.connected /\ v.sending = w.sending
      /\ v.waiting = w.waiting /\ v.endpoint = w.endpoint /\ v.monitor = w.monitor
      /\ v.stop = w.stop /\ v.trouble = w.trouble
  BY <1>5 DEF WorldT
<1>8. Base(v)
  BY Zenon, <1>3, <1>4, <1>7 DEF Base
<1>9. QED
  BY Zenon, <1>4, <1>6, <1>7, <1>8 DEF Ready1

\* What close leaves of the world before it runs the callbacks.
Cancels(v, w) == Base(v) /\ Keeps(v, w) /\ v.ras = w.ras /\ v.connected = w.connected

\* An operation that is outstanding fails.
LEMMA AbortedBase ==
    ASSUME NEW O, NEW w \in WorldT(O), Base(w), NEW h \in {"recv", "send"}, NEW b,
           b <=> IF h = "recv" THEN w.ras.recv # "none" ELSE w.ras.send
    PROVE  Aborted(w, h, b) \in WorldT(O) /\ Cancels(Aborted(w, h, b), w)
<1>1. CASE b /\ ~Ready(w, h)
  <2>1. Aborted(w, h, b) = Post(w, h, "fail")
    BY Zenon, <1>1 DEF Aborted
  <2>2. [h |-> h, v |-> "fail"] \in Handler
    BY Zenon, HandlersAre
  <2>3. MayPost([h |-> h, v |-> "fail"], w.posted, w.ras)
    <3>1. ~Has(w.posted, h)
      BY Zenon, <1>1 DEF Ready, Has
    <3>2. QED
      BY <1>1, <3>1 DEF MayPost
  <2>4. h # "error" /\ h # "monitor"
    OBVIOUS
  <2>5. Post(w, h, "fail") \in WorldT(O) /\ Ready1(Post(w, h, "fail"), w, h)
    BY Zenon, <2>2, <2>3, <2>4, PostBase
  <2>6. QED
    BY Zenon, <2>1, <2>4, <2>5 DEF Ready1, Cancels, Keeps
<1>2. CASE ~(b /\ ~Ready(w, h))
  <2>1. Aborted(w, h, b) = w
    BY Zenon, <1>2 DEF Aborted
  <2>2. QED
    BY Zenon, <2>1 DEF Cancels, Keeps
<1>3. QED
  BY Zenon, <1>1, <1>2

Check(w) == CheckSafeKill(w, onSafeKillConnection)

\* A connection of which nothing is outstanding is given up.
Checks(v, w) ==
    /\ Base(v) /\ Keeps(v, w) /\ v.ras = w.ras /\ v.posted = w.posted
    /\ w.ras.est => v = w

\* checkSafeKill.
LEMMA CheckBase ==
    ASSUME NEW O, NEW w \in WorldT(O), Base(w)
    PROVE  Check(w) \in WorldT(O) /\ Checks(Check(w), w)
<1>1. CASE ~w.ras.est /\ w.ras.recv = "none" /\ ~w.ras.send
  <2>1. PICK v : v = [w EXCEPT !.connected = FALSE, !.sending = FALSE, !.waiting = <<>>]
    BY Zenon
  <2>2. Check(w) = v
    BY Zenon, <1>1, <2>1 DEF Check, CheckSafeKill, Killable, onSafeKillConnection
  <2>3. <<>> \in Queues
    BY DEF Queues
  <2>4. /\ v \in WorldT(O) /\ ~v.connected /\ ~v.sending /\ v.waiting = <<>>
        /\ v.ras = w.ras /\ v.endpoint = w.endpoint /\ v.monitor = w.monitor
        /\ v.stop = w.stop /\ v.trouble = w.trouble /\ v.posted = w.posted
    BY Zenon, <2>1, <2>3 DEF WorldT
  <2>5. Base(v)
    BY Zenon, <1>1, <2>4 DEF Base
  <2>6. QED
    BY Zenon, <1>1, <2>2, <2>4, <2>5 DEF Checks, Keeps
<1>2. CASE ~(~w.ras.est /\ w.ras.recv = "none" /\ ~w.ras.send)
  <2>1. Check(w) = w
    BY Zenon, <1>2 DEF Check, CheckSafeKill, Killable
  <2>2. QED
    BY Zenon, <2>1 DEF Checks, Keeps
<1>3. QED
  BY Zenon, <1>1, <1>2

\* The connection was closed, and perhaps given up.
Closed(v, w) == Base(v) /\ Keeps(v, w) /\ ~v.ras.est

\* close.
LEMMA CloseIs ==
    ASSUME NEW O, NEW w \in WorldT(O), Base(w), w.connected
    PROVE  Close(w) \in WorldT(O) /\ Closed(Close(w), w)
<1>1. PICK a : a = Aborted(w, "recv", w.ras.recv # "none")
  BY Zenon
<1>2. a \in WorldT(O) /\ Cancels(a, w)
  <2>1. (w.ras.recv # "none") <=> IF "recv" = "recv" THEN w.ras.recv # "none" ELSE w.ras.send
    BY Zenon
  <2>2. QED
    BY Zenon, <1>1, <2>1, AbortedBase
<1>3. PICK b : b = Aborted(a, "send", w.ras.send)
  BY Zenon
<1>4. b \in WorldT(O) /\ Cancels(b, a)
  <2>1. w.ras.send <=> IF "send" = "recv" THEN a.ras.recv # "none" ELSE a.ras.send
    BY <1>2 DEF Cancels
  <2>2. QED
    BY Zenon, <1>2, <1>3, <2>1, AbortedBase DEF Cancels
<1>5. /\ Base(b) /\ Keeps(b, w) /\ b.ras = w.ras /\ b.connected
      /\ b.ras.phase = "done" /\ w.ras.phase \notin Handshake
  BY Zenon, <1>2, <1>4, DoneIs DEF Cancels, Keeps, Base
<1>6. Aborted(b, "conn", w.ras.phase \in Handshake) = b
  BY Zenon, <1>5 DEF Aborted
<1>7. PICK u : u = [b EXCEPT !.ras.est = FALSE, !.ras.open = FALSE]
  BY Zenon
<1>8. /\ u \in WorldT(O) /\ u.posted = b.posted /\ u.connected = b.connected
      /\ u.ras.phase = b.ras.phase /\ u.ras.recv = b.ras.recv /\ u.ras.send = b.ras.send
      /\ ~u.ras.est /\ u.monitor = b.monitor /\ u.stop = b.stop
      /\ u.endpoint = b.endpoint /\ u.trouble = b.trouble
  BY ZenonT(60), <1>4, <1>7 DEF WorldT, RasT
<1>9. Base(u)
  <2>1. Orderly(u.posted, u.ras)
    BY Zenon, <1>5, <1>8, OrderlySame DEF Base
  <2>2. QED
    BY Zenon, <1>5, <1>8, <2>1, DoneIs DEF Base
<1>10. Closing(u, w)
  BY Zenon, <1>5, <1>8, <1>9 DEF Closing, Keeps
<1>11. PICK t : t = DrainT(u)
  BY Zenon
<1>12. t \in WorldT(O) /\ Closing(t, w)
  BY Zenon, <1>8, <1>10, <1>11, DrainTClosing
<1>13. PICK c : c = DrainC(t)
  BY Zenon
<1>14. c \in WorldT(O) /\ Closing(c, w)
  BY Zenon, <1>12, <1>13, DrainCClosing
<1>15. Close(w) = Check(c)
  BY Zenon, <1>1, <1>3, <1>6, <1>7, <1>11, <1>13 DEF Close, close, Shut, Then, DrainT, DrainC, Check
<1>16. Check(c) \in WorldT(O) /\ Checks(Check(c), c)
  BY Zenon, <1>14, CheckBase DEF Closing
<1>17. QED
  BY Zenon, <1>14, <1>15, <1>16 DEF Checks, Closing, Closed, Keeps
(***************************************************************************)
(* What holds between the handlers.                                        *)
(***************************************************************************)
Counted(w) ==
    w.ras.est => IF w.stop THEN w.ras.transferq = <<>>
                 ELSE /\ Len(w.ras.callbackq) + Len(w.ras.transferq) = IF w.sending THEN 1 ELSE 0
                      /\ w.waiting # <<>> => w.sending
Driven(w) ==
    /\ ~(w.monitor /\ Has(w.posted, "monitor"))
    /\ ~w.stop => /\ w.monitor \/ Has(w.posted, "monitor") \/ w.ras.phase \in Handshake
                  /\ w.ras.phase \in Handshake => ~w.monitor /\ ~Has(w.posted, "monitor")
Fine(w) == Base(w) /\ Counted(w) /\ Driven(w) /\ "busyFreed" \notin w.trouble

\* The world in which the handler e runs: it is no longer ready.
Took(w, e) ==
    /\ Base(w) /\ Counted(w) /\ "busyFreed" \notin w.trouble
    /\ e.h = "monitor" => /\ ~w.monitor /\ ~Has(w.posted, "monitor")
                          /\ ~w.stop => w.ras.phase \notin Handshake
    /\ e.h # "monitor" => Driven(w)
    /\ e.h \in {"recv", "send", "conn"} => ~Has(w.posted, e.h)
    /\ e.h = "recv" => /\ w.connected
                       /\ e.v = "rest" => w.ras.recv \in {"data", "error"}
    /\ e.h = "send" => w.connected
    /\ e.h = "conn" => w.ras.phase \in Handshake /\ ~Has(w.posted, "error")
    /\ e.h = "error" => ~w.ras.est

\* The first handler is taken.
LEMMA TakeFine ==
    ASSUME NEW O, NEW z \in WorldT(O), Fine(z), z.posted # <<>>
    PROVE  /\ Head(z.posted) \in Handler
           /\ [z EXCEPT !.posted = Tail(@)] \in WorldT(O)
           /\ Took([z EXCEPT !.posted = Tail(@)], Head(z.posted))
<1>1. PICK e, p : e = Head(z.posted) /\ p = Tail(z.posted)
  BY Zenon
<1>2. z.posted \in Handlers
  BY DEF WorldT
<1>3. /\ p \in Handlers /\ e \in Handler
      /\ \A h : Has(z.posted, h) <=> Has(p, h) \/ e.h = h
      /\ \A h : One(z.posted, h) => One(p, h) /\ (e.h = h => ~Has(p, h))
      /\ e.h = "recv" /\ e.v = "rest" => Rest(z.posted)
      /\ Rest(p) => Rest(z.posted)
      /\ ConnLast(z.posted) => ConnLast(p) /\ (e.h = "conn" => ~Has(p, "error"))
  BY Zenon, <1>1, <1>2, Taken
<1>4. PICK w : w = [z EXCEPT !.posted = p]
  BY Zenon
<1>5. /\ w \in WorldT(O) /\ w.posted = p
      /\ w.ras = z.ras /\ w.connected = z.connected /\ w.sending = z.sending
      /\ w.waiting = z.waiting /\ w.endpoint = z.endpoint /\ w.monitor = z.monitor
      /\ w.stop = z.stop /\ w.trouble = z.trouble
  BY <1>3, <1>4 DEF WorldT
<1>6. Base(z) /\ Orderly(z.posted, z.ras)
  BY Zenon DEF Fine, Base
<1>7. \A h \in {"monitor", "recv", "send", "conn"} : One(p, h) /\ (e.h = h => ~Has(p, h))
  BY Zenon, <1>3, <1>6 DEF Orderly
<1>8. Base(w)
  <2>1. Orderly(p, z.ras)
    BY Zenon, <1>3, <1>6, <1>7 DEF Orderly
  <2>2. QED
    BY Zenon, <1>3, <1>5, <1>6, <2>1 DEF Base
<1>9. Counted(w) /\ "busyFreed" \notin w.trouble
  BY Zenon, <1>5 DEF Fine, Counted
<1>10. /\ e.h \in {"recv", "send", "conn"} => ~Has(p, e.h)
       /\ e.h = "monitor" => ~Has(p, "monitor")
  BY Zenon, <1>7
<1>11. /\ e.h = "recv" => z.connected /\ (e.v = "rest" => z.ras.recv \in {"data", "error"})
       /\ e.h = "send" => z.connected
       /\ e.h = "conn" => z.ras.phase \in Handshake /\ ~Has(p, "error")
       /\ e.h = "error" => ~z.ras.est
  <2>1. Has(z.posted, e.h)
    BY Zenon, <1>3
  <2>2. ConnLast(z.posted)
    BY Zenon, <1>6 DEF Orderly
  <2>3. e.h = "conn" => z.ras.phase \in Handshake /\ ~Has(p, "error")
    BY Zenon, <1>3, <1>6, <2>1, <2>2 DEF Orderly
  <2>4. e.h = "recv" => z.connected /\ (e.v = "rest" => z.ras.recv \in {"data", "error"})
    BY Zenon, <1>3, <1>6, <2>1 DEF Orderly, Base
  <2>5. e.h = "send" => z.connected
    BY Zenon, <1>6, <2>1 DEF Orderly, Base
  <2>6. e.h = "error" => ~z.ras.est
    BY Zenon, <1>6, <2>1 DEF Base
  <2>7. QED
    BY Zenon, <2>3, <2>4, <2>5, <2>6
<1>12. e.h = "monitor" => ~z.monitor /\ (~z.stop => z.ras.phase \notin Handshake)
  BY Zenon, <1>3 DEF Fine, Driven
<1>13. e.h # "monitor" => Driven(w)
  BY Zenon, <1>3, <1>5 DEF Fine, Driven
<1>14. Took(w, e)
  BY Zenon, <1>5, <1>8, <1>9, <1>10, <1>11, <1>12, <1>13 DEF Took
<1>15. QED
  BY Zenon, <1>1, <1>3, <1>4, <1>5, <1>14

\* What follows from what a handler keeps.
LEMMA KeepsFine ==
    ASSUME NEW v, NEW w, Base(v), Counted(v), Keeps(v, w), Driven(w),
           "busyFreed" \notin w.trouble
    PROVE  Fine(v)
  BY Zenon DEF Keeps, Driven, Fine

\* There is nothing to count once the connection was lost.
LEMMA LostCounted ==
    ASSUME NEW v, ~v.ras.est
    PROVE  Counted(v)
  BY Zenon DEF Counted

\* doQueueAssetForPush.
LEMMA QueueFine ==
    ASSUME NEW O, NEW w \in WorldT(O), Base(w), Counted(w), Driven(w),
           "busyFreed" \notin w.trouble, NEW x \in Assets
    PROVE  doQueueAssetForPush(w, x) \in WorldT(O) /\ Fine(doQueueAssetForPush(w, x))
<1>1. PICK v : v = doQueueAssetForPush(w, x)
  BY Zenon
<1>2. CASE v = w
  BY Zenon, <1>1, <1>2 DEF Fine
<1>3. CASE w.connected /\ w.sending /\ v = [w EXCEPT !.waiting = Append(@, x)]
  <2>1. w.waiting \in Queues
    BY DEF WorldT
  <2>2. PICK q \in Queues : q = Append(w.waiting, x)
    BY Zenon, <2>1, Longer
  <2>3. v = [w EXCEPT !.waiting = q]
    BY Zenon, <1>3, <2>2
  <2>4. /\ v \in WorldT(O) /\ v.posted = w.posted
        /\ v.ras = w.ras /\ v.connected = w.connected /\ v.sending = w.sending
        /\ v.endpoint = w.endpoint /\ v.monitor = w.monitor
        /\ v.stop = w.stop /\ v.trouble = w.trouble
    BY <2>3 DEF WorldT
  <2>5. Base(v) /\ Keeps(v, w)
    BY Zenon, <1>3, <2>4, BaseLike DEF Keeps
  <2>6. Counted(v)
    BY Zenon, <1>3, <2>4 DEF Counted
  <2>7. QED
    BY Zenon, <1>1, <2>4, <2>5, <2>6, KeepsFine
<1>4. CASE w.connected /\ ~w.stop /\ ~w.sending /\ v = doPutAsset(w, x)
  <2>1. v \in WorldT(O) /\ Puts(v, w)
    BY Zenon, <1>4, PutBase
  <2>2. Counted(v)
    <3>1. w.ras.est => Len(w.ras.callbackq) + Len(w.ras.transferq) = 0
      BY Zenon, <1>4 DEF Counted
    <3>2. PICK n : n = Len(w.ras.callbackq) + Len(w.ras.transferq)
      BY Zenon
    <3>3. n = 0 => n + 1 = 1
      OBVIOUS
    <3>4. ~v.stop
      BY Zenon, <1>4, <2>1 DEF Puts, Keeps
    <3>5. QED
      BY Zenon, <2>1, <3>1, <3>2, <3>3, <3>4 DEF Puts, Counted
  <2>3. QED
    BY Zenon, <1>1, <2>1, <2>2, KeepsFine DEF Puts
<1>5. QED
  BY Zenon, <1>1, <1>2, <1>3, <1>4 DEF doQueueAssetForPush

\* The error that was posted.
LEMMA ErrorFine ==
    ASSUME NEW O, NEW w \in WorldT(O), Base(w), Driven(w), "busyFreed" \notin w.trouble,
           ~w.ras.est, NEW x
    PROVE  onAfterAssetPut(w, x, "error") \in WorldT(O) /\ Fine(onAfterAssetPut(w, x, "error"))
<1>1. PICK v : v = onAfterAssetPut(w, x, "error")
  BY Zenon
<1>2. v \in WorldT(O) /\ Answers(v, w)
  BY Zenon, <1>1, AnswerBase
<1>3. QED
  BY Zenon, <1>1, <1>2, KeepsFine, LostCounted DEF Answers

\* doStop.
LEMMA StopFine ==
    ASSUME NEW O, NEW w \in WorldT(O), Base(w), Driven(w), "busyFreed" \notin w.trouble
    PROVE  doStop(w) \in WorldT(O) /\ Fine(doStop(w))
<1>1. PICK u : u = [w EXCEPT !.stop = TRUE]
  BY Zenon
<1>2. /\ u \in WorldT(O) /\ u.posted = w.posted
      /\ u.ras = w.ras /\ u.connected = w.connected /\ u.sending = w.sending
      /\ u.endpoint = w.endpoint /\ u.monitor = w.monitor /\ u.waiting = w.waiting
      /\ u.stop /\ u.trouble = w.trouble
  BY Zenon, <1>1 DEF WorldT
<1>3. Base(u) /\ Driven(u)
  BY Zenon, <1>2 DEF Base, Driven
<1>4. CASE w.connected
  <2>1. doStop(w) = Close(u)
    BY Zenon, <1>1, <1>4 DEF doStop
  <2>2. Close(u) \in WorldT(O) /\ Closed(Close(u), u)
    BY Zenon, <1>2, <1>3, <1>4, CloseIs
  <2>3. QED
    BY Zenon, <1>2, <1>3, <2>1, <2>2, KeepsFine, LostCounted DEF Closed
<1>5. CASE ~w.connected
  <2>1. doStop(w) = u
    BY Zenon, <1>1, <1>5 DEF doStop
  <2>2. ~u.ras.est
    BY Zenon, <1>2, <1>5 DEF Base
  <2>3. QED
    BY Zenon, <1>2, <1>3, <2>1, <2>2, LostCounted DEF Fine
<1>6. QED
  BY Zenon, <1>4, <1>5
\* onAfterWriteAssetRequest.
LEMMA WriteFine ==
    ASSUME NEW O, NEW w \in WorldT(O), Base(w), Counted(w), Driven(w),
           "busyFreed" \notin w.trouble, w.connected, ~Has(w.posted, "send"),
           NEW result
    PROVE  onWrite(w, result) \in WorldT(O) /\ Fine(onWrite(w, result))
<1>1. PICK u : u = [w EXCEPT !.ras.send = FALSE]
  BY Zenon
<1>2. /\ u \in WorldT(O) /\ u.posted = w.posted
      /\ u.connected = w.connected /\ u.sending = w.sending
      /\ u.endpoint = w.endpoint /\ u.monitor = w.monitor /\ u.waiting = w.waiting
      /\ u.stop = w.stop /\ u.trouble = w.trouble
      /\ u.ras.phase = w.ras.phase /\ u.ras.recv = w.ras.recv /\ u.ras.est = w.ras.est
      /\ u.ras.callbackq = w.ras.callbackq /\ u.ras.transferq = w.ras.transferq
  BY ZenonT(60), <1>1 DEF WorldT, RasT
<1>3. Base(u)
  <2>1. Orderly(u.posted, u.ras)
    BY Zenon, <1>2 DEF Base, Orderly
  <2>2. QED
    BY Zenon, <1>2, <2>1 DEF Base
<1>4. Counted(u) /\ Driven(u) /\ "busyFreed" \notin u.trouble /\ u.connected
  BY Zenon, <1>2 DEF Counted, Driven
<1>5. CASE result = "fail"
  <2>1. onWrite(w, result) = Close(u)
    BY Zenon, <1>1, <1>5 DEF onWrite, onAfterWriteAssetRequest, Close
  <2>2. Close(u) \in WorldT(O) /\ Closed(Close(u), u)
    BY Zenon, <1>2, <1>3, <1>4, CloseIs
  <2>3. QED
    BY Zenon, <1>4, <2>1, <2>2, KeepsFine, LostCounted DEF Closed
<1>6. CASE result # "fail"
  <2>1. PICK v : v = doNextQueuedRequest(u)
    BY Zenon
  <2>2. onWrite(w, result) = Check(v)
    BY Zenon, <1>1, <1>6, <2>1 DEF onWrite, onAfterWriteAssetRequest, Check
  <2>3. v \in WorldT(O) /\ Fine(v)
    <3>1. CASE ~(u.ras.est /\ u.ras.transferq # <<>>)
      <4>1. v = u
        BY Zenon, <2>1, <3>1 DEF doNextQueuedRequest
      <4>2. QED
        BY Zenon, <1>2, <1>3, <1>4, <4>1 DEF Fine
    <3>2. CASE u.ras.est /\ u.ras.transferq # <<>>
      <4>1. ~u.stop
        BY Zenon, <1>4, <3>2 DEF Counted
      <4>2. u.ras.transferq \in Queues /\ u.ras.callbackq \in Queues /\ u.sending \in BOOLEAN
        BY <1>2 DEF WorldT, RasT
      <4>3. PICK x, q : x = Head(u.ras.transferq) /\ q = Tail(u.ras.transferq)
        BY Zenon
      <4>4. x \in Assets /\ q \in Queues /\ Len(q) = Len(u.ras.transferq) - 1
        BY Zenon, <3>2, <4>2, <4>3, Shorter
      <4>5. /\ u.sending /\ Len(u.ras.callbackq) \in Nat /\ Len(u.ras.transferq) \in Nat
            /\ Len(u.ras.callbackq) + Len(u.ras.transferq) = 1
        <5>1. /\ Len(u.ras.callbackq) + Len(u.ras.transferq) = IF u.sending THEN 1 ELSE 0
          BY Zenon, <1>4, <3>2, <4>1 DEF Counted
        <5>2. Len(u.ras.callbackq) \in Nat /\ Len(u.ras.transferq) \in Nat /\ Len(q) \in Nat
          BY Zenon, <4>2, <4>4, LenProperties DEF Queues
        <5>3. Len(u.ras.transferq) # 0
          BY <4>4, <5>2
        <5>4. Len(u.ras.callbackq) + Len(u.ras.transferq) # 0
          <6>1. \A a, b \in Nat : b # 0 => a + b # 0
            OBVIOUS
          <6>2. QED
            BY Zenon, <5>2, <5>3, <6>1
        <5>5. QED
          BY Zenon, <5>1, <5>2, <5>4
      <4>6. PICK t : t = [u EXCEPT !.ras.transferq = q]
        BY Zenon
      <4>7. /\ t \in WorldT(O) /\ t.posted = u.posted
            /\ t.connected = u.connected /\ t.sending = TRUE
            /\ t.endpoint = u.endpoint /\ t.monitor = u.monitor /\ t.waiting = u.waiting
            /\ t.stop = u.stop /\ t.trouble = u.trouble
            /\ t.ras.phase = u.ras.phase /\ t.ras.recv = u.ras.recv /\ t.ras.est = u.ras.est
            /\ t.ras.send = u.ras.send /\ t.ras.callbackq = u.ras.callbackq /\ t.ras.transferq = q
        BY Zenon, <1>2, <4>2, <4>4, <4>5, <4>6 DEF WorldT, RasT
      <4>8. Base(t)
        BY Zenon, <1>3, <1>4, <4>7, BaseLike
      <4>9. [t EXCEPT !.sending = TRUE] = t
        BY <4>7 DEF WorldT
      <4>10. v = doPutAsset(t, x)
        BY Zenon, <2>1, <3>2, <4>1, <4>3, <4>6, <4>7, <4>9 DEF doNextQueuedRequest, doPutAsset
      <4>11. v \in WorldT(O) /\ Puts(v, t)
        BY Zenon, <1>4, <4>1, <4>4, <4>7, <4>8, <4>10, PutBase
      <4>12. Len(v.ras.callbackq) + Len(v.ras.transferq) = 1
        <5>1. Len(v.ras.callbackq) + Len(v.ras.transferq) = Len(t.ras.callbackq) + Len(t.ras.transferq) + 1
          BY Zenon, <4>11 DEF Puts
        <5>2. Len(t.ras.callbackq) + Len(t.ras.transferq) + 1 = 1
          <6>1. \A a, b \in Nat : a + b = 1 => a + (b - 1) + 1 = 1
            OBVIOUS
          <6>2. QED
            BY Zenon, <4>4, <4>5, <4>7, <6>1
        <5>3. QED
          BY Zenon, <5>1, <5>2
      <4>13. Counted(v)
        BY Zenon, <4>1, <4>7, <4>11, <4>12 DEF Counted, Puts, Keeps
      <4>14. Keeps(v, u)
        BY Zenon, <4>7, <4>11 DEF Puts, Keeps
      <4>15. QED
        BY Zenon, <1>4, <4>11, <4>13, <4>14, KeepsFine DEF Puts
    <3>3. QED
      BY Zenon, <3>1, <3>2
  <2>4. Check(v) \in WorldT(O) /\ Checks(Check(v), v)
    BY Zenon, <2>3, CheckBase DEF Fine
  <2>5. CASE v.ras.est
    BY Zenon, <2>2, <2>3, <2>4, <2>5 DEF Checks
  <2>6. CASE ~v.ras.est
    BY Zenon, <2>2, <2>3, <2>4, <2>6, KeepsFine, LostCounted DEF Checks, Fine
  <2>7. QED
    BY Zenon, <2>5, <2>6
<1>7. QED
  BY Zenon, <1>5, <1>6

\* A read is started, and nothing else.
Reading(v, w) ==
    /\ Base(v) /\ Keeps(v, w) /\ v.connected = w.connected /\ v.sending = w.sending
    /\ v.waiting = w.waiting /\ v.ras.est = w.ras.est
    /\ v.ras.callbackq = w.ras.callbackq /\ v.ras.transferq = w.ras.transferq

\* Read.
LEMMA ReadBase ==
    ASSUME NEW O, NEW w \in WorldT(O), Base(w), w.connected, w.ras.recv = "none",
           NEW k \in {"header", "data", "error"}
    PROVE  Read(w, k) \in WorldT(O) /\ Reading(Read(w, k), w)
<1>1. PICK u : u = [w EXCEPT !.ras.recv = k]
  BY Zenon
<1>2. /\ u \in WorldT(O) /\ u.posted = w.posted
      /\ u.connected = w.connected /\ u.sending = w.sending
      /\ u.endpoint = w.endpoint /\ u.monitor = w.monitor /\ u.waiting = w.waiting
      /\ u.stop = w.stop /\ u.trouble = w.trouble
      /\ u.ras.phase = w.ras.phase /\ u.ras.recv = k /\ u.ras.est = w.ras.est
      /\ u.ras.send = w.ras.send
      /\ u.ras.callbackq = w.ras.callbackq /\ u.ras.transferq = w.ras.transferq
  BY Zenon, <1>1 DEF WorldT, RasT
<1>3. ~Has(w.posted, "recv") /\ ~Rest(w.posted)
  BY Zenon DEF Base, Orderly, Has, Rest
<1>4. k # "none"
  OBVIOUS
<1>5. Base(u)
  <2>1. Orderly(u.posted, u.ras)
    BY Zenon, <1>2, <1>3 DEF Base, Orderly
  <2>2. QED
    BY Zenon, <1>2, <2>1 DEF Base
<1>6. CASE u.ras.open
  <2>1. Read(w, k) = u
    BY Zenon, <1>1, <1>6 DEF Read, Started
  <2>2. QED
    BY Zenon, <1>2, <1>5, <2>1 DEF Reading, Keeps
<1>7. CASE ~u.ras.open
  <2>1. PICK v : v = Post(u, "recv", "fail")
    BY Zenon
  <2>2. Read(w, k) = v
    BY Zenon, <1>1, <1>7, <2>1 DEF Read, Started
  <2>3. [h |-> "recv", v |-> "fail"] \in Handler
    BY Zenon, HandlersAre
  <2>4. MayPost([h |-> "recv", v |-> "fail"], u.posted, u.ras)
    BY <1>2, <1>3, <1>4 DEF MayPost
  <2>5. "recv" # "error" /\ "recv" # "monitor"
    OBVIOUS
  <2>6. v \in WorldT(O) /\ Ready1(v, u, "recv")
    BY Zenon, <1>2, <1>5, <2>1, <2>3, <2>4, <2>5, PostBase
  <2>7. QED
    BY Zenon, <1>2, <2>2, <2>5, <2>6 DEF Ready1, Reading, Keeps
<1>8. QED
  BY Zenon, <1>6, <1>7
\* Nothing but what the peer owes is different.
Owes(v, w) ==
    /\ v.posted = w.posted /\ v.connected = w.connected /\ v.sending = w.sending
    /\ v.endpoint = w.endpoint /\ v.monitor = w.monitor /\ v.waiting = w.waiting
    /\ v.stop = w.stop /\ v.trouble = w.trouble
    /\ v.ras.phase = w.ras.phase /\ v.ras.recv = w.ras.recv /\ v.ras.est = w.ras.est
    /\ v.ras.send = w.ras.send
    /\ v.ras.callbackq = w.ras.callbackq /\ v.ras.transferq = w.ras.transferq

\* The peer may owe anything.
LEMMA Wider ==
    ASSUME NEW O, NEW w \in WorldT(O), NEW y, NEW v, v = [w EXCEPT !.ras.owed = y]
    PROVE  \E P : v \in WorldT(P) /\ Owes(v, w)
<1>1. PICK P : P = {y}
  BY Zenon
<1>2. y \in P
  BY Zenon, <1>1
<1>3. v \in WorldT(P) /\ Owes(v, w)
  BY <1>2 DEF WorldT, RasT, Owes
<1>4. QED
  BY Zenon, <1>3

\* What two handlers keep.
LEMMA KeepsBoth ==
    ASSUME NEW u, NEW v, NEW w, Keeps(u, v), Keeps(v, w)
    PROVE  Keeps(u, w)
  BY Zenon DEF Keeps

\* Something else goes wrong than FreedIdle is about.
LEMMA WrongFine ==
    ASSUME NEW O, NEW w \in WorldT(O), Fine(w),
           NEW what \in {"noWaiter", "usedFreed", "escaped"}
    PROVE  Wrong(w, what) \in WorldT(O) /\ Fine(Wrong(w, what))
<1>1. PICK v : v = Wrong(w, what)
  BY Zenon
<1>2. PICK T \in SUBSET Troubles : T = w.trouble \cup {what} /\ ("busyFreed" \in T => "busyFreed" \in w.trouble)
  <2>1. w.trouble \in SUBSET Troubles
    BY DEF WorldT
  <2>2. what \in Troubles /\ what # "busyFreed"
    BY DEF Troubles
  <2>3. w.trouble \cup {what} \in SUBSET Troubles
    BY Zenon, <2>1, <2>2
  <2>4. QED
    BY Zenon, <2>2, <2>3
<1>3. v = [w EXCEPT !.trouble = T]
  BY Zenon, <1>1, <1>2 DEF Wrong
<1>4. /\ v \in WorldT(O) /\ v.trouble = T /\ v.posted = w.posted
      /\ v.ras = w.ras /\ v.connected = w.connected /\ v.sending = w.sending
      /\ v.waiting = w.waiting /\ v.endpoint = w.endpoint /\ v.monitor = w.monitor
      /\ v.stop = w.stop
  BY <1>3 DEF WorldT
<1>5. Base(v) /\ Counted(v) /\ Driven(v)
  BY Zenon, <1>4 DEF Fine, Base, Counted, Driven
<1>6. QED
  BY Zenon, <1>1, <1>2, <1>4, <1>5 DEF Fine

Answer1(w, outcome) == Answered(w, onAfterAssetPut, outcome)

\* Answered.
LEMMA AnsweredFine ==
    ASSUME NEW O, NEW w \in WorldT(O), Fine(w), w.connected, w.ras.recv = "none",
           NEW outcome
    PROVE  \E P : Answer1(w, outcome) \in WorldT(P) /\ Fine(Answer1(w, outcome))
<1>1. CASE w.ras.callbackq = <<>>
  <2>1. Answer1(w, outcome) = Wrong(w, "noWaiter")
    BY Zenon, <1>1 DEF Answer1, Answered
  <2>2. QED
    BY Zenon, <2>1, WrongFine
<1>2. CASE w.ras.callbackq # <<>>
  <2>1. PICK t : t = [w EXCEPT !.ras.owed = Tail(@)]
    BY Zenon
  <2>2. PICK y : t = [w EXCEPT !.ras.owed = y]
    BY Zenon, <2>1
  <2>3. PICK P : t \in WorldT(P) /\ Owes(t, w)
    BY Zenon, <2>2, Wider
  <2>4. Base(t) /\ Keeps(t, w)
    BY Zenon, <2>3, BaseLike DEF Fine, Keeps, Owes
  <2>5. PICK a : a = onAfterAssetPut(t, Head(w.ras.callbackq), outcome)
    BY Zenon
  <2>6. a \in WorldT(P) /\ Answers(a, t)
    BY Zenon, <2>3, <2>4, <2>5, AnswerBase DEF Owes
  <2>7. Answer1(w, outcome) = NextHeader(a, outcome)
    BY Zenon, <1>2, <2>1, <2>5 DEF Answer1, Answered, Then
  <2>8. a.connected /\ a.ras.phase = "done" /\ a.ras.callbackq # <<>> /\ a.ras.recv = "none"
    BY Zenon, <1>2, <2>3, <2>6 DEF Answers, Base, Owes
  <2>9. a.ras.callbackq \in Queues /\ a.ras.transferq \in Queues
    BY <2>6 DEF WorldT, RasT
  <2>10. PICK q \in Queues : q = Tail(a.ras.callbackq) /\ Len(q) = Len(a.ras.callbackq) - 1
    BY Zenon, <2>8, <2>9, Shorter
  <2>11. PICK u : u = [a EXCEPT !.ras.callbackq = q]
    BY Zenon
  <2>12. /\ u \in WorldT(P) /\ u.posted = a.posted
         /\ u.connected = a.connected /\ u.sending = a.sending
         /\ u.endpoint = a.endpoint /\ u.monitor = a.monitor /\ u.waiting = a.waiting
         /\ u.stop = a.stop /\ u.trouble = a.trouble
         /\ u.ras.phase = a.ras.phase /\ u.ras.recv = a.ras.recv /\ u.ras.est = a.ras.est
         /\ u.ras.send = a.ras.send
         /\ u.ras.callbackq = q /\ u.ras.transferq = a.ras.transferq
    BY <2>6, <2>11 DEF WorldT, RasT
  <2>13. Base(u)
    BY Zenon, <2>6, <2>8, <2>12, BaseLike DEF Answers
  <2>14. PICK v : v = Read(u, "header")
    BY Zenon
  <2>15. Answer1(w, outcome) = v
    BY Zenon, <2>7, <2>8, <2>10, <2>11, <2>14 DEF NextHeader
  <2>16. v \in WorldT(P) /\ Reading(v, u)
    BY Zenon, <2>8, <2>12, <2>13, <2>14, ReadBase
  <2>17. Counted(u)
    <3>1. CASE ~w.ras.est
      BY Zenon, <2>3, <2>6, <2>12, <3>1, LostCounted DEF Answers, Owes
    <3>2. CASE w.ras.est /\ w.stop
      <4>1. u.stop /\ a.stop /\ t.ras.transferq = <<>>
        BY Zenon, <2>3, <2>6, <2>12, <3>2 DEF Answers, Keeps, Fine, Counted, Owes
      <4>2. u.ras.transferq = <<>>
        BY Zenon, <2>6, <2>12, <4>1 DEF Answers
      <4>3. QED
        BY Zenon, <4>1, <4>2 DEF Counted
    <3>3. CASE w.ras.est /\ ~w.stop
      <4>1. PICK c, b, d, e \in Nat : /\ c = Len(w.ras.callbackq) /\ b = Len(w.ras.transferq)
                                      /\ d = Len(a.ras.callbackq) /\ e = Len(a.ras.transferq)
        <5>1. w.ras.callbackq \in Queues /\ w.ras.transferq \in Queues
          BY DEF WorldT, RasT
        <5>2. QED
          BY Zenon, <2>9, <5>1, LenProperties DEF Queues
      <4>2. c # 0
        <5>1. w.ras.callbackq \in Queues
          BY DEF WorldT, RasT
        <5>2. QED
          BY Zenon, <1>2, <4>1, <5>1, EmptySeq DEF Queues
      <4>3. c + b = IF w.sending THEN 1 ELSE 0
        BY Zenon, <3>3, <4>1 DEF Fine, Counted
      <4>4. c + b = 1
        <5>1. c + b # 0
          BY <4>2
        <5>2. QED
          BY Zenon, <4>3, <5>1
      <4>5. ~u.stop /\ u.connected
        BY Zenon, <2>3, <2>6, <2>8, <2>12, <3>3 DEF Answers, Keeps, Owes
      <4>6. CASE u.sending /\ d + e = c + b + 1
        <5>1. (d - 1) + e = 1
          BY <4>4, <4>6
        <5>2. QED
          BY Zenon, <2>10, <2>12, <4>1, <4>5, <4>6, <5>1 DEF Counted
      <4>7. CASE ~u.sending /\ d = c /\ e = b /\ u.waiting = <<>>
        <5>1. (d - 1) + e = 0
          BY <4>4, <4>7
        <5>2. QED
          BY Zenon, <2>10, <2>12, <4>1, <4>5, <4>7, <5>1 DEF Counted
      <4>8. QED
        BY Zenon, <2>3, <2>6, <2>12, <4>1, <4>5, <4>6, <4>7 DEF Answers, Owes
    <3>4. QED
      BY Zenon, <3>1, <3>2, <3>3
  <2>18. Counted(v)
    BY Zenon, <2>16, <2>17 DEF Counted, Reading, Keeps
  <2>19. Keeps(v, w)
    <3>1. Keeps(u, a)
      BY Zenon, <2>12 DEF Keeps
    <3>2. QED
      BY Zenon, <2>4, <2>6, <2>16, <3>1, KeepsBoth DEF Answers, Reading
  <2>20. Fine(v)
    BY Zenon, <2>16, <2>18, <2>19, KeepsFine DEF Reading, Fine
  <2>21. QED
    BY Zenon, <2>15, <2>16, <2>20
<1>3. QED
  BY Zenon, <1>1, <1>2
\* onReadResponseHeader, onReadResponseData and onHandleRequestErrorData.
LEMMA ResponseFine ==
    ASSUME NEW O, NEW w \in WorldT(O), Base(w), Counted(w), Driven(w),
           "busyFreed" \notin w.trouble, w.connected, ~Has(w.posted, "recv"),
           NEW result \in {"fail", "bare", "data", "error", "rest"},
           result = "rest" => w.ras.recv \in {"data", "error"}
    PROVE  \E P : onResponse(w, result) \in WorldT(P) /\ Fine(onResponse(w, result))
<1>1. PICK u : u = [w EXCEPT !.ras.recv = "none"]
  BY Zenon
<1>2. /\ u \in WorldT(O) /\ u.posted = w.posted
      /\ u.connected = w.connected /\ u.sending = w.sending
      /\ u.endpoint = w.endpoint /\ u.monitor = w.monitor /\ u.waiting = w.waiting
      /\ u.stop = w.stop /\ u.trouble = w.trouble
      /\ u.ras.phase = w.ras.phase /\ u.ras.recv = "none" /\ u.ras.est = w.ras.est
      /\ u.ras.send = w.ras.send
      /\ u.ras.callbackq = w.ras.callbackq /\ u.ras.transferq = w.ras.transferq
  BY Zenon, <1>1 DEF WorldT, RasT
<1>3. Base(u)
  <2>1. ~Rest(w.posted)
    BY Zenon DEF Has, Rest
  <2>2. Orderly(u.posted, u.ras)
    BY Zenon, <1>2, <2>1 DEF Base, Orderly
  <2>3. QED
    BY Zenon, <1>2, <2>2 DEF Base
<1>4. Fine(u) /\ u.connected
  BY Zenon, <1>2, <1>3 DEF Counted, Driven, Fine
<1>5. ASSUME onResponse(w, result) = Close(u) PROVE \E P : onResponse(w, result) \in WorldT(P) /\ Fine(onResponse(w, result))
  <2>1. Close(u) \in WorldT(O) /\ Closed(Close(u), u)
    BY Zenon, <1>2, <1>3, <1>4, CloseIs
  <2>2. Fine(Close(u))
    BY Zenon, <1>4, <2>1, KeepsFine, LostCounted DEF Closed, Fine
  <2>3. QED
    BY Zenon, <1>5, <2>1, <2>2
<1>6. ASSUME NEW o, onResponse(w, result) = Answer1(u, o) PROVE \E P : onResponse(w, result) \in WorldT(P) /\ Fine(onResponse(w, result))
  <2>1. PICK P : Answer1(u, o) \in WorldT(P) /\ Fine(Answer1(u, o))
    BY Zenon, <1>2, <1>4, AnsweredFine
  <2>2. QED
    BY Zenon, <1>6, <2>1
<1>7. CASE result = "fail"
  <2>1. onResponse(w, result) = Close(u)
    BY <1>1, <1>7 DEF onResponse, onRead, Close
  <2>2. QED
    BY Zenon, <1>5, <2>1
<1>8. CASE result = "bare"
  <2>1. onResponse(w, result) = Answer1(u, "refused")
    BY <1>1, <1>8 DEF onResponse, onRead, Answer1
  <2>2. QED
    BY Zenon, <1>6, <2>1
<1>9. CASE result \in {"data", "error"}
  <2>1. onResponse(w, result) = Read(u, result)
    BY <1>1, <1>9 DEF onResponse, onRead
  <2>2. Read(u, result) \in WorldT(O) /\ Reading(Read(u, result), u)
    BY Zenon, <1>2, <1>4, <1>9, ReadBase DEF Fine
  <2>3. PICK v : v = Read(u, result)
    BY Zenon
  <2>4. Counted(v)
    BY Zenon, <1>4, <2>2, <2>3 DEF Counted, Reading, Keeps, Fine
  <2>5. Fine(v)
    BY Zenon, <1>4, <2>2, <2>3, <2>4, KeepsFine DEF Reading, Fine
  <2>6. QED
    BY Zenon, <2>1, <2>2, <2>3, <2>5
<1>10. CASE result = "rest" /\ w.ras.recv = "data" /\ w.ras.est
  <2>1. onResponse(w, result) = Answer1(u, "ok")
    BY <1>1, <1>10 DEF onResponse, onRead, Answer1
  <2>2. QED
    BY Zenon, <1>6, <2>1
<1>11. CASE result = "rest" /\ w.ras.recv = "data" /\ ~w.ras.est
  <2>1. onResponse(w, result) = Close(u)
    BY <1>1, <1>11 DEF onResponse, onRead, Close
  <2>2. QED
    BY Zenon, <1>5, <2>1
<1>12. CASE result = "rest" /\ w.ras.recv = "error"
  <2>1. onResponse(w, result) = Answer1(u, "refused")
    BY <1>1, <1>12 DEF onResponse, onRead, Answer1
  <2>2. QED
    BY Zenon, <1>6, <2>1
<1>13. QED
  BY Zenon, <1>7, <1>8, <1>9, <1>10, <1>11, <1>12
\* The timer of the monitor is set, unless the service is to stop.
Rearmed(v, w) ==
    /\ v.posted = w.posted /\ v.ras = w.ras /\ v.connected = w.connected
    /\ v.sending = w.sending /\ v.waiting = w.waiting /\ v.endpoint = w.endpoint
    /\ v.stop = w.stop /\ v.trouble = w.trouble
    /\ v.stop => v.monitor = w.monitor
    /\ ~v.stop => v.monitor

\* resetConnectionMonitor.
LEMMA ResetIs ==
    ASSUME NEW O, NEW w \in WorldT(O)
    PROVE  resetConnectionMonitor(w) \in WorldT(O) /\ Rearmed(resetConnectionMonitor(w), w)
<1>1. PICK v : v = resetConnectionMonitor(w)
  BY Zenon
<1>2. CASE w.stop
  <2>1. v = w
    BY Zenon, <1>1, <1>2 DEF resetConnectionMonitor
  <2>2. QED
    BY Zenon, <1>1, <1>2, <2>1 DEF Rearmed
<1>3. CASE ~w.stop
  <2>1. v = [w EXCEPT !.monitor = TRUE]
    BY Zenon, <1>1, <1>3 DEF resetConnectionMonitor
  <2>2. v \in WorldT(O) /\ Rearmed(v, w)
    BY Zenon, <1>3, <2>1 DEF WorldT, Rearmed
  <2>3. QED
    BY Zenon, <1>1, <2>2
<1>4. QED
  BY Zenon, <1>2, <1>3

\* Once the timer is set, and its handler not ready, the service is driven.
LEMMA RearmedFine ==
    ASSUME NEW v, NEW w, Rearmed(v, w), Base(w), Counted(w), "busyFreed" \notin w.trouble,
           ~(w.monitor /\ Has(w.posted, "monitor")),
           ~w.stop => ~Has(w.posted, "monitor"), w.ras.phase \notin Handshake
    PROVE  Fine(v)
<1>1. Base(v) /\ Counted(v)
  BY Zenon DEF Rearmed, Base, Counted
<1>2. Driven(v)
  BY Zenon DEF Rearmed, Driven
<1>3. QED
  BY Zenon, <1>1, <1>2 DEF Rearmed, Fine

\* The world after the user was told, but for the monitor.
Tells(t, w, ok) ==
    /\ t.posted = w.posted /\ t.ras = w.ras /\ t.connected = ok
    /\ t.sending = w.sending /\ t.waiting = w.waiting /\ t.endpoint = w.endpoint
    /\ t.monitor = w.monitor /\ t.stop = w.stop /\ t.trouble = w.trouble

\* The user is told, and the timer of the monitor is set again.
LEMMA ToldIs ==
    ASSUME NEW O, NEW w \in WorldT(O), NEW ok \in BOOLEAN, ~w.connected,
           NEW v, v = onServiceConnectionStatus(w, ok)
    PROVE  \E t \in WorldT(O) : v \in WorldT(O) /\ Rearmed(v, t) /\ Tells(t, w, ok)
<1>1. PICK t : t = [w EXCEPT !.connected = @ \/ ok]
  BY Zenon
<1>2. t \in WorldT(O) /\ Tells(t, w, ok)
  <2>1. (w.connected \/ ok) = ok
    OBVIOUS
  <2>2. t = [w EXCEPT !.connected = ok]
    BY Zenon, <1>1, <2>1
  <2>3. QED
    BY <2>2 DEF WorldT, Tells
<1>3. v \in WorldT(O) /\ Rearmed(v, t)
  <2>1. v = resetConnectionMonitor(t)
    BY Zenon, <1>1 DEF onServiceConnectionStatus
  <2>2. resetConnectionMonitor(t) \in WorldT(O) /\ Rearmed(resetConnectionMonitor(t), t)
    BY Zenon, <1>2, ResetIs
  <2>3. QED
    BY Zenon, <2>1, <2>2
<1>4. QED
  BY Zenon, <1>2, <1>3

\* The handshake failed.
LEMMA FailedFine ==
    ASSUME NEW O, NEW w \in WorldT(O), Base(w), Driven(w), "busyFreed" \notin w.trouble,
           w.ras.phase \in Handshake, ~Has(w.posted, "conn")
    PROVE  onConnect(w, "fail") \in WorldT(O) /\ Fine(onConnect(w, "fail"))
<1>1. PICK u : u = [w EXCEPT !.ras.phase = "failed", !.ras.est = FALSE]
  BY Zenon
<1>2. "failed" \in Phases /\ "failed" \notin Handshake
  BY DEF Phases, Handshake
<1>3. ~w.connected
  BY Zenon, DoneIs DEF Base
<1>4. /\ u \in WorldT(O) /\ u.posted = w.posted
      /\ u.connected = w.connected /\ u.sending = w.sending
      /\ u.endpoint = w.endpoint /\ u.monitor = w.monitor /\ u.waiting = w.waiting
      /\ u.stop = w.stop /\ u.trouble = w.trouble
      /\ u.ras.phase = "failed" /\ u.ras.recv = w.ras.recv /\ u.ras.est = FALSE
      /\ u.ras.send = w.ras.send
  BY Zenon, <1>1, <1>2 DEF WorldT, RasT
<1>5. PICK v : v = onConnect(w, "fail")
  BY Zenon
<1>6. v = onServiceConnectionStatus(u, FALSE)
  BY Zenon, <1>1, <1>5 DEF onConnect, onHandshake
<1>7. PICK t \in WorldT(O) : v \in WorldT(O) /\ Rearmed(v, t) /\ Tells(t, u, FALSE)
  <2>1. FALSE \in BOOLEAN /\ ~u.connected
    BY Zenon, <1>3, <1>4
  <2>2. QED
    BY Zenon, <2>1, <1>3, <1>4, <1>6, ToldIs
<1>8. Orderly(t.posted, t.ras)
  BY Zenon, <1>4, <1>7 DEF Base, Orderly, Tells
<1>9. Base(t)
  BY Zenon, <1>2, <1>3, <1>4, <1>7, <1>8 DEF Base, Tells
<1>10. ~(t.monitor /\ Has(t.posted, "monitor")) /\ (~t.stop => ~Has(t.posted, "monitor"))
  BY Zenon, <1>4, <1>7 DEF Driven, Tells
<1>11. Fine(v)
  BY Zenon, <1>2, <1>4, <1>7, <1>9, <1>10, RearmedFine, LostCounted DEF Tells
<1>12. QED
  BY Zenon, <1>5, <1>7, <1>11 DEF Tells

\* The handshake goes on.
LEMMA GoesOnFine ==
    ASSUME NEW O, NEW w \in WorldT(O), Fine(w),
           w.ras.phase \in Handshake, w.ras.phase # "status", ~Has(w.posted, "conn")
    PROVE  GoesOn(w) \in WorldT(O) /\ Fine(GoesOn(w))
<1>1. CASE w.ras.phase = "connect" /\ ~w.ras.open
  <2>1. GoesOn(w) = Wrong(w, "escaped")
    BY Zenon, <1>1 DEF GoesOn
  <2>2. QED
    BY Zenon, <2>1, WrongFine
<1>2. CASE ~(w.ras.phase = "connect" /\ ~w.ras.open)
  <2>1. PICK f \in Handshake : f = NextPhase[w.ras.phase] /\ f \in Phases
    BY DEF Handshake, NextPhase, Phases
  <2>2. PICK u : u = [w EXCEPT !.ras.phase = f, !.ras.tcp = TRUE]
    BY Zenon
  <2>3. /\ u \in WorldT(O) /\ u.posted = w.posted
        /\ u.connected = w.connected /\ u.sending = w.sending
        /\ u.endpoint = w.endpoint /\ u.monitor = w.monitor /\ u.waiting = w.waiting
        /\ u.stop = w.stop /\ u.trouble = w.trouble
        /\ u.ras.phase = f /\ u.ras.recv = w.ras.recv /\ u.ras.est = w.ras.est
        /\ u.ras.send = w.ras.send
        /\ u.ras.callbackq = w.ras.callbackq /\ u.ras.transferq = w.ras.transferq
    BY Zenon, <2>1, <2>2 DEF WorldT, RasT
  <2>4. Base(u)
    <3>1. Orderly(u.posted, u.ras)
      BY Zenon, <2>3 DEF Fine, Base, Orderly
    <3>2. ~u.connected
      BY Zenon, <2>3, DoneIs DEF Fine, Base
    <3>3. QED
      BY Zenon, <2>3, <3>1, <3>2 DEF Fine, Base
  <2>5. Fine(u)
    BY Zenon, <2>1, <2>3, <2>4 DEF Fine, Counted, Driven
  <2>6. GoesOn(w) = Started(u, "conn")
    BY Zenon, <1>2, <2>1, <2>2 DEF GoesOn
  <2>7. CASE u.ras.open
    BY Zenon, <2>3, <2>5, <2>6, <2>7 DEF Started
  <2>8. CASE ~u.ras.open
    <3>1. PICK v : v = Post(u, "conn", "fail")
      BY Zenon
    <3>2. GoesOn(w) = v
      BY Zenon, <2>6, <2>8, <3>1 DEF Started
    <3>3. [h |-> "conn", v |-> "fail"] \in Handler
      BY Zenon, HandlersAre
    <3>4. MayPost([h |-> "conn", v |-> "fail"], u.posted, u.ras)
      BY <2>1, <2>3 DEF MayPost
    <3>5. "conn" # "error" /\ "conn" # "monitor"
      OBVIOUS
    <3>6. v \in WorldT(O) /\ Ready1(v, u, "conn")
      BY Zenon, <2>3, <2>4, <3>1, <3>3, <3>4, <3>5, PostBase
    <3>7. Fine(v)
      BY Zenon, <2>5, <3>5, <3>6 DEF Ready1, Fine, Counted, Driven
    <3>8. QED
      BY Zenon, <3>2, <3>6, <3>7
  <2>9. QED
    BY Zenon, <2>7, <2>8
<1>3. QED
  BY Zenon, <1>1, <1>2

\* The handshake is complete.
LEMMA DoneFine ==
    ASSUME NEW O, NEW w \in WorldT(O), Base(w), Driven(w), "busyFreed" \notin w.trouble,
           w.ras.phase = "status", ~Has(w.posted, "conn"), ~Has(w.posted, "error")
    PROVE  onConnect(w, "ok") \in WorldT(O) /\ Fine(onConnect(w, "ok"))
<1>1. PICK u : u = [w EXCEPT !.ras.phase = "done", !.ras.est = TRUE]
  BY Zenon
<1>2. "done" \in Phases /\ "done" \notin Handshake /\ "status" \in Handshake /\ "ok" # "fail" /\ "status" # "done"
  BY DEF Phases, Handshake
<1>3. /\ ~w.connected /\ ~w.sending /\ w.waiting = <<>> /\ w.ras.recv = "none"
      /\ w.ras.callbackq = <<>> /\ w.ras.transferq = <<>>
  BY Zenon, <1>2 DEF Base
<1>4. /\ u \in WorldT(O) /\ u.posted = w.posted
      /\ u.connected = w.connected /\ u.sending = w.sending
      /\ u.endpoint = w.endpoint /\ u.monitor = w.monitor /\ u.waiting = w.waiting
      /\ u.stop = w.stop /\ u.trouble = w.trouble
      /\ u.ras.phase = "done" /\ u.ras.recv = w.ras.recv /\ u.ras.est = TRUE
      /\ u.ras.send = w.ras.send
      /\ u.ras.callbackq = w.ras.callbackq /\ u.ras.transferq = w.ras.transferq
  BY Zenon, <1>1, <1>2 DEF WorldT, RasT
<1>5. PICK a : a = onServiceConnectionStatus(u, TRUE)
  BY Zenon
<1>6. PICK t \in WorldT(O) : a \in WorldT(O) /\ Rearmed(a, t) /\ Tells(t, u, TRUE)
  <2>1. TRUE \in BOOLEAN /\ ~u.connected
    BY Zenon, <1>3, <1>4
  <2>2. QED
    BY Zenon, <2>1, <1>3, <1>4, <1>5, ToldIs
<1>7. Orderly(t.posted, t.ras)
  BY Zenon, <1>4, <1>6 DEF Base, Orderly, Tells
<1>8. Base(t)
  BY Zenon, <1>2, <1>4, <1>6, <1>7 DEF Base, Tells
<1>9. Counted(t)
  <2>1. PICK e : e = <<>>
    BY Zenon
  <2>2. Len(e) + Len(e) = 0
    BY <2>1
  <2>3. /\ t.ras.callbackq = e /\ t.ras.transferq = e /\ t.waiting = e /\ ~t.sending
    BY Zenon, <1>3, <1>4, <1>6, <2>1 DEF Tells
  <2>4. Len(t.ras.callbackq) + Len(t.ras.transferq) = 0
    BY Zenon, <2>2, <2>3
  <2>5. QED
    BY Zenon, <2>1, <2>3, <2>4 DEF Counted
<1>10. ~(t.monitor /\ Has(t.posted, "monitor")) /\ (~t.stop => ~Has(t.posted, "monitor"))
  BY Zenon, <1>2, <1>4, <1>6 DEF Driven, Tells
<1>11. Fine(a) /\ a.ras.phase = "done" /\ a.ras.est /\ a.connected /\ a.ras.recv = "none"
  <2>1. Fine(a)
    BY Zenon, <1>2, <1>4, <1>6, <1>8, <1>9, <1>10, RearmedFine DEF Tells
  <2>2. QED
    BY Zenon, <1>3, <1>4, <1>6, <2>1 DEF Rearmed, Tells
<1>12. PICK v : v = Read(a, "header")
  BY Zenon
<1>13. onConnect(w, "ok") = v
  <2>1. onConnect(w, "ok") = Listens(a)
    BY Zenon, <1>1, <1>2, <1>5 DEF onConnect, onHandshake, Then
  <2>2. QED
    BY Zenon, <1>11, <1>12, <2>1 DEF Listens
<1>14. v \in WorldT(O) /\ Reading(v, a)
  BY Zenon, <1>6, <1>11, <1>12, ReadBase DEF Fine, Tells
<1>15. Counted(v)
  BY Zenon, <1>11, <1>14 DEF Counted, Reading, Keeps, Fine
<1>16. QED
  BY Zenon, <1>11, <1>13, <1>14, <1>15, KeepsFine DEF Reading, Fine

\* onConnect, onRecvChallenge, onChallengeResponseWrite and onAuthenticationStatus.
LEMMA ConnectFine ==
    ASSUME NEW O, NEW w \in WorldT(O), Base(w), Counted(w), Driven(w),
           "busyFreed" \notin w.trouble, w.ras.phase \in Handshake,
           ~Has(w.posted, "conn"), ~Has(w.posted, "error"), NEW result \in {"ok", "fail"}
    PROVE  onConnect(w, result) \in WorldT(O) /\ Fine(onConnect(w, result))
<1>1. CASE result = "fail"
  BY Zenon, <1>1, FailedFine
<1>2. CASE result = "ok" /\ w.ras.phase = "status"
  BY Zenon, <1>2, DoneFine
<1>3. CASE result = "ok" /\ w.ras.phase # "status"
  <2>1. "ok" # "fail"
    OBVIOUS
  <2>2. onConnect(w, result) = GoesOn(w)
    BY Zenon, <1>3, <2>1 DEF onConnect, onHandshake
  <2>3. QED
    BY Zenon, <1>3, <2>2, GoesOnFine DEF Fine
<1>4. QED
  BY Zenon, <1>1, <1>2, <1>3

\* makeConnection: the service that is replaced is idle.
LEMMA MakeFine ==
    ASSUME NEW O, NEW w \in WorldT(O), Base(w), "busyFreed" \notin w.trouble,
           ~w.connected, w.ras.phase \notin Handshake, ~w.monitor, ~Has(w.posted, "monitor")
    PROVE  \E P : makeConnection(w) \in WorldT(P) /\ Fine(makeConnection(w))
<1>1. w.ras.recv = "none" /\ ~w.ras.send /\ ~w.sending /\ w.waiting = <<>>
  BY Zenon DEF Base
<1>2. PICK e : e = <<>>
  BY Zenon
<1>3. e \in Queues
  BY <1>2 DEF Queues
<1>4. PICK P : e \in P
  <2>1. e \in {e}
    BY Zenon
  <2>2. QED
    BY Zenon, <2>1
<1>5. "connect" \in Handshake /\ "connect" \in Phases /\ "new" \notin Handshake /\ "connect" # "done"
  BY DEF Handshake, Phases
<1>6. PICK m, n : m = NewService(w.endpoint) /\ n = [m EXCEPT !.phase = "connect", !.open = TRUE, !.tcp = FALSE]
  BY Zenon
<1>7. /\ n \in RasT(P) /\ n.phase = "connect" /\ n.recv = "none" /\ n.send = FALSE
      /\ n.est = FALSE /\ n.callbackq = e /\ n.transferq = e
      /\ m.phase = "new" /\ m.open = FALSE /\ m \in RasT(P)
  <2>1. m = [ep |-> w.endpoint, phase |-> "new", est |-> FALSE, open |-> FALSE, tcp |-> FALSE,
             recv |-> "none", send |-> FALSE, transferq |-> e, callbackq |-> e, owed |-> e]
    BY Zenon, <1>2, <1>6 DEF NewService
  <2>2. "new" \in Phases /\ w.endpoint \in Eps
    BY DEF Phases, WorldT
  <2>3. /\ m \in RasT(P) /\ m.phase = "new" /\ m.recv = "none" /\ m.send = FALSE
        /\ m.est = FALSE /\ m.callbackq = e /\ m.transferq = e /\ m.open = FALSE
    BY <1>3, <1>4, <2>1, <2>2 DEF RasT
  <2>4. QED
    BY Zenon, <1>5, <1>6, <2>3 DEF RasT
<1>8. PICK v : v = [w EXCEPT !.ras = n]
  BY Zenon
<1>9. /\ v \in WorldT(P) /\ v.ras = n /\ v.posted = w.posted
      /\ v.connected = w.connected /\ v.sending = w.sending
      /\ v.endpoint = w.endpoint /\ v.monitor = w.monitor /\ v.waiting = w.waiting
      /\ v.stop = w.stop /\ v.trouble = w.trouble
  BY <1>7, <1>8 DEF WorldT
<1>10. makeConnection(w) = v
  <2>1. Idle(w.ras)
    BY Zenon, <1>1 DEF Idle
  <2>2. PICK t : t = [w EXCEPT !.ras = NewService(w.endpoint), !.trouble = @ \cup {}]
    BY Zenon
  <2>3. makeConnection(w) = connect(t)
    BY Zenon, <2>1, <2>2 DEF makeConnection
  <2>4. PICK T : T = w.trouble /\ T \cup {} = T
    OBVIOUS
  <2>5. t = [w EXCEPT !.ras = NewService(w.endpoint), !.trouble = T]
    BY Zenon, <2>2, <2>4
  <2>8. t.ras = m /\ t.trouble = T /\ t = [w EXCEPT !.ras = m]
    BY ZenonT(60), <1>6, <2>4, <2>5 DEF WorldT
  <2>9. t.ras.phase \notin Handshake /\ t.ras.open = FALSE
    BY Zenon, <1>5, <1>7, <2>8
  <2>10. connect(t) = [t EXCEPT !.ras.phase = "connect", !.ras.open = TRUE,
                                !.ras.tcp = @ /\ t.ras.open, !.trouble = T]
    BY Zenon, <2>4, <2>8, <2>9 DEF connect
  <2>11. connect(t) = [t EXCEPT !.ras = n]
    <3>2. (t.ras.tcp /\ t.ras.open) = FALSE
      BY <2>9
    <3>3. connect(t) = [t EXCEPT !.ras.phase = "connect", !.ras.open = TRUE,
                                 !.ras.tcp = FALSE, !.trouble = T]
      <4>1. DOMAIN t = DOMAIN w /\ "ras" \in DOMAIN t
        BY <2>8 DEF WorldT
      <4>2. "tcp" \in DOMAIN t.ras
        BY <1>7, <2>8 DEF RasT
      <4>3. QED
        BY Zenon, <2>8, <2>9, <2>10, <3>2, <4>1, <4>2
    <3>4. t \in [{"ras", "connected", "sending", "waiting", "endpoint", "monitor", "stop", "posted", "trouble"} -> {t[x] : x \in DOMAIN t}]
      BY <2>8 DEF WorldT
    <3>5. QED
      BY ZenonT(60), <1>6, <2>8, <3>3, <3>4
  <2>12. QED
    BY Zenon, <1>8, <2>3, <2>8, <2>11 DEF WorldT
<1>11. Base(v)
  <2>1. Orderly(v.posted, v.ras)
    BY Zenon, <1>1, <1>5, <1>7, <1>9 DEF Base, Orderly
  <2>2. QED
    BY Zenon, <1>1, <1>2, <1>7, <1>9, <2>1 DEF Base
<1>12. Driven(v)
  BY Zenon, <1>5, <1>7, <1>9 DEF Driven
<1>13. ~v.ras.est
  BY Zenon, <1>7, <1>9
<1>14. Fine(v)
  BY Zenon, <1>9, <1>11, <1>12, <1>13, LostCounted DEF Fine
<1>15. QED
  BY Zenon, <1>9, <1>10, <1>14

\* The monitor closes the connection, or keeps it, and is set again.
LEMMA ResetFine ==
    ASSUME NEW O, NEW w, NEW u \in WorldT(O), Base(u), Counted(u), Keeps(u, w),
           "busyFreed" \notin w.trouble, ~Has(w.posted, "monitor"), w.ras.phase \notin Handshake
    PROVE  /\ resetConnectionMonitor(u) \in WorldT(O)
           /\ Fine(resetConnectionMonitor(u))
<1>1. resetConnectionMonitor(u) \in WorldT(O) /\ Rearmed(resetConnectionMonitor(u), u)
  BY Zenon, ResetIs
<1>2. /\ "busyFreed" \notin u.trouble /\ ~Has(u.posted, "monitor")
      /\ u.ras.phase \notin Handshake
  BY Zenon DEF Keeps
<1>3. QED
  BY Zenon, <1>1, <1>2, RearmedFine

\* onCheckConnection.
LEMMA MonitorFine ==
    ASSUME NEW O, NEW w \in WorldT(O), Base(w), Counted(w), "busyFreed" \notin w.trouble,
           ~w.monitor, ~Has(w.posted, "monitor"), ~w.stop => w.ras.phase \notin Handshake,
           slave \in Eps
    PROVE  \E P : onCheckConnection(w) \in WorldT(P) /\ Fine(onCheckConnection(w))
<1>1. PICK v : v = onCheckConnection(w)
  BY Zenon
<1>2. CASE w.stop
  <2>1. v = w
    BY Zenon, <1>1, <1>2 DEF onCheckConnection
  <2>2. Driven(w)
    BY Zenon, <1>2 DEF Driven
  <2>3. QED
    BY Zenon, <1>1, <2>1, <2>2 DEF Fine
<1>3. ASSUME ~w.stop, NEW u \in WorldT(O), Base(u), Keeps(u, w), u.connected,
             v = resetConnectionMonitor(Close(u))
      PROVE  v \in WorldT(O) /\ Fine(v)
  <2>1. PICK c : c = Close(u)
    BY Zenon
  <2>2. c \in WorldT(O) /\ Closed(c, u)
    BY Zenon, <1>3, <2>1, CloseIs
  <2>3. Base(c) /\ Counted(c) /\ Keeps(c, w)
    BY Zenon, <1>3, <2>2, LostCounted, KeepsBoth DEF Closed
  <2>4. QED
    BY Zenon, <1>3, <2>1, <2>2, <2>3, ResetFine
<1>4. ASSUME ~w.stop, v = resetConnectionMonitor(w) PROVE v \in WorldT(O) /\ Fine(v)
  <2>1. Keeps(w, w)
    BY Zenon DEF Keeps
  <2>2. QED
    BY Zenon, <1>4, <2>1, ResetFine
<1>5. PICK m : m = [w EXCEPT !.endpoint = slave]
  BY Zenon
<1>6. /\ m \in WorldT(O) /\ m.ras = w.ras /\ m.posted = w.posted
      /\ m.connected = w.connected /\ m.sending = w.sending
      /\ m.monitor = w.monitor /\ m.waiting = w.waiting
      /\ m.stop = w.stop /\ m.trouble = w.trouble
  BY <1>5 DEF WorldT
<1>7. Base(m)
  BY Zenon, <1>6 DEF Base
<1>8. CASE ~w.stop /\ slave = "" /\ w.connected
  <2>1. v = resetConnectionMonitor(Close(w))
    BY Zenon, <1>1, <1>8 DEF onCheckConnection
  <2>2. Keeps(w, w)
    BY Zenon DEF Keeps
  <2>3. QED
    BY Zenon, <1>1, <1>3, <1>8, <2>1, <2>2
<1>9. CASE ~w.stop /\ slave = "" /\ ~w.connected
  <2>1. v = resetConnectionMonitor(w)
    BY Zenon, <1>1, <1>9 DEF onCheckConnection
  <2>2. QED
    BY Zenon, <1>1, <1>4, <1>9, <2>1
<1>10. CASE ~w.stop /\ slave # "" /\ slave # w.endpoint /\ w.connected
  <2>1. v = resetConnectionMonitor(Close(m))
    BY Zenon, <1>1, <1>5, <1>10 DEF onCheckConnection, endpointChanged
  <2>2. PICK c : c = Close(m)
    BY Zenon
  <2>3. c \in WorldT(O) /\ Closed(c, m)
    BY Zenon, <1>6, <1>7, <1>10, <2>2, CloseIs
  <2>4. /\ "busyFreed" \notin c.trouble /\ ~Has(c.posted, "monitor")
        /\ c.ras.phase \notin Handshake /\ Base(c) /\ Counted(c)
    BY Zenon, <1>6, <1>10, <2>3, LostCounted DEF Closed, Keeps
  <2>5. Keeps(c, c)
    BY Zenon DEF Keeps
  <2>6. QED
    BY Zenon, <1>1, <2>1, <2>2, <2>3, <2>4, <2>5, ResetFine
<1>11. CASE ~w.stop /\ slave # "" /\ slave # w.endpoint /\ ~w.connected
  <2>1. v = makeConnection(m)
    BY Zenon, <1>1, <1>5, <1>11 DEF onCheckConnection, endpointChanged
  <2>2. \E P : makeConnection(m) \in WorldT(P) /\ Fine(makeConnection(m))
    BY Zenon, <1>6, <1>7, <1>11, MakeFine
  <2>3. QED
    BY Zenon, <1>1, <2>1, <2>2
<1>12. CASE ~w.stop /\ slave # "" /\ slave = w.endpoint /\ w.connected
  <2>1. v = resetConnectionMonitor(w)
    BY Zenon, <1>1, <1>12 DEF onCheckConnection
  <2>2. QED
    BY Zenon, <1>1, <1>4, <1>12, <2>1
<1>13. CASE ~w.stop /\ slave # "" /\ slave = w.endpoint /\ ~w.connected
  <2>1. v = makeConnection(w)
    BY Zenon, <1>1, <1>13 DEF onCheckConnection
  <2>2. \E P : makeConnection(w) \in WorldT(P) /\ Fine(makeConnection(w))
    BY Zenon, <1>13, MakeFine
  <2>3. QED
    BY Zenon, <1>1, <2>1, <2>2
<1>14. QED
  BY Zenon, <1>2, <1>8, <1>9, <1>10, <1>11, <1>12, <1>13

(***************************************************************************)
(* The steps.                                                              *)
(***************************************************************************)
\* The argument of each handler.
LEMMA HandlerHas ==
    ASSUME NEW e \in Handler
    PROVE  /\ e.h \in {"queue", "error"} => e.v \in Assets
           /\ e.h \in {"conn", "send"} => e.v \in {"ok", "fail"}
           /\ e.h = "recv" => e.v \in {"fail", "bare", "data", "error", "rest"}
  BY Zenon DEF Handler

\* A handler becomes ready that has nothing to do with the monitor.
LEMMA PostFine ==
    ASSUME NEW O, NEW w \in WorldT(O), Fine(w), NEW h, NEW x,
           [h |-> h, v |-> x] \in Handler, MayPost([h |-> h, v |-> x], w.posted, w.ras),
           h # "error", h # "monitor"
    PROVE  Post(w, h, x) \in WorldT(O) /\ Fine(Post(w, h, x))
<1>1. PICK v : v = Post(w, h, x)
  BY Zenon
<1>2. v \in WorldT(O) /\ Ready1(v, w, h)
  BY Zenon, <1>1, PostBase DEF Fine
<1>3. Fine(v)
  BY Zenon, <1>2 DEF Ready1, Fine, Counted, Driven
<1>4. QED
  BY Zenon, <1>1, <1>2, <1>3

\* How an operation can end.
LEMMA EndingsAre ==
    ASSUME NEW w, NEW h \in {"conn", "send", "recv"}, NEW x \in Endings(w, h, Faults)
    PROVE  /\ ~Has(w.posted, h)
           /\ h = "recv" => /\ w.ras.recv # "none"
                            /\ x \in {"fail", "bare", "data", "error", "rest"}
                            /\ x = "rest" => w.ras.recv # "header"
           /\ h = "send" => w.ras.send /\ x \in {"ok", "fail"}
           /\ h = "conn" => w.ras.phase \in Handshake /\ x \in {"ok", "fail"}
<1>1. ~Ready(w, h)
  BY Zenon DEF Endings
<1>2. ~Has(w.posted, h)
  BY Zenon, <1>1 DEF Ready, Has
<1>3. CASE h = "recv"
  BY <1>1, <1>2, <1>3 DEF Endings
<1>4. CASE h = "send"
  BY Zenon, <1>1, <1>2, <1>4 DEF Endings
<1>5. CASE h = "conn"
  BY <1>1, <1>2, <1>5 DEF Endings
<1>6. QED
  BY <1>3, <1>4, <1>5

\* An operation of the connection ends.
LEMMA EndsFine ==
    ASSUME NEW O, NEW w \in WorldT(O), Fine(w), NEW h \in {"conn", "send", "recv"},
           NEW x \in Endings(w, h, Faults)
    PROVE  \E P : Ends(w, h, x) \in WorldT(P) /\ Fine(Ends(w, h, x))
<1>1. [h |-> h, v |-> x] \in Handler
  BY Zenon, EndingsAre, HandlersAre
<1>2. h # "error" /\ h # "monitor"
  OBVIOUS
<1>3. MayPost([h |-> h, v |-> x], w.posted, w.ras)
  <2>1. w.ras.recv \in {"none", "header", "data", "error"}
    BY DEF WorldT, RasT
  <2>2. QED
    BY <1>2, <2>1, EndingsAre DEF MayPost
<1>4. CASE ~(h = "send" /\ x = "ok")
  <2>1. Ends(w, h, x) = Post(w, h, x)
    BY Zenon, <1>4 DEF Ends
  <2>2. QED
    BY Zenon, <1>1, <1>2, <1>3, <2>1, PostFine
<1>5. CASE h = "send" /\ x = "ok"
  <2>1. PICK y : y = Append(w.ras.owed, w.ras.callbackq[Len(w.ras.callbackq)])
    BY Zenon
  <2>2. PICK u : u = [w EXCEPT !.ras.owed = y]
    BY Zenon
  <2>3. Ends(w, h, x) = Post(u, h, x)
    BY Zenon, <1>5, <2>1, <2>2 DEF Ends
  <2>4. PICK P : u \in WorldT(P) /\ Owes(u, w)
    BY Zenon, <2>2, Wider
  <2>5. Base(u)
    <3>1. Orderly(u.posted, u.ras)
      BY Zenon, <2>4, OrderlySame DEF Fine, Base, Owes
    <3>2. QED
      BY Zenon, <2>4, <3>1 DEF Fine, Base, Owes
  <2>6. Fine(u)
    BY Zenon, <2>4, <2>5 DEF Fine, Counted, Driven, Owes
  <2>7. MayPost([h |-> h, v |-> x], u.posted, u.ras)
    BY Zenon, <1>3, <2>4 DEF MayPost, Owes
  <2>8. QED
    BY Zenon, <1>1, <1>2, <2>3, <2>4, <2>6, <2>7, PostFine
<1>6. QED
  BY Zenon, <1>4, <1>5

\* The timer of the monitor fires.
LEMMA FiresFine ==
    ASSUME NEW O, NEW w \in WorldT(O), Fine(w), w.monitor
    PROVE  /\ Post([w EXCEPT !.monitor = FALSE], "monitor", "") \in WorldT(O)
           /\ Fine(Post([w EXCEPT !.monitor = FALSE], "monitor", ""))
<1>1. PICK u : u = [w EXCEPT !.monitor = FALSE]
  BY Zenon
<1>2. /\ u \in WorldT(O) /\ u.ras = w.ras /\ u.posted = w.posted
      /\ u.connected = w.connected /\ u.sending = w.sending
      /\ u.endpoint = w.endpoint /\ ~u.monitor /\ u.waiting = w.waiting
      /\ u.stop = w.stop /\ u.trouble = w.trouble
  BY Zenon, <1>1 DEF WorldT
<1>3. Base(u) /\ Counted(u)
  BY Zenon, <1>2 DEF Fine, Base, Counted
<1>4. ~Has(w.posted, "monitor") /\ (~w.stop => w.ras.phase \notin Handshake)
  BY Zenon DEF Fine, Driven
<1>5. [h |-> "monitor", v |-> ""] \in Handler /\ "monitor" # "error"
  BY Zenon, HandlersAre
<1>6. MayPost([h |-> "monitor", v |-> ""], u.posted, u.ras)
  BY <1>2, <1>4 DEF MayPost
<1>7. PICK v : v = Post(u, "monitor", "")
  BY Zenon
<1>8. v \in WorldT(O) /\ Ready1(v, u, "monitor")
  BY Zenon, <1>2, <1>3, <1>5, <1>6, <1>7, PostBase
<1>9. Counted(v)
  BY Zenon, <1>3, <1>8 DEF Ready1, Counted
<1>10. Driven(v)
  BY Zenon, <1>2, <1>4, <1>8 DEF Ready1, Driven
<1>11. Fine(v)
  BY Zenon, <1>2, <1>8, <1>9, <1>10 DEF Ready1, Fine
<1>12. QED
  BY Zenon, <1>1, <1>7, <1>8, <1>11

\* A handler is run.
LEMMA RunFine ==
    ASSUME NEW O, NEW z \in WorldT(O), Fine(z), z.posted # <<>>, slave \in Eps,
           NEW e, e = Head(z.posted), NEW w, w = [z EXCEPT !.posted = Tail(@)],
           NEW v,
           \/ e.h = "monitor" /\ v = onCheckConnection(w)
           \/ e.h = "queue" /\ v = doQueueAssetForPush(w, e.v)
           \/ e.h = "error" /\ v = onAfterAssetPut(w, e.v, "error")
           \/ e.h = "stop" /\ v = doStop(w)
           \/ e.h = "conn" /\ v = onConnect(w, e.v)
           \/ e.h = "send" /\ v = onWrite(w, e.v)
           \/ e.h = "recv" /\ v = onResponse(w, e.v)
    PROVE  \E P : v \in WorldT(P) /\ Fine(v)
<1>1. e \in Handler /\ w \in WorldT(O) /\ Took(w, e)
  BY Zenon, TakeFine
<1>2. Base(w) /\ Counted(w) /\ "busyFreed" \notin w.trouble
  BY Zenon, <1>1 DEF Took
<1>3. CASE e.h = "monitor" /\ v = onCheckConnection(w)
  BY Zenon, <1>1, <1>2, <1>3, MonitorFine DEF Took
<1>4. "queue" # "monitor" /\ "error" # "monitor" /\ "stop" # "monitor" /\ "conn" # "monitor"
      /\ "send" # "monitor" /\ "recv" # "monitor"
  OBVIOUS
<1>5. CASE e.h = "queue" /\ v = doQueueAssetForPush(w, e.v)
  BY Zenon, <1>1, <1>2, <1>4, <1>5, HandlerHas, QueueFine DEF Took
<1>6. CASE e.h = "error" /\ v = onAfterAssetPut(w, e.v, "error")
  BY Zenon, <1>1, <1>2, <1>4, <1>6, ErrorFine DEF Took
<1>7. CASE e.h = "stop" /\ v = doStop(w)
  BY Zenon, <1>1, <1>2, <1>4, <1>7, StopFine DEF Took
<1>8. CASE e.h = "conn" /\ v = onConnect(w, e.v)
  <2>1. /\ e.v \in {"ok", "fail"} /\ Driven(w) /\ ~Has(w.posted, "conn")
        /\ w.ras.phase \in Handshake /\ ~Has(w.posted, "error")
    BY Zenon, <1>1, <1>4, <1>8, HandlerHas DEF Took
  <2>2. QED
    BY Zenon, <1>1, <1>2, <1>8, <2>1, ConnectFine
<1>9. CASE e.h = "send" /\ v = onWrite(w, e.v)
  <2>1. Driven(w) /\ ~Has(w.posted, "send") /\ w.connected
    BY Zenon, <1>1, <1>4, <1>9 DEF Took
  <2>2. QED
    BY Zenon, <1>1, <1>2, <1>9, <2>1, WriteFine
<1>10. CASE e.h = "recv" /\ v = onResponse(w, e.v)
  <2>1. /\ Driven(w) /\ ~Has(w.posted, "recv") /\ w.connected
        /\ e.v \in {"fail", "bare", "data", "error", "rest"}
        /\ e.v = "rest" => w.ras.recv \in {"data", "error"}
    BY Zenon, <1>1, <1>4, <1>10, HandlerHas DEF Took
  <2>2. PICK P : onResponse(w, e.v) \in WorldT(P) /\ Fine(onResponse(w, e.v))
    BY Zenon, <1>1, <1>2, <2>1, ResponseFine
  <2>3. QED
    BY Zenon, <1>10, <2>2
<1>11. QED
  BY Zenon, <1>3, <1>5, <1>6, <1>7, <1>8, <1>9, <1>10

(***************************************************************************)
(* The invariant                                                           *)
(***************************************************************************)
IInv == (\E O : World \in WorldT(O)) /\ Fine(World) /\ slave \in Eps /\ written \in Nat

\* The service's part of a step.
LEMMA StepFine ==
    ASSUME NEW v, \E P : v \in WorldT(P) /\ Fine(v), Becomes(v)
    PROVE  (\E P : World' \in WorldT(P)) /\ Fine(World')
<1>1. PICK P : v \in WorldT(P) /\ Fine(v)
  BY Zenon
<1>2. World' = v
  BY <1>1 DEF WorldT, Becomes, World
<1>3. QED
  BY Zenon, <1>1, <1>2

\* The invariant holds at the start.
LEMMA InitFine == Init => IInv
<1>1. SUFFICES ASSUME Init PROVE IInv
  OBVIOUS
<1>2. slave \in Eps /\ written \in Nat
  BY Zenon, <1>1, ConstantsAssumption DEF Init, Eps
<1>3. PICK e : e = <<>>
  BY Zenon
<1>4. e \in Queues /\ e \in Handlers /\ \A h : ~Has(e, h)
  BY <1>3 DEF Queues, Handlers, Has
<1>5. ras \in RasT({<<>>}) /\ ras.phase = "none" /\ ~ras.est /\ ras.recv = "none" /\ ~ras.send
  BY ZenonT(60), <1>1, <1>3, <1>4 DEF Init, NoService, NewService, RasT, Eps, Phases
<1>6. World \in WorldT({<<>>})
  BY ZenonT(60), <1>1, <1>3, <1>4, <1>5 DEF Init, World, WorldT, Eps
<1>7. PICK w : w = World
  BY Zenon
<1>8. /\ w.ras = ras /\ ~w.connected /\ ~w.sending /\ w.waiting = <<>> /\ w.posted = e
      /\ w.monitor /\ w.trouble = {}
  BY Zenon, <1>1, <1>3, <1>7 DEF Init, World
<1>9. "none" \notin Handshake /\ "none" # "done"
  BY DEF Handshake
<1>10. Orderly(w.posted, w.ras)
  BY SMTT(60), <1>3, <1>8 DEF Orderly, One, Has, Rest, ConnLast
<1>11. Fine(w)
  BY Zenon, <1>4, <1>5, <1>8, <1>9, <1>10 DEF Fine, Base, Counted, Driven
<1>12. QED
  BY Zenon, <1>2, <1>6, <1>7, <1>11 DEF IInv

\* The invariant is inductive.
LEMMA NextFine == IInv /\ [Next]_vars => IInv'
<1>1. SUFFICES ASSUME IInv, [Next]_vars PROVE IInv'
  OBVIOUS
<1>2. PICK O : World \in WorldT(O)
  BY Zenon, <1>1 DEF IInv
<1>3. Fine(World) /\ slave \in Eps /\ written \in Nat
  BY Zenon, <1>1 DEF IInv
<1>4. World.posted = posted /\ World.monitor = monitor
  BY DEF World
<1>5. ASSUME NEW v, \E P : v \in WorldT(P) /\ Fine(v), Becomes(v), slave' \in Eps, written' \in Nat
      PROVE  IInv'
  <2>1. (\E P : World' \in WorldT(P)) /\ Fine(World')
    BY Zenon, <1>5, StepFine
  <2>2. QED
    BY Zenon, <1>5, <2>1 DEF IInv
<1>6. CASE RunPosted
  <2>1. PICK e : e = Head(posted)
    BY Zenon
  <2>2. PICK w : w = [World EXCEPT !.posted = Tail(@)]
    BY Zenon
  <2>3. PICK v : /\ \/ e.h = "monitor" /\ v = onCheckConnection(w)
                    \/ e.h = "queue" /\ v = doQueueAssetForPush(w, e.v)
                    \/ e.h = "error" /\ v = onAfterAssetPut(w, e.v, "error")
                    \/ e.h = "stop" /\ v = doStop(w)
                    \/ e.h = "conn" /\ v = onConnect(w, e.v)
                    \/ e.h = "send" /\ v = onWrite(w, e.v)
                    \/ e.h = "recv" /\ v = onResponse(w, e.v)
                 /\ Becomes(v)
    BY Zenon, <1>6, <2>1, <2>2 DEF RunPosted
  <2>4. posted # <<>> /\ slave' = slave /\ written' = written
    BY Zenon, <1>6 DEF RunPosted
  <2>5. \E P : v \in WorldT(P) /\ Fine(v)
    BY Zenon, <1>2, <1>3, <1>4, <2>1, <2>2, <2>3, <2>4, RunFine
  <2>6. QED
    BY Zenon, <1>3, <1>5, <2>3, <2>4, <2>5
<1>7. CASE MonitorFires
  <2>1. PICK v : v = Post([World EXCEPT !.monitor = FALSE], "monitor", "")
    BY Zenon
  <2>2. monitor /\ Becomes(v) /\ slave' = slave /\ written' = written
    BY Zenon, <1>7, <2>1 DEF MonitorFires
  <2>3. v \in WorldT(O) /\ Fine(v)
    BY Zenon, <1>2, <1>3, <1>4, <2>1, <2>2, FiresFine
  <2>4. QED
    BY Zenon, <1>3, <1>5, <2>2, <2>3
<1>8. CASE \E h \in {"conn", "send", "recv"} : OperationEnds(h)
  <2>1. PICK h \in {"conn", "send", "recv"} : OperationEnds(h)
    BY Zenon, <1>8
  <2>2. PICK x \in Endings(World, h, Faults) : Becomes(Ends(World, h, x))
    BY Zenon, <2>1 DEF OperationEnds
  <2>3. slave' = slave /\ written' = written
    BY Zenon, <2>1 DEF OperationEnds
  <2>4. \E P : Ends(World, h, x) \in WorldT(P) /\ Fine(Ends(World, h, x))
    BY Zenon, <1>2, <1>3, <2>2, EndsFine
  <2>5. PICK v : v = Ends(World, h, x)
    BY Zenon
  <2>6. QED
    BY Zenon, <1>3, <1>5, <2>2, <2>3, <2>4, <2>5
<1>9. CASE queueAssetForPush
  <2>1. PICK v : v = Post(World, "queue", written + 1)
    BY Zenon
  <2>2. Becomes(v) /\ slave' = slave /\ written < NumAssets /\ written' = written + 1
    BY Zenon, <1>9, <2>1 DEF queueAssetForPush
  <2>3. written + 1 \in Assets /\ written + 1 \in Nat
    <3>1. NumAssets \in Nat
      BY Zenon, ConstantsAssumption
    <3>2. QED
      BY <1>3, <2>2, <3>1 DEF Assets
  <2>4. [h |-> "queue", v |-> written + 1] \in Handler
    BY Zenon, <2>3, HandlersAre
  <2>5. MayPost([h |-> "queue", v |-> written + 1], World.posted, World.ras)
        /\ "queue" # "error" /\ "queue" # "monitor"
    BY DEF MayPost
  <2>6. v \in WorldT(O) /\ Fine(v)
    BY Zenon, <1>2, <1>3, <2>1, <2>4, <2>5, PostFine
  <2>7. QED
    BY Zenon, <1>3, <1>5, <2>2, <2>3, <2>6
<1>10. CASE Stop
  <2>1. PICK v : v = Post(World, "stop", "")
    BY Zenon
  <2>2. Becomes(v) /\ slave' = slave /\ written' = written
    BY Zenon, <1>10, <2>1 DEF Stop
  <2>3. [h |-> "stop", v |-> ""] \in Handler
    BY Zenon, HandlersAre
  <2>4. MayPost([h |-> "stop", v |-> ""], World.posted, World.ras)
        /\ "stop" # "error" /\ "stop" # "monitor"
    BY DEF MayPost
  <2>5. v \in WorldT(O) /\ Fine(v)
    BY Zenon, <1>2, <1>3, <2>1, <2>3, <2>4, PostFine
  <2>6. QED
    BY Zenon, <1>3, <1>5, <2>2, <2>5
<1>11. CASE SettingsChange
  <2>1. World' = World
    BY Zenon, <1>11 DEF SettingsChange, service, World
  <2>2. slave' \in Eps /\ written' = written
    BY Zenon, <1>11 DEF SettingsChange, Eps
  <2>3. QED
    BY Zenon, <1>2, <1>3, <2>1, <2>2 DEF IInv
<1>12. CASE UNCHANGED vars
  <2>1. World' = World /\ slave' = slave /\ written' = written
    BY Zenon, <1>12 DEF vars, service, World
  <2>2. QED
    BY Zenon, <1>2, <1>3, <2>1 DEF IInv
<1>13. QED
  BY Zenon, <1>1, <1>6, <1>7, <1>8, <1>9, <1>10, <1>11, <1>12 DEF Next

\* What the invariant says of the properties.
LEMMA IInvGives == IInv => OneAttempt /\ FreedIdle /\ PushesInTurn
<1>1. SUFFICES ASSUME IInv PROVE OneAttempt /\ FreedIdle /\ PushesInTurn
  OBVIOUS
<1>2. PICK w : w = World
  BY Zenon
<1>3. Fine(w)
  BY Zenon, <1>1, <1>2 DEF IInv
<1>4. /\ w.ras = ras /\ w.sending = sending /\ w.waiting = waiting /\ w.monitor = monitor
      /\ w.stop = stop /\ w.posted = posted /\ w.trouble = trouble
  BY <1>2 DEF World
<1>5. \A h : Ready(World, h) <=> Has(w.posted, h)
  BY Zenon, <1>2 DEF Ready, Has
<1>6. OneAttempt /\ FreedIdle
  BY Zenon, <1>3, <1>4, <1>5 DEF Fine, Driven, OneAttempt, FreedIdle
<1>7. PushesInTurn
  BY Zenon, <1>3, <1>4, <1>5 DEF Fine, Base, Counted, PushesInTurn
<1>8. QED
  BY Zenon, <1>6, <1>7

\* The invariant holds in every reachable state.
LEMMA Invariance == Spec => []IInv
  BY InitFine, NextFine, PTL DEF Spec

\* The service never gives up and never works on two connections, however
\* resetConnectionMonitor, onCheckConnection, endpointChanged, the handshake and
\* doStop interleave.
THEOREM OneAttemptAlways == Spec => []OneAttempt
  BY Invariance, IInvGives, PTL

\* makeConnection never frees a service that has an operation outstanding.
THEOREM FreedIdleAlways == Spec => []FreedIdle
  BY Invariance, IInvGives, PTL

\* One asset at a time is with the slave, nothing waits unless one is, and no
\* callback of an earlier connection is left to run on a new one.
THEOREM PushesInTurnAlways == Spec => []PushesInTurn
  BY Invariance, IInvGives, PTL
============================================================================
