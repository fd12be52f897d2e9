-------------------------- MODULE WhipClientProofs --------------------------
(***************************************************************************)
(* Proofs about the .NET client, for any number of calls and assets and any*)
(* faults.  ClientInv is inductive: a call is in a list only between its   *)
(* begin and its first callback, and a list that is not empty is driven.   *)
(* OrderInv is, too: nothing has failed as long as the first connection    *)
(* lasts, so that no waiter was freed and one call at most is sending.     *)
(***************************************************************************)
EXTENDS WhipClient, SequenceTheorems, TLAPS

HasMessage == recv.pc \in {"got", "notify"} => recv.msg \in Calls

ListsFresh ==
    \A c \in Calls : (\E x \in Ids : c \in lists[x]) => call[c].pc # "new" /\ call[c].called = 0

NewUncalled == \A c \in Calls : call[c].pc = "new" => call[c].called = 0

Named ==
    \A c \in Calls : IF call[c].pc = "new" THEN call[c].id = None ELSE call[c].id \in Ids

Served ==
    /\ \A c \in Range(waiting) : call[c].pc # "new"
    /\ recv.pc = "notify" /\ trouble = {} => call[recv.msg].id \in Ids

Shape ==
    TypeOK /\ HasMessage /\ ListsFresh /\ NewUncalled /\ CallbackOnce /\ Named /\ Served

ClientInv == Shape /\ ListsDriven

\* The two truth values and the empty set of calls, as members of their types.
LEMMA Plain == TRUE \in BOOLEAN /\ FALSE \in BOOLEAN /\ {} \in SUBSET Calls
BY Zenon

(***************************************************************************)
(* Sequences.                                                              *)
(***************************************************************************)
\* What is in a queue after an element was appended.
LEMMA RangeAppend ==
    ASSUME NEW S, NEW s \in Seq(S), NEW e \in S
    PROVE  Append(s, e) \in Seq(S) /\ Range(Append(s, e)) = Range(s) \cup {e}
  BY AppendProperties, LenProperties DEF Range

\* What is in a queue before its head was taken.
LEMMA RangeTail ==
    ASSUME NEW S, NEW s \in Seq(S), s # <<>>
    PROVE  /\ Head(s) \in S /\ Tail(s) \in Seq(S)
           /\ Range(s) = {Head(s)} \cup Range(Tail(s))
<1>1. /\ Head(s) \in S /\ Tail(s) \in Seq(S) /\ Len(Tail(s)) = Len(s) - 1
      /\ Len(s) \in Nat \ {0} /\ Head(s) = s[1]
      /\ \A i \in 1 .. Len(Tail(s)) : Tail(s)[i] = s[i + 1]
  BY HeadTailProperties, EmptySeq
<1>2. DOMAIN s = 1 .. Len(s) /\ DOMAIN Tail(s) = 1 .. Len(s) - 1
  BY Zenon, <1>1, LenProperties
<1>3. ASSUME NEW i \in 1 .. Len(s) PROVE i = 1 \/ (i - 1 \in DOMAIN Tail(s) /\ s[i] = Tail(s)[i - 1])
  BY <1>1, <1>2
<1>4. ASSUME NEW i \in DOMAIN Tail(s) PROVE i + 1 \in DOMAIN s /\ s[i + 1] = Tail(s)[i]
  BY <1>1, <1>2
<1>5. ASSUME NEW e \in Range(s) PROVE e \in {Head(s)} \cup Range(Tail(s))
  <2>1. PICK i \in 1 .. Len(s) : e = s[i]
    BY Zenon, <1>2 DEF Range
  <2>2. CASE i = 1
    BY Zenon, <1>1, <2>1, <2>2
  <2>3. CASE i # 1
    BY Zenon, <1>3, <2>1, <2>3 DEF Range
  <2>4. QED
    BY Zenon, <2>2, <2>3
<1>6. Head(s) \in Range(s)
  BY <1>1, <1>2 DEF Range
<1>7. ASSUME NEW e \in Range(Tail(s)) PROVE e \in Range(s)
  BY Zenon, <1>2, <1>4 DEF Range
<1>8. QED
  BY Zenon, <1>1, <1>5, <1>6, <1>7

\* An element in front and one at the end of a queue.
LEMMA Fronted ==
    ASSUME NEW S, NEW s \in Seq(S), NEW m \in S, NEW e \in S
    PROVE  /\ <<m>> \o s \in Seq(S) /\ <<m>> \o s # <<>>
           /\ Head(<<m>> \o s) = m /\ Tail(<<m>> \o s) = s
           /\ <<m>> \o Append(s, e) = Append(<<m>> \o s, e)
<1>1. <<m>> \in Seq(S) /\ Len(<<m>>) = 1 /\ <<m>>[1] = m
  OBVIOUS
<1>2. /\ <<m>> \o s \in Seq(S) /\ Len(<<m>> \o s) = 1 + Len(s)
      /\ \A i \in 1 .. 1 + Len(s) : (<<m>> \o s)[i] = IF i <= 1 THEN m ELSE s[i - 1]
  BY <1>1, ConcatProperties
<1>3. <<m>> \o s # <<>> /\ Head(<<m>> \o s) = m
  BY <1>2, LenProperties
<1>4. Tail(<<m>> \o s) = s
  <2>1. /\ Tail(<<m>> \o s) \in Seq(S) /\ Len(Tail(<<m>> \o s)) = Len(s)
        /\ \A i \in 1 .. Len(s) : Tail(<<m>> \o s)[i] = (<<m>> \o s)[i + 1]
    BY <1>2, <1>3, HeadTailProperties, LenProperties
  <2>2. \A i \in 1 .. Len(s) : Tail(<<m>> \o s)[i] = s[i]
    BY <1>2, <2>1, LenProperties
  <2>3. QED
    BY Zenon, <2>1, <2>2, SeqEqual
<1>5. <<m>> \o Append(s, e) = Append(<<m>> \o s, e)
  BY <1>1, <1>2, AppendIsConcat, ConcatAssociative
<1>6. QED
  BY Zenon, <1>2, <1>3, <1>4, <1>5

(***************************************************************************)
(* The steps, by what they change.                                         *)
(***************************************************************************)
Conns == [state : {"off", "up", "closed", "reset", "shut", "disposed"},
          connected : BOOLEAN, wire : Seq(Calls), spoiled : BOOLEAN,
          early : SUBSET Calls, first : BOOLEAN]

\* The steps that touch neither a call nor a waiter.
Apart ==
    \/ ReceiveLoop \/ Receive \/ ReceiveInvalid \/ ReceiveFails \/ Reconnect \/ Slept
    \/ Challenged \/ Authenticated \/ HandshakeFails \/ Breaks \/ BeginStop \/ Stop

\* A socket with other values is a socket.
LEMMA SocketWith ==
    ASSUME NEW k \in Conns
    PROVE  /\ [k EXCEPT !.connected = FALSE] \in Conns
           /\ [k EXCEPT !.early = {}] \in Conns
           /\ [k EXCEPT !.state = "up", !.connected = TRUE] \in Conns
           /\ [k EXCEPT !.state = "disposed", !.connected = FALSE, !.wire = <<>>] \in Conns
           /\ \A w \in Seq(Calls) : [k EXCEPT !.wire = w] \in Conns
           /\ \A e \in SUBSET Calls : /\ [k EXCEPT !.spoiled = TRUE, !.early = e] \in Conns
                                      /\ [k EXCEPT !.state = "reset", !.early = e] \in Conns
           /\ \A w \in Seq(Calls), e \in SUBSET Calls :
                [k EXCEPT !.wire = w, !.early = e] \in Conns
<1>1. ASSUME NEW b \in BOOLEAN, NEW e \in SUBSET Calls
      PROVE  /\ [k EXCEPT !.connected = b] \in Conns
             /\ [k EXCEPT !.state = "up", !.connected = b] \in Conns
             /\ [k EXCEPT !.state = "disposed", !.connected = b, !.wire = <<>>] \in Conns
             /\ [k EXCEPT !.spoiled = b, !.early = e] \in Conns
  <2>1. [k EXCEPT !.connected = b] \in Conns
    BY Zenon DEF Conns
  <2>2. [k EXCEPT !.state = "up", !.connected = b] \in Conns
    BY Zenon DEF Conns
  <2>3. [k EXCEPT !.state = "disposed", !.connected = b, !.wire = <<>>] \in Conns
    <3>1. ASSUME NEW w \in Seq(Calls)
          PROVE  [k EXCEPT !.state = "disposed", !.connected = b, !.wire = w] \in Conns
      BY Zenon DEF Conns
    <3>2. <<>> \in Seq(Calls)
      OBVIOUS
    <3>3. QED
      BY <3>1, <3>2, Zenon
  <2>4. [k EXCEPT !.spoiled = b, !.early = e] \in Conns
    BY Zenon DEF Conns
  <2>5. QED
    BY Zenon, <2>1, <2>2, <2>3, <2>4
<1>2. /\ [k EXCEPT !.early = {}] \in Conns
      /\ \A w \in Seq(Calls) : [k EXCEPT !.wire = w] \in Conns
      /\ \A e \in SUBSET Calls : [k EXCEPT !.state = "reset", !.early = e] \in Conns
      /\ \A w \in Seq(Calls), e \in SUBSET Calls :
                [k EXCEPT !.wire = w, !.early = e] \in Conns
  BY Zenon DEF Conns
<1>3. /\ [k EXCEPT !.connected = FALSE] \in Conns
      /\ [k EXCEPT !.state = "disposed", !.connected = FALSE, !.wire = <<>>] \in Conns
  BY <1>1, Plain, Zenon
<1>4. /\ [k EXCEPT !.state = "up", !.connected = TRUE] \in Conns
      /\ \A e \in SUBSET Calls : [k EXCEPT !.spoiled = TRUE, !.early = e] \in Conns
  BY <1>1, Plain, Zenon
<1>5. QED
  BY <1>2, <1>3, <1>4, Zenon

\* A new socket is a socket, connected or not.
LEMMA NewSocketOK ==
    NewSocket \in Conns /\ [NewSocket EXCEPT !.state = "up", !.connected = TRUE] \in Conns
<1>1. NewSocket \in Conns
  <2>1. ASSUME NEW b \in BOOLEAN
        PROVE  [state |-> "off", connected |-> b, wire |-> <<>>, spoiled |-> b,
                early |-> {}, first |-> b] \in Conns
    BY DEF Conns
  <2>2. QED
    BY Zenon, <2>1 DEF NewSocket
<1>2. QED
  BY Zenon, <1>1, SocketWith

\* A connection that is cut keeps its shape.
LEMMA CutOK ==
    ASSUME conn \in Conns, NEW s \in {"reset", "closed", "shut"}, Cut(s)
    PROVE  conn' \in Conns /\ conn'.state = s
<1>1. PICK n \in 0 .. (IF Handshake THEN 0 ELSE Len(conn.wire)) :
         conn' = [conn EXCEPT !.state = s, !.wire = SubSeq(conn.wire, 1, n)]
  BY Zenon DEF Cut
<1>2. conn.wire \in Seq(Calls) /\ Len(conn.wire) \in Nat
  BY Zenon, LenProperties DEF Conns
<1>3. n \in 0 .. Len(conn.wire)
  BY <1>1, <1>2
<1>4. SubSeq(conn.wire, 1, n) \in Seq(Calls)
  <2>1. \A i \in 1 .. n : conn.wire[i] \in Calls
    BY <1>2, <1>3, ElementOfSeq
  <2>2. QED
    BY <1>3, <2>1, SubSeqProperties
<1>5. QED
  BY Zenon, <1>1, <1>4 DEF Conns

\* What these steps do to the connection and to the receive thread.
LEMMA ApartSteps ==
    ASSUME TypeOK, HasMessage, Apart
    PROVE  /\ UNCHANGED <<call, waiting, lists>>
           /\ conn' \in Conns /\ HasMessage' /\ trouble \subseteq trouble'
           /\ recv' \in [pc : {"loop", "receive", "got", "notify", "error", "freeing", "retry",
                               "sleep", "challenge", "status", "ended"}, msg : Calls \cup {None}]
           /\ stop' \in {"no", "shut", "closed", "stopped", "failed"}
           /\ trouble' \subseteq {"escaped", "mismatch", "lost"}
           /\ UNCHANGED recv \/ recv.pc \notin {"notify", "freeing"}
<1>1. conn \in Conns
  BY Zenon DEF TypeOK, Conns
<1>2. CASE ReceiveLoop
  BY Zenon, <1>1, <1>2 DEF ReceiveLoop, RecvAt, RecvGoes, TypeOK, HasMessage
<1>3. CASE Receive
  <2>1. Head(conn.wire) \in Calls /\ Tail(conn.wire) \in Seq(Calls)
    BY Zenon, <1>1, <1>3, RangeTail DEF Receive, Conns
  <2>2. conn' \in Conns
    BY Zenon, <1>1, <1>3, <2>1, SocketWith DEF Receive
  <2>3. QED
    BY Zenon, <1>3, <2>1, <2>2 DEF Receive, RecvAt, TypeOK, HasMessage
<1>4. CASE ReceiveInvalid
  BY Zenon, <1>4, NewSocketOK DEF ReceiveInvalid, RecvAt, RecvGoes, TypeOK, HasMessage
<1>5. CASE ReceiveFails
  <2>1. conn' \in Conns
    BY Zenon, <1>1, <1>5, SocketWith DEF ReceiveFails, ReadEnds
  <2>2. QED
    BY <1>5, <2>1 DEF ReceiveFails, ReadEnds, Escapes, Sound, RecvAt, RecvGoes, TypeOK, HasMessage
<1>6. CASE Reconnect
  <2>1. conn' \in Conns
    BY Zenon, <1>1, <1>6, NewSocketOK DEF Reconnect, Connect
  <2>2. QED
    BY <1>6, <2>1 DEF Reconnect, Connect, RecvAt, RecvGoes, TypeOK, HasMessage
<1>7. CASE Slept \/ Challenged
  <2>1. CASE Slept
    BY Zenon, <1>1, <2>1 DEF Slept, RecvAt, RecvGoes, TypeOK, HasMessage
  <2>2. CASE Challenged
    BY Zenon, <1>1, <2>2 DEF Challenged, RecvAt, RecvGoes, TypeOK, HasMessage
  <2>3. QED
    BY Zenon, <1>7, <2>1, <2>2
<1>8. CASE Authenticated
  <2>1. conn' \in Conns
    BY Zenon, <1>1, <1>8, SocketWith DEF Authenticated
  <2>2. QED
    BY <1>8, <2>1 DEF Authenticated, Escapes, Sound, RecvAt, RecvGoes, TypeOK, HasMessage
<1>9. CASE HandshakeFails
  <2>1. conn' \in Conns
    BY Zenon, <1>1, <1>9, SocketWith DEF HandshakeFails, ReadEnds
  <2>2. QED
    BY <1>9, <2>1 DEF HandshakeFails, Handshake, ReadEnds, Abandons, Escapes, RecvAt, RecvGoes,
                      TypeOK, HasMessage
<1>10. CASE Breaks
  BY Zenon, <1>1, <1>10, CutOK DEF Breaks, TypeOK, HasMessage
<1>11. CASE BeginStop
  BY ZenonT(60), <1>1, <1>11, CutOK DEF BeginStop, TypeOK, HasMessage
<1>12. CASE Stop
  <2>1. conn' \in Conns
    BY Zenon, <1>1, <1>12, SocketWith DEF Stop
  <2>2. QED
    BY Zenon, <1>12, <2>1 DEF Stop, TypeOK, HasMessage
<1>13. QED
  BY Zenon, <1>2, <1>3, <1>4, <1>5, <1>6, <1>7, <1>8, <1>9, <1>10, <1>11, <1>12 DEF Apart

(***************************************************************************)
(* The calls, by what is done to their waiters.                            *)
(***************************************************************************)
CallPcs == {"new", "queued", "sending", "waits", "failed", "freeing", "done"}
Records == [pc : CallPcs, op : {None, "get", "async", "other"}, id : Ids \cup {None},
            event : BOOLEAN, called : Nat]

\* A call with another place, or whose waiter is told, is a call.
LEMMA CallWith ==
    ASSUME NEW r \in Records
    PROVE  /\ \A p \in CallPcs : [r EXCEPT !.pc = p] \in Records
           /\ [r EXCEPT !.event = TRUE] \in Records
           /\ \A n \in Nat : [r EXCEPT !.event = TRUE, !.called = n] \in Records
<1>1. \A p \in CallPcs : [r EXCEPT !.pc = p] \in Records
  BY Zenon DEF Records
<1>2. ASSUME NEW b \in BOOLEAN PROVE [r EXCEPT !.event = b] \in Records
  BY Zenon DEF Records
<1>3. ASSUME NEW b \in BOOLEAN, NEW n \in Nat
      PROVE  [r EXCEPT !.event = b, !.called = n] \in Records
  BY Zenon DEF Records
<1>4. [r EXCEPT !.event = TRUE] \in Records
  BY <1>2, Plain, Zenon
<1>5. ASSUME NEW n \in Nat PROVE [r EXCEPT !.event = TRUE, !.called = n] \in Records
  BY <1>3, Plain, Zenon
<1>6. QED
  BY <1>1, <1>4, <1>5, Zenon

\* The calls that were made stay what they are; the callbacks of those in S are called,
\* and nobody in S stays in a list.
Tells(S) ==
    /\ call' \in [Calls -> Records]
    /\ \A c \in Calls :
         /\ call'[c].op = call[c].op /\ call'[c].id = call[c].id
         /\ call'[c].pc = "new" <=> call[c].pc = "new"
         /\ call'[c].called = IF c \in S /\ Async(c) THEN call[c].called + 1 ELSE call[c].called
    /\ lists' \in [Ids -> SUBSET Calls]
    /\ \A x \in Ids : lists'[x] \subseteq lists[x] /\ lists'[x] \cap S = {}
    /\ \A c \in S : \E x \in Ids : c \in lists[x]

\* What FreeAllWaitersWithError makes of the calls.
LEMMA FailedOK ==
    ASSUME call \in [Calls -> Records], NEW S \in SUBSET Calls, NEW b \in BOOLEAN
    PROVE  /\ Failed(S, b) \in [Calls -> Records]
           /\ \A c \in Calls :
                /\ Failed(S, b)[c].op = call[c].op /\ Failed(S, b)[c].id = call[c].id
                /\ Failed(S, b)[c].pc = call[c].pc
                /\ Failed(S, b)[c].called = IF b /\ c \in S /\ Async(c) THEN call[c].called + 1
                                            ELSE call[c].called
<1>1. SUFFICES ASSUME NEW c \in Calls
               PROVE  /\ Failed(S, b)[c] \in Records
                      /\ Failed(S, b)[c].op = call[c].op /\ Failed(S, b)[c].id = call[c].id
                      /\ Failed(S, b)[c].pc = call[c].pc
                      /\ Failed(S, b)[c].called = IF b /\ c \in S /\ Async(c) THEN call[c].called + 1
                                                  ELSE call[c].called
  BY Zenon DEF Failed
<1>2. call[c] \in Records /\ call[c].called \in Nat
  BY Zenon DEF Records
<1>3. CASE c \notin S
  BY Zenon, <1>2, <1>3 DEF Failed
<1>4. CASE c \in S
  <2>1. DEFINE n == IF b /\ Async(c) THEN call[c].called + 1 ELSE call[c].called
  <2>2. n \in Nat
    BY <1>2
  <2>3. Failed(S, b)[c] = [call[c] EXCEPT !.event = TRUE, !.called = n]
    BY Zenon, <1>4 DEF Failed
  <2>4. [call[c] EXCEPT !.event = TRUE, !.called = n] \in Records
    BY <1>2, <2>2, CallWith, Zenon
  <2>5. QED
    BY Zenon, <1>2, <1>4, <2>3, <2>4 DEF Records
<1>5. QED
  BY Zenon, <1>3, <1>4

\* Such steps keep what holds of the calls and the lists.
LEMMA TellsKeeps ==
    ASSUME Shape, NEW S \in SUBSET Calls, Tells(S)
    PROVE  /\ \A x \in Ids : \A c \in lists'[x] : IsGet(c)' /\ call'[c].id = x
           /\ ListsFresh' /\ NewUncalled' /\ CallbackOnce' /\ Named'
<1>1. /\ \A x \in Ids : \A c \in lists[x] : c \in Calls /\ IsGet(c) /\ call[c].id = x
      /\ \A c \in Calls : call[c].called \in Nat
  BY Zenon DEF Shape, TypeOK
<1>2. \A x \in Ids : \A c \in lists'[x] : IsGet(c)' /\ call'[c].id = x
  BY ZenonT(60), <1>1 DEF Tells, IsGet
<1>3. \A c \in S : call[c].pc # "new" /\ call[c].called = 0
  BY Zenon DEF Shape, ListsFresh, Tells
<1>4. ListsFresh'
  BY Zenon, <1>1 DEF Shape, ListsFresh, Tells
<1>5. NewUncalled'
  BY Zenon, <1>3 DEF Shape, NewUncalled, Tells
<1>6. CallbackOnce'
  BY <1>1, <1>3 DEF Shape, CallbackOnce, Tells
<1>7. Named'
  BY Zenon DEF Shape, Named, Tells
<1>8. QED
  BY Zenon, <1>2, <1>4, <1>5, <1>6, <1>7

\* What is not about the calls and the lists.
OthersOK ==
    /\ waiting \in Seq(Calls) /\ conn \in Conns /\ HasMessage
    /\ recv \in [pc : {"loop", "receive", "got", "notify", "error", "freeing", "retry",
                       "sleep", "challenge", "status", "ended"}, msg : Calls \cup {None}]
    /\ stop \in {"no", "shut", "closed", "stopped", "failed"}
    /\ trouble \subseteq {"escaped", "mismatch", "lost"}

\* The shape, put together.
LEMMA ShapeFrom ==
    ASSUME Shape, NEW S \in SUBSET Calls, Tells(S), OthersOK', Served'
    PROVE  Shape'
<1>1. /\ \A x \in Ids : \A c \in lists'[x] : IsGet(c)' /\ call'[c].id = x
      /\ ListsFresh' /\ NewUncalled' /\ CallbackOnce' /\ Named'
  BY Zenon, TellsKeeps
<1>2. TypeOK'
  BY Zenon, <1>1 DEF Tells, OthersOK, TypeOK, Records, CallPcs, Conns
<1>3. QED
  BY Zenon, <1>1, <1>2 DEF Shape, OthersOK

\* The queue gets no waiter, and the receive thread no message.
LEMMA ServedFrom ==
    ASSUME Shape, NEW S \in SUBSET Calls, Tells(S), Range(waiting') \subseteq Range(waiting),
           UNCHANGED recv \/ recv'.pc # "notify", trouble \subseteq trouble'
    PROVE  Served'
<1>1. Range(waiting) \subseteq Calls
  BY DEF Shape, TypeOK, Range
<1>2. recv.pc = "notify" => recv.msg \in Calls
  BY Zenon DEF Shape, HasMessage
<1>3. QED
  BY ZenonT(60), <1>1, <1>2 DEF Shape, Served, Tells

\* ... and taken apart.
LEMMA ShapeParts ==
    ASSUME Shape
    PROVE  /\ OthersOK /\ call \in [Calls -> Records] /\ lists \in [Ids -> SUBSET Calls]
           /\ \A c \in Calls : call[c] \in Records /\ call[c].called \in Nat
  BY Zenon DEF Shape, TypeOK, OthersOK, Records, CallPcs, Conns

\* A call goes on in calls f that a step has made.
LEMMA PcAfter ==
    ASSUME NEW f \in [Calls -> Records], NEW c \in Calls, NEW q \in CallPcs
    PROVE  /\ [f EXCEPT ![c].pc = q] \in [Calls -> Records]
           /\ \A d \in Calls : LET g == [f EXCEPT ![c].pc = q]
                               IN  /\ g[d].op = f[d].op /\ g[d].id = f[d].id
                                   /\ g[d].called = f[d].called
                                   /\ g[d].pc = IF d = c THEN q ELSE f[d].pc
<1>1. f[c] \in Records /\ [f[c] EXCEPT !.pc = q] \in Records
  BY CallWith, Zenon
<1>2. [f EXCEPT ![c].pc = q] \in [Calls -> Records]
  BY Zenon, <1>1
<1>3. ASSUME NEW d \in Calls
      PROVE  LET g == [f EXCEPT ![c].pc = q]
             IN  /\ g[d].op = f[d].op /\ g[d].id = f[d].id /\ g[d].called = f[d].called
                 /\ g[d].pc = IF d = c THEN q ELSE f[d].pc
  <2>1. CASE d = c
    BY Zenon, <1>1, <2>1 DEF Records
  <2>2. CASE d # c
    BY Zenon, <2>2
  <2>3. QED
    BY Zenon, <2>1, <2>2
<1>4. QED
  BY Zenon, <1>2, <1>3

\* A call goes on.
LEMMA PcTells ==
    ASSUME Shape, NEW c \in Calls, NEW q \in CallPcs, q # "new", call[c].pc # "new",
           call' = [call EXCEPT ![c].pc = q], UNCHANGED lists
    PROVE  Tells({})
  BY ShapeParts, PcAfter DEF Tells

\* The waiters S are freed; T, those whose callbacks are called, leave the lists.
LEMMA FailedTells ==
    ASSUME Shape, NEW S \in SUBSET Calls, NEW b \in BOOLEAN, NEW T \in SUBSET Calls,
           T = IF b THEN S ELSE {},
           \A c \in T : \E x \in Ids : c \in lists[x],
           lists' \in [Ids -> SUBSET Calls],
           \A x \in Ids : lists'[x] \subseteq lists[x] /\ lists'[x] \cap T = {},
           \/ call' = Failed(S, b)
           \/ \E c \in Calls, q \in {"freeing", "done"} :
                call[c].pc # "new" /\ call' = [Failed(S, b) EXCEPT ![c].pc = q]
    PROVE  Tells(T)
<1>1. DEFINE f == Failed(S, b)
<1>2. /\ f \in [Calls -> Records]
      /\ \A c \in Calls : /\ f[c].op = call[c].op /\ f[c].id = call[c].id
                          /\ f[c].pc = call[c].pc
                          /\ f[c].called = IF b /\ c \in S /\ Async(c) THEN call[c].called + 1
                                           ELSE call[c].called
  BY ShapeParts, FailedOK
<1>3. \A c \in Calls : f[c].called = IF c \in T /\ Async(c) THEN call[c].called + 1
                                     ELSE call[c].called
  BY Zenon, <1>2
<1>4. CASE call' = f
  BY Zenon, <1>2, <1>3, <1>4 DEF Tells
<1>5. ASSUME NEW c \in Calls, NEW q \in {"freeing", "done"}, call[c].pc # "new",
             call' = [f EXCEPT ![c].pc = q]
      PROVE  Tells(T)
  <2>1. q \in CallPcs
    BY Zenon DEF CallPcs
  <2>2. HIDE DEF f
  <2>3. /\ call' \in [Calls -> Records]
        /\ \A d \in Calls : /\ call'[d].op = f[d].op /\ call'[d].id = f[d].id
                            /\ call'[d].called = f[d].called
                            /\ call'[d].pc = IF d = c THEN q ELSE f[d].pc
    BY <1>2, <1>5, <2>1, PcAfter
  <2>4. QED
    BY <1>2, <1>3, <1>5, <2>3 DEF Tells
<1>6. QED
  BY Zenon, <1>4, <1>5

\* A call begins: it was in no list.
LEMMA QueueShape ==
    ASSUME Shape, NEW c \in Calls, QueueGetWaiter(c)
    PROVE  Shape'
<1>1. PICK p \in Plans[c] :
         \/ /\ Get(p)
            /\ lists' = [lists EXCEPT ![p.id] = @ \cup {c}]
            /\ Begins(c, p, IF lists[p.id] = {} THEN "queued" ELSE Rest(p.op))
         \/ ~Get(p) /\ Begins(c, p, "queued") /\ UNCHANGED lists
  BY Zenon DEF QueueGetWaiter
<1>2. p.op \in {"get", "async", "other"} /\ p.id \in Ids
  BY PlansAssumption
<1>3. PICK q \in {"queued", "waits", "done"} : Begins(c, p, q)
  BY Zenon, <1>1 DEF Rest
<1>4. /\ call' \in [Calls -> Records]
      /\ \A d \in Calls : d # c => call'[d] = call[d]
      /\ call'[c].op = p.op /\ call'[c].id = p.id /\ call'[c].pc = q
      /\ call'[c].called = call[c].called
  <2>1. call[c] \in Records /\ [call[c] EXCEPT !.op = p.op, !.id = p.id, !.pc = q] \in Records
    BY Zenon, <1>2, ShapeParts DEF Records, CallPcs
  <2>2. call' = [call EXCEPT ![c] = [call[c] EXCEPT !.op = p.op, !.id = p.id, !.pc = q]]
    BY Zenon, <1>3 DEF Begins
  <2>3. QED
    BY Zenon, <2>1, <2>2, ShapeParts DEF Records
<1>5. /\ call[c].pc = "new" /\ call[c].called = 0
      /\ \A x \in Ids : c \notin lists[x]
  BY Zenon DEF QueueGetWaiter, Shape, NewUncalled, ListsFresh
<1>6. /\ lists' \in [Ids -> SUBSET Calls]
      /\ \A x \in Ids : \A d \in lists'[x] : d \in lists[x] \/ (d = c /\ x = p.id /\ Get(p))
  BY <1>1, <1>2, ShapeParts
<1>7. \A x \in Ids : \A d \in lists'[x] : IsGet(d)' /\ call'[d].id = x
  <2>1. \A x \in Ids : \A d \in lists[x] : d \in Calls /\ IsGet(d) /\ call[d].id = x
    BY Zenon DEF Shape, TypeOK
  <2>2. QED
    BY <1>4, <1>5, <1>6, <2>1 DEF IsGet, Get
<1>8. ListsFresh'
  BY <1>4, <1>5, <1>6 DEF Shape, ListsFresh
<1>9. NewUncalled' /\ CallbackOnce'
  BY Zenon, <1>4, <1>5 DEF Shape, NewUncalled, CallbackOnce
<1>10. OthersOK'
  BY Zenon, ShapeParts DEF QueueGetWaiter, OthersOK, HasMessage
<1>11. TypeOK'
  BY Zenon, <1>4, <1>6, <1>7, <1>10 DEF OthersOK, TypeOK, Records, CallPcs, Conns
<1>12. Named'
  BY Zenon, <1>2, <1>4 DEF Shape, Named
<1>13. Served'
  <2>1. recv.pc = "notify" => recv.msg \in Calls
    BY Zenon DEF Shape, HasMessage
  <2>2. UNCHANGED <<waiting, recv, trouble>> /\ Range(waiting) \subseteq Calls
    BY DEF QueueGetWaiter, Shape, TypeOK, Range
  <2>3. QED
    BY Zenon, <1>2, <1>3, <1>4, <2>1, <2>2 DEF Shape, Served
<1>14. QED
  BY Zenon, <1>8, <1>9, <1>10, <1>11, <1>12, <1>13 DEF Shape, OthersOK

\* What is sent leaves a socket a socket.
LEMMA SendSocket ==
    ASSUME Shape, NEW c \in Calls, Send(c)
    PROVE  conn' \in Conns
<1>1. conn \in Conns /\ conn.wire \in Seq(Calls) /\ conn.early \in SUBSET Calls
  BY Zenon, ShapeParts DEF OthersOK, Conns
<1>2. /\ Append(conn.wire, c) \in Seq(Calls) /\ conn.early \cup {c} \in SUBSET Calls
      /\ conn.early \cup Early(c) \in SUBSET Calls
  BY Zenon, <1>1, RangeAppend DEF Early
<1>3. CASE conn.state = "up" /\ recv.pc = "challenge"
  <2>1. conn' = [conn EXCEPT !.spoiled = TRUE, !.early = conn.early \cup {c}]
    BY Zenon, <1>3 DEF Send
  <2>2. QED
    BY <1>1, <1>2, <2>1, SocketWith, Zenon
<1>4. CASE conn.state = "up" /\ recv.pc # "challenge"
  <2>1. conn' = [conn EXCEPT !.wire = Append(conn.wire, c), !.early = conn.early \cup Early(c)]
    BY Zenon, <1>4 DEF Send
  <2>2. QED
    BY <1>1, <1>2, <2>1, SocketWith, Zenon
<1>5. CASE conn.state = "closed"
  <2>1. conn' = [conn EXCEPT !.state = "reset", !.early = conn.early \cup Early(c)]
    BY Zenon, <1>5 DEF Send
  <2>2. QED
    BY <1>1, <1>2, <2>1, SocketWith, Zenon
<1>6. CASE conn.state = "reset"
  <2>1. conn' = [conn EXCEPT !.connected = FALSE]
    BY Zenon, <1>6 DEF Send
  <2>2. QED
    BY <1>1, <2>1, SocketWith, Zenon
<1>7. CASE conn.state \notin {"up", "closed", "reset"}
  BY Zenon, <1>1, <1>7 DEF Send
<1>8. QED
  BY Zenon, <1>3, <1>4, <1>5, <1>6, <1>7

\* Where a call goes on after it has sent.
LEMMA SendPc ==
    ASSUME Shape, NEW c \in Calls, Send(c)
    PROVE  \E q \in {"waits", "done", "failed"} : call' = [call EXCEPT ![c].pc = q]
<1>1. conn.state \in {"off", "up", "closed", "reset", "shut", "disposed"}
  BY Zenon, ShapeParts DEF OthersOK, Conns
<1>2. QED
  BY Zenon, <1>1 DEF Send, Rest

\* The first half of FreeAllWaitersWithError, by a call or by the receive thread.
LEMMA QueueFreed ==
    ASSUME Shape, Frees(1),
           \/ call' = Freed(1).calls
           \/ \E c \in Calls :
                call[c].pc # "new" /\ call' = [Freed(1).calls EXCEPT ![c].pc = "freeing"]
    PROVE  Tells({}) /\ waiting' = <<>> /\ lists' = lists
<1>1. Range(waiting) \in SUBSET Calls /\ lists \in [Ids -> SUBSET Calls]
  BY ShapeParts DEF OthersOK, Range
<1>2. /\ waiting' = <<>> /\ lists' = lists
      /\ Freed(1).calls = Failed(Range(waiting), FALSE)
  BY Zenon DEF Frees, Freed
<1>3. /\ FALSE \in BOOLEAN /\ {} \in SUBSET Calls
      /\ {} = IF FALSE THEN Range(waiting) ELSE {}
  BY Zenon
<1>4. \A x \in Ids : lists'[x] \subseteq lists[x] /\ lists'[x] \cap {} = {}
  BY Zenon, <1>2
<1>5. \/ call' = Failed(Range(waiting), FALSE)
      \/ \E c \in Calls, q \in {"freeing", "done"} :
           call[c].pc # "new" /\ call' = [Failed(Range(waiting), FALSE) EXCEPT ![c].pc = q]
  BY Zenon, <1>2
<1>6. \A c \in {} : \E x \in Ids : c \in lists[x]
  BY Zenon
<1>7. lists' \in [Ids -> SUBSET Calls]
  BY Zenon, <1>1, <1>2
<1>8. Tells({})
  BY <1>1, <1>3, <1>4, <1>5, <1>6, <1>7, FailedTells, Zenon
<1>9. QED
  BY Zenon, <1>2, <1>8

\* The second half.
LEMMA ListsFreed ==
    ASSUME Shape, Frees(2),
           \/ call' = Freed(2).calls
           \/ \E c \in Calls :
                call[c].pc # "new" /\ call' = [Freed(2).calls EXCEPT ![c].pc = "done"]
    PROVE  Tells(Listed) /\ waiting' = waiting /\ lists' = [x \in Ids |-> {}]
<1>1. Listed \in SUBSET Calls /\ \A c \in Listed : \E x \in Ids : c \in lists[x]
  BY ShapeParts DEF Listed
<1>2. /\ waiting' = waiting /\ lists' = [x \in Ids |-> {}]
      /\ Freed(2).calls = Failed(Listed, TRUE)
  BY DEF Frees, Freed
<1>3. TRUE \in BOOLEAN /\ Listed = IF TRUE THEN Listed ELSE {}
  BY Zenon
<1>4. /\ lists' \in [Ids -> SUBSET Calls]
      /\ \A x \in Ids : lists'[x] \subseteq lists[x] /\ lists'[x] \cap Listed = {}
  BY Zenon, <1>2
<1>5. \/ call' = Failed(Listed, TRUE)
      \/ \E c \in Calls, q \in {"freeing", "done"} :
           call[c].pc # "new" /\ call' = [Failed(Listed, TRUE) EXCEPT ![c].pc = q]
  BY Zenon, <1>2
<1>6. Tells(Listed)
  BY <1>1, <1>3, <1>4, <1>5, FailedTells, Zenon
<1>7. QED
  BY Zenon, <1>2, <1>6

\* The steps of a call keep the shape.
LEMMA CallShape ==
    ASSUME Shape, NEW c \in Calls, CallStep(c)
    PROVE  Shape'
<1>1. Listed \in SUBSET Calls /\ {} \in SUBSET Calls
  BY Zenon, ShapeParts DEF Listed
<1>2. CASE Enqueue(c)
  <2>1. OthersOK'
    BY Zenon, <1>2, ShapeParts, RangeAppend DEF Enqueue, OthersOK, HasMessage
  <2>2. Tells({})
    BY Zenon, <1>2, PcTells DEF Enqueue, CallPcs
  <2>3. Range(waiting') = Range(waiting) \cup {c} /\ call'[c].pc # "new"
    BY <1>2, ShapeParts, RangeAppend DEF Enqueue, OthersOK, Records
  <2>4. Served'
    <3>1. Range(waiting) \subseteq Calls /\ (recv.pc = "notify" => recv.msg \in Calls)
      BY DEF Shape, TypeOK, Range, HasMessage
    <3>2. QED
      BY <1>2, <2>2, <2>3, <3>1 DEF Enqueue, Shape, Served, Tells
  <2>5. QED
    BY Zenon, <1>1, <2>1, <2>2, <2>4, ShapeFrom
<1>3. CASE Send(c)
  <2>1. OthersOK'
    BY Zenon, <1>3, ShapeParts, SendSocket DEF Send, OthersOK, HasMessage
  <2>2. PICK q \in {"waits", "done", "failed"} : call' = [call EXCEPT ![c].pc = q]
    BY Zenon, <1>3, SendPc
  <2>3. q \in CallPcs /\ q # "new" /\ call[c].pc # "new" /\ UNCHANGED lists
    BY Zenon, <1>3 DEF Send, CallPcs
  <2>4. Tells({})
    BY Zenon, <2>2, <2>3, PcTells
  <2>5. Served'
    BY Zenon, <1>1, <1>3, <2>4, ServedFrom DEF Send
  <2>6. QED
    BY Zenon, <1>1, <2>1, <2>4, <2>5, ShapeFrom
<1>4. CASE WaitOne(c)
  <2>1. OthersOK'
    BY Zenon, <1>4, ShapeParts DEF WaitOne, OthersOK, HasMessage
  <2>2. Tells({})
    BY Zenon, <1>4, PcTells DEF WaitOne, CallPcs
  <2>3. Served'
    BY Zenon, <1>1, <1>4, <2>2, ServedFrom DEF WaitOne
  <2>4. QED
    BY Zenon, <1>1, <2>1, <2>2, <2>3, ShapeFrom
<1>5. CASE HandleSendError(c)
  <2>1. CASE /\ call[c].pc = "failed" /\ Frees(1)
             /\ call' = [Freed(1).calls EXCEPT ![c].pc = "freeing"]
    <3>1. Tells({}) /\ waiting' = <<>>
      BY Zenon, <2>1, QueueFreed
    <3>2. OthersOK'
      BY <1>5, <3>1, ShapeParts DEF HandleSendError, OthersOK, HasMessage
    <3>3. Served'
      BY <1>1, <1>5, <3>1, ServedFrom DEF HandleSendError, Range
    <3>4. QED
      BY Zenon, <1>1, <3>1, <3>2, <3>3, ShapeFrom
  <2>2. CASE /\ call[c].pc = "freeing" /\ Frees(2)
             /\ call' = [Freed(2).calls EXCEPT ![c].pc = "done"]
    <3>1. Tells(Listed) /\ waiting' = waiting
      BY Zenon, <2>2, ListsFreed
    <3>2. OthersOK'
      BY Zenon, <1>5, <3>1, ShapeParts DEF HandleSendError, OthersOK, HasMessage
    <3>3. Served'
      BY Zenon, <1>1, <1>5, <3>1, ServedFrom DEF HandleSendError, Range
    <3>4. QED
      BY Zenon, <1>1, <3>1, <3>2, <3>3, ShapeFrom
  <2>3. QED
    BY Zenon, <1>5, <2>1, <2>2 DEF HandleSendError
<1>6. QED
  BY Zenon, <1>2, <1>3, <1>4, <1>5 DEF CallStep

\* An answer finds its waiter.
LEMMA DequeueTells ==
    ASSUME Shape, Dequeue
    PROVE  /\ Tells({}) /\ OthersOK' /\ UNCHANGED lists /\ trouble \subseteq trouble'
           /\ \A c \in Calls : call'[c].pc = call[c].pc
           /\ \/ trouble' # {}
              \/ /\ waiting # <<>> /\ waiting' = Tail(waiting)
                 /\ Answers(recv.msg, Head(waiting))
                 /\ recv' = IF IsGet(Head(waiting)) THEN [recv EXCEPT !.pc = "notify"]
                            ELSE [pc |-> "loop", msg |-> None]
<1>1. CASE waiting = <<>>
  BY Zenon, <1>1, ShapeParts DEF Dequeue, Escapes, Tells, OthersOK, HasMessage
<1>2. CASE waiting # <<>>
  <2>1. DEFINE top == Head(waiting)
  <2>2. top \in Calls /\ Tail(waiting) \in Seq(Calls)
    BY Zenon, <1>2, ShapeParts, RangeTail DEF OthersOK
  <2>3. /\ waiting' = Tail(waiting)
        /\ call' = [call EXCEPT ![top].event = TRUE]
        /\ recv' = IF IsGet(top) THEN [recv EXCEPT !.pc = "notify"]
                   ELSE [pc |-> "loop", msg |-> None]
        /\ trouble' = IF Answers(recv.msg, top) THEN trouble
                      ELSE trouble \cup {"mismatch"}
        /\ UNCHANGED <<lists, conn, stop>> /\ recv.pc = "got"
    BY Zenon, <1>2 DEF Dequeue, RecvAt
  <2>4. HIDE DEF top
  <2>5. call[top] \in Records /\ [call[top] EXCEPT !.event = TRUE] \in Records
    BY <2>2, ShapeParts, CallWith, Zenon
  <2>6. call' \in [Calls -> Records]
    BY Zenon, <2>3, <2>5, ShapeParts
  <2>7. ASSUME NEW d \in Calls
        PROVE  /\ call'[d].op = call[d].op /\ call'[d].id = call[d].id
               /\ call'[d].called = call[d].called /\ call'[d].pc = call[d].pc
    <3>1. CASE d = top
      BY Zenon, <2>3, <2>5, <3>1, ShapeParts DEF Records
    <3>2. CASE d # top
      BY Zenon, <2>3, <3>2, ShapeParts
    <3>3. QED
      BY Zenon, <3>1, <3>2
  <2>8. Tells({})
    BY Zenon, <2>3, <2>6, <2>7, ShapeParts DEF Tells
  <2>9. OthersOK'
    BY Zenon, <2>2, <2>3, ShapeParts DEF OthersOK, HasMessage
  <2>10. QED
    BY Zenon, <1>2, <2>3, <2>7, <2>8, <2>9 DEF top
<1>3. QED
  BY Zenon, <1>1, <1>2

\* The waiters of an asset are told.
LEMMA NotifyTells ==
    ASSUME Shape, CallGetWaiters
    PROVE  /\ \E S \in SUBSET Calls : Tells(S)
           /\ OthersOK' /\ UNCHANGED <<waiting, trouble>> /\ recv.pc = "notify"
           /\ lists' = [lists EXCEPT ![call[recv.msg].id] = {}]
           /\ \A c \in Calls : call'[c].pc = call[c].pc
<1>1. DEFINE x == call[recv.msg].id
<1>2. /\ lists' = [lists EXCEPT ![x] = {}] /\ RecvGoes("loop") /\ RecvAt("notify")
      /\ UNCHANGED <<waiting, conn, stop, trouble>>
  BY Zenon DEF CallGetWaiters, Called
<1>3. call' = [c \in Calls |->
                 IF c \notin lists[x] THEN call[c]
                 ELSE [call[c] EXCEPT !.event = TRUE,
                         !.called = IF Async(c) THEN call[c].called + 1 ELSE call[c].called]]
  BY Zenon DEF CallGetWaiters
<1>4. x \in Ids /\ lists[x] \in SUBSET Calls
  BY Zenon, <1>2, ShapeParts DEF Shape, Served, RecvAt, Up
<1>5. call' = Failed(lists[x], TRUE)
  BY Zenon, <1>3 DEF Failed
<1>6. TRUE \in BOOLEAN /\ lists[x] = IF TRUE THEN lists[x] ELSE {}
  BY Zenon
<1>7. \A c \in lists[x] : \E y \in Ids : c \in lists[y]
  BY Zenon, <1>4
<1>8. /\ lists' \in [Ids -> SUBSET Calls]
      /\ \A y \in Ids : lists'[y] \subseteq lists[y]
      /\ \A y \in Ids : lists'[y] \cap lists[x] = {}
  <2>1. lists' \in [Ids -> SUBSET Calls] /\ \A y \in Ids : lists'[y] \subseteq lists[y]
    BY Zenon, <1>2, <1>4, ShapeParts
  <2>2. \A y \in Ids : y # x => lists[y] \cap lists[x] = {}
    BY <1>4 DEF Shape, TypeOK
  <2>3. \A y \in Ids : lists'[y] = IF y = x THEN {} ELSE lists[y]
    BY Zenon, <1>2, <1>4, ShapeParts
  <2>4. QED
    BY Zenon, <2>1, <2>2, <2>3
<1>9. Tells(lists[x])
  BY <1>4, <1>5, <1>6, <1>7, <1>8, FailedTells, Zenon
<1>10. OthersOK' /\ recv.pc = "notify"
  BY Zenon, <1>2, ShapeParts DEF OthersOK, HasMessage, RecvAt, RecvGoes
<1>11. \A c \in Calls : call'[c].pc = call[c].pc
  <2>1. \A c \in Calls : Failed(lists[x], TRUE)[c].pc = call[c].pc
    BY <1>4, <1>6, ShapeParts, FailedOK, Zenon
  <2>2. QED
    BY Zenon, <1>5, <2>1
<1>12. QED
  BY Zenon, <1>2, <1>4, <1>9, <1>10, <1>11

\* Every step keeps the shape.
LEMMA ShapeNext ==
    ASSUME Shape, [Next]_vars
    PROVE  Shape'
<1>1. Listed \in SUBSET Calls /\ {} \in SUBSET Calls
  BY Zenon, ShapeParts DEF Listed
<1>2. ASSUME NEW c \in Calls, QueueGetWaiter(c) \/ CallStep(c) PROVE Shape'
  BY Zenon, <1>2, QueueShape, CallShape
<1>3. CASE Apart
  <2>1. OthersOK' /\ UNCHANGED <<call, waiting, lists>> /\ trouble \subseteq trouble'
    BY Zenon, <1>3, ShapeParts, ApartSteps DEF Shape, OthersOK
  <2>2. Tells({})
    BY Zenon, <2>1, ShapeParts DEF Tells
  <2>3. UNCHANGED recv \/ recv'.pc # "notify"
    BY <1>3 DEF Apart, ReceiveLoop, Receive, ReceiveInvalid, ReceiveFails, ReadEnds, Reconnect,
                Connect, Slept, Challenged, Authenticated, HandshakeFails, Breaks, BeginStop,
                Stop, RecvGoes
  <2>4. Served'
    BY Zenon, <1>1, <2>1, <2>2, <2>3, ServedFrom
  <2>5. QED
    BY Zenon, <1>1, <2>1, <2>2, <2>4, ShapeFrom
<1>4. CASE Dequeue
  <2>1. /\ Tells({}) /\ OthersOK' /\ trouble \subseteq trouble'
        /\ \A c \in Calls : call'[c].pc = call[c].pc
    BY Zenon, <1>4, DequeueTells
  <2>2. Served'
    <3>1. CASE waiting = <<>>
      <4>1. UNCHANGED <<waiting, recv>>
        BY Zenon, <1>4, <3>1 DEF Dequeue
      <4>2. QED
        BY Zenon, <1>1, <2>1, <4>1, ServedFrom
    <3>2. CASE waiting # <<>>
      <4>1. /\ waiting' = Tail(waiting) /\ Head(waiting) \in Range(waiting)
            /\ Range(Tail(waiting)) \subseteq Range(waiting) /\ Range(waiting) \subseteq Calls
        BY <1>4, <3>2, ShapeParts, RangeTail DEF Dequeue, OthersOK, Range
      <4>2. call[Head(waiting)].id \in Ids
        BY Zenon, <4>1 DEF Shape, Served, Named
      <4>3. recv'.pc = "notify" /\ trouble' = {} =>
               recv'.msg = recv.msg /\ call[recv.msg].id = call[Head(waiting)].id
        <5>1. trouble' # {} \/ Answers(recv.msg, Head(waiting))
          BY Zenon, <1>4, DequeueTells
        <5>2. recv' = [recv EXCEPT !.pc = "notify"] \/ recv'.pc = "loop"
          BY <1>4, <3>2 DEF Dequeue
        <5>3. [recv EXCEPT !.pc = "notify"].msg = recv.msg
          BY Zenon, ShapeParts DEF OthersOK
        <5>4. QED
          BY Zenon, <5>1, <5>2, <5>3 DEF Answers
      <4>4. recv.msg \in Calls
        BY Zenon, <1>4, ShapeParts DEF Dequeue, RecvAt, OthersOK, HasMessage
      <4>5. QED
        BY ZenonT(60), <2>1, <4>1, <4>2, <4>3, <4>4 DEF Shape, Served, Tells
    <3>3. QED
      BY Zenon, <3>1, <3>2
  <2>3. QED
    BY Zenon, <1>1, <2>1, <2>2, ShapeFrom
<1>5. CASE CallGetWaiters
  <2>1. PICK S \in SUBSET Calls : Tells(S)
    BY Zenon, <1>5, NotifyTells
  <2>2. OthersOK' /\ UNCHANGED <<waiting, trouble>> /\ recv'.pc # "notify"
    BY Zenon, <1>5, NotifyTells DEF CallGetWaiters, RecvGoes
  <2>3. Served'
    BY Zenon, <2>1, <2>2, ServedFrom
  <2>4. QED
    BY Zenon, <2>1, <2>2, <2>3, ShapeFrom
<1>6. CASE HandleReceiveError
  <2>1. CASE RecvAt("error") /\ Frees(1) /\ call' = Freed(1).calls /\ RecvGoes("freeing")
    <3>1. Tells({}) /\ waiting' = <<>>
      BY Zenon, <2>1, QueueFreed
    <3>2. OthersOK'
      BY <1>6, <2>1, <3>1, ShapeParts DEF HandleReceiveError, RecvGoes, OthersOK, HasMessage
    <3>3. Served'
      BY <1>1, <1>6, <2>1, <3>1, ServedFrom DEF HandleReceiveError, RecvGoes, Range
    <3>4. QED
      BY Zenon, <1>1, <3>1, <3>2, <3>3, ShapeFrom
  <2>2. CASE RecvAt("freeing") /\ Frees(2) /\ call' = Freed(2).calls /\ RecvGoes("retry")
    <3>1. Tells(Listed) /\ waiting' = waiting
      BY Zenon, <2>2, ListsFreed
    <3>2. OthersOK'
      BY Zenon, <1>6, <2>2, <3>1, ShapeParts DEF HandleReceiveError, RecvGoes, OthersOK, HasMessage
    <3>3. Served'
      BY Zenon, <1>1, <1>6, <2>2, <3>1, ServedFrom DEF HandleReceiveError, RecvGoes
    <3>4. QED
      BY Zenon, <1>1, <3>1, <3>2, <3>3, ShapeFrom
  <2>3. QED
    BY Zenon, <1>6, <2>1, <2>2 DEF HandleReceiveError
<1>7. CASE UNCHANGED vars
  BY <1>7 DEF vars, Shape, TypeOK, HasMessage, ListsFresh, NewUncalled, CallbackOnce, Named,
              Served, IsGet
<1>8. QED
  BY Zenon, <1>2, <1>3, <1>4, <1>5, <1>6, <1>7 DEF Next, RecvStep, Apart

(***************************************************************************)
(* The lists are driven.                                                   *)
(***************************************************************************)
\* A step that goes on with one call that is neither queued nor freeing.
LEMMA PcDriven ==
    ASSUME ClientInv, NEW c \in Calls, NEW q \in CallPcs, call[c].pc \notin {"queued", "freeing"},
           call' = [call EXCEPT ![c].pc = q], UNCHANGED <<waiting, lists, recv, trouble>>
    PROVE  ListsDriven'
<1>1. \A d \in Calls : /\ call'[d].id = call[d].id
                       /\ call'[d].pc = IF d = c THEN q ELSE call[d].pc
  BY ShapeParts, PcAfter DEF ClientInv
<1>2. recv.pc = "notify" => recv.msg \in Calls
  BY Zenon DEF ClientInv, Shape, HasMessage
<1>3. \A x \in Ids : lists[x] \subseteq Calls
  BY Zenon, ShapeParts DEF ClientInv
<1>4. QED
  BY <1>1, <1>2, <1>3 DEF ClientInv, ListsDriven

\* A call that begins is driven itself, or joins a list that is.
LEMMA QueueDriven ==
    ASSUME ClientInv, NEW c \in Calls, QueueGetWaiter(c)
    PROVE  ListsDriven'
<1>1. PICK p \in Plans[c] :
         \/ /\ Get(p)
            /\ lists' = [lists EXCEPT ![p.id] = @ \cup {c}]
            /\ Begins(c, p, IF lists[p.id] = {} THEN "queued" ELSE Rest(p.op))
         \/ ~Get(p) /\ Begins(c, p, "queued") /\ UNCHANGED lists
  BY Zenon DEF QueueGetWaiter
<1>2. p.id \in Ids /\ call[c].pc = "new" /\ UNCHANGED <<waiting, recv, trouble>>
  BY PlansAssumption DEF QueueGetWaiter
<1>3. call \in [Calls -> Records] /\ call[c] \in Records
  BY Zenon, ShapeParts DEF ClientInv
<1>4. \A d \in Calls : d # c => call'[d] = call[d]
  BY Zenon, <1>1, <1>3 DEF Begins
<1>5. Get(p) /\ lists[p.id] = {} => call'[c].pc = "queued"
  <2>1. SUFFICES ASSUME Get(p), lists[p.id] = {} PROVE call'[c].pc = "queued"
    BY Zenon
  <2>2. call' = [call EXCEPT ![c] = [call[c] EXCEPT !.op = p.op, !.id = p.id, !.pc = "queued"]]
    BY Zenon, <1>1, <2>1 DEF Begins
  <2>3. QED
    BY Zenon, <1>3, <2>2 DEF Records
<1>6. \A x \in Ids : lists'[x] = IF Get(p) /\ x = p.id THEN lists[x] \cup {c} ELSE lists[x]
  BY Zenon, <1>1, <1>2, ShapeParts DEF ClientInv
<1>7. recv.pc = "notify" /\ trouble = {} => recv.msg \in Calls \ {c}
  BY Zenon, <1>2, PlansAssumption DEF ClientInv, Shape, HasMessage, Served, Named
<1>8. \A x \in Ids : lists[x] \subseteq Calls \ {c}
  BY Zenon, <1>2, ShapeParts DEF ClientInv, Shape, ListsFresh
<1>9. ASSUME NEW x \in Ids, lists[x] # {}
      PROVE  \/ \E d \in lists[x] : call'[d].pc = "queued" \/ d \in Range(waiting)
             \/ recv.pc = "notify" /\ call'[recv.msg].id = x
             \/ recv.pc = "freeing" \/ \E d \in Calls : call'[d].pc = "freeing"
             \/ trouble # {}
  BY Zenon, <1>2, <1>4, <1>7, <1>8, <1>9 DEF ClientInv, ListsDriven
<1>10. ASSUME NEW x \in Ids, lists[x] = {}, lists'[x] # {}
       PROVE  c \in lists'[x] /\ call'[c].pc = "queued"
  BY Zenon, <1>5, <1>6, <1>10
<1>11. \A x \in Ids : lists[x] \subseteq lists'[x]
  BY Zenon, <1>6
<1>12. ASSUME NEW x \in Ids, lists'[x] # {}
       PROVE  \/ \E d \in lists'[x] : call'[d].pc = "queued" \/ d \in Range(waiting)
              \/ recv.pc = "notify" /\ call'[recv.msg].id = x
              \/ recv.pc = "freeing" \/ \E d \in Calls : call'[d].pc = "freeing"
              \/ trouble # {}
  <2>1. CASE lists[x] = {}
    BY Zenon, <1>10, <1>12, <2>1
  <2>2. CASE lists[x] # {}
    BY Zenon, <1>9, <1>11, <2>2
  <2>3. QED
    BY Zenon, <2>1, <2>2
<1>13. QED
  BY Zenon, <1>2, <1>12 DEF ListsDriven

\* A step that moves the call c to q leaves the rest of the calls as it is.
LEMMA Moved ==
    ASSUME Shape, NEW c \in Calls, NEW q \in CallPcs, call' = [call EXCEPT ![c].pc = q]
    PROVE  \A d \in Calls : /\ call'[d].id = call[d].id
                            /\ call'[d].pc = IF d = c THEN q ELSE call[d].pc
  BY ShapeParts, PcAfter

\* The steps of a call keep the lists driven.
LEMMA CallDriven ==
    ASSUME ClientInv, NEW c \in Calls, CallStep(c)
    PROVE  ListsDriven'
<1>1. Shape /\ \A x \in Ids : lists[x] \subseteq Calls
  BY Zenon, ShapeParts DEF ClientInv
<1>2. CASE Enqueue(c)
  <2>1. /\ \A d \in Calls : /\ call'[d].id = call[d].id
                            /\ call'[d].pc = IF d = c THEN "sending" ELSE call[d].pc
        /\ call[c].pc = "queued" /\ UNCHANGED <<lists, recv, trouble>>
    <3>1. PICK q \in CallPcs : q = "sending"
      BY Zenon DEF CallPcs
    <3>2. call' = [call EXCEPT ![c].pc = q]
      BY Zenon, <1>2, <3>1 DEF Enqueue
    <3>3. QED
      BY ZenonT(60), <1>1, <1>2, <3>1, <3>2, Moved DEF Enqueue
  <2>2. Range(waiting') = Range(waiting) \cup {c}
    BY <1>1, <1>2, ShapeParts, RangeAppend DEF Enqueue, OthersOK
  <2>3. recv.pc = "notify" => recv.msg \in Calls
    BY Zenon, <1>1 DEF Shape, HasMessage
  <2>4. ASSUME NEW x \in Ids, lists[x] # {}
        PROVE  \/ \E d \in lists[x] : call'[d].pc = "queued" \/ d \in Range(waiting')
               \/ recv.pc = "notify" /\ call'[recv.msg].id = x
               \/ recv.pc = "freeing" \/ \E d \in Calls : call'[d].pc = "freeing"
               \/ trouble # {}
    <3>1. CASE \E d \in lists[x] : call[d].pc = "queued" \/ d \in Range(waiting)
      BY Zenon, <1>1, <2>1, <2>2, <3>1
    <3>2. CASE recv.pc = "notify" /\ call[recv.msg].id = x
      BY Zenon, <2>1, <2>3, <3>2
    <3>3. CASE recv.pc = "freeing" \/ (\E d \in Calls : call[d].pc = "freeing") \/ trouble # {}
      BY Zenon, <2>1, <3>3
    <3>4. QED
      BY Zenon, <2>4, <3>1, <3>2, <3>3 DEF ClientInv, ListsDriven
  <2>5. UNCHANGED <<lists, recv, trouble>>
    BY Zenon, <1>2 DEF Enqueue
  <2>6. QED
    BY Zenon, <2>4, <2>5 DEF ListsDriven
<1>3. CASE Send(c)
  <2>1. PICK q \in {"waits", "done", "failed"} : call' = [call EXCEPT ![c].pc = q]
    BY Zenon, <1>1, <1>3, SendPc
  <2>2. q \in CallPcs /\ call[c].pc = "sending" /\ UNCHANGED <<waiting, lists, recv, trouble>>
    BY Zenon, <1>3 DEF Send, CallPcs
  <2>3. QED
    BY Zenon, <2>1, <2>2, PcDriven
<1>4. CASE WaitOne(c)
  BY Zenon, <1>4, PcDriven DEF WaitOne, CallPcs
<1>5. CASE HandleSendError(c)
  <2>1. CASE /\ call[c].pc = "failed" /\ Frees(1)
             /\ call' = [Freed(1).calls EXCEPT ![c].pc = "freeing"]
    <3>1. DEFINE f == Failed(Range(waiting), FALSE)
    <3>2. f \in [Calls -> Records]
      <4>1. Range(waiting) \in SUBSET Calls /\ call \in [Calls -> Records]
        BY <1>1, ShapeParts DEF OthersOK, Range
      <4>2. QED
        BY <4>1, FailedOK, Plain, Zenon
    <3>3. call' = [f EXCEPT ![c].pc = "freeing"]
      BY Zenon, <2>1 DEF Freed
    <3>4. HIDE DEF f
    <3>5. call'[c].pc = "freeing"
      <4>1. f[c] \in Records
        BY Zenon, <3>2
      <4>2. QED
        BY Zenon, <3>2, <3>3, <4>1 DEF Records
    <3>6. QED
      BY Zenon, <3>5 DEF ListsDriven
  <2>2. CASE call[c].pc = "freeing" /\ Frees(2)
    BY <2>2 DEF Frees, Freed, ListsDriven
  <2>3. QED
    BY Zenon, <1>5, <2>1, <2>2 DEF HandleSendError
<1>6. QED
  BY Zenon, <1>2, <1>3, <1>4, <1>5 DEF CallStep

\* An answer that takes a waiter out of the queue empties the waiter's list next.
LEMMA DequeueDriven ==
    ASSUME ClientInv, Dequeue
    PROVE  ListsDriven'
<1>1. Shape /\ recv.pc = "got" /\ recv.msg \in Calls
  BY Zenon DEF ClientInv, Shape, Dequeue, RecvAt, HasMessage
<1>2. /\ UNCHANGED lists /\ \A c \in Calls : call'[c].pc = call[c].pc /\ call'[c].id = call[c].id
  BY Zenon, <1>1, DequeueTells DEF Tells
<1>3. CASE trouble' # {}
  BY Zenon, <1>3 DEF ListsDriven
<1>4. CASE trouble' = {}
  <2>1. /\ waiting # <<>> /\ waiting' = Tail(waiting) /\ Answers(recv.msg, Head(waiting))
        /\ recv' = IF IsGet(Head(waiting)) THEN [recv EXCEPT !.pc = "notify"]
                   ELSE [pc |-> "loop", msg |-> None]
    BY Zenon, <1>1, <1>4, DequeueTells
  <2>2. Head(waiting) \in Calls /\ Range(waiting) = {Head(waiting)} \cup Range(waiting')
    BY Zenon, <1>1, <2>1, ShapeParts, RangeTail DEF OthersOK
  <2>3. [recv EXCEPT !.pc = "notify"].msg = recv.msg /\ [recv EXCEPT !.pc = "notify"].pc = "notify"
    BY Zenon, <1>1, ShapeParts DEF OthersOK
  <2>4. ASSUME NEW x \in Ids, Head(waiting) \in lists[x]
        PROVE  recv'.pc = "notify" /\ call'[recv'.msg].id = x
    <3>1. IsGet(Head(waiting)) /\ call[Head(waiting)].id = x
      BY Zenon, <1>1, <2>4 DEF Shape, TypeOK
    <3>2. QED
      BY Zenon, <1>1, <1>2, <2>1, <2>3, <3>1 DEF Answers
  <2>5. trouble = {} /\ \A x \in Ids : lists[x] \subseteq Calls
    BY Zenon, <1>1, <1>4, DequeueTells, ShapeParts
  <2>6. QED
    BY <1>1, <1>2, <2>2, <2>4, <2>5 DEF ClientInv, ListsDriven
<1>5. QED
  BY Zenon, <1>3, <1>4

\* Every step keeps the lists driven.
LEMMA DrivenNext ==
    ASSUME ClientInv, [Next]_vars
    PROVE  ListsDriven'
<1>1. Shape /\ \A x \in Ids : lists[x] \subseteq Calls
  BY Zenon, ShapeParts DEF ClientInv
<1>2. ASSUME NEW c \in Calls, QueueGetWaiter(c) \/ CallStep(c) PROVE ListsDriven'
  BY Zenon, <1>2, QueueDriven, CallDriven
<1>3. CASE Apart
  <2>1. /\ UNCHANGED <<call, waiting, lists>> /\ trouble \subseteq trouble'
        /\ UNCHANGED recv \/ recv.pc \notin {"notify", "freeing"}
    BY Zenon, <1>1, <1>3, ApartSteps DEF Shape
  <2>2. QED
    BY Zenon, <2>1 DEF ClientInv, ListsDriven
<1>4. CASE CallGetWaiters
  <2>1. /\ UNCHANGED <<waiting, trouble>> /\ recv.pc = "notify"
        /\ lists' = [lists EXCEPT ![call[recv.msg].id] = {}]
        /\ \A c \in Calls : call'[c].pc = call[c].pc
    BY Zenon, <1>1, <1>4, NotifyTells
  <2>2. \A x \in Ids : lists'[x] = IF x = call[recv.msg].id THEN {} ELSE lists[x]
    BY Zenon, <1>1, <2>1, ShapeParts
  <2>3. QED
    BY ZenonT(60), <1>1, <2>1, <2>2 DEF ClientInv, ListsDriven
<1>5. CASE HandleReceiveError
  <2>1. CASE RecvGoes("freeing")
    BY Zenon, <2>1 DEF RecvGoes, ListsDriven
  <2>2. CASE Frees(2)
    BY <2>2 DEF Frees, Freed, ListsDriven
  <2>3. QED
    BY Zenon, <1>5, <2>1, <2>2 DEF HandleReceiveError
<1>6. CASE UNCHANGED vars
  BY Zenon, <1>6 DEF vars, ClientInv, ListsDriven
<1>7. QED
  BY Zenon, <1>2, <1>3, <1>4, <1>5, <1>6, DequeueDriven DEF Next, RecvStep, Apart

\* The client starts as it should be.
LEMMA ClientInit ==
    ASSUME Init
    PROVE  ClientInv
<1>1. call \in [Calls -> Records]
  <2>1. ASSUME NEW b \in BOOLEAN
        PROVE  [pc |-> "new", op |-> None, id |-> None, event |-> b, called |-> 0] \in Records
    BY Zenon DEF Records, CallPcs
  <2>2. NewCall \in Records
    BY <2>1, Plain, Zenon DEF NewCall
  <2>3. QED
    BY Zenon, <2>2 DEF Init
<1>2. \A c \in Calls : call[c].pc = "new" /\ call[c].id = None /\ call[c].called = 0
  BY Zenon DEF Init, NewCall
<1>3. conn \in Conns
  <2>1. ASSUME NEW b \in BOOLEAN
        PROVE  [[NewSocket EXCEPT !.state = "up", !.connected = TRUE] EXCEPT !.first = b] \in Conns
    BY Zenon, NewSocketOK DEF Conns
  <2>2. conn = [[NewSocket EXCEPT !.state = "up", !.connected = TRUE] EXCEPT !.first = TRUE]
    BY Zenon DEF Init, NewSocket
  <2>3. QED
    BY <2>1, <2>2, Plain, Zenon
<1>4. OthersOK
  BY <1>3 DEF Init, OthersOK, HasMessage
<1>5. lists \in [Ids -> SUBSET Calls] /\ \A x \in Ids : lists[x] = {}
  BY Zenon DEF Init
<1>6. TypeOK
  BY Zenon, <1>1, <1>4, <1>5 DEF OthersOK, TypeOK, Records, CallPcs, Conns
<1>7. Range(waiting) = {} /\ recv.pc = "loop"
  BY DEF Init, Range
<1>8. QED
  BY <1>2, <1>4, <1>5, <1>6, <1>7 DEF ClientInv, Shape, OthersOK, ListsFresh, NewUncalled,
     CallbackOnce, Named, Served, ListsDriven

\* The client is as it should be at all times.
THEOREM ClientSafety == Spec => []ClientInv
<1>1. ASSUME ClientInv, [Next]_vars PROVE ClientInv'
  BY Zenon, <1>1, ShapeNext, DrivenNext DEF ClientInv
<1>2. QED
  BY <1>1, ClientInit, PTL DEF Spec

\* Every variable has its shape, and the lists have GETs of their asset only.
THEOREM TypeSafety == Spec => []TypeOK
<1>1. ClientInv => TypeOK
  BY Zenon DEF ClientInv, Shape
<1>2. QED
  BY <1>1, ClientSafety, PTL

\* Nobody joins a list that nobody will empty: QueueGetWaiter lets a GET wait for
\* another one only as long as something will free both.
THEOREM DrivenSafety == Spec => []ListsDriven
<1>1. ClientInv => ListsDriven
  BY Zenon DEF ClientInv
<1>2. QED
  BY <1>1, ClientSafety, PTL

\* A callback is called once at most, by CallGetWaiters or FreeAllWaitersWithError.
THEOREM OnceSafety == Spec => []CallbackOnce
<1>1. ClientInv => CallbackOnce
  BY Zenon DEF ClientInv, Shape
<1>2. QED
  BY <1>1, ClientSafety, PTL

(***************************************************************************)
(* The first connection.                                                   *)
(***************************************************************************)
\* As long as the first connection lasts nothing has failed and one call at most is
\* sending.
Serving == conn.first /\ conn.state = "up"
Quiet ==
    /\ recv.pc \in {"loop", "receive", "got", "notify", "ended"}
    /\ \A c \in Calls : call[c].pc \notin {"failed", "freeing"}
OneSender ==
    \A c, d \in Calls : call[c].pc = "sending" /\ call[d].pc = "sending" => c = d
Ordered ==
    IF \A c \in Calls : call[c].pc # "sending" THEN waiting = Due
    ELSE \E c \in Calls : call[c].pc = "sending" /\ waiting = Append(Due, c)

OrderInv == Serving => Quiet /\ OneSender /\ Ordered

\* A sequence is its head and its tail.
LEMMA HeadAndTail ==
    ASSUME NEW S, NEW s \in Seq(S), s # <<>>
    PROVE  <<Head(s)>> \o Tail(s) = s
<1>1. /\ Head(s) \in S /\ Tail(s) \in Seq(S) /\ Len(Tail(s)) = Len(s) - 1
      /\ Len(s) \in Nat \ {0} /\ Head(s) = s[1]
      /\ \A i \in 1 .. Len(Tail(s)) : Tail(s)[i] = s[i + 1]
  BY HeadTailProperties, EmptySeq
<1>2. <<Head(s)>> \in Seq(S) /\ Len(<<Head(s)>>) = 1 /\ <<Head(s)>>[1] = Head(s)
  BY <1>1
<1>3. /\ <<Head(s)>> \o Tail(s) \in Seq(S) /\ Len(<<Head(s)>> \o Tail(s)) = Len(s)
      /\ \A i \in 1 .. Len(s) : (<<Head(s)>> \o Tail(s))[i]
                                = IF i <= 1 THEN Head(s) ELSE Tail(s)[i - 1]
  BY <1>1, <1>2, ConcatProperties
<1>4. \A i \in 1 .. Len(s) : (<<Head(s)>> \o Tail(s))[i] = s[i]
  BY <1>1, <1>3
<1>5. QED
  BY Zenon, <1>3, <1>4, SeqEqual

\* What a step leaves in order that touches neither the queue nor what is due.
LEMMA OrderKept ==
    ASSUME Quiet, OneSender, Ordered, UNCHANGED waiting, Due' = Due,
           recv'.pc \in {"loop", "receive", "got", "notify", "ended"},
           \A c \in Calls : /\ call'[c].pc \notin {"failed", "freeing"}
                            /\ call'[c].pc = "sending" <=> call[c].pc = "sending"
    PROVE  Quiet' /\ OneSender' /\ Ordered'
<1>1. Quiet' /\ OneSender'
  BY Zenon DEF Quiet, OneSender
<1>2. HIDE DEF Due
<1>3. Ordered'
  BY Zenon DEF Ordered
<1>4. QED
  BY Zenon, <1>1, <1>3

\* The steps of a call keep the order.
LEMMA CallOrder ==
    ASSUME Shape, OrderInv, NEW c \in Calls, QueueGetWaiter(c) \/ CallStep(c), Serving'
    PROVE  Quiet' /\ OneSender' /\ Ordered'
<1>1. /\ conn \in Conns /\ conn.wire \in Seq(Calls) /\ call \in [Calls -> Records]
      /\ call[c] \in Records /\ (recv.pc = "got" => recv.msg \in Calls)
  BY Zenon, ShapeParts DEF OthersOK, Conns, HasMessage
<1>2. UNCHANGED recv
  BY Zenon DEF QueueGetWaiter, CallStep, Enqueue, Send, WaitOne, HandleSendError
<1>3. CASE UNCHANGED conn
  <2>1. Quiet /\ OneSender /\ Ordered /\ Due' = Due /\ call[c].pc \notin {"failed", "freeing"}
    BY Zenon, <1>2, <1>3 DEF OrderInv, Serving, Due, Quiet
  <2>2. CASE QueueGetWaiter(c)
    <3>1. PICK p \in Plans[c], q \in {"queued", "waits", "done"} : Begins(c, p, q)
      BY Zenon, <2>2 DEF QueueGetWaiter, Rest
    <3>2. call' = [call EXCEPT ![c] = [call[c] EXCEPT !.op = p.op, !.id = p.id, !.pc = q]]
      BY Zenon, <3>1 DEF Begins
    <3>3. call'[c].pc = q /\ call[c].pc = "new" /\ \A d \in Calls : d # c => call'[d] = call[d]
      BY Zenon, <1>1, <2>2, <3>2 DEF QueueGetWaiter, Records
    <3>4. QED
      BY Zenon, <1>2, <2>1, <2>2, <3>3, OrderKept DEF QueueGetWaiter, Quiet
  <2>3. CASE Enqueue(c)
    <3>1. \A d \in Calls : call'[d].pc = IF d = c THEN "sending" ELSE call[d].pc
      <4>1. PICK q \in CallPcs : q = "sending"
        BY Zenon DEF CallPcs
      <4>2. call' = [call EXCEPT ![c].pc = q]
        BY Zenon, <2>3, <4>1 DEF Enqueue
      <4>3. QED
        BY Zenon, <4>1, <4>2, Moved
    <3>2. waiting = Due /\ waiting' = Append(waiting, c)
      BY Zenon, <2>1, <2>3 DEF Enqueue, Ordered
    <3>3. \A d \in Calls : d # c => call'[d].pc # "sending"
      BY Zenon, <2>3, <3>1 DEF Enqueue
    <3>4. Ordered'
      <4>1. HIDE DEF Due
      <4>2. QED
        BY Zenon, <2>1, <3>1, <3>2 DEF Ordered
    <3>5. QED
      BY Zenon, <1>2, <2>1, <3>1, <3>3, <3>4 DEF Quiet, OneSender
  <2>4. CASE Send(c)
    <3>1. conn.state = "up" /\ recv.pc \notin {"challenge", "status"} /\ conn.wire # Append(conn.wire, c)
      BY <1>1, <1>2, <1>3, <2>1, AppendProperties, LenProperties DEF Serving, Quiet
    <3>2. conn' = [conn EXCEPT !.wire = Append(conn.wire, c), !.early = conn.early \cup Early(c)]
      BY Zenon, <2>4, <3>1 DEF Send
    <3>3. conn'.wire = Append(conn.wire, c)
      BY Zenon, <1>1, <3>2 DEF Conns
    <3>4. QED
      BY Zenon, <1>3, <3>1, <3>3
  <2>5. CASE WaitOne(c)
    <3>1. \A d \in Calls : call'[d].pc = IF d = c THEN "done" ELSE call[d].pc
      <4>1. PICK q \in CallPcs : q = "done"
        BY Zenon DEF CallPcs
      <4>2. call' = [call EXCEPT ![c].pc = q]
        BY Zenon, <2>5, <4>1 DEF WaitOne
      <4>3. QED
        BY Zenon, <4>1, <4>2, Moved
    <3>2. QED
      BY <1>2, <2>1, <2>5, <3>1, OrderKept DEF WaitOne, Quiet
  <2>6. CASE HandleSendError(c)
    BY Zenon, <2>1, <2>6 DEF HandleSendError
  <2>7. QED
    BY Zenon, <2>2, <2>3, <2>4, <2>5, <2>6 DEF CallStep
<1>4. CASE conn' # conn
  <2>1. Send(c)
    BY Zenon, <1>4 DEF QueueGetWaiter, CallStep, Enqueue, WaitOne, HandleSendError
  <2>2. conn.state = "up" /\ conn.first
    BY Zenon, <1>1, <2>1 DEF Send, Serving, Conns
  <2>3. Quiet /\ OneSender /\ Ordered
    BY Zenon, <2>2 DEF OrderInv, Serving
  <2>4. conn'.wire = Append(conn.wire, c)
    <3>1. conn' = [conn EXCEPT !.wire = Append(conn.wire, c), !.early = conn.early \cup Early(c)]
      BY Zenon, <2>1, <2>2, <2>3 DEF Send, Quiet
    <3>2. QED
      BY Zenon, <1>1, <3>1 DEF Conns
  <2>5. Due' = Append(Due, c)
    <3>1. CASE recv.pc = "got"
      <4>1. recv.msg \in Calls
        BY Zenon, <1>1, <3>1
      <4>2. <<recv.msg>> \o Append(conn.wire, c) = Append(<<recv.msg>> \o conn.wire, c)
        BY ZenonT(60), <1>1, <4>1, Fronted
      <4>3. QED
        BY Zenon, <1>2, <2>4, <3>1, <4>2 DEF Due
    <3>2. CASE recv.pc # "got"
      BY Zenon, <1>2, <2>4, <3>2 DEF Due
    <3>3. QED
      BY Zenon, <3>1, <3>2
  <2>6. PICK q \in {"waits", "done"} : call' = [call EXCEPT ![c].pc = q]
    BY Zenon, <2>1, <2>2 DEF Send, Rest
  <2>7. \A d \in Calls : call'[d].pc = IF d = c THEN q ELSE call[d].pc
    <3>1. q \in CallPcs
      BY Zenon DEF CallPcs
    <3>2. QED
      BY Zenon, <2>6, <3>1, Moved
  <2>8. call[c].pc = "sending" /\ UNCHANGED waiting
    BY Zenon, <2>1 DEF Send
  <2>9. \A d \in Calls : call'[d].pc # "sending"
    BY Zenon, <2>3, <2>7, <2>8 DEF OneSender
  <2>10. waiting = Append(Due, c)
    BY Zenon, <2>3, <2>8 DEF OneSender, Ordered
  <2>11. QED
    BY Zenon, <1>2, <2>3, <2>5, <2>7, <2>8, <2>9, <2>10 DEF Quiet, OneSender, Ordered
<1>5. QED
  BY Zenon, <1>3, <1>4

\* Taking the answer of the oldest request from the wire leaves the same requests due,
\* and giving it to the oldest waiter is the step that removes both.
LEMMA ReceiveOrder ==
    ASSUME Shape, OrderInv, Receive \/ Dequeue, Serving'
    PROVE  Quiet' /\ OneSender' /\ Ordered'
<1>1. /\ conn \in Conns /\ conn.wire \in Seq(Calls) /\ call \in [Calls -> Records]
      /\ (recv.pc = "got" => recv.msg \in Calls) /\ waiting \in Seq(Calls)
  BY Zenon, ShapeParts DEF OthersOK, Conns, HasMessage
<1>2. Serving
  BY Zenon, <1>1 DEF Receive, Dequeue, Serving, Conns
<1>3. Quiet /\ OneSender /\ Ordered
  BY Zenon, <1>2 DEF OrderInv
<1>4. CASE Receive
  <2>1. /\ recv.pc = "receive" /\ recv'.pc = "got" /\ recv'.msg = Head(conn.wire)
        /\ conn.wire # <<>> /\ UNCHANGED <<call, waiting>>
    BY Zenon, <1>4 DEF Receive, RecvAt
  <2>2. conn'.wire = Tail(conn.wire)
    BY Zenon, <1>1, <1>4 DEF Receive, Conns
  <2>3. <<Head(conn.wire)>> \o Tail(conn.wire) = conn.wire
    BY Zenon, <1>1, <2>1, HeadAndTail
  <2>4. Due' = Due
    BY Zenon, <2>1, <2>2, <2>3 DEF Due
  <2>5. QED
    BY Zenon, <1>3, <2>1, <2>4, OrderKept DEF Quiet
<1>5. CASE Dequeue
  <2>1. recv.pc = "got" /\ UNCHANGED conn
    BY Zenon, <1>5 DEF Dequeue, RecvAt
  <2>2. recv.msg \in Calls /\ Due = <<recv.msg>> \o conn.wire
    BY Zenon, <1>1, <2>1 DEF Due
  <2>3. /\ Due \in Seq(Calls) /\ Due # <<>> /\ Tail(Due) = conn.wire
    BY <1>1, <2>2, Fronted
  <2>4. \A c \in Calls : /\ Append(Due, c) # <<>>
                          /\ Tail(Append(Due, c)) = Append(Tail(Due), c)
    <3>1. SUFFICES ASSUME NEW c \in Calls
                   PROVE  Append(Due, c) # <<>> /\ Tail(Append(Due, c)) = Append(Tail(Due), c)
      BY Zenon
    <3>2. <<recv.msg>> \o Append(conn.wire, c) = Append(Due, c)
      BY ZenonT(60), <1>1, <2>2, Fronted
    <3>3. Append(conn.wire, c) \in Seq(Calls)
      BY Zenon, <1>1, AppendProperties
    <3>4. /\ <<recv.msg>> \o Append(conn.wire, c) # <<>>
          /\ Tail(<<recv.msg>> \o Append(conn.wire, c)) = Append(conn.wire, c)
      BY SMTT(60), <2>2, <3>3, Fronted
    <3>5. QED
      BY Zenon, <2>3, <3>2, <3>4
  <2>5. waiting # <<>>
    BY Zenon, <1>3, <2>3, <2>4 DEF Ordered
  <2>6. /\ waiting' = Tail(waiting) /\ recv'.pc \in {"notify", "loop"}
        /\ call' = [call EXCEPT ![Head(waiting)].event = TRUE]
    BY <1>1, <1>5, <2>1, <2>5, ShapeParts DEF Dequeue, OthersOK
  <2>7. \A c \in Calls : call'[c].pc = call[c].pc
    <3>1. Head(waiting) \in Calls
      BY Zenon, <1>1, <2>5, HeadTailProperties
    <3>2. ASSUME NEW c \in Calls PROVE call'[c].pc = call[c].pc
      <4>1. call[c] \in Records
        BY Zenon, <1>1
      <4>2. CASE c = Head(waiting)
        BY Zenon, <1>1, <2>6, <4>1, <4>2 DEF Records
      <4>3. CASE c # Head(waiting)
        BY Zenon, <1>1, <2>6, <3>1, <4>3
      <4>4. QED
        BY Zenon, <4>2, <4>3
    <3>3. QED
      BY Zenon, <3>2
  <2>8. Due' = conn.wire
    BY Zenon, <2>1, <2>6 DEF Due
  <2>9. Quiet' /\ OneSender'
    BY ZenonT(60), <1>3, <2>6, <2>7 DEF Quiet, OneSender
  <2>10. Ordered'
    <3>1. CASE \A c \in Calls : call[c].pc # "sending"
      BY Zenon, <1>3, <2>3, <2>6, <2>7, <2>8, <3>1 DEF Ordered
    <3>2. CASE ~ \A c \in Calls : call[c].pc # "sending"
      <4>1. PICK c \in Calls : call[c].pc = "sending" /\ waiting = Append(Due, c)
        BY Zenon, <1>3, <3>2 DEF Ordered
      <4>2. waiting' = Append(Due', c)
        BY Zenon, <2>3, <2>4, <2>6, <2>8, <4>1
      <4>3. call'[c].pc = "sending"
        BY Zenon, <2>7, <4>1
      <4>4. QED
        BY Zenon, <4>2, <4>3 DEF Ordered
    <3>3. QED
      BY Zenon, <3>1, <3>2
  <2>11. QED
    BY Zenon, <2>9, <2>10
<1>6. QED
  BY Zenon, <1>4, <1>5

\* The other steps do not put the first connection out of order either: those of a
\* reconnection cannot be taken on it, and one that breaks or closes it ends it.
LEMMA OrderNext ==
    ASSUME Shape, OrderInv, [Next]_vars
    PROVE  OrderInv'
<1>1. SUFFICES ASSUME Serving' PROVE Quiet' /\ OneSender' /\ Ordered'
  BY Zenon DEF OrderInv
<1>2. /\ conn \in Conns /\ call \in [Calls -> Records] /\ conn.wire \in Seq(Calls)
  BY Zenon, ShapeParts DEF OthersOK, Conns
<1>3. CASE \E c \in Calls : QueueGetWaiter(c) \/ CallStep(c)
  BY Zenon, <1>1, <1>3, CallOrder
<1>4. CASE Receive \/ Dequeue
  BY Zenon, <1>1, <1>4, ReceiveOrder
<1>5. CASE ReceiveInvalid
  BY Zenon, <1>1, <1>5 DEF ReceiveInvalid, NewSocket, Serving
<1>6. CASE Breaks
  BY Zenon, <1>1, <1>2, <1>6, CutOK DEF Breaks, Serving
<1>7. CASE BeginStop
  BY Zenon, <1>1, <1>2, <1>7, CutOK DEF BeginStop, Serving
<1>8. CASE Stop /\ conn' # conn
  <2>1. conn' = [conn EXCEPT !.state = "disposed", !.connected = FALSE, !.wire = <<>>]
    BY Zenon, <1>8 DEF Stop
  <2>2. ASSUME NEW w, NEW b PROVE [conn EXCEPT !.state = "disposed", !.connected = b, !.wire = w].state = "disposed"
    BY Zenon, <1>2 DEF Conns
  <2>3. QED
    BY Zenon, <1>1, <2>1, <2>2 DEF Serving
<1>9. CASE Reconnect /\ conn' # conn
  <2>1. ASSUME NEW n \in Conns, ~n.first, NEW b \in BOOLEAN
        PROVE  ~[n EXCEPT !.state = "up", !.connected = b].first
    BY Zenon, <2>1 DEF Conns
  <2>2. NewSocket \in Conns /\ ~NewSocket.first
    BY Zenon, NewSocketOK DEF NewSocket
  <2>3. ~[NewSocket EXCEPT !.state = "up", !.connected = TRUE].first
    BY Zenon, <2>1, <2>2
  <2>4. QED
    BY Zenon, <1>1, <1>9, <2>2, <2>3 DEF Reconnect, Connect, Serving
<1>10. CASE ReceiveLoop \/ CallGetWaiters \/ (Stop /\ UNCHANGED conn) \/ UNCHANGED vars
  <2>1. /\ UNCHANGED <<waiting, conn>> /\ (recv' = recv \/ recv.pc \in {"loop", "notify"})
        /\ recv'.pc \in {recv.pc, "loop", "receive", "ended"}
        /\ (recv'.pc = "got" => recv' = recv)
    <3>1. CASE ReceiveLoop
      BY Zenon, <3>1 DEF ReceiveLoop, RecvGoes, RecvAt
    <3>2. CASE CallGetWaiters
      BY Zenon, <3>2 DEF CallGetWaiters, RecvGoes, RecvAt
    <3>3. QED
      BY Zenon, <1>10, <3>1, <3>2 DEF Stop, vars
  <2>2. Quiet /\ OneSender /\ Ordered /\ Due' = Due
    BY Zenon, <1>1, <2>1 DEF OrderInv, Serving, Due
  <2>3. \A c \in Calls : call'[c].pc = call[c].pc
    <3>1. CASE UNCHANGED call
      BY Zenon, <3>1
    <3>2. CASE CallGetWaiters
      BY Zenon, <1>2, <3>2 DEF CallGetWaiters, Records
    <3>3. QED
      BY Zenon, <1>10, <3>1, <3>2 DEF ReceiveLoop, Stop, vars
  <2>4. QED
    BY Zenon, <2>1, <2>2, <2>3, OrderKept DEF Quiet
<1>11. CASE \/ HandleReceiveError \/ (Reconnect /\ UNCHANGED conn) \/ Slept \/ Challenged
            \/ Authenticated \/ HandshakeFails \/ ReceiveFails
  <2>1. \/ recv.pc \in {"error", "freeing", "retry", "sleep", "challenge", "status"}
        \/ recv.pc = "receive" /\ conn.state # "up"
    BY Zenon, <1>11 DEF HandleReceiveError, Reconnect, Slept, Challenged, Authenticated,
                HandshakeFails, ReceiveFails, ReadEnds, RecvAt, Handshake
  <2>2. Serving
    BY Zenon, <1>1, <1>2, <1>11 DEF HandleReceiveError, Reconnect, Slept, Challenged, Authenticated,
                HandshakeFails, ReceiveFails, ReadEnds, Serving, Conns
  <2>3. QED
    BY Zenon, <2>1, <2>2 DEF OrderInv, Serving, Quiet
<1>12. QED
  BY Zenon, <1>3, <1>4, <1>5, <1>6, <1>7, <1>8, <1>9, <1>10, <1>11 DEF Next, RecvStep

\* The answers of the first connection get to their own waiters (SendRequest and
\* ReceiveLoop): as long as it lasts the queue has the waiters of the requests that are
\* not answered, in the order of the requests, whatever the threads do.
THEOREM OrderSafety == Spec => []InStep
<1>1. Init => OrderInv
  <2>1. SUFFICES ASSUME Init PROVE Quiet /\ OneSender /\ Ordered
    BY Zenon DEF OrderInv
  <2>2. \A c \in Calls : call[c].pc = "new"
    BY Zenon, <2>1 DEF Init, NewCall
  <2>3. waiting = <<>> /\ recv.pc = "loop" /\ conn.wire = <<>>
    BY Zenon, <2>1 DEF Init, NewSocket
  <2>4. QED
    BY Zenon, <2>2, <2>3 DEF Quiet, OneSender, Ordered, Due
<1>2. ClientInv /\ OrderInv /\ [Next]_vars => OrderInv'
  BY Zenon, OrderNext DEF ClientInv
<1>3. OrderInv => InStep
  BY Zenon DEF OrderInv, Serving, Ordered, InStep
<1>4. QED
  BY <1>1, <1>2, <1>3, ClientSafety, PTL DEF Spec
=============================================================================
