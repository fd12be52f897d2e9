-------------------------- MODULE MeshSearchProofs --------------------------
(***************************************************************************)
(* Proofs about the search on the mesh, for any number of peers, searches  *)
(* and ids and any faults.                                                 *)
(*                                                                         *)
(* MeshInv is the inductive invariant.  EntriesWait needs EntriesEnd: a    *)
(* close leaves the server's _currentSearches alone, so only the searches  *)
(* themselves know that they no longer wait for it.  KilledIdle needs      *)
(* SocketsEnd, what is left of a connection whose end was reported.        *)
(* AnswersInStep needs DataOwed: an asset is read only while one is owed.  *)
(* NothingUnexpected needs Once and TimerMeans: a search is in one queue   *)
(* of one server, once, and its timer was cancelled when it was found.     *)
(*                                                                         *)
(* The first part shows that every variable keeps its shape (TypedNext)    *)
(* and has the lemmas about the queues and the steps that the rest uses.   *)
(* The actions are sorted into the few kinds of Step, so that the proof    *)
(* that an invariant is kept has one case per kind.                        *)
(***************************************************************************)
EXTENDS MeshSearch, SequenceTheorems, TLAPS

(***************************************************************************)
(* Shapes and steps.                                                       *)
(***************************************************************************)
DataOwed == \A s \in Servers : sread[s] = "data" => owed[s] # <<>>

\* The members of the queues, of posted and of the answers.
FoundFull ==
    /\ \A x \in Searches : found[x] => x \in Full
    /\ \A s \in Servers : \A x \in Range(transferq[s]) \cup Range(callbackq[s]) : found[x]
    /\ \A x \in posted : found[x]

Typed == TypeOK /\ DataOwed /\ FoundFull

Reads == {"none", "header", "data", "discard", "dead"}
Ops == {"none", "live", "dead"}
Fits(x) == {"null", IF x \in Full THEN IdOf[x] ELSE "yes"}

\* TypeOK, one variable at a time.
Shapes ==
    /\ est \in [Servers -> BOOLEAN] /\ qest \in [Servers -> BOOLEAN]
    /\ qopen \in [Servers -> BOOLEAN] /\ fired \in [Servers -> BOOLEAN]
    /\ alive \in [Servers -> BOOLEAN] /\ sread \in [Servers -> Reads]
    /\ swrite \in [Servers -> Ops] /\ qread \in [Servers -> Ops]
    /\ qwrite \in [Servers -> Ops]
    /\ transferq \in [Servers -> Seq(Searches)]
    /\ callbackq \in [Servers -> Seq(Searches)]
    /\ sendq \in [Servers -> Seq(Ids)] /\ owed \in [Servers -> Seq(Ids)]
    /\ cur \in [Servers -> SUBSET Searches]
    /\ asked \in [Servers -> [Ids -> Nat]]
    /\ phase \in [Searches -> {"new", "active", "done"}]
    /\ found \in [Searches -> BOOLEAN]
    /\ queried \in [Searches -> SUBSET Servers]
    /\ timer \in [Searches -> {"off", "armed", "queued"}]
    /\ answers \in [Searches -> Seq(Ids \cup {"null", "yes"})]
    /\ \A x \in Searches : answers[x] \in Seq(Fits(x))
    /\ posted \subseteq Searches
    /\ bug \subseteq {"afterFound", "deadSearch", "deadServer", "noWaiter"}

\* The two say the same.
LEMMA ShapesAre == (TypeOK <=> Shapes) /\ (TypeOK' <=> Shapes')
<1>1. TypeOK <=> Shapes
  BY ZenonT(60) DEF TypeOK, Shapes, Ops, Reads, Fits
<1>2. TypeOK' <=> Shapes'
  BY ZenonT(60) DEF TypeOK, Shapes, Ops, Reads, Fits
<1>3. QED
  BY Zenon, <1>1, <1>2

\* Completing searches keeps the type of answers and phases.
LEMMA CompleteTyped ==
    ASSUME TypeOK, NEW X, NEW a, \A x \in X \cap Searches : a \in Fits(x), Complete(X, a)
    PROVE  /\ answers' \in [Searches -> Seq(Ids \cup {"null", "yes"})]
           /\ \A x \in Searches : answers'[x] \in Seq(Fits(x))
           /\ phase' \in [Searches -> {"new", "active", "done"}]
<1>1. ASSUME NEW x \in Searches
      PROVE  answers'[x] \in Seq(Fits(x)) /\ answers'[x] \in Seq(Ids \cup {"null", "yes"})
  <2>1. answers[x] \in Seq(Fits(x)) /\ answers[x] \in Seq(Ids \cup {"null", "yes"})
    BY Zenon DEF TypeOK, Fits
  <2>2. Fits(x) \subseteq Ids \cup {"null", "yes"}
    BY Zenon, ConstantsAssumption DEF Fits
  <2>3. CASE x \in X
    <3>1. a \in Fits(x) /\ a \in Ids \cup {"null", "yes"}
      BY Zenon, <2>2, <2>3
    <3>2. answers'[x] = Append(answers[x], a)
      BY Zenon, <2>3 DEF Complete
    <3>3. QED
      BY <2>1, <3>1, <3>2, AppendProperties
  <2>4. CASE x \notin X
    BY Zenon, <2>1, <2>4 DEF Complete
  <2>5. QED
    BY Zenon, <2>3, <2>4
<1>2. answers' \in [Searches -> Seq(Ids \cup {"null", "yes"})]
  BY Zenon, <1>1 DEF Complete
<1>3. phase' \in [Searches -> {"new", "active", "done"}]
  BY Zenon DEF Complete, TypeOK
<1>4. QED
  BY Zenon, <1>1, <1>2, <1>3

\* Cancelling timers keeps their type.
LEMMA CancelTyped ==
    ASSUME TypeOK, NEW X, CancelTimer(X)
    PROVE  timer' \in [Searches -> {"off", "armed", "queued"}]
  BY Zenon DEF TypeOK, CancelTimer

\* What closing a server leaves typed.
LEMMA CloseTyped ==
    ASSUME TypeOK, NEW s \in Servers, NEW sr \in Reads, NEW sw \in Ops, NEW qr \in Ops,
           NEW qw \in Ops, NEW by, CloseServer(s, sr, sw, qr, qw, by),
           owed' \in [Servers -> Seq(Ids)], asked' \in [Servers -> [Ids -> Nat]]
    PROVE  TypeOK'
<1>1. /\ est' \in [Servers -> BOOLEAN] /\ qopen' \in [Servers -> BOOLEAN]
      /\ fired' \in [Servers -> BOOLEAN] /\ qest' \in [Servers -> BOOLEAN]
      /\ alive' \in [Servers -> BOOLEAN]
  BY Zenon DEF TypeOK, CloseServer
<1>2. /\ sread' \in [Servers -> Reads] /\ swrite' \in [Servers -> Ops]
      /\ qread' \in [Servers -> Ops] /\ qwrite' \in [Servers -> Ops]
  BY Zenon DEF TypeOK, CloseServer, Reads, Ops
<1>3. /\ transferq' \in [Servers -> Seq(Searches)]
      /\ callbackq' \in [Servers -> Seq(Searches)]
  BY DEF TypeOK, CloseServer
<1>4. queried' \in [Searches -> SUBSET Servers]
  BY Zenon DEF TypeOK, CloseServer
<1>5. /\ answers' \in [Searches -> Seq(Ids \cup {"null", "yes"})]
      /\ \A x \in Searches : answers'[x] \in Seq(Fits(x))
      /\ phase' \in [Searches -> {"new", "active", "done"}]
  <2>1. PICK X : Complete(X, "null")
    BY Zenon DEF CloseServer
  <2>2. \A x \in X \cap Searches : "null" \in Fits(x)
    BY Zenon DEF Fits
  <2>3. QED
    BY Zenon, <2>1, <2>2, CompleteTyped
<1>6. timer' \in [Searches -> {"off", "armed", "queued"}]
  BY Zenon, CancelTyped DEF CloseServer
<1>7. bug' \subseteq {"afterFound", "deadSearch", "deadServer", "noWaiter"}
  BY Zenon DEF CloseServer
<1>8. UNCHANGED <<sendq, cur, posted, found>>
  BY Zenon DEF CloseServer
<1>9. QED
  BY <1>1, <1>2, <1>3, <1>4, <1>5, <1>6, <1>7, <1>8 DEF TypeOK, Reads, Ops, Fits

\* An order of a set of searches is a sequence of them in which each is once.
LEMMA OrderOK ==
    ASSUME NEW X \in SUBSET Searches, NEW o \in Orders(X)
    PROVE  /\ o \in Seq(X) /\ \A i, j \in DOMAIN o : o[i] = o[j] => i = j
           /\ o # <<>> => Head(o) \in X /\ Tail(o) \in Seq(X)
<1>1. PICK n \in Nat : o \in Bijection(1 .. n, X)
  BY DEF Orders
<1>2. o \in [1 .. n -> X] /\ \A i, j \in 1 .. n : i # j => o[i] # o[j]
  BY Zenon, <1>1 DEF Bijection, Injection, IsInjective
<1>3. o \in Seq(X) /\ DOMAIN o = 1 .. n
  BY <1>1, <1>2
<1>4. QED
  BY Zenon, <1>2, <1>3, HeadTailProperties

\* What the answer to a query leaves typed.
LEMMA FoundTyped ==
    ASSUME TypeOK, NEW s \in Servers, NEW id \in Ids, NEW X \in SUBSET Searches,
           FoundOn(s, id, X) \/ NotFoundOn(s, id, X),
           qread' \in [Servers -> Ops], asked' \in [Servers -> [Ids -> Nat]],
           bug' \subseteq {"afterFound", "deadSearch", "deadServer", "noWaiter"},
           UNCHANGED <<est, qest, qopen, fired, alive, sread, qwrite, sendq>>
    PROVE  TypeOK'
<1>1. /\ answers' \in [Searches -> Seq(Ids \cup {"null", "yes"})]
      /\ \A x \in Searches : answers'[x] \in Seq(Fits(x))
      /\ phase' \in [Searches -> {"new", "active", "done"}]
  <2>1. CASE FoundOn(s, id, X)
    <3>1. Complete(X \ Full, "yes")
      BY Zenon, <2>1 DEF FoundOn
    <3>2. \A x \in (X \ Full) \cap Searches : "yes" \in Fits(x)
      BY Zenon DEF Fits
    <3>3. QED
      BY Zenon, <3>1, <3>2, CompleteTyped
  <2>2. CASE NotFoundOn(s, id, X)
    <3>1. Complete(Exhausted(X, s), "null")
      BY Zenon, <2>2 DEF NotFoundOn
    <3>2. \A x \in Exhausted(X, s) \cap Searches : "null" \in Fits(x)
      BY Zenon DEF Fits
    <3>3. QED
      BY Zenon, <3>1, <3>2, CompleteTyped
  <2>3. QED
    BY Zenon, <2>1, <2>2
<1>2. timer' \in [Searches -> {"off", "armed", "queued"}]
  BY Zenon, CancelTyped DEF FoundOn, NotFoundOn
<1>3. CASE FoundOn(s, id, X)
  <2>1. PICK o \in Orders(X \cap Full) : FoundOn(s, id, X)!(o)
    BY Zenon, <1>3 DEF FoundOn
  <2>2. /\ o \in Seq(Searches)
        /\ o # <<>> => Head(o) \in Searches /\ Tail(o) \in Seq(Searches)
    BY <2>1, OrderOK
  <2>3. /\ found' \in [Searches -> BOOLEAN] /\ queried' \in [Searches -> SUBSET Servers]
        /\ posted' \subseteq Searches /\ cur' \in [Servers -> SUBSET Searches]
    BY Zenon, <2>1 DEF TypeOK, NobodyQueried, CurWithout
  <2>4. /\ swrite' \in [Servers -> Ops] /\ owed' \in [Servers -> Seq(Ids)]
    BY <2>1 DEF TypeOK, Ops, Op
  <2>5. callbackq' \in [Servers -> Seq(Searches)]
    BY <2>1, <2>2 DEF TypeOK
  <2>6. transferq' \in [Servers -> Seq(Searches)]
    BY <2>1, <2>2, ConcatProperties DEF TypeOK
  <2>7. QED
    BY ZenonT(60), <1>1, <1>2, <2>3, <2>4, <2>5, <2>6, ShapesAre DEF Shapes
<1>4. CASE NotFoundOn(s, id, X)
  <2>1. queried' \in [Searches -> SUBSET Servers] /\ cur' \in [Servers -> SUBSET Searches]
    BY Zenon, <1>4 DEF TypeOK, NotFoundOn
  <2>2. UNCHANGED <<found, posted, swrite, owed, callbackq, transferq>>
    BY Zenon, <1>4 DEF NotFoundOn
  <2>3. QED
    BY ZenonT(60), <1>1, <1>2, <2>1, <2>2, ShapesAre DEF Shapes
<1>5. QED
  BY Zenon, <1>3, <1>4

\* A sequence without its last element.
LEMMA FrontOK ==
    ASSUME NEW S, NEW s \in Seq(S), Len(s) > 0
    PROVE  Front(s) \in Seq(S) /\ Len(Front(s)) = Len(s) - 1
<1>1. PICK n \in Int : n = Len(s) - 1 /\ n >= 0
  BY LenProperties
<1>2. \A i \in 1 .. n : s[i] \in S
  BY <1>1, LenProperties, ElementOfSeq
<1>3. SubSeq(s, 1, n) \in Seq(S) /\ Len(SubSeq(s, 1, n)) = IF 1 <= n THEN n - 1 + 1 ELSE 0
  BY <1>2, SubSeqProperties
<1>4. QED
  BY <1>1, <1>3 DEF Front

\* The head and the tail of a queue that is not empty.
LEMMA QueueParts ==
    ASSUME TypeOK, NEW s \in Servers
    PROVE  /\ transferq[s] # <<>> =>
                 Head(transferq[s]) \in Searches /\ Tail(transferq[s]) \in Seq(Searches)
           /\ callbackq[s] # <<>> =>
                 Head(callbackq[s]) \in Searches /\ Tail(callbackq[s]) \in Seq(Searches)
           /\ owed[s] # <<>> => Head(owed[s]) \in Ids /\ Tail(owed[s]) \in Seq(Ids)
           /\ sendq[s] # <<>> => Head(sendq[s]) \in Ids /\ Tail(sendq[s]) \in Seq(Ids)
<1>1. /\ transferq[s] \in Seq(Searches) /\ callbackq[s] \in Seq(Searches)
      /\ owed[s] \in Seq(Ids) /\ sendq[s] \in Seq(Ids)
  BY ZenonT(60) DEF TypeOK
<1>2. QED
  BY Zenon, <1>1, HeadTailProperties

\* The steps of a search keep the types.
LEMMA SearchTyped ==
    ASSUME Typed, NEW x \in Searches,
           PerformSearch(x) \/ OnTimeout(x) \/ RunPosted(x) \/ TimerExpires(x)
    PROVE  TypeOK'
<1>1. TypeOK
  BY Zenon DEF Typed
<1>2. CASE PerformSearch(x)
  <2>1. PICK Q \in SUBSET {s \in Servers : alive[s] /\ est[s]} :
           /\ SearchOn(x, Q)
           /\ phase' = [phase EXCEPT ![x] = IF Q = {} THEN "done" ELSE "active"]
           /\ answers' = IF Q = {} THEN [answers EXCEPT ![x] = <<"null">>] ELSE answers
           /\ timer' = [timer EXCEPT ![x] = IF Q = {} THEN "off" ELSE "armed"]
    BY Zenon, <1>2 DEF PerformSearch
  <2>2. /\ phase' \in [Searches -> {"new", "active", "done"}]
        /\ timer' \in [Searches -> {"off", "armed", "queued"}]
        /\ queried' \in [Searches -> SUBSET Servers] /\ cur' \in [Servers -> SUBSET Searches]
    BY ZenonT(60), <1>1, <2>1 DEF TypeOK, SearchOn
  <2>3. /\ qwrite' \in [Servers -> Ops] /\ asked' \in [Servers -> [Ids -> Nat]]
    <3>1. qwrite' \in [Servers -> Ops]
      BY Zenon, <1>1, <2>1 DEF TypeOK, Ops, SearchOn
    <3>2. IdOf[x] \in Ids /\ asked \in [Servers -> [Ids -> Nat]]
      BY Zenon, <1>1, ConstantsAssumption DEF TypeOK
    <3>3. \A s \in Servers : [asked[s] EXCEPT ![IdOf[x]] = asked[s][IdOf[x]] + 1] \in [Ids -> Nat]
      BY <3>2
    <3>4. QED
      BY ZenonT(60), <2>1, <3>1, <3>2, <3>3 DEF SearchOn
  <2>4. sendq' \in [Servers -> Seq(Ids)]
    <3>1. \A s \in Servers : Append(sendq[s], IdOf[x]) \in Seq(Ids)
      BY ZenonT(60), <1>1, ConstantsAssumption, AppendProperties DEF TypeOK
    <3>2. QED
      BY Zenon, <1>1, <2>1, <3>1 DEF TypeOK, SearchOn
  <2>5. /\ answers' \in [Searches -> Seq(Ids \cup {"null", "yes"})]
        /\ \A y \in Searches : answers'[y] \in Seq(Fits(y))
    <3>1. <<"null">> \in Seq(Ids \cup {"null", "yes"}) /\ <<"null">> \in Seq(Fits(x))
      BY DEF Fits
    <3>2. PICK w : w = <<"null">>
      BY Zenon
    <3>3. answers' = answers \/ answers' = [answers EXCEPT ![x] = w]
      BY Zenon, <2>1, <3>2
    <3>4. /\ answers \in [Searches -> Seq(Ids \cup {"null", "yes"})]
          /\ \A y \in Searches : answers[y] \in Seq(Fits(y))
      BY Zenon, <1>1 DEF TypeOK, Fits
    <3>5. w \in Seq(Ids \cup {"null", "yes"}) /\ w \in Seq(Fits(x))
      BY Zenon, <3>1, <3>2
    <3>6. CASE answers' = [answers EXCEPT ![x] = w]
      BY Zenon, <3>4, <3>5, <3>6
    <3>7. QED
      BY Zenon, <3>3, <3>4, <3>6
  <2>6. UNCHANGED <<est, qest, qopen, fired, alive, sread, swrite, qread,
                    transferq, callbackq, owed, found, posted, bug>>
    BY Zenon, <1>2 DEF PerformSearch
  <2>7. QED
    BY <1>1, <2>2, <2>3, <2>4, <2>5, <2>6 DEF TypeOK, Ops, Fits
<1>3. CASE OnTimeout(x)
  <2>1. timer' \in [Searches -> {"off", "armed", "queued"}]
    BY Zenon, <1>1, <1>3 DEF OnTimeout, TypeOK
  <2>2. /\ cur' \in [Servers -> SUBSET Searches] /\ queried' \in [Searches -> SUBSET Servers]
        /\ bug' \subseteq {"afterFound", "deadSearch", "deadServer", "noWaiter"}
    <3>1. /\ CurWithout({x}) \in [Servers -> SUBSET Searches]
          /\ NobodyQueried({x}) \in [Searches -> SUBSET Servers]
      BY Zenon, <1>1 DEF TypeOK, CurWithout, NobodyQueried
    <3>2. QED
      BY ZenonT(60), <1>1, <1>3, <3>1 DEF OnTimeout, TypeOK
  <2>3. /\ answers' \in [Searches -> Seq(Ids \cup {"null", "yes"})]
        /\ \A y \in Searches : answers'[y] \in Seq(Fits(y))
        /\ phase' \in [Searches -> {"new", "active", "done"}]
    <3>1. CASE Complete({x}, "null")
      <4>1. \A y \in {x} \cap Searches : "null" \in Fits(y)
        BY Zenon DEF Fits
      <4>2. QED
        BY Zenon, <1>1, <3>1, <4>1, CompleteTyped
    <3>2. CASE UNCHANGED <<answers, phase>>
      BY Zenon, <1>1, <3>2 DEF TypeOK, Fits
    <3>3. QED
      BY Zenon, <1>3, <3>1, <3>2 DEF OnTimeout
  <2>4. QED
    BY ZenonT(60), <1>1, <1>3, <2>1, <2>2, <2>3 DEF OnTimeout, TypeOK, Fits, sockets
<1>4. CASE RunPosted(x)
  <2>1. /\ answers' \in [Searches -> Seq(Ids \cup {"null", "yes"})]
        /\ \A y \in Searches : answers'[y] \in Seq(Fits(y))
        /\ phase' \in [Searches -> {"new", "active", "done"}]
    <3>1. PICK X : Complete(X, "null")
      BY Zenon, <1>4 DEF RunPosted
    <3>2. \A y \in X \cap Searches : "null" \in Fits(y)
      BY Zenon DEF Fits
    <3>3. QED
      BY Zenon, <1>1, <3>1, <3>2, CompleteTyped
  <2>2. QED
    BY Zenon, <1>1, <1>4, <2>1 DEF RunPosted, TypeOK, Fits, sockets, queues
<1>5. CASE TimerExpires(x)
  BY Zenon, <1>1, <1>5 DEF TimerExpires, TypeOK, sockets, queues
<1>6. QED
  BY Zenon, <1>2, <1>3, <1>4, <1>5

\* The steps of the query connection keep the types.
LEMMA QueryTyped ==
    ASSUME Typed, NEW s \in Servers,
           \/ QueryWritten(s) \/ QueryWriteFails(s)
           \/ QueryAnswered(s) \/ HeartbeatRead(s) \/ QueryReadFails(s)
    PROVE  TypeOK'
<1>1. /\ TypeOK /\ sread[s] \in Reads /\ swrite[s] \in Ops /\ qread[s] \in Ops
      /\ qwrite[s] \in Ops /\ asked[s] \in [Ids -> Nat]
  BY ZenonT(60) DEF Typed, TypeOK, Reads, Ops
<1>2. CASE QueryWritten(s)
  <2>1. qwrite' \in [Servers -> Ops]
    BY Zenon, <1>1, <1>2 DEF QueryWritten, TypeOK, Op, Ops
  <2>2. sendq' \in [Servers -> Seq(Ids)]
    BY Zenon, <1>1, <1>2, QueueParts DEF QueryWritten, TypeOK
  <2>3. asked' \in [Servers -> [Ids -> Nat]]
    <3>1. ASSUME sendq[s] # <<>>
          PROVE  [asked[s] EXCEPT ![Head(sendq[s])] = asked[s][Head(sendq[s])] + 1] \in [Ids -> Nat]
      BY <1>1, <3>1, QueueParts
    <3>2. QED
      BY Zenon, <1>1, <1>2, <3>1 DEF QueryWritten, TypeOK
  <2>4. QED
    BY ZenonT(60), <1>1, <1>2, <2>1, <2>2, <2>3, ShapesAre DEF QueryWritten, Shapes, searching
<1>3. CASE QueryWriteFails(s) \/ QueryReadFails(s)
  <2>1. PICK qr \in Ops, qw \in Ops : CloseQuery(s, qr, qw)
    BY Zenon, <1>1, <1>3 DEF QueryWriteFails, QueryReadFails, Ops
  <2>2. owed' \in [Servers -> Seq(Ids)] /\ asked' \in [Servers -> [Ids -> Nat]]
    <3>1. CASE UNCHANGED <<asked, owed>>
      BY Zenon, <1>1, <3>1 DEF TypeOK
    <3>2. CASE QueryWriteFails(s)
      <4>1. \A id \in Ids : asked[s][id] > 0 =>
                              [asked[s] EXCEPT ![id] = asked[s][id] - 1] \in [Ids -> Nat]
        BY <1>1
      <4>2. asked' = asked \/ \E id \in Ids : /\ asked[s][id] > 0
                                              /\ asked' = [asked EXCEPT ![s][id] = asked[s][id] - 1]
        BY Zenon, <3>2 DEF QueryWriteFails
      <4>3. asked \in [Servers -> [Ids -> Nat]] /\ UNCHANGED owed
        BY Zenon, <1>1, <3>2 DEF QueryWriteFails, TypeOK
      <4>4. asked' \in [Servers -> [Ids -> Nat]]
        BY Zenon, <4>1, <4>2, <4>3
      <4>5. QED
        BY Zenon, <1>1, <4>3, <4>4 DEF TypeOK
    <3>3. QED
      BY Zenon, <1>3, <3>1, <3>2 DEF QueryReadFails
  <2>3. CASE CloseServer(s, sread[s], swrite[s], qr, qw, "query")
    BY Zenon, <1>1, <2>2, <2>3, CloseTyped
  <2>4. CASE ~CloseServer(s, sread[s], swrite[s], qr, qw, "query")
    <3>1. /\ qopen' = [qopen EXCEPT ![s] = FALSE] /\ qread' = [qread EXCEPT ![s] = qr]
          /\ qwrite' = [qwrite EXCEPT ![s] = qw]
          /\ UNCHANGED <<est, qest, fired, alive, sread, swrite, sendq, transferq,
                         callbackq, cur, searching, bug>>
      BY Zenon, <2>1, <2>4 DEF CloseQuery
    <3>2. qopen' \in [Servers -> BOOLEAN] /\ qread' \in [Servers -> Ops]
          /\ qwrite' \in [Servers -> Ops]
      BY Zenon, <1>1, <3>1 DEF TypeOK, Ops
    <3>3. QED
      BY SMTT(60), <1>1, <2>2, <3>1, <3>2 DEF TypeOK, Ops, searching
  <2>5. QED
    BY Zenon, <2>3, <2>4
<1>4. CASE QueryAnswered(s)
  <2>1. PICK id \in Ids : /\ asked[s][id] > 0
                          /\ asked' = [asked EXCEPT ![s][id] = asked[s][id] - 1]
                          /\ FoundOn(s, id, Waiting(s, id)) \/ NotFoundOn(s, id, Waiting(s, id))
    BY Zenon, <1>4 DEF QueryAnswered
  <2>2. Waiting(s, id) \in SUBSET Searches
    BY Zenon, <1>1 DEF Waiting, TypeOK
  <2>3. asked' \in [Servers -> [Ids -> Nat]]
    <3>1. [asked[s] EXCEPT ![id] = asked[s][id] - 1] \in [Ids -> Nat]
      BY <1>1, <2>1
    <3>2. QED
      BY Zenon, <1>1, <2>1, <3>1 DEF TypeOK
  <2>4. qread' \in [Servers -> Ops]
    BY Zenon, <1>1, <1>4 DEF QueryAnswered, TypeOK, Op, Ops
  <2>5. bug' \subseteq {"afterFound", "deadSearch", "deadServer", "noWaiter"}
    BY Zenon, <1>4 DEF QueryAnswered
  <2>6. UNCHANGED <<est, qest, qopen, fired, alive, sread, qwrite, sendq>>
    BY Zenon, <1>4 DEF QueryAnswered
  <2>7. QED
    BY Zenon, <1>1, <2>1, <2>2, <2>3, <2>4, <2>5, <2>6, FoundTyped
<1>5. CASE HeartbeatRead(s)
  <2>1. qread' \in [Servers -> Ops]
    BY Zenon, <1>1, <1>5 DEF HeartbeatRead, TypeOK, Op, Ops
  <2>2. QED
    BY <1>1, <1>5, <2>1 DEF HeartbeatRead, TypeOK, Ops, searching, queues
<1>6. QED
  BY ZenonT(60), <1>2, <1>3, <1>4, <1>5 DEF QueryWriteFails, QueryReadFails

\* The first waiter gets its asset or nothing.
LEMMA DeliverTyped ==
    ASSUME Typed, NEW s \in Servers, callbackq[s] # <<>>,
           NEW a \in {"null", IdOf[Head(callbackq[s])]}, NEW kind \in Reads,
           Deliver(s, a, kind),
           owed' \in [Servers -> Seq(Ids)], asked' \in [Servers -> [Ids -> Nat]]
    PROVE  TypeOK'
<1>1. TypeOK
  BY Zenon DEF Typed
<1>2. callbackq' \in [Servers -> Seq(Searches)]
  BY Zenon, <1>1, QueueParts DEF Deliver, TypeOK
<1>3. Head(callbackq[s]) \in Full
  <2>1. Head(callbackq[s]) \in Range(callbackq[s]) /\ Head(callbackq[s]) \in Searches
    <3>1. callbackq[s] \in Seq(Searches)
      BY Zenon, <1>1, ShapesAre DEF Shapes
    <3>2. QED
      BY <3>1, QueueParts, HeadTailProperties DEF Range
  <2>2. QED
    BY Zenon, <2>1 DEF Typed, FoundFull
<1>4. /\ answers' \in [Searches -> Seq(Ids \cup {"null", "yes"})]
      /\ \A x \in Searches : answers'[x] \in Seq(Fits(x))
      /\ phase' \in [Searches -> {"new", "active", "done"}]
  <2>1. PICK X \in SUBSET {Head(callbackq[s])} : Complete(X, a)
    BY Zenon DEF Deliver
  <2>2. \A x \in X \cap Searches : a \in Fits(x)
    BY Zenon, <1>3 DEF Fits
  <2>3. QED
    BY Zenon, <1>1, <2>1, <2>2, CompleteTyped
<1>5. sread' \in [Servers -> Reads]
  BY Zenon, <1>1 DEF Deliver, TypeOK, Op, Reads
<1>6. QED
  BY ZenonT(60), <1>1, <1>2, <1>4, <1>5, ShapesAre DEF Deliver, Shapes

\* The steps of the service connection keep the types.
LEMMA ServiceTyped ==
    ASSUME Typed, NEW s \in Servers,
           \/ RequestWritten(s) \/ RequestWriteFails(s)
           \/ HeaderFound(s) \/ HeaderError(s) \/ ResponseData(s) \/ DiscardData(s)
           \/ ServiceReadFails(s)
    PROVE  TypeOK'
<1>1. /\ TypeOK /\ sread[s] \in Reads /\ swrite[s] \in Ops /\ qread[s] \in Ops
      /\ qwrite[s] \in Ops /\ owed[s] \in Seq(Ids)
  BY Zenon DEF Typed, TypeOK, Reads, Ops
<1>2. CASE RequestWritten(s)
  <2>1. swrite' \in [Servers -> Ops] /\ alive' \in [Servers -> BOOLEAN]
    BY ZenonT(60), <1>1, <1>2 DEF RequestWritten, TypeOK, Ops
  <2>2. transferq' \in [Servers -> Seq(Searches)] /\ callbackq' \in [Servers -> Seq(Searches)]
    <3>1. transferq[s] # <<>> =>
              Head(transferq[s]) \in Searches /\ Tail(transferq[s]) \in Seq(Searches)
      BY Zenon, <1>1, QueueParts, ShapesAre DEF Shapes
    <3>2. transferq[s] # <<>> => Append(callbackq[s], Head(transferq[s])) \in Seq(Searches)
      <4>1. PICK q \in Seq(Searches) : q = callbackq[s]
        BY Zenon, <1>1, ShapesAre DEF Shapes
      <4>2. \A x \in Searches : Append(q, x) \in Seq(Searches)
        BY Zenon, AppendProperties
      <4>3. QED
        BY Zenon, <3>1, <4>1, <4>2
    <3>3. QED
      BY ZenonT(60), <1>1, <1>2, <3>1, <3>2, ShapesAre DEF RequestWritten, Shapes
  <2>3. owed' \in [Servers -> Seq(Ids)]
    <3>1. transferq[s] # <<>> => Append(owed[s], IdOf[Head(transferq[s])]) \in Seq(Ids)
      BY ZenonT(60), <1>1, QueueParts, ConstantsAssumption, AppendProperties
    <3>2. QED
      BY Zenon, <1>1, <1>2, <3>1 DEF RequestWritten, TypeOK
  <2>4. QED
    BY ZenonT(60), <1>1, <1>2, <2>1, <2>2, <2>3, ShapesAre DEF RequestWritten, Shapes, searching
<1>3. CASE RequestWriteFails(s)
  <2>1. owed' \in [Servers -> Seq(Ids)] /\ asked' \in [Servers -> [Ids -> Nat]]
    <3>1. Len(owed[s]) > 0 => Front(owed[s]) \in Seq(Ids)
      BY ZenonT(60), <1>1, FrontOK
    <3>2. Len(owed[s]) > (IF sread[s] = "data" THEN 1 ELSE 0) => Len(owed[s]) > 0
      BY <1>1, LenProperties
    <3>3. \/ owed' = owed
          \/ owed' = [owed EXCEPT ![s] = Front(owed[s])] /\ Front(owed[s]) \in Seq(Ids)
      BY ZenonT(60), <1>3, <3>1, <3>2 DEF RequestWriteFails
    <3>4. owed \in [Servers -> Seq(Ids)] /\ asked \in [Servers -> [Ids -> Nat]] /\ UNCHANGED asked
      BY ZenonT(60), <1>1, <1>3 DEF RequestWriteFails, TypeOK
    <3>5. QED
      BY Zenon, <3>3, <3>4
  <2>2. "none" \in Ops
    BY Zenon DEF Ops
  <2>3. CloseServer(s, sread[s], "none", qread[s], qwrite[s], "service")
    BY Zenon, <1>3 DEF RequestWriteFails
  <2>4. QED
    BY ZenonT(60), <1>1, <2>1, <2>2, <2>3, CloseTyped
<1>4. CASE HeaderFound(s) \/ DiscardData(s)
  <2>1. sread' \in [Servers -> Reads]
    BY ZenonT(60), <1>1, <1>4 DEF HeaderFound, DiscardData, TypeOK, Op, Reads
  <2>2. UNCHANGED <<est, qest, qopen, fired, alive, swrite, qread, qwrite, queues,
                    searching, bug>>
    BY Zenon, <1>4 DEF HeaderFound, DiscardData
  <2>3. QED
    BY ZenonT(60), <1>1, <2>1, <2>2 DEF TypeOK, Reads, searching, queues
<1>5. CASE HeaderError(s) \/ ResponseData(s) \/ ServiceReadFails(s)
  <2>1. /\ owed[s] # <<>> \/ owed' = owed
        /\ owed' = owed \/ owed' = [owed EXCEPT ![s] = Tail(owed[s])]
        /\ UNCHANGED asked
    <3>1. CASE HeaderError(s)
      BY Zenon, <3>1 DEF HeaderError
    <3>2. CASE ResponseData(s)
      BY Zenon, <3>2 DEF ResponseData, Typed, DataOwed
    <3>3. CASE ServiceReadFails(s)
      BY Zenon, <3>3 DEF ServiceReadFails
    <3>4. QED
      BY ZenonT(60), <1>5, <3>1, <3>2, <3>3
  <2>2. owed' \in [Servers -> Seq(Ids)] /\ asked' \in [Servers -> [Ids -> Nat]]
    <3>1. owed \in [Servers -> Seq(Ids)] /\ asked \in [Servers -> [Ids -> Nat]]
      BY Zenon, <1>1 DEF TypeOK
    <3>2. owed[s] # <<>> => Tail(owed[s]) \in Seq(Ids)
      BY Zenon, <1>1, QueueParts
    <3>3. QED
      BY ZenonT(60), <2>1, <3>1, <3>2
  <2>3. CASE CloseServer(s, "none", swrite[s], qread[s], qwrite[s], "service")
    <3>1. "none" \in Reads
      BY Zenon DEF Reads
    <3>2. QED
      BY ZenonT(60), <1>1, <2>2, <2>3, <3>1, CloseTyped
  <2>4. CASE /\ bug' = {"noWaiter"} /\ sread' = [sread EXCEPT ![s] = "none"]
             /\ UNCHANGED <<est, qest, qopen, fired, alive, swrite, qread, qwrite,
                            sendq, transferq, callbackq, cur, searching>>
    <3>1. sread' \in [Servers -> Reads]
      BY Zenon, <1>1, <2>4 DEF TypeOK, Reads
    <3>2. QED
      BY ZenonT(60), <1>1, <2>2, <2>4, <3>1, ShapesAre DEF Shapes, searching
  <2>5. CASE /\ callbackq[s] # <<>>
             /\ \E a \in {"null", IdOf[Head(callbackq[s])]}, kind \in Reads : Deliver(s, a, kind)
    BY Zenon, <2>2, <2>5, DeliverTyped
  <2>6. QED
    BY ZenonT(60), <1>5, <2>3, <2>4, <2>5 DEF HeaderError, ResponseData, ServiceReadFails, Reads
<1>6. QED
  BY ZenonT(60), <1>2, <1>3, <1>4, <1>5

(***************************************************************************)
(* The steps, by what they do to searches, queues and connections.         *)
(***************************************************************************)
\* A server is closed; the peer's side changes for this server alone.
Closes(s) ==
    /\ \E sr \in {sread[s], "none"}, sw \in {swrite[s], "none"}, qr \in {qread[s], "none"},
          qw \in {qwrite[s], "none"}, by \in {"query", "service"} :
         CloseServer(s, sr, sw, qr, qw, by)
    /\ \A t \in Servers \ {s} : UNCHANGED <<owed[t], asked[t]>>

\* The first waiter is served.
Delivers(s) ==
    /\ sread[s] \in {"header", "data"} /\ owed[s] # <<>> /\ callbackq[s] # <<>>
    /\ IdOf[Head(callbackq[s])] = Head(owed[s])
    /\ \E a \in {"null", Head(owed[s])}, kind \in {"header", "discard"} : Deliver(s, a, kind)
    /\ owed' = [owed EXCEPT ![s] = Tail(owed[s])]
    /\ UNCHANGED asked

\* Nothing changes but the state of reads and of query writes, timers and the peer's side;
\* or an answer has no waiter.
Minor ==
    /\ UNCHANGED <<est, qest, fired, alive, swrite, transferq, callbackq, cur, phase, found,
                   queried, posted>>
    /\ \A t \in Servers :
          /\ sread[t] = "none" => sread'[t] = "none"
          /\ qread[t] = "none" => qread'[t] = "none"
          /\ qwrite[t] = "none" => qwrite'[t] = "none"
          /\ qopen'[t] => qopen[t]
    /\ \/ UNCHANGED <<owed, bug>>
       \/ \E s \in Servers : /\ owed[s] # <<>> /\ callbackq[s] = <<>>
                             /\ owed' = [owed EXCEPT ![s] = Tail(owed[s])]
    /\ "late" \notin Faults => UNCHANGED timer

Step ==
    \/ \E x \in Searches : PerformSearch(x) \/ OnTimeout(x) \/ RunPosted(x)
    \/ \E s \in Servers : Closes(s) \/ Delivers(s) \/ QueryAnswered(s) \/ RequestWritten(s)
    \/ Minor

\* A close of the query connection.
LEMMA CloseQuerySteps ==
    ASSUME Typed, NEW s \in Servers, QueryWriteFails(s) \/ QueryReadFails(s)
    PROVE  Closes(s) \/ Minor
<1>1. PICK qr \in {qread[s], "none"}, qw \in {qwrite[s], "none"} : CloseQuery(s, qr, qw)
  BY Zenon DEF QueryWriteFails, QueryReadFails
<1>2. /\ asked \in [Servers -> [Ids -> Nat]] /\ UNCHANGED owed
      /\ \A t \in Servers \ {s} : UNCHANGED <<owed[t], asked[t]>>
  BY ZenonT(60) DEF QueryWriteFails, QueryReadFails, Typed, TypeOK
<1>3. CASE CloseServer(s, sread[s], swrite[s], qr, qw, "query")
  BY Zenon, <1>2, <1>3 DEF Closes
<1>4. CASE ~CloseServer(s, sread[s], swrite[s], qr, qw, "query")
  <2>1. /\ qopen' = [qopen EXCEPT ![s] = FALSE]
        /\ qread' = [qread EXCEPT ![s] = qr]
        /\ qwrite' = [qwrite EXCEPT ![s] = qw]
        /\ UNCHANGED <<est, qest, fired, alive, sread, swrite, sendq, transferq,
                       callbackq, cur, searching, bug>>
    BY ZenonT(60), <1>1, <1>4 DEF CloseQuery
  <2>2. \A t \in Servers : /\ qread[t] = "none" => qread'[t] = "none"
                           /\ qwrite[t] = "none" => qwrite'[t] = "none"
                           /\ qopen'[t] => qopen[t]
    BY ZenonT(60), <2>1 DEF Typed, TypeOK
  <2>3. QED
    BY Zenon, <1>2, <2>1, <2>2 DEF Minor, searching
<1>5. QED
  BY Zenon, <1>3, <1>4

\* The steps of the service connection.
LEMMA ServiceSteps ==
    ASSUME Typed, NEW s \in Servers,
           \/ RequestWriteFails(s) \/ HeaderFound(s) \/ HeaderError(s) \/ ResponseData(s)
           \/ DiscardData(s) \/ ServiceReadFails(s)
    PROVE  Closes(s) \/ Delivers(s) \/ Minor
<1>1. /\ owed \in [Servers -> Seq(Ids)] /\ asked \in [Servers -> [Ids -> Nat]]
      /\ sread \in [Servers -> Reads]
  BY Zenon DEF Typed, TypeOK, Reads
<1>2. CASE RequestWriteFails(s)
  <2>1. \A t \in Servers \ {s} : UNCHANGED <<owed[t], asked[t]>>
    BY Zenon, <1>1, <1>2 DEF RequestWriteFails
  <2>2. QED
    BY Zenon, <1>2, <2>1 DEF RequestWriteFails, Closes
<1>3. CASE HeaderFound(s) \/ DiscardData(s)
  <2>1. /\ sread[s] # "none" /\ \A t \in Servers \ {s} : sread'[t] = sread[t]
        /\ UNCHANGED <<est, qest, qopen, fired, alive, swrite, qread, qwrite, queues,
                       searching, bug>>
    BY Zenon, <1>1, <1>3 DEF HeaderFound, DiscardData
  <2>2. QED
    BY Zenon, <2>1 DEF Minor, searching, queues
<1>4. CASE HeaderError(s) \/ ResponseData(s)
  <2>1. /\ owed' = [owed EXCEPT ![s] = Tail(owed[s])] /\ UNCHANGED asked
        /\ owed[s] # <<>> /\ sread[s] \in {"header", "data"}
    <3>1. CASE HeaderError(s)
      BY ZenonT(60), <3>1 DEF HeaderError
    <3>2. CASE ResponseData(s)
      BY Zenon, <3>2 DEF ResponseData, Typed, DataOwed
    <3>3. QED
      BY ZenonT(60), <1>4, <3>1, <3>2
  <2>2. \A t \in Servers \ {s} : UNCHANGED <<owed[t], asked[t]>>
    BY Zenon, <1>1, <2>1
  <2>3. CASE CloseServer(s, "none", swrite[s], qread[s], qwrite[s], "service")
    BY Zenon, <2>2, <2>3 DEF Closes
  <2>4. CASE /\ bug' = {"noWaiter"} /\ sread' = [sread EXCEPT ![s] = "none"]
             /\ UNCHANGED <<est, qest, qopen, fired, alive, swrite, qread, qwrite,
                            sendq, transferq, callbackq, cur, searching>>
             /\ callbackq[s] = <<>>
    BY ZenonT(60), <1>1, <2>1, <2>4 DEF Minor, searching
  <2>5. CASE /\ callbackq[s] # <<>> /\ IdOf[Head(callbackq[s])] = Head(owed[s])
             /\ \E a \in {"null", Head(owed[s])}, kind \in {"header", "discard"} :
                   Deliver(s, a, kind)
    BY Zenon, <2>1, <2>5 DEF Delivers
  <2>6. QED
    BY ZenonT(60), <1>4, <2>3, <2>4, <2>5 DEF HeaderError, ResponseData
<1>5. CASE ServiceReadFails(s)
  BY Zenon, <1>5 DEF ServiceReadFails, Closes
<1>6. QED
  BY Zenon, <1>2, <1>3, <1>4, <1>5

\* Every step is one of these.
LEMMA Steps ==
    ASSUME Typed, [Next]_vars
    PROVE  Step
<1>1. CASE UNCHANGED vars
  BY Zenon, <1>1 DEF Step, Minor, vars, sockets, queues, searching
<1>2. CASE "late" \in Faults /\ \E x \in Searches : TimerExpires(x)
  BY Zenon, <1>2 DEF Step, Minor, TimerExpires, sockets, queues
<1>3. ASSUME NEW s \in Servers, QueryWritten(s)
      PROVE  Minor
  <2>1. /\ qwrite[s] # "none" /\ \A t \in Servers \ {s} : qwrite'[t] = qwrite[t]
        /\ UNCHANGED <<est, qest, qopen, fired, alive, sread, swrite, qread,
                       transferq, callbackq, cur, owed, searching, bug>>
    BY ZenonT(60), <1>3 DEF QueryWritten, Completes, Typed, TypeOK
  <2>2. QED
    BY Zenon, <2>1 DEF Minor, searching
<1>4. ASSUME NEW s \in Servers, HeartbeatRead(s)
      PROVE  Minor
  <2>1. /\ qread[s] # "none" /\ \A t \in Servers \ {s} : qread'[t] = qread[t]
        /\ UNCHANGED <<est, qest, qopen, fired, alive, sread, swrite, qwrite, queues,
                       searching, bug>>
    BY ZenonT(60), <1>4 DEF HeartbeatRead, Completes, Typed, TypeOK
  <2>2. QED
    BY Zenon, <2>1 DEF Minor, searching, queues
<1>5. ASSUME NEW s \in Servers, SocketStep(s)
      PROVE  Step
  BY Zenon, <1>3, <1>4, <1>5, CloseQuerySteps, ServiceSteps DEF Step, SocketStep
<1>6. QED
  BY ZenonT(60), <1>1, <1>2, <1>5 DEF Next, Quiet, Step

(***************************************************************************)
(* The queues.                                                             *)
(***************************************************************************)
\* The members of a queue after an element was appended.
LEMMA AppendMembers ==
    ASSUME NEW S, NEW q \in Seq(S), NEW e \in S
    PROVE  Range(Append(q, e)) = Range(q) \cup {e}
  BY AppendProperties, LenProperties DEF Range

\* The members of two queues put together.
LEMMA ConcatMembers ==
    ASSUME NEW S, NEW q \in Seq(S), NEW r \in Seq(S)
    PROVE  Range(q \o r) = Range(q) \cup Range(r)
<1>1. /\ Len(q) \in Nat /\ Len(r) \in Nat /\ q \o r \in Seq(S) /\ Len(q \o r) = Len(q) + Len(r)
      /\ DOMAIN q = 1 .. Len(q) /\ DOMAIN r = 1 .. Len(r)
      /\ DOMAIN (q \o r) = 1 .. Len(q) + Len(r)
      /\ \A i \in 1 .. Len(q) + Len(r) : (q \o r)[i] = IF i <= Len(q) THEN q[i] ELSE r[i - Len(q)]
  BY LenProperties, ConcatProperties
<1>2. ASSUME NEW i \in DOMAIN (q \o r) PROVE (q \o r)[i] \in Range(q) \cup Range(r)
  BY SMTT(30), <1>1 DEF Range
<1>3. ASSUME NEW i \in DOMAIN q PROVE q[i] \in Range(q \o r)
  BY SMTT(30), <1>1 DEF Range
<1>4. ASSUME NEW i \in DOMAIN r PROVE r[i] \in Range(q \o r)
  <2>1. i + Len(q) \in DOMAIN (q \o r) /\ (q \o r)[i + Len(q)] = r[i]
    BY <1>1
  <2>2. QED
    BY Zenon, <2>1 DEF Range
<1>5. QED
  BY ZenonT(60), <1>2, <1>3, <1>4 DEF Range

\* The members of a queue whose head is taken.
LEMMA TailMembers ==
    ASSUME NEW S, NEW q \in Seq(S), q # <<>>
    PROVE  Head(q) \in Range(q) /\ Range(Tail(q)) \subseteq Range(q)
  BY HeadTailProperties, LenProperties, EmptySeq DEF Range

\* No member of an empty queue.
LEMMA NoMembers == Range(<<>>) = {}
  BY DEF Range

\* The members of the queues after searches were found.
LEMMA FoundMembers ==
    ASSUME TypeOK, NEW s \in Servers, NEW id \in Ids, NEW X \in SUBSET Searches, FoundOn(s, id, X)
    PROVE  /\ \A t \in Servers \ {s} : UNCHANGED <<transferq[t], callbackq[t], owed[t], swrite[t]>>
           /\ Range(transferq'[s]) \cup Range(callbackq'[s])
                \subseteq Range(transferq[s]) \cup Range(callbackq[s]) \cup (X \cap Full)
           /\ posted' \subseteq posted \cup (X \cap Full)
           /\ \A x \in Searches : found'[x] <=> found[x] \/ x \in X \cap Full
<1>1. PICK o \in Orders(X \cap Full) : FoundOn(s, id, X)!(o)
  BY Zenon DEF FoundOn
<1>2. /\ o \in Seq(X \cap Full)
      /\ o # <<>> => Head(o) \in X \cap Full /\ Tail(o) \in Seq(X \cap Full)
  BY ZenonT(60), <1>1, OrderOK
<1>3. /\ o \in Seq(Searches) /\ Range(o) \subseteq X \cap Full
      /\ o # <<>> => Tail(o) \in Seq(Searches) /\ Range(Tail(o)) \subseteq X \cap Full
  BY <1>2, ElementOfSeq, LenProperties DEF Range
<1>4. /\ transferq \in [Servers -> Seq(Searches)] /\ callbackq \in [Servers -> Seq(Searches)]
      /\ owed \in [Servers -> Seq(Ids)] /\ swrite \in [Servers -> Ops]
  BY Zenon DEF TypeOK, Ops
<1>5. \/ transferq'[s] = transferq[s] \o o
      \/ o # <<>> /\ transferq'[s] = transferq[s] \o Tail(o)
  <2>1. CASE o # <<>> /\ swrite[s] = "none"
    <3>1. transferq' = [transferq EXCEPT ![s] = transferq[s] \o Tail(o)]
      BY ZenonT(60), <1>1, <2>1
    <3>2. QED
      BY Zenon, <1>4, <2>1, <3>1
  <2>2. CASE ~(o # <<>> /\ swrite[s] = "none")
    <3>1. transferq' = [transferq EXCEPT ![s] = transferq[s] \o o]
      BY ZenonT(60), <1>1, <2>2
    <3>2. QED
      BY ZenonT(60), <1>4, <3>1
  <2>3. QED
    BY Zenon, <2>1, <2>2
<1>6. Range(transferq'[s]) \subseteq Range(transferq[s]) \cup (X \cap Full)
  <2>1. transferq[s] \in Seq(Searches)
    BY Zenon, <1>4
  <2>2. Range(transferq[s] \o o) = Range(transferq[s]) \cup Range(o)
    BY <1>3, <2>1, ConcatMembers
  <2>3. ASSUME o # <<>>
        PROVE  Range(transferq[s] \o Tail(o)) = Range(transferq[s]) \cup Range(Tail(o))
    <3>1. PICK t \in Seq(Searches), q \in Seq(Searches) : t = Tail(o) /\ q = transferq[s]
      BY Zenon, <1>3, <2>1, <2>3
    <3>2. Range(q \o t) = Range(q) \cup Range(t)
      BY ZenonT(60), ConcatMembers
    <3>3. QED
      BY Zenon, <3>1, <3>2
  <2>4. QED
    BY ZenonT(60), <1>3, <1>5, <2>2, <2>3
<1>7. \/ callbackq'[s] = callbackq[s]
      \/ o # <<>> /\ callbackq'[s] = Append(callbackq[s], Head(o))
  <2>1. CASE o # <<>> /\ swrite[s] = "none"
    <3>1. callbackq' = [callbackq EXCEPT ![s] = Append(callbackq[s], Head(o))]
      BY ZenonT(60), <1>1, <2>1
    <3>2. QED
      BY ZenonT(60), <1>4, <2>1, <3>1
  <2>2. CASE ~(o # <<>> /\ swrite[s] = "none")
    <3>1. callbackq' = [callbackq EXCEPT ![s] = callbackq[s]]
      BY ZenonT(60), <1>1, <2>2
    <3>2. QED
      BY ZenonT(60), <1>4, <3>1
  <2>3. QED
    BY ZenonT(60), <2>1, <2>2
<1>8. Range(callbackq'[s]) \subseteq Range(callbackq[s]) \cup (X \cap Full)
  <2>1. o # <<>> => Head(o) \in Searches
    BY Zenon, <1>2
  <2>2. callbackq[s] \in Seq(Searches)
    BY Zenon, <1>4
  <2>3. o # <<>> => Range(Append(callbackq[s], Head(o))) = Range(callbackq[s]) \cup {Head(o)}
    BY <2>1, <2>2, AppendMembers
  <2>4. QED
    BY ZenonT(60), <1>2, <1>7, <2>3
<1>9. \A t \in Servers \ {s} : UNCHANGED <<transferq[t], callbackq[t], owed[t], swrite[t]>>
  BY Zenon, <1>1, <1>4
<1>10. posted' \subseteq posted \cup (X \cap Full)
  BY Zenon, <1>1
<1>11. \A x \in Searches : found'[x] <=> found[x] \/ x \in X \cap Full
  BY Zenon, <1>1
<1>12. QED
  BY Zenon, <1>6, <1>8, <1>9, <1>10, <1>11

\* Whoever is in a queue was found.
LEMMA FoundNext ==
    ASSUME Typed, Step
    PROVE  FoundFull'
<1>1. /\ TypeOK /\ FoundFull
      /\ transferq \in [Servers -> Seq(Searches)] /\ callbackq \in [Servers -> Seq(Searches)]
  BY Zenon DEF Typed, TypeOK
<1>2. CASE Minor \/ \E x \in Searches : PerformSearch(x) \/ OnTimeout(x)
  <2>1. UNCHANGED <<found, posted, transferq, callbackq>>
    BY Zenon, <1>2 DEF Minor, PerformSearch, OnTimeout
  <2>2. QED
    BY Zenon, <1>1, <2>1 DEF FoundFull
<1>3. CASE \E x \in Searches : RunPosted(x)
  <2>1. UNCHANGED <<found, transferq, callbackq>> /\ posted' \subseteq posted
    BY Zenon, <1>3 DEF RunPosted, queues
  <2>2. QED
    BY Zenon, <1>1, <2>1 DEF FoundFull
<1>4. ASSUME NEW s \in Servers, Closes(s)
      PROVE  FoundFull'
  <2>1. /\ UNCHANGED <<found, posted>> /\ transferq' = [transferq EXCEPT ![s] = <<>>]
        /\ callbackq' = [callbackq EXCEPT ![s] = <<>>]
    BY SMTT(30), <1>4 DEF Closes, CloseServer
  <2>2. \A t \in Servers : /\ Range(transferq'[t]) \subseteq Range(transferq[t])
                           /\ Range(callbackq'[t]) \subseteq Range(callbackq[t])
    BY Zenon, <1>1, <2>1, NoMembers
  <2>3. QED
    BY ZenonT(60), <1>1, <2>1, <2>2 DEF FoundFull
<1>5. ASSUME NEW s \in Servers, Delivers(s)
      PROVE  FoundFull'
  <2>1. /\ UNCHANGED <<found, posted, transferq>> /\ callbackq[s] # <<>>
        /\ callbackq' = [callbackq EXCEPT ![s] = Tail(callbackq[s])]
    BY Zenon, <1>5 DEF Delivers, Deliver
  <2>2. \A t \in Servers : Range(callbackq'[t]) \subseteq Range(callbackq[t])
    BY ZenonT(60), <1>1, <2>1, TailMembers
  <2>3. QED
    BY Zenon, <1>1, <2>1, <2>2 DEF FoundFull
<1>6. ASSUME NEW s \in Servers, QueryAnswered(s)
      PROVE  FoundFull'
  <2>1. PICK id \in Ids : \/ FoundOn(s, id, Waiting(s, id))
                          \/ NotFoundOn(s, id, Waiting(s, id))
    BY Zenon, <1>6 DEF QueryAnswered
  <2>2. Waiting(s, id) \in SUBSET Searches
    BY Zenon, <1>1 DEF Waiting, TypeOK
  <2>3. CASE FoundOn(s, id, Waiting(s, id))
    <3>1. /\ \A t \in Servers \ {s} : transferq'[t] = transferq[t] /\ callbackq'[t] = callbackq[t]
          /\ Range(transferq'[s]) \cup Range(callbackq'[s])
               \subseteq Range(transferq[s]) \cup Range(callbackq[s]) \cup (Waiting(s, id) \cap Full)
          /\ posted' \subseteq posted \cup (Waiting(s, id) \cap Full)
          /\ \A x \in Searches : found'[x] <=> found[x] \/ x \in Waiting(s, id) \cap Full
      BY ZenonT(60), <1>1, <2>2, <2>3, FoundMembers
    <3>2. \A t \in Servers : Range(transferq[t]) \cup Range(callbackq[t]) \subseteq Searches
      BY <1>1, ElementOfSeq, LenProperties DEF Range
    <3>3. \A t \in Servers \ {s} :
             \A x \in Range(transferq'[t]) \cup Range(callbackq'[t]) : found'[x]
      BY Zenon, <1>1, <3>1, <3>2 DEF FoundFull
    <3>4. \A x \in Range(transferq'[s]) \cup Range(callbackq'[s]) : found'[x]
      BY ZenonT(60), <1>1, <2>2, <3>1, <3>2 DEF FoundFull
    <3>5. posted \subseteq Searches
      BY ZenonT(60), <1>1 DEF TypeOK
    <3>6. QED
      BY ZenonT(60), <1>1, <2>2, <3>1, <3>3, <3>4, <3>5 DEF FoundFull
  <2>4. CASE NotFoundOn(s, id, Waiting(s, id))
    BY ZenonT(60), <1>1, <2>4 DEF NotFoundOn, FoundFull
  <2>5. QED
    BY Zenon, <2>1, <2>3, <2>4
<1>7. ASSUME NEW s \in Servers, RequestWritten(s)
      PROVE  FoundFull'
  <2>1. /\ UNCHANGED <<found, posted>>
        /\ \A t \in Servers \ {s} : UNCHANGED <<transferq[t], callbackq[t]>>
    BY ZenonT(60), <1>1, <1>7 DEF RequestWritten, searching
  <2>2. Range(transferq'[s]) \cup Range(callbackq'[s])
           \subseteq Range(transferq[s]) \cup Range(callbackq[s])
    <3>1. CASE est[s] /\ transferq[s] # <<>>
      <4>1. /\ transferq'[s] = Tail(transferq[s])
            /\ callbackq'[s] = Append(callbackq[s], Head(transferq[s]))
        BY Zenon, <1>1, <1>7, <3>1 DEF RequestWritten
      <4>2. QED
        BY <1>1, <3>1, <4>1, AppendMembers, TailMembers, QueueParts
    <3>2. CASE ~(est[s] /\ transferq[s] # <<>>)
      BY ZenonT(60), <1>1, <1>7, <3>2 DEF RequestWritten
    <3>3. QED
      BY ZenonT(60), <3>1, <3>2
  <2>3. QED
    BY ZenonT(60), <1>1, <2>1, <2>2 DEF FoundFull
<1>8. QED
  BY ZenonT(60), <1>2, <1>3, <1>4, <1>5, <1>6, <1>7 DEF Step

\* What is being read is owed.
LEMMA OwedNext ==
    ASSUME Typed, [Next]_vars
    PROVE  DataOwed'
<1>1. /\ DataOwed /\ sread \in [Servers -> Reads] /\ owed \in [Servers -> Seq(Ids)]
      /\ transferq \in [Servers -> Seq(Searches)] /\ TypeOK
  BY Zenon DEF Typed, TypeOK, Reads
<1>2. CASE UNCHANGED <<sread, owed>>
  BY ZenonT(60), <1>1, <1>2 DEF DataOwed
<1>3. ASSUME NEW s \in Servers, \A t \in Servers \ {s} : UNCHANGED <<sread[t], owed[t]>>,
             sread'[s] = "data" => owed'[s] # <<>>
      PROVE  DataOwed'
  BY ZenonT(60), <1>1, <1>3 DEF DataOwed
<1>4. ASSUME NEW s \in Servers, NEW e \in Ids
      PROVE  Append(owed[s], e) # <<>>
  BY <1>1, AppendProperties, LenProperties, EmptySeq
<1>5. ASSUME NEW s \in Servers, QueryAnswered(s)
      PROVE  DataOwed'
  <2>1. PICK id \in Ids : \/ FoundOn(s, id, Waiting(s, id))
                          \/ NotFoundOn(s, id, Waiting(s, id))
    BY Zenon, <1>5 DEF QueryAnswered
  <2>2. CASE NotFoundOn(s, id, Waiting(s, id))
    BY ZenonT(60), <1>2, <1>5, <2>2 DEF NotFoundOn, QueryAnswered
  <2>3. CASE FoundOn(s, id, Waiting(s, id))
    <3>1. PICK o \in Orders(Waiting(s, id) \cap Full) : FoundOn(s, id, Waiting(s, id))!(o)
      BY Zenon, <2>3 DEF FoundOn
    <3>2. \/ owed' = [owed EXCEPT ![s] = Append(owed[s], id)]
          \/ owed' = [owed EXCEPT ![s] = owed[s]]
      BY Zenon, <3>1
    <3>3. UNCHANGED sread
      BY Zenon, <1>5 DEF QueryAnswered
    <3>4. QED
      BY ZenonT(60), <1>1, <1>4, <3>2, <3>3 DEF DataOwed
  <2>4. QED
    BY Zenon, <2>1, <2>2, <2>3
<1>6. ASSUME NEW s \in Servers, RequestWritten(s)
      PROVE  DataOwed'
  <2>1. UNCHANGED sread
    BY Zenon, <1>6 DEF RequestWritten
  <2>2. transferq[s] # <<>> => IdOf[Head(transferq[s])] \in Ids
    BY Zenon, <1>1, QueueParts, ConstantsAssumption
  <2>3. QED
    BY ZenonT(60), <1>1, <1>4, <1>6, <2>1, <2>2 DEF RequestWritten, DataOwed
<1>7. ASSUME NEW s \in Servers, RequestWriteFails(s)
      PROVE  DataOwed'
  <2>1. UNCHANGED sread
    <3>1. sread' = [sread EXCEPT ![s] = sread[s]]
      BY ZenonT(60), <1>7 DEF RequestWriteFails, CloseServer
    <3>2. QED
      BY ZenonT(60), <1>1, <3>1
  <2>2. owed[s] \in Seq(Ids) /\ Len(owed[s]) \in Nat
    BY ZenonT(60), <1>1, LenProperties
  <2>3. Len(owed[s]) > 1 => Front(owed[s]) # <<>>
    BY <2>2, FrontOK, EmptySeq, LenProperties
  <2>4. QED
    BY ZenonT(60), <1>1, <1>7, <2>1, <2>2, <2>3 DEF RequestWriteFails, DataOwed
<1>8. ASSUME NEW s \in Servers, HeaderFound(s)
      PROVE  DataOwed'
  BY Zenon, <1>1, <1>8 DEF HeaderFound, DataOwed, queues
<1>9. ASSUME NEW s \in Servers, HeaderError(s) \/ ResponseData(s) \/ DiscardData(s)
                                  \/ ServiceReadFails(s)
      PROVE  DataOwed'
  <2>1. owed' = owed \/ owed' = [owed EXCEPT ![s] = Tail(owed[s])]
    BY ZenonT(60), <1>9 DEF HeaderError, ResponseData, DiscardData, ServiceReadFails, queues
  <2>2. PICK r \in {"none", "header", "discard", "dead"} : sread' = [sread EXCEPT ![s] = r]
    BY ZenonT(60), <1>9 DEF HeaderError, ResponseData, DiscardData, ServiceReadFails, CloseServer,
                Deliver, Op
  <2>3. QED
    BY ZenonT(60), <1>1, <1>3, <2>1, <2>2
<1>10. ASSUME NEW s \in Servers, QueryWriteFails(s) \/ QueryReadFails(s)
       PROVE  DataOwed'
  <2>1. UNCHANGED owed /\ (sread' = sread \/ sread' = [sread EXCEPT ![s] = sread[s]])
    BY ZenonT(60), <1>10 DEF QueryWriteFails, QueryReadFails, CloseQuery, CloseServer
  <2>2. QED
    BY ZenonT(90), <1>1, <1>2, <2>1
<1>11. CASE \/ \E x \in Searches : PerformSearch(x) \/ OnTimeout(x) \/ RunPosted(x) \/ TimerExpires(x)
            \/ \E s \in Servers : QueryWritten(s) \/ HeartbeatRead(s)
            \/ UNCHANGED vars
  BY ZenonT(60), <1>2, <1>11 DEF PerformSearch, OnTimeout, RunPosted, TimerExpires, QueryWritten,
                    HeartbeatRead, vars, sockets, queues
<1>12. QED
  BY ZenonT(60), <1>5, <1>6, <1>7, <1>8, <1>9, <1>10, <1>11 DEF Next, SocketStep, Quiet

\* The types, put together.
LEMMA TypedNext ==
    ASSUME Typed, [Next]_vars
    PROVE  Typed'
<1>1. TypeOK'
  <2>1. CASE UNCHANGED vars
    BY ZenonT(60), <2>1 DEF Typed, TypeOK, vars, sockets, queues, searching
  <2>2. CASE Next
    BY ZenonT(60), <2>1, <2>2, SearchTyped, QueryTyped, ServiceTyped DEF Next, SocketStep, Quiet
  <2>3. QED
    BY ZenonT(60), <2>1, <2>2
<1>2. QED
  BY Zenon, <1>1, OwedNext, FoundNext, Steps DEF Typed

(***************************************************************************)
(* Searches and servers.                                                   *)
(***************************************************************************)
\* A search that was found or whose servers are closed waits for nobody.
EntriesEnd ==
    /\ \A s \in Servers, x \in Searches :
          ~est[s] /\ phase[x] = "active" => s \notin queried[x]
    /\ \A x \in Searches : found[x] => queried[x] = {} /\ phase[x] # "new"

\* What is left of a connection whose end was reported, and of a destroyed server.
SocketsEnd ==
    \A s \in Servers :
        /\ fired[s] <=> ~qest[s]
        /\ fired[s] => /\ ~est[s] /\ ~qopen[s] /\ qread[s] = "none" /\ qwrite[s] = "none"
                       /\ transferq[s] = <<>> /\ callbackq[s] = <<>>
        /\ ~alive[s] => fired[s] /\ sread[s] = "none" /\ swrite[s] = "none"

Entries == EntriesWait /\ EntriesEnd

\* The steps of a search keep the entries.
LEMMA SearchEntries ==
    ASSUME Typed, Entries, NEW x \in Searches,
           PerformSearch(x) \/ OnTimeout(x) \/ RunPosted(x)
    PROVE  Entries'
<1>1. /\ est \in [Servers -> BOOLEAN] /\ phase \in [Searches -> {"new", "active", "done"}]
      /\ queried \in [Searches -> SUBSET Servers] /\ cur \in [Servers -> SUBSET Searches]
      /\ found \in [Searches -> BOOLEAN] /\ posted \subseteq Searches
  BY Zenon DEF Typed, TypeOK
<1>2. CASE PerformSearch(x)
  <2>1. PICK Q \in SUBSET {s \in Servers : alive[s] /\ est[s]} :
           /\ SearchOn(x, Q)
           /\ phase' = [phase EXCEPT ![x] = IF Q = {} THEN "done" ELSE "active"]
    BY Zenon, <1>2 DEF PerformSearch
  <2>2. /\ queried' = [queried EXCEPT ![x] = Q] /\ phase[x] = "new" /\ UNCHANGED <<est, found>>
        /\ cur' = [s \in Servers |-> IF s \in Q THEN cur[s] \cup {x} ELSE cur[s]]
    BY Zenon, <1>2, <2>1 DEF PerformSearch, SearchOn
  <2>3. EntriesWait'
    BY Zenon, <1>1, <2>1, <2>2 DEF Entries, EntriesWait
  <2>4. EntriesEnd'
    BY Zenon, <1>1, <2>1, <2>2 DEF Entries, EntriesEnd
  <2>5. QED
    BY Zenon, <2>3, <2>4 DEF Entries
<1>3. CASE OnTimeout(x)
  <2>1. CASE UNCHANGED <<cur, queried, phase>>
    BY Zenon, <1>3, <2>1 DEF OnTimeout, sockets, Entries, EntriesWait, EntriesEnd
  <2>2. CASE cur' = CurWithout({x}) /\ queried' = NobodyQueried({x}) /\ Complete({x}, "null")
    <3>1. /\ cur' = [t \in Servers |-> {y \in cur[t] : y # x \/ t \notin queried[y]}]
          /\ queried' = [y \in Searches |-> IF y = x THEN {} ELSE queried[y]]
          /\ phase' = [y \in Searches |-> IF y = x THEN "done" ELSE phase[y]]
          /\ UNCHANGED <<est, found>>
      BY Zenon, <1>3, <2>2 DEF OnTimeout, CurWithout, NobodyQueried, Complete, sockets
    <3>2. EntriesWait'
      BY Zenon, <1>1, <3>1 DEF Entries, EntriesWait
    <3>3. EntriesEnd'
      BY Zenon, <1>1, <3>1 DEF Entries, EntriesEnd
    <3>4. QED
      BY Zenon, <3>2, <3>3 DEF Entries
  <2>3. QED
    BY Zenon, <1>3, <2>1, <2>2 DEF OnTimeout
<1>4. CASE RunPosted(x)
  <2>1. /\ phase' = [y \in Searches |-> IF y = x THEN "done" ELSE phase[y]]
        /\ UNCHANGED <<est, found, queried, cur>>
    BY Zenon, <1>1, <1>4 DEF RunPosted, Complete, sockets, queues
  <2>2. found[x] /\ queried[x] = {}
    BY Zenon, <1>4 DEF RunPosted, Typed, FoundFull, Entries, EntriesEnd
  <2>3. EntriesWait' /\ EntriesEnd'
    BY Zenon, <1>1, <2>1, <2>2 DEF Entries, EntriesWait, EntriesEnd
  <2>4. QED
    BY Zenon, <2>3 DEF Entries
<1>5. QED
  BY Zenon, <1>2, <1>3, <1>4

\* A close keeps them: it tells everybody who waits for the server.
LEMMA CloseEntries ==
    ASSUME Typed, Entries, NEW s \in Servers, Closes(s)
    PROVE  Entries'
<1>1. /\ est \in [Servers -> BOOLEAN] /\ phase \in [Searches -> {"new", "active", "done"}]
      /\ queried \in [Searches -> SUBSET Servers] /\ cur \in [Servers -> SUBSET Searches]
      /\ found \in [Searches -> BOOLEAN]
  BY Zenon DEF Typed, TypeOK
<1>2. DEFINE cancelled == Range(transferq[s]) \cup Range(callbackq[s])
             told == {x \in cur[s] : phase[x] = "active" /\ x \notin cancelled}
             ended == {x \in cancelled : phase[x] = "active"} \cup Exhausted(told, s)
<1>3. /\ est' = [est EXCEPT ![s] = FALSE] /\ UNCHANGED <<cur, found>>
      /\ queried' = [x \in Searches |-> IF x \in told THEN queried[x] \ {s} ELSE queried[x]]
      /\ phase' = [x \in Searches |-> IF x \in ended THEN "done" ELSE phase[x]]
  BY SMTT(30) DEF Closes, CloseServer, Complete
<1>4. \A x \in cancelled : found[x]
  BY Zenon DEF Typed, FoundFull
<1>5. \A x \in Searches : x \in ended => found[x] \/ queried[x] \subseteq {s}
  BY Zenon, <1>4 DEF Exhausted
<1>6. \A x \in Searches : phase[x] = "active" /\ x \in cur[s] => x \in told \/ x \in ended
  BY Zenon
<1>7. HIDE DEF cancelled, told, ended
<1>8. EntriesWait'
  BY <1>1, <1>3, <1>5 DEF Entries, EntriesWait, EntriesEnd
<1>9. EntriesEnd'
  BY Zenon, <1>1, <1>3, <1>6 DEF Entries, EntriesWait, EntriesEnd
<1>10. QED
  BY Zenon, <1>8, <1>9 DEF Entries

\* So does an answer: it takes the searches for the id out of the entries of its server.
LEMMA AnswerEntries ==
    ASSUME Typed, Entries, NEW s \in Servers, QueryAnswered(s)
    PROVE  Entries'
<1>1. /\ est \in [Servers -> BOOLEAN] /\ phase \in [Searches -> {"new", "active", "done"}]
      /\ queried \in [Searches -> SUBSET Servers] /\ cur \in [Servers -> SUBSET Searches]
      /\ found \in [Searches -> BOOLEAN]
  BY Zenon DEF Typed, TypeOK
<1>2. PICK id \in Ids : \/ FoundOn(s, id, Waiting(s, id))
                        \/ NotFoundOn(s, id, Waiting(s, id))
  BY Zenon DEF QueryAnswered
<1>3. UNCHANGED est
  BY Zenon DEF QueryAnswered
<1>4. PICK X \in SUBSET Searches : X = Waiting(s, id)
  BY Zenon, <1>1 DEF Waiting
<1>5. \A x \in Searches : x \in X <=> x \in cur[s] /\ IdOf[x] = id /\ phase[x] = "active"
  BY Zenon, <1>1, <1>4 DEF Waiting
<1>6. CASE FoundOn(s, id, X)
  <2>1. /\ cur' = [CurWithout(X) EXCEPT ![s] = {y \in CurWithout(X)[s] : IdOf[y] # id}]
        /\ queried' = [x \in Searches |-> IF x \in X THEN {} ELSE queried[x]]
        /\ phase' = [x \in Searches |-> IF x \in X \ Full THEN "done" ELSE phase[x]]
        /\ found' = [x \in Searches |-> found[x] \/ x \in X \cap Full]
    BY Zenon, <1>6 DEF FoundOn, NobodyQueried, Complete
  <2>2. \A t \in Servers, y \in Searches :
           y \in cur'[t] <=> /\ y \in cur[t] /\ (y \notin X \/ t \notin queried[y])
                             /\ t = s => IdOf[y] # id
    BY Zenon, <1>1, <2>1 DEF CurWithout
  <2>3. cur' \in [Servers -> SUBSET Searches]
    BY Zenon, <1>1, <2>1 DEF CurWithout
  <2>4. EntriesWait'
    BY Zenon, <1>1, <1>3, <1>5, <2>1, <2>2 DEF Entries, EntriesWait
  <2>5. EntriesEnd'
    BY Zenon, <1>1, <1>3, <1>5, <2>1 DEF Entries, EntriesEnd
  <2>6. QED
    BY Zenon, <2>4, <2>5 DEF Entries
<1>7. CASE NotFoundOn(s, id, X)
  <2>1. /\ cur' = [cur EXCEPT ![s] = {y \in cur[s] : IdOf[y] # id}]
        /\ queried' = [x \in Searches |-> IF x \in X THEN queried[x] \ {s} ELSE queried[x]]
        /\ phase' = [x \in Searches |-> IF x \in Exhausted(X, s) THEN "done" ELSE phase[x]]
        /\ UNCHANGED found
    BY Zenon, <1>7 DEF NotFoundOn, Complete
  <2>2. \A x \in Searches : x \in Exhausted(X, s) <=> x \in X /\ queried[x] \subseteq {s}
    BY Zenon DEF Exhausted
  <2>3. EntriesWait'
    BY ZenonT(60), <1>1, <1>3, <1>5, <2>1, <2>2 DEF Entries, EntriesWait
  <2>4. EntriesEnd'
    BY Zenon, <1>1, <1>3, <1>5, <2>1, <2>2 DEF Entries, EntriesEnd
  <2>5. QED
    BY Zenon, <2>3, <2>4 DEF Entries
<1>8. QED
  BY Zenon, <1>2, <1>4, <1>6, <1>7

\* Every step keeps the entries.
LEMMA EntriesNext ==
    ASSUME Typed, Entries, Step
    PROVE  Entries'
<1>1. CASE Minor \/ \E s \in Servers : RequestWritten(s)
  <2>1. UNCHANGED <<est, cur, phase, queried, found>>
    BY Zenon, <1>1 DEF Minor, RequestWritten, searching
  <2>2. QED
    BY Zenon, <2>1 DEF Entries, EntriesWait, EntriesEnd
<1>2. ASSUME NEW s \in Servers, Delivers(s)
      PROVE  Entries'
  <2>1. TypeOK /\ callbackq[s] # <<>> /\ callbackq[s] \in Seq(Searches)
    BY Zenon, <1>2 DEF Delivers, Typed, TypeOK
  <2>2. PICK x \in Searches : x = Head(callbackq[s])
    BY Zenon, <2>1, QueueParts
  <2>3. found[x] /\ queried[x] = {}
    BY Zenon, <2>1, <2>2, TailMembers DEF Typed, FoundFull, Entries, EntriesEnd
  <2>4. /\ phase' = [y \in Searches |-> IF y = x THEN "done" ELSE phase[y]]
        /\ UNCHANGED <<est, found, queried, cur>>
    BY SMTT(60), <1>2, <2>1, <2>2 DEF Delivers, Deliver, Complete, TypeOK
  <2>5. EntriesWait' /\ EntriesEnd'
    BY Zenon, <2>1, <2>3, <2>4 DEF TypeOK, Entries, EntriesWait, EntriesEnd
  <2>6. QED
    BY Zenon, <2>5 DEF Entries
<1>3. QED
  BY Zenon, <1>1, <1>2, SearchEntries, CloseEntries, AnswerEntries DEF Step

\* Every step keeps what is left of connections and servers that end.
LEMMA SocketsNext ==
    ASSUME Typed, SocketsEnd, Step
    PROVE  SocketsEnd'
<1>1. /\ est \in [Servers -> BOOLEAN] /\ qest \in [Servers -> BOOLEAN]
      /\ qopen \in [Servers -> BOOLEAN] /\ fired \in [Servers -> BOOLEAN]
      /\ alive \in [Servers -> BOOLEAN] /\ sread \in [Servers -> Reads]
      /\ swrite \in [Servers -> Ops] /\ qread \in [Servers -> Ops] /\ qwrite \in [Servers -> Ops]
      /\ transferq \in [Servers -> Seq(Searches)] /\ callbackq \in [Servers -> Seq(Searches)]
  BY Zenon DEF Typed, TypeOK, Reads, Ops
<1>2. CASE Minor
  BY Zenon, <1>1, <1>2 DEF Minor, SocketsEnd
<1>3. ASSUME NEW x \in Searches, PerformSearch(x)
      PROVE  SocketsEnd'
  <2>1. PICK Q : SearchOn(x, Q)
    BY Zenon, <1>3 DEF PerformSearch
  <2>2. \A t \in Servers : qwrite'[t] = qwrite[t] \/ qopen[t]
    BY Zenon, <2>1 DEF SearchOn
  <2>3. UNCHANGED <<est, qest, qopen, fired, alive, sread, swrite, qread, transferq, callbackq>>
    BY Zenon, <1>3 DEF PerformSearch
  <2>4. QED
    BY Zenon, <1>1, <2>2, <2>3 DEF SocketsEnd
<1>4. CASE \E x \in Searches : OnTimeout(x) \/ RunPosted(x)
  <2>1. UNCHANGED <<est, qest, qopen, fired, alive, sread, swrite, qread, qwrite, transferq,
                    callbackq>>
    BY Zenon, <1>4 DEF OnTimeout, RunPosted, sockets, queues
  <2>2. QED
    BY Zenon, <2>1 DEF SocketsEnd
<1>5. ASSUME NEW s \in Servers, Closes(s)
      PROVE  SocketsEnd'
  <2>1. PICK sr \in {sread[s], "none"}, sw \in {swrite[s], "none"}, qr \in {qread[s], "none"},
             qw \in {qwrite[s], "none"}, by \in {"query", "service"} :
           CloseServer(s, sr, sw, qr, qw, by)
    BY Zenon, <1>5 DEF Closes
  <2>2. DEFINE ends == qr = "none" /\ qw = "none" /\ ~fired[s]
  <2>3. /\ est' = [est EXCEPT ![s] = FALSE] /\ qopen' = [qopen EXCEPT ![s] = FALSE]
        /\ fired' = [fired EXCEPT ![s] = fired[s] \/ ends]
        /\ qest' = [qest EXCEPT ![s] = qest[s] /\ ~ends]
        /\ alive' = [alive EXCEPT ![s] = alive[s] /\ ~SafeToKill(FALSE, sr, sw, qest[s] /\ ~ends)]
        /\ sread' = [sread EXCEPT ![s] = sr] /\ swrite' = [swrite EXCEPT ![s] = sw]
        /\ qread' = [qread EXCEPT ![s] = qr] /\ qwrite' = [qwrite EXCEPT ![s] = qw]
        /\ transferq' = [transferq EXCEPT ![s] = <<>>] /\ callbackq' = [callbackq EXCEPT ![s] = <<>>]
    BY Zenon, <2>1 DEF CloseServer
  <2>4. \A t \in Servers \ {s} :
           UNCHANGED <<est[t], qest[t], qopen[t], fired[t], alive[t], sread[t], swrite[t],
                       qread[t], qwrite[t], transferq[t], callbackq[t]>>
    BY Zenon, <1>1, <2>3
  <2>5. /\ ~est'[s] /\ ~qopen'[s] /\ (fired'[s] <=> fired[s] \/ ends)
        /\ qest'[s] <=> qest[s] /\ ~ends
        /\ alive'[s] <=> alive[s] /\ ~(sr = "none" /\ sw = "none" /\ ~qest'[s])
        /\ sread'[s] = sr /\ swrite'[s] = sw /\ qread'[s] = qr /\ qwrite'[s] = qw
        /\ transferq'[s] = <<>> /\ callbackq'[s] = <<>>
    BY Zenon, <1>1, <2>3 DEF SafeToKill
  <2>6. QED
    BY SMTT(30), <2>4, <2>5 DEF SocketsEnd
<1>6. ASSUME NEW s \in Servers, Delivers(s)
      PROVE  SocketsEnd'
  <2>1. /\ sread[s] # "none" /\ callbackq[s] # <<>>
        /\ \A t \in Servers \ {s} : UNCHANGED <<sread[t], callbackq[t]>>
        /\ UNCHANGED <<est, qest, qopen, fired, alive, swrite, qread, qwrite, transferq>>
    BY ZenonT(60), <1>1, <1>6 DEF Delivers, Deliver
  <2>2. QED
    BY Zenon, <2>1 DEF SocketsEnd
<1>7. ASSUME NEW s \in Servers, QueryAnswered(s)
      PROVE  SocketsEnd'
  <2>1. /\ qread[s] # "none" /\ \A t \in Servers \ {s} : UNCHANGED qread[t]
        /\ UNCHANGED <<est, qest, qopen, fired, alive, sread, qwrite>>
    BY Zenon, <1>1, <1>7 DEF QueryAnswered, Completes
  <2>2. \A t \in Servers \ {s} : UNCHANGED <<transferq[t], callbackq[t], swrite[t]>>
    <3>1. PICK id \in Ids : \/ FoundOn(s, id, Waiting(s, id))
                            \/ NotFoundOn(s, id, Waiting(s, id))
      BY Zenon, <1>7 DEF QueryAnswered
    <3>2. TypeOK /\ Waiting(s, id) \in SUBSET Searches
      BY Zenon DEF Typed, Waiting, TypeOK
    <3>3. QED
      BY Zenon, <3>1, <3>2, FoundMembers DEF NotFoundOn
  <2>3. QED
    BY ZenonT(60), <2>1, <2>2 DEF SocketsEnd
<1>8. ASSUME NEW s \in Servers, RequestWritten(s)
      PROVE  SocketsEnd'
  <2>1. /\ swrite[s] # "none" /\ UNCHANGED <<est, qest, qopen, fired, sread, qread, qwrite>>
        /\ \A t \in Servers \ {s} : UNCHANGED <<alive[t], swrite[t], transferq[t], callbackq[t]>>
        /\ est[s] \/ UNCHANGED <<transferq[s], callbackq[s]>>
    BY Zenon, <1>1, <1>8 DEF RequestWritten, Completes
  <2>2. ~alive'[s] => ~alive[s] \/ (~est[s] /\ sread[s] = "none" /\ swrite'[s] = "none" /\ ~qest[s])
    BY Zenon, <1>1, <1>8 DEF RequestWritten, SafeToKill
  <2>3. QED
    BY ZenonT(60), <2>1, <2>2 DEF SocketsEnd
<1>9. QED
  BY Zenon, <1>2, <1>3, <1>4, <1>5, <1>6, <1>7, <1>8 DEF Step

(***************************************************************************)
(* The answers of the service connection.                                  *)
(***************************************************************************)
\* The ids that the searches in a queue are for.
Names(q) == [i \in DOMAIN q |-> IdOf[q[i]]]

\* They follow the queue.
LEMMA NamesQueue ==
    ASSUME NEW q \in Seq(Searches)
    PROVE  /\ Names(q) = <<>> <=> q = <<>>
           /\ \A e \in Searches : Append(Names(q), IdOf[e]) = Names(Append(q, e))
           /\ q # <<>> => Tail(Names(q)) = Names(Tail(q)) /\ Head(Names(q)) = IdOf[Head(q)]
<1>1. /\ Names(q) \in Seq(Ids) /\ Len(Names(q)) = Len(q) /\ Len(q) \in Nat
      /\ DOMAIN q = 1 .. Len(q) /\ \A i \in 1 .. Len(q) : Names(q)[i] = IdOf[q[i]]
  BY ConstantsAssumption, LenProperties, ElementOfSeq DEF Names
<1>2. Names(q) = <<>> <=> q = <<>>
  BY Zenon, <1>1, EmptySeq, LenProperties
<1>3. ASSUME NEW e \in Searches
      PROVE  Append(Names(q), IdOf[e]) = Names(Append(q, e))
  <2>1. /\ Append(q, e) \in Seq(Searches) /\ Len(Append(q, e)) = Len(q) + 1
        /\ \A i \in 1 .. Len(q) : Append(q, e)[i] = q[i]
        /\ Append(q, e)[Len(q) + 1] = e /\ DOMAIN Append(q, e) = 1 .. Len(q) + 1
    BY AppendProperties, LenProperties
  <2>2. Names(Append(q, e)) \in Seq(Ids) /\ Len(Names(Append(q, e))) = Len(q) + 1
    BY <1>1, <2>1, ConstantsAssumption, ElementOfSeq, LenProperties DEF Names
  <2>3. IdOf[e] \in Ids
    BY Zenon, ConstantsAssumption
  <2>4. /\ Append(Names(q), IdOf[e]) \in Seq(Ids) /\ Len(Append(Names(q), IdOf[e])) = Len(q) + 1
        /\ \A i \in 1 .. Len(q) : Append(Names(q), IdOf[e])[i] = Names(q)[i]
        /\ Append(Names(q), IdOf[e])[Len(q) + 1] = IdOf[e]
    BY <1>1, <2>3, AppendProperties
  <2>5. \A i \in 1 .. Len(q) + 1 : Names(Append(q, e))[i] = IdOf[Append(q, e)[i]]
    BY Zenon, <2>1 DEF Names
  <2>6. \A i \in 1 .. Len(q) + 1 : Append(Names(q), IdOf[e])[i] = Names(Append(q, e))[i]
    BY <1>1, <2>1, <2>4, <2>5
  <2>7. QED
    BY Zenon, <2>2, <2>4, <2>6, SeqEqual
<1>4. ASSUME q # <<>>
      PROVE  Tail(Names(q)) = Names(Tail(q)) /\ Head(Names(q)) = IdOf[Head(q)]
  <2>1. /\ Tail(q) \in Seq(Searches) /\ Len(Tail(q)) = Len(q) - 1 /\ Head(q) = q[1]
        /\ \A i \in 1 .. Len(Tail(q)) : Tail(q)[i] = q[i + 1]
        /\ DOMAIN Tail(q) = 1 .. Len(q) - 1 /\ Len(q) >= 1
    BY <1>1, <1>4, HeadTailProperties, EmptySeq, LenProperties
  <2>2. Names(q) # <<>>
    BY Zenon, <1>2, <1>4
  <2>3. /\ Tail(Names(q)) \in Seq(Ids) /\ Len(Tail(Names(q))) = Len(q) - 1
        /\ Head(Names(q)) = Names(q)[1]
        /\ \A i \in 1 .. Len(q) - 1 : Tail(Names(q))[i] = Names(q)[i + 1]
    BY <1>1, <2>2, HeadTailProperties
  <2>4. Names(Tail(q)) \in Seq(Ids) /\ Len(Names(Tail(q))) = Len(q) - 1
    BY <1>1, <2>1, ConstantsAssumption, ElementOfSeq, LenProperties DEF Names
  <2>5. \A i \in 1 .. Len(q) - 1 : Names(Tail(q))[i] = IdOf[Tail(q)[i]]
    BY Zenon, <2>1 DEF Names
  <2>6. \A i \in 1 .. Len(q) - 1 : Tail(Names(q))[i] = Names(Tail(q))[i]
    BY <1>1, <2>1, <2>3, <2>5
  <2>7. Tail(Names(q)) = Names(Tail(q))
    BY Zenon, <2>3, <2>4, <2>6, SeqEqual
  <2>8. QED
    BY <1>1, <2>1, <2>3, <2>7
<1>5. QED
  BY Zenon, <1>2, <1>3, <1>4

\* The callbacks and what the peer owes stay in step.
LEMMA InStepNext ==
    ASSUME Typed, AnswersInStep, Step
    PROVE  AnswersInStep'
<1>1. /\ TypeOK /\ est \in [Servers -> BOOLEAN] /\ owed \in [Servers -> Seq(Ids)]
      /\ callbackq \in [Servers -> Seq(Searches)] /\ transferq \in [Servers -> Seq(Searches)]
      /\ \A s \in Servers : est[s] => owed[s] = Names(callbackq[s])
  BY Zenon DEF Typed, TypeOK, AnswersInStep, Names
<1>2. SUFFICES \A s \in Servers : est'[s] => owed'[s] = Names(callbackq'[s])
  BY Zenon DEF AnswersInStep, Names
<1>3. CASE \E x \in Searches : PerformSearch(x) \/ OnTimeout(x) \/ RunPosted(x)
  <2>1. UNCHANGED <<est, owed, callbackq>>
    BY ZenonT(60), <1>3 DEF PerformSearch, OnTimeout, RunPosted, sockets, queues
  <2>2. QED
    BY ZenonT(60), <1>1, <2>1
<1>4. CASE Minor
  <2>1. UNCHANGED <<est, callbackq>>
    BY ZenonT(60), <1>4 DEF Minor
  <2>2. CASE UNCHANGED owed
    BY ZenonT(60), <1>1, <2>1, <2>2
  <2>3. ASSUME NEW s \in Servers, owed[s] # <<>>, callbackq[s] = <<>>,
               owed' = [owed EXCEPT ![s] = Tail(owed[s])]
        PROVE  \A t \in Servers : est'[t] => owed'[t] = Names(callbackq'[t])
    <3>1. ~est[s]
      BY ZenonT(60), <1>1, <2>3, NamesQueue
    <3>2. \A t \in Servers \ {s} : owed'[t] = owed[t]
      BY ZenonT(60), <1>1, <2>3
    <3>3. QED
      BY ZenonT(60), <1>1, <2>1, <3>1, <3>2
  <2>4. QED
    BY ZenonT(60), <1>4, <2>2, <2>3 DEF Minor
<1>5. ASSUME NEW s \in Servers, \A t \in Servers \ {s} : UNCHANGED <<est[t], owed[t], callbackq[t]>>,
             est'[s] => owed'[s] = Names(callbackq'[s])
      PROVE  \A t \in Servers : est'[t] => owed'[t] = Names(callbackq'[t])
  BY ZenonT(60), <1>1, <1>5
<1>6. ASSUME NEW s \in Servers, Closes(s)
      PROVE  \A t \in Servers : est'[t] => owed'[t] = Names(callbackq'[t])
  <2>1. /\ est' = [est EXCEPT ![s] = FALSE] /\ callbackq' = [callbackq EXCEPT ![s] = <<>>]
        /\ \A t \in Servers \ {s} : UNCHANGED owed[t]
    BY SMTT(30), <1>6 DEF Closes, CloseServer
  <2>2. QED
    BY ZenonT(60), <1>1, <1>5, <2>1
<1>7. ASSUME NEW s \in Servers, Delivers(s)
      PROVE  \A t \in Servers : est'[t] => owed'[t] = Names(callbackq'[t])
  <2>1. /\ callbackq[s] # <<>> /\ UNCHANGED est
        /\ owed' = [owed EXCEPT ![s] = Tail(owed[s])]
        /\ callbackq' = [callbackq EXCEPT ![s] = Tail(callbackq[s])]
    BY ZenonT(60), <1>7 DEF Delivers, Deliver
  <2>2. Tail(Names(callbackq[s])) = Names(Tail(callbackq[s]))
    BY ZenonT(60), <1>1, <2>1, NamesQueue
  <2>3. QED
    BY Zenon, <1>1, <1>5, <2>1, <2>2
<1>8. ASSUME NEW s \in Servers, QueryAnswered(s)
      PROVE  \A t \in Servers : est'[t] => owed'[t] = Names(callbackq'[t])
  <2>1. UNCHANGED est
    BY ZenonT(60), <1>8 DEF QueryAnswered
  <2>2. PICK id \in Ids : \/ FoundOn(s, id, Waiting(s, id))
                          \/ NotFoundOn(s, id, Waiting(s, id))
    BY ZenonT(60), <1>8 DEF QueryAnswered
  <2>3. CASE NotFoundOn(s, id, Waiting(s, id))
    BY ZenonT(60), <1>1, <2>1, <2>3 DEF NotFoundOn
  <2>4. CASE FoundOn(s, id, Waiting(s, id))
    <3>1. PICK o \in Orders(Waiting(s, id) \cap Full) : FoundOn(s, id, Waiting(s, id))!(o)
      BY ZenonT(60), <2>4 DEF FoundOn
    <3>2. /\ Waiting(s, id) \cap Full \in SUBSET Searches
          /\ \A x \in Waiting(s, id) : IdOf[x] = id
      BY ZenonT(60), <1>1 DEF Waiting, TypeOK
    <3>3. o # <<>> => Head(o) \in Searches /\ IdOf[Head(o)] = id
      BY ZenonT(60), <3>1, <3>2, OrderOK
    <3>4. \A t \in Servers \ {s} : UNCHANGED <<owed[t], callbackq[t]>>
      BY ZenonT(60), <1>1, <3>1
    <3>5. CASE o # <<>> /\ swrite[s] = "none" /\ est[s]
      <4>1. /\ owed' = [owed EXCEPT ![s] = Append(owed[s], id)]
            /\ callbackq' = [callbackq EXCEPT ![s] = Append(callbackq[s], Head(o))]
        BY ZenonT(60), <3>1, <3>5
      <4>2. Append(Names(callbackq[s]), id) = Names(Append(callbackq[s], Head(o)))
        BY <1>1, <3>3, <3>5, NamesQueue
      <4>3. QED
        BY ZenonT(60), <1>1, <1>5, <2>1, <3>4, <4>1, <4>2
    <3>6. CASE ~(o # <<>> /\ swrite[s] = "none") /\ est[s]
      <4>1. /\ owed' = [owed EXCEPT ![s] = owed[s]]
            /\ callbackq' = [callbackq EXCEPT ![s] = callbackq[s]]
        BY ZenonT(60), <3>1, <3>6
      <4>2. QED
        BY ZenonT(60), <1>1, <2>1, <4>1
    <3>7. CASE ~est[s]
      BY ZenonT(60), <1>5, <2>1, <3>4, <3>7
    <3>8. QED
      BY ZenonT(60), <3>5, <3>6, <3>7
  <2>5. QED
    BY ZenonT(60), <2>2, <2>3, <2>4
<1>9. ASSUME NEW s \in Servers, RequestWritten(s)
      PROVE  \A t \in Servers : est'[t] => owed'[t] = Names(callbackq'[t])
  <2>1. UNCHANGED est
    BY ZenonT(60), <1>9 DEF RequestWritten
  <2>2. CASE est[s] /\ transferq[s] # <<>>
    <3>1. /\ owed' = [owed EXCEPT ![s] = Append(owed[s], IdOf[Head(transferq[s])])]
          /\ callbackq' = [callbackq EXCEPT ![s] = Append(callbackq[s], Head(transferq[s]))]
      BY ZenonT(60), <1>9, <2>2 DEF RequestWritten
    <3>2. Append(Names(callbackq[s]), IdOf[Head(transferq[s])])
             = Names(Append(callbackq[s], Head(transferq[s])))
      BY ZenonT(60), <1>1, <2>2, NamesQueue, QueueParts
    <3>3. QED
      BY ZenonT(60), <1>1, <1>5, <2>1, <2>2, <3>1, <3>2
  <2>3. CASE ~(est[s] /\ transferq[s] # <<>>)
    <3>1. owed' = [owed EXCEPT ![s] = owed[s]] /\ callbackq' = [callbackq EXCEPT ![s] = callbackq[s]]
      BY ZenonT(60), <1>9, <2>3 DEF RequestWritten
    <3>2. QED
      BY Zenon, <1>1, <2>1, <3>1
  <2>4. QED
    BY ZenonT(60), <2>2, <2>3
<1>10. QED
  BY ZenonT(60), <1>3, <1>4, <1>6, <1>7, <1>8, <1>9 DEF Step

(***************************************************************************)
(* The query connection.                                                   *)
(***************************************************************************)
\* What AskedFor says of one server.
Asks(s) ==
    est[s] /\ qopen[s] =>
        /\ \A x \in cur[s] : asked[s][IdOf[x]] > 0 \/ IdOf[x] \in Range(sendq[s])
        /\ sendq[s] # <<>> => qwrite[s] # "none"

\* A new search asks, queues its query or joins one that is there.
LEMMA SearchAsks ==
    ASSUME Typed, AskedFor, NEW x \in Searches, PerformSearch(x)
    PROVE  AskedFor'
<1>1. PICK Q : SearchOn(x, Q)
  BY Zenon DEF PerformSearch
<1>2. SUFFICES ASSUME NEW s \in Servers, est[s], qopen[s]
               PROVE  Asks(s)'
  BY Zenon DEF PerformSearch, AskedFor, Asks
<1>3. /\ asked[s] \in [Ids -> Nat] /\ sendq[s] \in Seq(Ids) /\ IdOf[x] \in Ids
      /\ cur[s] \subseteq Searches /\ \A y \in cur[s] : IdOf[y] \in Ids
  BY ZenonT(60), ConstantsAssumption DEF Typed, TypeOK
<1>4. Asks(s) /\ UNCHANGED <<est, qopen>>
  BY Zenon DEF AskedFor, Asks, PerformSearch
<1>5. CASE s \notin Q
  BY ZenonT(60), <1>1, <1>4, <1>5 DEF SearchOn, Asks
<1>6. CASE s \in Q /\ \E y \in cur[s] : IdOf[y] = IdOf[x]
  <2>1. /\ cur'[s] = cur[s] \cup {x}
        /\ UNCHANGED <<asked[s], sendq[s], qwrite[s]>>
    BY ZenonT(60), <1>1, <1>6 DEF SearchOn
  <2>2. QED
    BY ZenonT(60), <1>2, <1>4, <1>6, <2>1 DEF Asks
<1>7. CASE s \in Q /\ (\A y \in cur[s] : IdOf[y] # IdOf[x]) /\ qwrite[s] = "none"
  <2>1. /\ cur'[s] = cur[s] \cup {x} /\ qwrite'[s] = "live" /\ UNCHANGED sendq[s]
        /\ asked'[s] = [asked[s] EXCEPT ![IdOf[x]] = asked[s][IdOf[x]] + 1]
    BY ZenonT(60), <1>1, <1>2, <1>7 DEF SearchOn
  <2>2. \A y \in cur[s] : asked'[s][IdOf[y]] = asked[s][IdOf[y]]
    BY ZenonT(60), <1>3, <1>7, <2>1
  <2>3. asked'[s][IdOf[x]] > 0
    BY <1>3, <2>1
  <2>4. QED
    BY ZenonT(60), <1>2, <1>4, <2>1, <2>2, <2>3 DEF Asks
<1>8. CASE s \in Q /\ (\A y \in cur[s] : IdOf[y] # IdOf[x]) /\ qwrite[s] # "none"
  <2>1. /\ cur'[s] = cur[s] \cup {x} /\ UNCHANGED <<asked[s], qwrite[s]>>
        /\ sendq'[s] = Append(sendq[s], IdOf[x])
    BY Zenon, <1>1, <1>2, <1>8 DEF SearchOn
  <2>2. Range(sendq'[s]) = Range(sendq[s]) \cup {IdOf[x]}
    BY SMTT(30), <1>3, <2>1, AppendMembers
  <2>3. QED
    BY Zenon, <1>2, <1>4, <1>8, <2>1, <2>2 DEF Asks
<1>9. QED
  BY ZenonT(60), <1>5, <1>6, <1>7, <1>8

\* The members of a queue are its head and those of the rest.
LEMMA HeadMembers ==
    ASSUME NEW S, NEW q \in Seq(S), q # <<>>
    PROVE  Range(q) \subseteq Range(Tail(q)) \cup {Head(q)}
<1>1. /\ DOMAIN q = 1 .. Len(q) /\ Len(q) \in Nat \ {0} /\ Head(q) = q[1]
      /\ Tail(q) \in Seq(S) /\ Len(Tail(q)) = Len(q) - 1
      /\ \A i \in 1 .. Len(Tail(q)) : Tail(q)[i] = q[i + 1]
  BY HeadTailProperties, LenProperties, EmptySeq
<1>2. DOMAIN Tail(q) = 1 .. Len(q) - 1
  BY Zenon, <1>1, LenProperties
<1>3. ASSUME NEW i \in DOMAIN q, i # 1
      PROVE  q[i] \in Range(Tail(q))
  <2>1. i - 1 \in DOMAIN Tail(q) /\ Tail(q)[i - 1] = q[i]
    BY <1>1, <1>2, <1>3
  <2>2. QED
    BY Zenon, <2>1 DEF Range
<1>4. QED
  BY ZenonT(60), <1>1, <1>3 DEF Range

\* Every id a connected server is searched for stays asked for.
LEMMA AskedNext ==
    ASSUME Typed, AskedFor, [Next]_vars
    PROVE  AskedFor'
<1>1. /\ asked \in [Servers -> [Ids -> Nat]] /\ sendq \in [Servers -> Seq(Ids)]
      /\ cur \in [Servers -> SUBSET Searches] /\ est \in [Servers -> BOOLEAN]
      /\ qopen \in [Servers -> BOOLEAN] /\ qwrite \in [Servers -> {"none", "live", "dead"}]
      /\ \A s \in Servers : Asks(s)
      /\ IdOf \in [Searches -> Ids]
  BY ZenonT(60), ConstantsAssumption DEF Typed, TypeOK, AskedFor, Asks
<1>2. SUFFICES ASSUME ~\E x \in Searches : PerformSearch(x)
               PROVE  \A s \in Servers : Asks(s)'
  BY Zenon, SearchAsks DEF AskedFor, Asks
<1>3. ASSUME NEW s \in Servers, est'[s] => est[s], qopen'[s] => qopen[s], cur'[s] \subseteq cur[s],
             UNCHANGED <<asked[s], sendq[s], qwrite[s]>>
      PROVE  Asks(s)'
  BY ZenonT(60), <1>1, <1>3 DEF Asks
<1>4. ASSUME NEW s \in Servers, ~(est'[s] /\ qopen'[s])
      PROVE  Asks(s)'
  BY Zenon, <1>4 DEF Asks
<1>5. CASE \/ \E x \in Searches : OnTimeout(x) \/ RunPosted(x) \/ TimerExpires(x)
           \/ \E s \in Servers : HeartbeatRead(s) \/ RequestWritten(s) \/ HeaderFound(s)
                                 \/ DiscardData(s)
           \/ UNCHANGED vars
  <2>1. /\ UNCHANGED <<est, qopen, qwrite, asked, sendq>>
        /\ \A t \in Servers : cur'[t] \subseteq cur[t]
    <3>1. CASE \E x \in Searches : OnTimeout(x)
      BY SMTT(30), <1>1, <3>1 DEF OnTimeout, sockets, CurWithout
    <3>2. CASE \/ \E x \in Searches : RunPosted(x) \/ TimerExpires(x)
               \/ \E s \in Servers : HeartbeatRead(s) \/ RequestWritten(s) \/ HeaderFound(s)
                                     \/ DiscardData(s)
               \/ UNCHANGED vars
      <4>1. UNCHANGED <<est, qopen, qwrite, asked, sendq, cur>>
        BY ZenonT(60), <3>2 DEF RunPosted, TimerExpires, HeartbeatRead, RequestWritten,
                    HeaderFound, DiscardData, vars, sockets, queues
      <4>2. QED
        BY Zenon, <4>1
    <3>3. QED
      BY ZenonT(60), <1>5, <3>1, <3>2
  <2>2. QED
    BY ZenonT(60), <1>3, <2>1
<1>6. ASSUME NEW s \in Servers,
             ~(est'[s] /\ qopen'[s]), UNCHANGED cur,
             \A t \in Servers \ {s} : UNCHANGED <<est[t], qopen[t], asked[t], sendq[t], qwrite[t]>>
      PROVE  \A t \in Servers : Asks(t)'
  BY ZenonT(60), <1>3, <1>4, <1>6
<1>7. ASSUME NEW s \in Servers,
             \/ QueryWriteFails(s) \/ QueryReadFails(s) \/ RequestWriteFails(s)
             \/ HeaderError(s) \/ ResponseData(s) \/ ServiceReadFails(s)
      PROVE  \A t \in Servers : Asks(t)'
  <2>1. UNCHANGED <<cur, sendq>>
    BY ZenonT(60), <1>7 DEF QueryWriteFails, QueryReadFails, RequestWriteFails, HeaderError, ResponseData,
                ServiceReadFails, CloseQuery, CloseServer, Deliver
  <2>2. \A t \in Servers \ {s} : UNCHANGED asked[t]
    BY ZenonT(60), <1>1, <1>7 DEF QueryWriteFails, QueryReadFails, RequestWriteFails, HeaderError,
                      ResponseData, ServiceReadFails
  <2>3. CASE UNCHANGED <<est, qopen, qwrite, asked>>
    BY ZenonT(60), <1>3, <2>1, <2>3
  <2>4. ASSUME NEW qw, qwrite' = [qwrite EXCEPT ![s] = qw],
               qopen' = [qopen EXCEPT ![s] = FALSE],
               UNCHANGED est \/ est' = [est EXCEPT ![s] = FALSE]
        PROVE  \A t \in Servers : Asks(t)'
    <3>1. ~qopen'[s] /\ \A t \in Servers \ {s} : UNCHANGED <<est[t], qopen[t], qwrite[t]>>
      BY ZenonT(60), <1>1, <2>4
    <3>2. QED
      BY ZenonT(60), <1>6, <2>1, <2>2, <3>1
  <2>5. ASSUME NEW sr, NEW sw, NEW qr, NEW qw, NEW by, CloseServer(s, sr, sw, qr, qw, by)
        PROVE  \A t \in Servers : Asks(t)'
    <3>1. /\ qwrite' = [qwrite EXCEPT ![s] = qw] /\ qopen' = [qopen EXCEPT ![s] = FALSE]
          /\ est' = [est EXCEPT ![s] = FALSE]
      BY ZenonT(60), <2>5 DEF CloseServer
    <3>2. QED
      BY ZenonT(60), <2>4, <3>1
  <2>6. CASE HeaderError(s) \/ ResponseData(s)
    <3>1. \/ UNCHANGED <<est, qopen, qwrite, asked>>
          \/ CloseServer(s, "none", swrite[s], qread[s], qwrite[s], "service")
      BY ZenonT(60), <2>6 DEF HeaderError, ResponseData, Deliver
    <3>2. QED
      BY ZenonT(60), <2>3, <2>5, <3>1
  <2>7. CASE RequestWriteFails(s) \/ ServiceReadFails(s)
    BY ZenonT(60), <2>5, <2>7 DEF RequestWriteFails, ServiceReadFails
  <2>8. CASE QueryWriteFails(s) \/ QueryReadFails(s)
    <3>1. PICK qr \in {qread[s], "none"}, qw \in {qwrite[s], "none"} : CloseQuery(s, qr, qw)
      BY Zenon, <2>8 DEF QueryWriteFails, QueryReadFails
    <3>2. QED
      BY ZenonT(60), <2>4, <2>5, <3>1 DEF CloseQuery
  <2>9. QED
    BY ZenonT(60), <1>7, <2>6, <2>7, <2>8
<1>8. ASSUME NEW s \in Servers, QueryWritten(s)
      PROVE  \A t \in Servers : Asks(t)'
  <2>1. UNCHANGED <<est, qopen, cur>> /\ \A t \in Servers \ {s} : UNCHANGED <<asked[t], sendq[t], qwrite[t]>>
    BY ZenonT(60), <1>1, <1>8 DEF QueryWritten
  <2>2. SUFFICES ASSUME est[s], qopen[s] PROVE Asks(s)'
    BY ZenonT(60), <1>3, <1>4, <2>1
  <2>3. CASE sendq[s] = <<>>
    BY ZenonT(60), <1>1, <1>8, <2>2, <2>3, <2>1 DEF QueryWritten, Asks
  <2>4. CASE sendq[s] # <<>>
    <3>1. /\ Head(sendq[s]) \in Ids /\ Tail(sendq[s]) \in Seq(Ids)
          /\ Range(sendq[s]) \subseteq Range(Tail(sendq[s])) \cup {Head(sendq[s])}
      BY ZenonT(60), <1>1, <2>4, HeadMembers, HeadTailProperties
    <3>2. /\ qwrite'[s] = "live" /\ sendq'[s] = Tail(sendq[s])
          /\ asked'[s] = [asked[s] EXCEPT ![Head(sendq[s])] = asked[s][Head(sendq[s])] + 1]
      BY ZenonT(60), <1>1, <1>8, <2>2, <2>4 DEF QueryWritten, Op
    <3>3. asked'[s][Head(sendq[s])] > 0 /\ \A id \in Ids : asked[s][id] > 0 => asked'[s][id] > 0
      BY SMTT(30), <1>1, <3>1, <3>2
    <3>4. ASSUME NEW x \in cur[s]
          PROVE  asked'[s][IdOf[x]] > 0 \/ IdOf[x] \in Range(sendq'[s])
      <4>1. IdOf[x] \in Ids /\ (asked[s][IdOf[x]] > 0 \/ IdOf[x] \in Range(sendq[s]))
        BY ZenonT(60), <1>1, <2>2, <3>4 DEF Asks
      <4>2. QED
        BY Zenon, <3>1, <3>2, <3>3, <4>1
    <3>5. QED
      BY ZenonT(60), <2>1, <3>2, <3>4 DEF Asks
  <2>5. QED
    BY ZenonT(60), <2>3, <2>4
<1>9. ASSUME NEW s \in Servers, QueryAnswered(s)
      PROVE  \A t \in Servers : Asks(t)'
  <2>1. PICK id \in Ids : /\ asked' = [asked EXCEPT ![s][id] = @ - 1]
                          /\ \/ FoundOn(s, id, Waiting(s, id))
                             \/ NotFoundOn(s, id, Waiting(s, id))
    BY ZenonT(60), <1>9 DEF QueryAnswered
  <2>2. UNCHANGED <<est, qopen, qwrite, sendq>>
    BY ZenonT(60), <1>9 DEF QueryAnswered
  <2>3. /\ cur'[s] \subseteq {y \in cur[s] : IdOf[y] # id}
        /\ \A t \in Servers : cur'[t] \subseteq cur[t]
    <3>1. CASE NotFoundOn(s, id, Waiting(s, id))
      BY ZenonT(60), <1>1, <3>1 DEF NotFoundOn
    <3>2. CASE FoundOn(s, id, Waiting(s, id))
      <4>1. cur' = [CurWithout(Waiting(s, id)) EXCEPT ![s] = {y \in @ : IdOf[y] # id}]
        BY Zenon, <3>2 DEF FoundOn
      <4>2. QED
        BY ZenonT(60), <1>1, <4>1 DEF CurWithout
    <3>3. QED
      BY ZenonT(60), <2>1, <3>1, <3>2
  <2>4. \A t \in Servers \ {s} : Asks(t)'
    BY ZenonT(60), <1>1, <1>3, <2>1, <2>2, <2>3
  <2>5. \A x \in cur'[s] : IdOf[x] \in Ids /\ IdOf[x] # id /\ x \in cur[s]
    BY Zenon, <1>1, <2>3
  <2>6. \A i \in Ids \ {id} : asked'[s][i] = asked[s][i]
    BY Zenon, <1>1, <2>1
  <2>7. Asks(s)'
    BY Zenon, <1>1, <2>2, <2>5, <2>6 DEF Asks
  <2>8. QED
    BY ZenonT(60), <2>4, <2>7
<1>10. QED
  BY Zenon, <1>2, <1>5, <1>7, <1>8, <1>9 DEF Next, SocketStep, Quiet

(***************************************************************************)
(* While every connection holds, nothing unexpected happens.               *)
(***************************************************************************)
\* Where timers are cancelled in time, one that runs is of a search that still looks for its
\* asset.
TimerMeans ==
    \A x \in Searches :
        /\ timer[x] # "queued"
        /\ timer[x] = "armed" => phase[x] = "active" /\ ~found[x]

\* The timers keep their meaning.
LEMMA TimerNext ==
    ASSUME Typed, Entries, TimerMeans, "late" \notin Faults, Step
    PROVE  TimerMeans'
<1>1. /\ TypeOK /\ timer \in [Searches -> {"off", "armed", "queued"}]
      /\ phase \in [Searches -> {"new", "active", "done"}] /\ found \in [Searches -> BOOLEAN]
      /\ posted \subseteq Searches
  BY Zenon DEF Typed, TypeOK
<1>2. ASSUME NEW X,
             \A x \in Searches : phase'[x] # phase[x] => x \in X,
             \A x \in Searches : found'[x] # found[x] => x \in X,
             \A x \in Searches \ X : timer'[x] \in {timer[x], "off"},
             \A x \in X \cap Searches : timer'[x] = "off"
      PROVE  TimerMeans'
  BY Zenon, <1>2 DEF TimerMeans
<1>3. \A x \in Searches : found[x] => timer[x] = "off"
  BY Zenon, <1>1 DEF TimerMeans
<1>4. ASSUME NEW x \in Searches, PerformSearch(x)
      PROVE  TimerMeans'
  <2>1. PICK Q : /\ phase' = [phase EXCEPT ![x] = IF Q = {} THEN "done" ELSE "active"]
                 /\ timer' = [timer EXCEPT ![x] = IF Q = {} THEN "off" ELSE "armed"]
    BY Zenon, <1>4 DEF PerformSearch
  <2>2. phase[x] = "new" /\ UNCHANGED found
    BY Zenon, <1>4 DEF PerformSearch
  <2>3. ~found[x]
    BY Zenon, <2>2 DEF Entries, EntriesEnd
  <2>4. QED
    BY ZenonT(60), <1>1, <2>1, <2>2, <2>3 DEF TimerMeans
<1>5. ASSUME NEW x \in Searches, OnTimeout(x)
      PROVE  TimerMeans'
  <2>1. timer' = [timer EXCEPT ![x] = "off"] /\ UNCHANGED found
    BY Zenon, <1>5 DEF OnTimeout
  <2>2. \A y \in Searches \ {x} : phase'[y] = phase[y]
    BY Zenon, <1>5 DEF OnTimeout, Complete
  <2>3. QED
    BY Zenon, <1>1, <1>2, <2>1, <2>2
<1>6. ASSUME NEW x \in Searches, RunPosted(x)
      PROVE  TimerMeans'
  <2>1. found[x] /\ UNCHANGED <<found, timer>>
    BY Zenon, <1>6 DEF RunPosted, Typed, FoundFull
  <2>2. \A y \in Searches \ {x} : phase'[y] = phase[y]
    BY Zenon, <1>6 DEF RunPosted, Complete
  <2>3. QED
    BY ZenonT(60), <1>1, <1>2, <1>3, <2>1, <2>2
<1>7. ASSUME NEW s \in Servers, Closes(s)
      PROVE  TimerMeans'
  <2>1. PICK sr, sw, qr, qw, by : CloseServer(s, sr, sw, qr, qw, by)
    BY Zenon, <1>7 DEF Closes
  <2> DEFINE cancelled == Range(transferq[s]) \cup Range(callbackq[s])
             told == {x \in cur[s] : phase[x] = "active" /\ x \notin cancelled}
             X == {x \in cancelled : phase[x] = "active"} \cup Exhausted(told, s)
  <2>2. /\ Complete(X, "null") /\ CancelTimer(Exhausted(told, s)) /\ UNCHANGED found
    BY Zenon, <2>1 DEF CloseServer
  <2>3. \A x \in cancelled : found[x]
    BY Zenon DEF Typed, FoundFull
  <2>4. \A x \in Searches : phase'[x] # phase[x] => x \in X
    BY Zenon, <2>2 DEF Complete
  <2>5. \A x \in Searches : timer'[x] \in {timer[x], "off"}
    BY Zenon, <2>2 DEF CancelTimer
  <2>6. ASSUME NEW x \in X \cap Searches PROVE timer'[x] = "off"
    <3>1. CASE x \in Exhausted(told, s)
      BY Zenon, <1>1, <2>2, <3>1 DEF CancelTimer, TimerMeans
    <3>2. CASE x \in cancelled
      BY Zenon, <1>3, <2>3, <2>5, <3>2
    <3>3. QED
      BY Zenon, <3>1, <3>2
  <2> HIDE DEF X
  <2>7. QED
    BY ZenonT(60), <1>2, <2>2, <2>4, <2>5, <2>6
<1>8. ASSUME NEW s \in Servers, Delivers(s)
      PROVE  TimerMeans'
  <2>1. /\ UNCHANGED <<found, timer>> /\ callbackq[s] # <<>>
        /\ \A y \in Searches \ {Head(callbackq[s])} : phase'[y] = phase[y]
    BY Zenon, <1>8 DEF Delivers, Deliver, Complete
  <2>2. Head(callbackq[s]) \in Searches /\ found[Head(callbackq[s])]
    <3>1. callbackq[s] \in Seq(Searches)
      BY Zenon, <1>1 DEF TypeOK
    <3>2. QED
      BY Zenon, <1>1, <2>1, <3>1, TailMembers, QueueParts DEF Typed, FoundFull
  <2>3. QED
    BY Zenon, <1>2, <1>3, <2>1, <2>2
<1>9. ASSUME NEW s \in Servers, QueryAnswered(s)
      PROVE  TimerMeans'
  <2>1. PICK id \in Ids : \/ FoundOn(s, id, Waiting(s, id)) \/ NotFoundOn(s, id, Waiting(s, id))
    BY Zenon, <1>9 DEF QueryAnswered
  <2>2. CASE FoundOn(s, id, Waiting(s, id))
    <3>1. /\ Complete(Waiting(s, id) \ Full, "yes") /\ CancelTimer(Waiting(s, id))
          /\ found' = [x \in Searches |-> found[x] \/ x \in Waiting(s, id) \cap Full]
      BY Zenon, <2>2 DEF FoundOn
    <3>2. /\ \A x \in Searches : phase'[x] # phase[x] => x \in Waiting(s, id)
          /\ \A x \in Searches : found'[x] # found[x] => x \in Waiting(s, id)
      BY Zenon, <1>1, <3>1 DEF Complete
    <3>3. /\ \A x \in Searches : timer'[x] \in {timer[x], "off"}
          /\ \A x \in Waiting(s, id) \cap Searches : timer'[x] = "off"
      BY Zenon, <1>1, <3>1 DEF CancelTimer, TimerMeans
    <3>4. QED
      BY Zenon, <1>2, <3>2, <3>3
  <2>3. CASE NotFoundOn(s, id, Waiting(s, id))
    <3> DEFINE X == Exhausted(Waiting(s, id), s)
    <3>1. Complete(X, "null") /\ CancelTimer(X) /\ UNCHANGED found
      BY Zenon, <2>3 DEF NotFoundOn
    <3>2. /\ \A x \in Searches : phase'[x] # phase[x] => x \in X
          /\ \A x \in Searches : timer'[x] \in {timer[x], "off"}
          /\ \A x \in X \cap Searches : timer'[x] = "off"
      BY Zenon, <1>1, <3>1 DEF Complete, CancelTimer, TimerMeans
    <3> HIDE DEF X
    <3>3. QED
      BY Zenon, <1>2, <3>1, <3>2
  <2>4. QED
    BY Zenon, <2>1, <2>2, <2>3
<1>10. CASE Minor \/ \E s \in Servers : RequestWritten(s)
  BY ZenonT(60), <1>10 DEF Minor, RequestWritten, searching, TimerMeans
<1>11. QED
  BY ZenonT(60), <1>4, <1>5, <1>6, <1>7, <1>8, <1>9, <1>10 DEF Step

\* Appending a new element to a queue keeps its elements distinct.
LEMMA AppendDistinct ==
    ASSUME NEW S, NEW q \in Seq(S), NEW e \in S, IsInjective(q), e \notin Range(q)
    PROVE  IsInjective(Append(q, e))
<1>1. /\ DOMAIN q = 1 .. Len(q) /\ Len(q) \in Nat
      /\ DOMAIN Append(q, e) = 1 .. Len(q) + 1 /\ Append(q, e)[Len(q) + 1] = e
      /\ \A i \in 1 .. Len(q) : Append(q, e)[i] = q[i]
  BY AppendProperties, LenProperties
<1>2. \A i \in 1 .. Len(q) : q[i] # e
  BY Zenon, <1>1 DEF Range
<1>3. QED
  BY <1>1, <1>2 DEF IsInjective

\* Taking the head keeps them distinct, and the head is gone.
LEMMA TailDistinct ==
    ASSUME NEW S, NEW q \in Seq(S), q # <<>>, IsInjective(q)
    PROVE  IsInjective(Tail(q)) /\ Head(q) \notin Range(Tail(q))
<1>1. /\ DOMAIN q = 1 .. Len(q) /\ Len(q) \in Nat \ {0} /\ Head(q) = q[1]
      /\ Tail(q) \in Seq(S) /\ Len(Tail(q)) = Len(q) - 1
      /\ \A i \in 1 .. Len(Tail(q)) : Tail(q)[i] = q[i + 1]
  BY HeadTailProperties, LenProperties, EmptySeq
<1>2. DOMAIN Tail(q) = 1 .. Len(q) - 1
  BY Zenon, <1>1, LenProperties
<1>3. \A i \in DOMAIN Tail(q) : i + 1 \in DOMAIN q /\ i + 1 # 1 /\ Tail(q)[i] = q[i + 1]
  BY <1>1, <1>2
<1>4. Head(q) \notin Range(Tail(q))
  BY <1>1, <1>3 DEF IsInjective, Range
<1>5. ASSUME NEW i \in DOMAIN Tail(q), NEW j \in DOMAIN Tail(q), Tail(q)[i] = Tail(q)[j]
      PROVE  i = j
  <2>1. i + 1 = j + 1
    BY ZenonT(60), <1>3, <1>5 DEF IsInjective
  <2>2. QED
    BY <1>2, <2>1
<1>6. QED
  BY Zenon, <1>4, <1>5 DEF IsInjective

\* Queues of distinct elements that share none, put together.
LEMMA ConcatDistinct ==
    ASSUME NEW S, NEW q \in Seq(S), NEW r \in Seq(S), IsInjective(q), IsInjective(r),
           Range(q) \cap Range(r) = {}
    PROVE  IsInjective(q \o r)
<1>1. /\ Len(q) \in Nat /\ Len(r) \in Nat
      /\ DOMAIN q = 1 .. Len(q) /\ DOMAIN r = 1 .. Len(r)
      /\ DOMAIN (q \o r) = 1 .. Len(q) + Len(r)
      /\ \A i \in 1 .. Len(q) + Len(r) : (q \o r)[i] = IF i <= Len(q) THEN q[i] ELSE r[i - Len(q)]
  BY LenProperties, ConcatProperties
<1>2. \A i \in DOMAIN q, j \in DOMAIN r : q[i] # r[j]
  BY Zenon DEF Range
<1>3. ASSUME NEW i \in DOMAIN (q \o r), NEW j \in DOMAIN (q \o r), (q \o r)[i] = (q \o r)[j]
      PROVE  i = j
  <2>1. CASE i <= Len(q) /\ j <= Len(q)
    BY <1>1, <1>3, <2>1 DEF IsInjective
  <2>2. CASE i > Len(q) /\ j > Len(q)
    <3>1. i - Len(q) \in DOMAIN r /\ j - Len(q) \in DOMAIN r /\ r[i - Len(q)] = r[j - Len(q)]
      BY <1>1, <1>3, <2>2
    <3>2. i - Len(q) = j - Len(q)
      BY Zenon, <3>1 DEF IsInjective
    <3>3. QED
      BY <1>1, <3>2
  <2>3. CASE i <= Len(q) /\ j > Len(q)
    <3>1. i \in DOMAIN q /\ j - Len(q) \in DOMAIN r /\ q[i] = r[j - Len(q)]
      BY <1>1, <1>3, <2>3
    <3>2. QED
      BY Zenon, <1>2, <3>1
  <2>4. CASE i > Len(q) /\ j <= Len(q)
    <3>1. j \in DOMAIN q /\ i - Len(q) \in DOMAIN r /\ q[j] = r[i - Len(q)]
      BY <1>1, <1>3, <2>4
    <3>2. QED
      BY Zenon, <1>2, <3>1
  <2>5. QED
    BY <1>1, <2>1, <2>2, <2>3, <2>4
<1>4. QED
  BY Zenon, <1>3 DEF IsInjective

\* The searches in the queues of s, each of them once.
Waiters(s) == Range(transferq[s]) \cup Range(callbackq[s])
Single(s) == /\ IsInjective(transferq[s]) /\ IsInjective(callbackq[s])
             /\ Range(transferq[s]) \cap Range(callbackq[s]) = {}

\* As long as every server is connected nothing unexpected happened, and a search waits for
\* one transfer, of one server, at most, and only until it ends.
Once ==
    (\A s \in Servers : est[s]) =>
        /\ bug = {} /\ posted = {}
        /\ \A s \in Servers : Single(s) /\ \A x \in Waiters(s) : phase[x] = "active"
        /\ \A s, t \in Servers : s # t => Waiters(s) \cap Waiters(t) = {}

\* Searches that were just found are queued once.
LEMMA FoundSingle ==
    ASSUME TypeOK, NEW s \in Servers, NEW id \in Ids, NEW X \in SUBSET Searches,
           FoundOn(s, id, X), Single(s), Waiters(s) \cap X = {}
    PROVE  Single(s)'
<1>1. PICK o \in Orders(X \cap Full) : FoundOn(s, id, X)!(o)
  BY Zenon DEF FoundOn
<1>2. /\ o \in Seq(X \cap Full) /\ IsInjective(o)
      /\ o # <<>> => Head(o) \in X \cap Full /\ Tail(o) \in Seq(X \cap Full)
  BY ZenonT(60), <1>1, OrderOK DEF IsInjective
<1>3. /\ o \in Seq(Searches) /\ Range(o) \subseteq X
      /\ o # <<>> => /\ Tail(o) \in Seq(Searches) /\ Range(Tail(o)) \subseteq X
                     /\ Head(o) \in Searches /\ Head(o) \in X
  BY <1>2, ElementOfSeq, LenProperties DEF Range
<1>4. /\ transferq \in [Servers -> Seq(Searches)] /\ callbackq \in [Servers -> Seq(Searches)]
      /\ transferq[s] \in Seq(Searches) /\ callbackq[s] \in Seq(Searches)
  BY Zenon DEF TypeOK
<1>5. /\ Range(transferq[s]) \cap X = {} /\ Range(callbackq[s]) \cap X = {}
      /\ Range(transferq[s]) \cap Range(callbackq[s]) = {}
      /\ IsInjective(transferq[s]) /\ IsInjective(callbackq[s])
  BY Zenon DEF Waiters, Single
<1>6. CASE o # <<>> /\ swrite[s] = "none"
  <2>1. /\ transferq' = [transferq EXCEPT ![s] = transferq[s] \o Tail(o)]
        /\ callbackq' = [callbackq EXCEPT ![s] = Append(callbackq[s], Head(o))]
    BY ZenonT(60), <1>1, <1>6
  <2>2. Tail(o) \in Seq(Searches) /\ IsInjective(Tail(o)) /\ Head(o) \notin Range(Tail(o))
    BY ZenonT(60), <1>2, <1>3, <1>6, TailDistinct
  <2>3. /\ Range(transferq[s] \o Tail(o)) = Range(transferq[s]) \cup Range(Tail(o))
        /\ IsInjective(transferq[s] \o Tail(o))
    <3>1. Range(transferq[s]) \cap Range(Tail(o)) = {}
      BY ZenonT(60), <1>3, <1>5, <1>6
    <3>2. PICK r \in Seq(Searches) : r = Tail(o)
      BY Zenon, <2>2
    <3>3. IsInjective(r) /\ Range(transferq[s]) \cap Range(r) = {}
      BY ZenonT(60), <2>2, <3>1, <3>2
    <3>4. /\ Range(transferq[s] \o r) = Range(transferq[s]) \cup Range(r)
          /\ IsInjective(transferq[s] \o r)
      BY <1>4, <1>5, <3>3, ConcatMembers, ConcatDistinct
    <3>5. QED
      BY ZenonT(60), <3>2, <3>4
  <2>4. /\ Range(Append(callbackq[s], Head(o))) = Range(callbackq[s]) \cup {Head(o)}
        /\ IsInjective(Append(callbackq[s], Head(o)))
    BY <1>3, <1>4, <1>5, <1>6, AppendMembers, AppendDistinct
  <2>5. /\ transferq'[s] = transferq[s] \o Tail(o)
        /\ callbackq'[s] = Append(callbackq[s], Head(o))
    BY ZenonT(60), <1>4, <2>1
  <2>6. Range(Tail(o)) \subseteq X /\ Head(o) \in X
    BY ZenonT(60), <1>3, <1>6
  <2>7. (Range(transferq[s]) \cup Range(Tail(o))) \cap (Range(callbackq[s]) \cup {Head(o)}) = {}
    BY ZenonT(60), <1>5, <2>2, <2>6
  <2>8. QED
    BY ZenonT(60), <2>3, <2>4, <2>5, <2>7 DEF Single
<1>7. CASE ~(o # <<>> /\ swrite[s] = "none")
  <2>1. /\ transferq' = [transferq EXCEPT ![s] = transferq[s] \o o]
        /\ callbackq' = [callbackq EXCEPT ![s] = callbackq[s]]
    BY ZenonT(60), <1>1, <1>7
  <2>2. /\ Range(transferq[s] \o o) = Range(transferq[s]) \cup Range(o)
        /\ IsInjective(transferq[s] \o o)
    BY <1>2, <1>3, <1>4, <1>5, ConcatMembers, ConcatDistinct
  <2>3. transferq'[s] = transferq[s] \o o /\ callbackq'[s] = callbackq[s]
    BY Zenon, <1>4, <2>1
  <2>4. QED
    BY ZenonT(60), <1>3, <1>5, <2>2, <2>3 DEF Single
<1>8. QED
  BY Zenon, <1>6, <1>7

\* As long as every server stays connected, every step keeps this.
LEMMA OnceNext ==
    ASSUME Typed, Entries, AnswersInStep, TimerMeans, Once, "late" \notin Faults, Step
    PROVE  Once'
<1>1. /\ TypeOK /\ est \in [Servers -> BOOLEAN]
      /\ transferq \in [Servers -> Seq(Searches)] /\ callbackq \in [Servers -> Seq(Searches)]
      /\ phase \in [Searches -> {"new", "active", "done"}] /\ cur \in [Servers -> SUBSET Searches]
  BY Zenon DEF Typed, TypeOK
<1>2. SUFFICES ASSUME \A s \in Servers : est'[s] PROVE Once'
  BY Zenon DEF Once
<1>3. ASSUME NEW s \in Servers, Closes(s) PROVE FALSE
  BY SMTT(30), <1>1, <1>2, <1>3 DEF Closes, CloseServer
<1>4. \A s \in Servers : est[s]
  <2>1. CASE \E x \in Searches : PerformSearch(x) \/ OnTimeout(x) \/ RunPosted(x)
    BY ZenonT(60), <1>2, <2>1 DEF PerformSearch, OnTimeout, RunPosted, sockets
  <2>2. CASE Minor \/ \E s \in Servers : Delivers(s) \/ QueryAnswered(s) \/ RequestWritten(s)
    BY ZenonT(60), <1>2, <2>2 DEF Minor, Delivers, Deliver, QueryAnswered, RequestWritten
  <2>3. QED
    BY Zenon, <1>3, <2>1, <2>2 DEF Step
<1>5. /\ bug = {} /\ posted = {}
      /\ \A s \in Servers : Single(s) /\ \A x \in Waiters(s) : phase[x] = "active"
      /\ \A s, t \in Servers : s # t => Waiters(s) \cap Waiters(t) = {}
  BY Zenon, <1>4 DEF Once
<1>6. \A s \in Servers : \A x \in Waiters(s) : x \in Searches /\ found[x]
  <2>1. \A s \in Servers : transferq[s] \in Seq(Searches) /\ callbackq[s] \in Seq(Searches)
    BY Zenon, <1>1
  <2>2. \A s \in Servers : Waiters(s) \subseteq Searches
    BY <2>1, ElementOfSeq, LenProperties DEF Waiters, Range
  <2>3. QED
    BY Zenon, <2>2 DEF Typed, FoundFull, Waiters
<1>7. ASSUME UNCHANGED <<transferq, callbackq>>, bug' = {}, posted' = {},
             \A s \in Servers : \A x \in Waiters(s) : phase'[x] = phase[x]
      PROVE  Once'
  BY ZenonT(60), <1>5, <1>7 DEF Once, Single, Waiters
<1>8. ASSUME NEW s \in Servers, NEW X, bug' = {}, posted' = {},
             \A t \in Servers \ {s} : UNCHANGED <<transferq[t], callbackq[t]>>,
             Single(s)', Waiters(s)' \subseteq Waiters(s) \cup X,
             \A x \in Waiters(s)' : phase'[x] = "active",
             \A t \in Servers \ {s} : Waiters(t) \cap X = {},
             \A t \in Servers \ {s} : \A x \in Waiters(t) : phase'[x] = phase[x]
      PROVE  Once'
  <2>1. \A t \in Servers \ {s} : Waiters(t)' = Waiters(t) /\ Single(t)'
    BY Zenon, <1>5, <1>8 DEF Single, Waiters
  <2>2. \A t \in Servers : Single(t)' /\ \A x \in Waiters(t)' : phase'[x] = "active"
    BY <1>5, <1>8, <2>1
  <2>3. \A t \in Servers \ {s} : Waiters(s)' \cap Waiters(t)' = {}
    BY <1>5, <1>8, <2>1
  <2>4. \A t, u \in Servers : t # u => Waiters(t)' \cap Waiters(u)' = {}
    <3>1. ASSUME NEW t \in Servers, NEW u \in Servers, t # u
          PROVE  Waiters(t)' \cap Waiters(u)' = {}
      <4>1. CASE t # s /\ u # s
        BY ZenonT(60), <1>5, <2>1, <3>1, <4>1
      <4>2. CASE t = s \/ u = s
        BY ZenonT(60), <2>3, <3>1, <4>2
      <4>3. QED
        BY ZenonT(60), <4>1, <4>2
    <3>2. QED
      BY Zenon, <3>1
  <2>5. QED
    BY ZenonT(60), <1>8, <2>2, <2>4 DEF Once
<1>9. ASSUME NEW x \in Searches, PerformSearch(x) PROVE Once'
  <2>1. /\ phase[x] = "new" /\ UNCHANGED <<transferq, callbackq, bug, posted>>
        /\ \A y \in Searches \ {x} : phase'[y] = phase[y]
    BY <1>9 DEF PerformSearch
  <2>2. QED
    BY ZenonT(60), <1>5, <1>6, <1>7, <2>1
<1>10. ASSUME NEW x \in Searches, OnTimeout(x) PROVE Once'
  <2>1. timer[x] = "armed" /\ phase[x] = "active" /\ ~found[x]
    BY Zenon, <1>10 DEF OnTimeout, TimerMeans
  <2>2. /\ UNCHANGED <<transferq, callbackq, bug, posted>>
        /\ \A y \in Searches \ {x} : phase'[y] = phase[y]
    BY ZenonT(60), <1>10, <2>1 DEF OnTimeout, Complete
  <2>3. QED
    BY Zenon, <1>5, <1>6, <1>7, <2>1, <2>2
<1>11. ASSUME NEW x \in Searches, RunPosted(x) PROVE FALSE
  BY ZenonT(60), <1>5, <1>11 DEF RunPosted
<1>12. ASSUME NEW s \in Servers, Delivers(s) PROVE Once'
  <2> DEFINE x == Head(callbackq[s])
  <2>1. /\ callbackq[s] # <<>> /\ callbackq' = [callbackq EXCEPT ![s] = Tail(callbackq[s])]
        /\ UNCHANGED <<transferq, posted>>
        /\ bug' = IF phase[x] = "done" THEN {"deadSearch"} ELSE {}
        /\ \A y \in Searches \ {x} : phase'[y] = phase[y]
    BY Zenon, <1>12 DEF Delivers, Deliver, Complete
  <2>2. /\ callbackq[s] \in Seq(Searches) /\ IsInjective(callbackq[s])
        /\ Range(transferq[s]) \cap Range(callbackq[s]) = {}
    BY ZenonT(60), <1>1, <1>5 DEF Single
  <2>3. /\ x \in Range(callbackq[s]) /\ Range(Tail(callbackq[s])) \subseteq Range(callbackq[s])
        /\ IsInjective(Tail(callbackq[s])) /\ x \notin Range(Tail(callbackq[s]))
    BY ZenonT(60), <2>1, <2>2, TailMembers, TailDistinct
  <2>4. x \in Waiters(s) /\ phase[x] = "active" /\ bug' = {}
    BY ZenonT(60), <1>5, <2>1, <2>3 DEF Waiters
  <2>5. callbackq'[s] = Tail(callbackq[s]) /\ \A t \in Servers \ {s} : UNCHANGED callbackq[t]
    BY ZenonT(60), <1>1, <2>1
  <2>6. Single(s)' /\ Waiters(s)' \subseteq Waiters(s) \ {x}
    BY ZenonT(60), <1>5, <2>1, <2>2, <2>3, <2>5 DEF Single, Waiters
  <2>7. \A t \in Servers \ {s} : x \notin Waiters(t)
    BY Zenon, <1>5, <2>4
  <2> HIDE DEF x
  <2>8. /\ \A y \in Waiters(s)' : phase'[y] = "active"
        /\ \A t \in Servers \ {s} : \A y \in Waiters(t) : phase'[y] = phase[y]
    BY ZenonT(60), <1>5, <1>6, <2>1, <2>6, <2>7
  <2>9. QED
    BY ZenonT(60), <1>5, <1>8, <2>1, <2>4, <2>5, <2>6, <2>8
<1>13. ASSUME NEW s \in Servers, RequestWritten(s) PROVE Once'
  <2>1. /\ UNCHANGED <<phase, posted, bug>>
    BY Zenon, <1>13 DEF RequestWritten, searching
  <2>2. CASE est[s] /\ transferq[s] # <<>>
    <3>1. /\ callbackq' = [callbackq EXCEPT ![s] = Append(callbackq[s], Head(transferq[s]))]
          /\ transferq' = [transferq EXCEPT ![s] = Tail(transferq[s])]
      BY ZenonT(60), <1>13, <2>2 DEF RequestWritten
    <3>2. /\ transferq[s] \in Seq(Searches) /\ callbackq[s] \in Seq(Searches)
          /\ IsInjective(transferq[s]) /\ IsInjective(callbackq[s])
          /\ Range(transferq[s]) \cap Range(callbackq[s]) = {}
      BY Zenon, <1>1, <1>5 DEF Single
    <3>3. /\ Head(transferq[s]) \in Range(transferq[s]) /\ Head(transferq[s]) \in Searches
          /\ Range(Tail(transferq[s])) \subseteq Range(transferq[s])
          /\ IsInjective(Tail(transferq[s]))
          /\ Head(transferq[s]) \notin Range(Tail(transferq[s]))
      BY ZenonT(60), <1>1, <2>2, <3>2, TailMembers, TailDistinct, QueueParts
    <3>4. /\ Range(Append(callbackq[s], Head(transferq[s]))) = Range(callbackq[s]) \cup {Head(transferq[s])}
          /\ IsInjective(Append(callbackq[s], Head(transferq[s])))
      BY <3>2, <3>3, AppendMembers, AppendDistinct
    <3>5. /\ callbackq'[s] = Append(callbackq[s], Head(transferq[s]))
          /\ transferq'[s] = Tail(transferq[s])
          /\ \A t \in Servers \ {s} : UNCHANGED <<transferq[t], callbackq[t]>>
      BY Zenon, <1>1, <3>1
    <3>6. Single(s)' /\ Waiters(s)' \subseteq Waiters(s)
      BY Zenon, <3>2, <3>3, <3>4, <3>5 DEF Single, Waiters
    <3>7. QED
      BY ZenonT(60), <1>5, <1>8, <2>1, <3>5, <3>6
  <2>3. CASE ~(est[s] /\ transferq[s] # <<>>)
    <3>1. /\ callbackq' = [callbackq EXCEPT ![s] = callbackq[s]]
          /\ transferq' = [transferq EXCEPT ![s] = transferq[s]]
      BY Zenon, <1>13, <2>3 DEF RequestWritten
    <3>2. UNCHANGED <<transferq, callbackq>>
      BY Zenon, <1>1, <3>1
    <3>3. QED
      BY ZenonT(60), <1>5, <1>7, <2>1, <3>2
  <2>4. QED
    BY ZenonT(60), <2>2, <2>3
<1>14. ASSUME NEW s \in Servers, QueryAnswered(s) PROVE Once'
  <2>1. PICK id \in Ids :
           /\ \/ FoundOn(s, id, Waiting(s, id)) \/ NotFoundOn(s, id, Waiting(s, id))
           /\ bug' = IF \E x \in Waiting(s, id) : found[x] THEN {"afterFound"} ELSE {}
    BY Zenon, <1>14 DEF QueryAnswered
  <2>2. \A x \in Waiting(s, id) : x \in Searches /\ phase[x] = "active" /\ ~found[x]
    BY ZenonT(60), <1>1, <1>4 DEF Waiting, Entries, EntriesWait, EntriesEnd
  <2>3. bug' = {}
    BY ZenonT(60), <2>1, <2>2
  <2>4. \A t \in Servers : Waiters(t) \cap Waiting(s, id) = {}
    BY ZenonT(60), <1>6, <2>2
  <2>5. CASE NotFoundOn(s, id, Waiting(s, id))
    <3>1. UNCHANGED <<transferq, callbackq, posted>> /\ Complete(Exhausted(Waiting(s, id), s), "null")
      BY Zenon, <2>5 DEF NotFoundOn
    <3>2. \A y \in Searches \ Waiting(s, id) : phase'[y] = phase[y]
      BY Zenon, <3>1 DEF Complete, Exhausted
    <3>3. QED
      BY ZenonT(60), <1>5, <1>6, <1>7, <2>3, <2>4, <3>1, <3>2
  <2>6. CASE FoundOn(s, id, Waiting(s, id))
    <3>1. /\ Complete(Waiting(s, id) \ Full, "yes") /\ posted' = {}
      BY ZenonT(60), <1>4, <1>5, <2>6 DEF FoundOn
    <3>2. \A y \in Searches : y \notin Waiting(s, id) \ Full => phase'[y] = phase[y]
      BY Zenon, <3>1 DEF Complete
    <3>3. Waiting(s, id) \in SUBSET Searches
      BY Zenon, <2>2
    <3>4. Single(s)'
      BY ZenonT(60), <1>1, <1>5, <2>4, <2>6, <3>3, FoundSingle
    <3>5. /\ \A t \in Servers \ {s} : UNCHANGED <<transferq[t], callbackq[t]>>
          /\ Waiters(s)' \subseteq Waiters(s) \cup (Waiting(s, id) \cap Full)
      BY ZenonT(60), <1>1, <2>6, <3>3, FoundMembers DEF Waiters
    <3>6. \A x \in Waiters(s)' : phase'[x] = "active"
      BY ZenonT(60), <1>5, <1>6, <2>2, <2>4, <3>2, <3>5
    <3>7. \A t \in Servers \ {s} : /\ Waiters(t) \cap (Waiting(s, id) \cap Full) = {}
                                   /\ \A x \in Waiters(t) : phase'[x] = phase[x]
      BY ZenonT(60), <1>6, <2>4, <3>2
    <3>8. QED
      BY ZenonT(60), <1>8, <2>3, <3>1, <3>4, <3>5, <3>6, <3>7
  <2>7. QED
    BY ZenonT(60), <2>1, <2>5, <2>6
<1>15. ASSUME Minor PROVE Once'
  <2>1. UNCHANGED <<transferq, callbackq, posted, phase>>
    BY Zenon, <1>15 DEF Minor
  <2>2. ASSUME NEW s \in Servers, owed[s] # <<>>, callbackq[s] = <<>> PROVE FALSE
    <3>1. owed[s] = Names(callbackq[s])
      BY Zenon, <1>4 DEF AnswersInStep, Names
    <3>2. QED
      BY ZenonT(60), <1>1, <2>2, <3>1, NamesQueue
  <2>3. bug' = {}
    BY ZenonT(60), <1>5, <1>15, <2>2 DEF Minor
  <2>4. QED
    BY ZenonT(60), <1>5, <1>7, <2>1, <2>3
<1>16. QED
  BY ZenonT(60), <1>3, <1>9, <1>10, <1>11, <1>12, <1>13, <1>14, <1>15 DEF Step

(***************************************************************************)
(* The theorems.                                                           *)
(***************************************************************************)
\* The inductive invariant.
MeshInv ==
    /\ Typed /\ Entries /\ SocketsEnd /\ AnswersInStep /\ AskedFor
    /\ "late" \notin Faults => TimerMeans /\ Once

\* A mesh that was just connected satisfies it.
LEMMA MeshInit == Init => MeshInv
<1> SUFFICES ASSUME Init PROVE MeshInv
  BY Zenon
<1>1. TypeOK
  <2>1. \A S : <<>> \in Seq(S)
    OBVIOUS
  <2>2. [s \in Servers |-> <<>>] \in [Servers -> Seq(Searches)]
    BY Zenon, <2>1
  <2>3. [s \in Servers |-> <<>>] \in [Servers -> Seq(Ids)]
    BY Zenon, <2>1
  <2>4. [x \in Searches |-> <<>>] \in [Searches -> Seq(Ids \cup {"null", "yes"})]
    BY Zenon, <2>1
  <2>5. \A x \in Searches : answers[x] \in Seq({"null", IF x \in Full THEN IdOf[x] ELSE "yes"})
    BY Zenon, <2>1 DEF Init
  <2>6. {transferq, callbackq} \subseteq [Servers -> Seq(Searches)]
    BY Zenon, <2>2 DEF Init
  <2>7. {sendq, owed} \subseteq [Servers -> Seq(Ids)]
    BY Zenon, <2>3 DEF Init
  <2>8. answers \in [Searches -> Seq(Ids \cup {"null", "yes"})]
    BY Zenon, <2>4 DEF Init
  <2>9. {est, qest, qopen, fired, alive} \subseteq [Servers -> BOOLEAN]
    BY Zenon DEF Init
  <2>10. /\ sread \in [Servers -> {"none", "header", "data", "discard", "dead"}]
         /\ {swrite, qread, qwrite} \subseteq [Servers -> {"none", "live", "dead"}]
         /\ cur \in [Servers -> SUBSET Searches]
         /\ asked \in [Servers -> [Ids -> Nat]]
         /\ phase \in [Searches -> {"new", "active", "done"}]
         /\ found \in [Searches -> BOOLEAN]
         /\ queried \in [Searches -> SUBSET Servers]
         /\ timer \in [Searches -> {"off", "armed", "queued"}]
         /\ posted \subseteq Searches
         /\ bug \subseteq {"afterFound", "deadSearch", "deadServer", "noWaiter"}
    BY Zenon DEF Init
  <2>11. QED
    BY ZenonT(60), <2>5, <2>6, <2>7, <2>8, <2>9, <2>10 DEF TypeOK
<1>2. \A s \in Servers : /\ callbackq[s] = <<>> /\ transferq[s] = <<>> /\ owed[s] = <<>>
                         /\ sendq[s] = <<>> /\ cur[s] = {} /\ sread[s] = "header"
                         /\ est[s] /\ qest[s] /\ qopen[s] /\ ~fired[s] /\ alive[s]
  BY Zenon DEF Init
<1>3. \A x \in Searches : phase[x] = "new" /\ ~found[x] /\ queried[x] = {} /\ timer[x] = "off"
  BY Zenon DEF Init
<1>4. posted = {} /\ bug = {}
  BY Zenon DEF Init
<1>5. Typed
  BY Zenon, <1>1, <1>2, <1>3, <1>4, NoMembers DEF Typed, DataOwed, FoundFull
<1>6. Entries /\ SocketsEnd /\ TimerMeans
  BY Zenon, <1>2, <1>3 DEF Entries, EntriesWait, EntriesEnd, SocketsEnd, TimerMeans
<1>7. AnswersInStep
  BY <1>1, <1>2, NamesQueue DEF AnswersInStep, Names, TypeOK
<1>8. AskedFor
  BY Zenon, <1>2 DEF AskedFor
<1>9. Once
  <2>1. \A s \in Servers : Single(s) /\ Waiters(s) = {}
    BY SMTT(30), <1>2, NoMembers DEF Single, Waiters, IsInjective
  <2>2. QED
    BY Zenon, <1>4, <2>1 DEF Once
<1>10. QED
  BY ZenonT(60), <1>5, <1>6, <1>7, <1>8, <1>9 DEF MeshInv

\* Every step keeps it.
LEMMA MeshNext == MeshInv /\ [Next]_vars => MeshInv'
<1> SUFFICES ASSUME MeshInv, [Next]_vars PROVE MeshInv'
  BY Zenon
<1>1. Typed /\ Entries /\ SocketsEnd /\ AnswersInStep /\ AskedFor
  BY Zenon DEF MeshInv
<1>2. Step
  BY ZenonT(60), <1>1, Steps
<1>3. Typed' /\ Entries' /\ SocketsEnd' /\ AnswersInStep' /\ AskedFor'
  BY ZenonT(60), <1>1, <1>2, TypedNext, EntriesNext, SocketsNext, InStepNext, AskedNext
<1>4. "late" \notin Faults => TimerMeans' /\ Once'
  BY ZenonT(60), <1>1, <1>2, TimerNext, OnceNext DEF MeshInv
<1>5. QED
  BY Zenon, <1>3, <1>4 DEF MeshInv

\* MeshInv holds in every reachable state of MeshSearch.
THEOREM MeshSafety == Spec => []MeshInv
<1>1. QED
  BY MeshInit, MeshNext, PTL DEF Spec

\* Every field of MeshServer, MeshQueryConnection and AssetSearch holds what the code stores
\* in it, and an asset is handed only to a search for its id.
THEOREM TypeSafety == Spec => []TypeOK
<1>1. MeshInv => TypeOK
  BY Zenon DEF MeshInv, Typed
<1>2. QED
  BY <1>1, MeshSafety, PTL

\* _currentSearches and _queriedServers agree, whatever closes, fails or times out.
THEOREM EntriesSafety == Spec => []EntriesWait
<1>1. MeshInv => EntriesWait
  BY ZenonT(60) DEF MeshInv, Entries
<1>2. QED
  BY <1>1, MeshSafety, PTL

\* As long as the service connection is up, the assets the peer still owes and
\* _assetCallbackQueue are in the same order: no caller gets another one's asset.
THEOREM StepSafety == Spec => []AnswersInStep
<1>1. MeshInv => AnswersInStep
  BY Zenon DEF MeshInv
<1>2. QED
  BY <1>1, MeshSafety, PTL

\* Every id a fully connected server is searched for is on the wire or in _sendQueue behind a
\* write that will send it.
THEOREM AskedSafety == Spec => []AskedFor
<1>1. MeshInv => AskedFor
  BY ZenonT(60) DEF MeshInv
<1>2. QED
  BY <1>1, MeshSafety, PTL

\* checkSafeKill destroys a server only when no operation is outstanding on either socket, no
\* callback waits in a queue and no search waits for it.
THEOREM KilledSafety == Spec => []KilledIdle
<1>1. MeshInv => KilledIdle
  <2> SUFFICES ASSUME MeshInv, NEW s \in Servers, ~alive[s]
               PROVE  /\ {sread[s], swrite[s], qread[s], qwrite[s]} = {"none"}
                      /\ transferq[s] = <<>> /\ callbackq[s] = <<>>
                      /\ \A x \in Searches : phase[x] = "active" => s \notin queried[x]
    BY Zenon DEF KilledIdle
  <2>1. /\ ~est[s] /\ qread[s] = "none" /\ qwrite[s] = "none" /\ sread[s] = "none"
        /\ swrite[s] = "none" /\ transferq[s] = <<>> /\ callbackq[s] = <<>>
    BY Zenon DEF MeshInv, SocketsEnd
  <2>2. \A x \in Searches : phase[x] = "active" => s \notin queried[x]
    BY Zenon, <2>1 DEF MeshInv, Entries, EntriesEnd
  <2>3. QED
    BY ZenonT(60), <2>1, <2>2
<1>2. QED
  BY <1>1, MeshSafety, PTL

\* Where every timer is cancelled before its handler is queued, nothing the code warns about
\* or asserts against happens before a connection is lost.
THEOREM UnexpectedSafety ==
    ASSUME "late" \notin Faults
    PROVE  Spec => []NothingUnexpected
<1>1. MeshInv => NothingUnexpected
  BY Zenon DEF MeshInv, Once, NothingUnexpected
<1>2. QED
  BY <1>1, MeshSafety, PTL
=============================================================================
