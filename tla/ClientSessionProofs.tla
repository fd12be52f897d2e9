------------------------ MODULE ClientSessionProofs ------------------------
(***************************************************************************)
(* Proofs about the client connections and the cache, for any number of    *)
(* clients, calls and ids, any bound of the cache and any sizes.           *)
(*                                                                         *)
(* SessionInv is inductive: a session has one operation outstanding, and a *)
(* storage call that waits belongs to a session whose one operation it is. *)
(* It does not depend on what the cache holds.                             *)
(*                                                                         *)
(* ContentInv is inductive together with SessionInv: an asset on its way   *)
(* to a client, a search and a storage call for one belong to a GET with   *)
(* its id (AnswerInv), and the cache is sound and holds only assets that   *)
(* may be shown for their ids (CacheInv).                                  *)
(***************************************************************************)
EXTENDS ClientSession, LRUCacheProofs

Single(k) == [Nothing EXCEPT ![k] = 1]
Requests == [type : RequestTypes \cup {"none"}, id : Ids \cup {None}]

SessionShape ==
    /\ call \in [Reqs -> Store!Call \cup {None}]
    /\ reply \in [Reqs -> [res : Store!Results \cup {"none"}, got : SUBSET Reqs]]
    /\ conn \in [Clients -> {"new", "in", "gone"}]
    /\ out \in [Clients -> [OpKinds -> Nat]]
    /\ req \in [Clients -> Requests]
    /\ owner \in [Reqs -> Clients \cup {None}]

SessionInv == SessionShape /\ OneOutstanding /\ CallsOwned /\ NoDanglingCallback

\* Single(k) as a function.
LEMMA SingleIs ==
    ASSUME NEW k \in OpKinds
    PROVE  /\ Single(k) \in [OpKinds -> Nat] /\ Nothing \in [OpKinds -> Nat]
           /\ \A j \in OpKinds : /\ Nothing[j] = 0
                                 /\ Single(k)[j] = IF j = k THEN 1 ELSE 0
  BY Zenon DEF Single, Nothing

\* The operation that has ended is the only one of a session in _clients.
LEMMA OnlyOne ==
    ASSUME SessionShape, OneOutstanding, NEW c \in Clients, NEW k \in OpKinds,
           out[c][k] > 0
    PROVE  conn[c] = "in" /\ out[c] = Single(k)
<1>1. out[c] # Nothing
  BY SingleIs
<1>2. PICK j \in OpKinds : out[c] = Single(j) /\ conn[c] = "in"
  BY Zenon, <1>1 DEF OneOutstanding, Single
<1>3. j = k
  BY <1>2, SingleIs
<1>4. QED
  BY Zenon, <1>2, <1>3

\* The client has these operations now, and the others have what they had.
OutIs(c, v) ==
    /\ out' \in [Clients -> [OpKinds -> Nat]]
    /\ out'[c] = v
    /\ \A d \in Clients : d # c => out'[d] = out[d]

\* One operation takes the place of another.
LEMMA StartsOne ==
    ASSUME SessionShape, NEW c \in Clients, NEW k \in OpKinds, NEW j \in OpKinds,
           k # j, out[c] = Single(k), Starts(c, k, j)
    PROVE  OutIs(c, Single(j))
<1>1. /\ out' \in [Clients -> [OpKinds -> Int]]
      /\ out'[c][k] = out[c][k] - 1 /\ out'[c][j] = out[c][j] + 1
      /\ \A i \in OpKinds \ {k, j} : out'[c][i] = out[c][i]
      /\ \A d \in Clients : d # c => out'[d] = out[d]
  BY DEF Starts, SessionShape
<1>2. \A i \in OpKinds : out'[c][i] = Single(j)[i]
  <2>1. \A i \in OpKinds : out[c][i] = IF i = k THEN 1 ELSE 0
    BY SingleIs
  <2>2. \A i \in OpKinds : Single(j)[i] = IF i = j THEN 1 ELSE 0
    BY Zenon, SingleIs
  <2>3. QED
    BY <1>1, <2>1, <2>2
<1>3. out'[c] = Single(j)
  <2>1. out'[c] \in [OpKinds -> Int] /\ Single(j) \in [OpKinds -> Nat]
    BY Zenon, <1>1, SingleIs
  <2>2. QED
    BY <1>2, <2>1
<1>4. out' \in [Clients -> [OpKinds -> Nat]]
  <2>1. \A d \in Clients : out'[d] \in [OpKinds -> Nat]
    BY Zenon, <1>1, <1>3, SingleIs DEF SessionShape
  <2>2. QED
    BY Zenon, <1>1, <2>1
<1>5. QED
  BY Zenon, <1>1, <1>3, <1>4 DEF OutIs

\* The last operation of a session ends.
LEMMA EndsOne ==
    ASSUME SessionShape, NEW c \in Clients, NEW k \in OpKinds,
           out[c] = Single(k), Ends(c, k)
    PROVE  OutIs(c, Nothing)
<1>1. /\ out' \in [Clients -> [OpKinds -> Int]]
      /\ out'[c][k] = out[c][k] - 1
      /\ \A i \in OpKinds \ {k} : out'[c][i] = out[c][i]
      /\ \A d \in Clients : d # c => out'[d] = out[d]
  BY DEF Ends, SessionShape
<1>2. \A i \in OpKinds : out'[c][i] = Nothing[i]
  BY SMTT(60), <1>1, SingleIs
<1>3. out'[c] = Nothing
  <2>1. out'[c] \in [OpKinds -> Int] /\ Nothing \in [OpKinds -> Nat]
    BY Zenon, <1>1, SingleIs
  <2>2. QED
    BY <1>2, <2>1
<1>4. out' \in [Clients -> [OpKinds -> Nat]]
  <2>1. \A d \in Clients : out'[d] \in [OpKinds -> Nat]
    BY ZenonT(60), <1>1, <1>3, SingleIs DEF SessionShape
  <2>2. QED
    BY Zenon, <1>1, <2>1
<1>5. QED
  BY Zenon, <1>1, <1>3, <1>4 DEF OutIs

\* After a step about one client the others are as they were, and so is the
\* client if it has one operation, or none and a reason for it.
LEMMA OneClient ==
    ASSUME OneOutstanding, Up, NEW c \in Clients, NEW v, OutIs(c, v),
           \A d \in Clients : d # c => conn'[d] = conn[d] /\ req'[d] = req[d],
           \/ conn'[c] = "in" /\ \E j \in OpKinds : v = Single(j)
           \/ v = Nothing /\ (conn'[c] = "in" => req'[c].type = "purge" \/ ~Up')
    PROVE  OneOutstanding'
<1>1. out'[c] = v /\ \A d \in Clients : d # c => out'[d] = out[d]
  BY Zenon DEF OutIs
<1>2. ASSUME NEW d \in Clients
      PROVE  \/ /\ conn'[d] = "in"
                /\ \E k \in OpKinds : out'[d] = [Nothing EXCEPT ![k] = 1]
             \/ /\ out'[d] = Nothing
                /\ conn'[d] = "in" => req'[d].type = "purge" \/ ~Up'
  <2>1. CASE d = c
    BY Zenon, <1>1, <2>1 DEF Single
  <2>2. CASE d # c
    BY <1>1, <2>2 DEF OneOutstanding
  <2>3. QED
    BY Zenon, <2>1, <2>2
<1>3. QED
  BY Zenon, <1>2 DEF OneOutstanding, Nothing

\* What the storage calls in progress need of a step: their owners and the
\* operations of the owners are as they were.
LEMMA CallsStay ==
    ASSUME SessionShape, CallsOwned, UNCHANGED <<storage, owner>>,
           \A d \in Clients : out'[d]["storage"] = out[d]["storage"]
    PROVE  CallsOwned'
<1>1. \A r : Store!Waits(r)' <=> Store!Waits(r)
  BY Zenon DEF Store!Waits, Store!NoReply, storage
<1>2. QED
  BY Zenon, <1>1 DEF CallsOwned

\* A handler that has nothing to do with the storage: it starts one operation,
\* it ends the session, or it leaves it behind after a purge or an exception.
LEMMA HandlerStep ==
    ASSUME SessionInv, Up, NEW c \in Clients, NEW k \in OpKinds \ {"storage"},
           out[c][k] > 0, UNCHANGED <<storage, owner>>,
           req' \in [Clients -> Requests],
           \A d \in Clients : d # c => req'[d] = req[d],
           "dangling" \notin trouble',
           \/ /\ conn' = conn
              /\ \E j \in OpKinds \ {"storage", k} : Starts(c, k, j)
           \/ conn' = [conn EXCEPT ![c] = "gone"] /\ Ends(c, k)
           \/ /\ conn' = conn /\ Ends(c, k)
              /\ req'[c].type = "purge" \/ trouble' # {}
    PROVE  SessionInv'
<1>1. SessionShape /\ OneOutstanding /\ CallsOwned
  BY Zenon DEF SessionInv
<1>2. conn[c] = "in" /\ out[c] = Single(k)
  BY Zenon, <1>1, OnlyOne
<1>3. PICK v : /\ OutIs(c, v) /\ v["storage"] = 0
               /\ \/ conn' = conn /\ \E j \in OpKinds : v = Single(j)
                  \/ conn' = [conn EXCEPT ![c] = "gone"] /\ v = Nothing
                  \/ /\ conn' = conn /\ v = Nothing
                     /\ req'[c].type = "purge" \/ trouble' # {}
  <2>0. "storage" \in OpKinds
    BY Zenon DEF OpKinds, Callbacks
  <2>1. ASSUME NEW j \in OpKinds \ {"storage", k}, Starts(c, k, j)
        PROVE  OutIs(c, Single(j)) /\ Single(j)["storage"] = 0
    BY ZenonT(60), <1>1, <1>2, <2>0, <2>1, StartsOne, SingleIs
  <2>2. ASSUME Ends(c, k) PROVE OutIs(c, Nothing) /\ Nothing["storage"] = 0
    BY ZenonT(60), <1>1, <1>2, <2>0, <2>2, EndsOne, SingleIs
  <2>3. QED
    BY Zenon, <2>1, <2>2
<1>4. /\ \A d \in Clients : d # c => conn'[d] = conn[d]
      /\ conn' \in [Clients -> {"new", "in", "gone"}]
      /\ conn' = [conn EXCEPT ![c] = "gone"] => conn'[c] = "gone"
  BY ZenonT(60), <1>1, <1>3 DEF SessionShape
<1>5. OneOutstanding'
  BY ZenonT(60), <1>1, <1>2, <1>3, <1>4, OneClient DEF Up
<1>6. \A d \in Clients : out'[d]["storage"] = out[d]["storage"]
  <2>1. out[c]["storage"] = 0
    BY <1>2, SingleIs DEF OpKinds, Callbacks
  <2>2. QED
    BY ZenonT(60), <1>3, <2>1 DEF OutIs
<1>7. CallsOwned'
  BY Zenon, <1>1, <1>6, CallsStay
<1>8. SessionShape'
  BY Zenon, <1>1, <1>3, <1>4 DEF SessionShape, OutIs, storage
<1>9. QED
  BY Zenon, <1>5, <1>7, <1>8 DEF SessionInv, NoDanglingCallback

\* A handler calls the storage: its session waits for nothing else.
LEMMA AskStep ==
    ASSUME SessionInv, Up, NEW c \in Clients, NEW k \in OpKinds \ {"storage"},
           out[c][k] > 0, NEW op \in Store!Ops, NEW id \in Ids,
           NEW db \in {"globals", "locals"}, CallStorage(c, k, op, id, db),
           req' \in [Clients -> Requests],
           \A d \in Clients : d # c => req'[d] = req[d],
           UNCHANGED <<conn, trouble>>
    PROVE  SessionInv'
<1>1. SessionShape /\ OneOutstanding /\ CallsOwned /\ NoDanglingCallback
  BY Zenon DEF SessionInv
<1>2. conn[c] = "in" /\ out[c] = Single(k)
  BY ZenonT(60), <1>1, OnlyOne
<1>3. PICK r \in Reqs : /\ Store!Ask(r, [op |-> op, id |-> id, db |-> db])
                        /\ owner' = [owner EXCEPT ![r] = c]
                        /\ Starts(c, k, "storage")
  BY Zenon DEF CallStorage
<1>4. "storage" \in OpKinds /\ OutIs(c, Single("storage"))
  BY ZenonT(60), <1>1, <1>2, <1>3, StartsOne DEF OpKinds, Callbacks
<1>5. OneOutstanding'
  BY ZenonT(60), <1>1, <1>2, <1>4, OneClient
<1>6. /\ \A q \in Reqs : q # r => call'[q] = call[q] /\ owner'[q] = owner[q]
      /\ owner'[r] = c /\ reply' = reply
  BY ZenonT(60), <1>1, <1>3 DEF Store!Ask, SessionShape
<1>7. \A q \in Reqs : q # r => (Store!Waits(q)' <=> Store!Waits(q))
  BY ZenonT(60), <1>6 DEF Store!Waits, Store!NoReply
<1>8. \A q \in Reqs : Store!Waits(q) => owner[q] # c
  <2>1. out[c]["storage"] = 0
    BY <1>2, <1>4, SingleIs
  <2>2. QED
    BY <1>1, <2>1 DEF CallsOwned
<1>9. out'[c]["storage"] = 1 /\ \A d \in Clients : d # c => out'[d] = out[d]
  BY ZenonT(60), <1>4, SingleIs DEF OutIs
<1>10. CallsOwned'
  BY SMTT(60), <1>1, <1>6, <1>7, <1>8, <1>9 DEF CallsOwned
<1>11. call' \in [Reqs -> Store!Call \cup {None}] /\ owner' \in [Reqs -> Clients \cup {None}]
  BY ZenonT(60), <1>1, <1>3 DEF SessionShape, Store!Ask, Store!Call
<1>12. SessionShape'
  BY ZenonT(60), <1>1, <1>4, <1>6, <1>11 DEF SessionShape, OutIs
<1>13. QED
  BY ZenonT(60), <1>1, <1>5, <1>10, <1>12 DEF SessionInv, NoDanglingCallback

\* The storage's callback finds its session, and answers it or asks the mesh.
LEMMA AnswerStep ==
    ASSUME SessionInv, NEW r \in Reqs, StorageAnswers(r)
    PROVE  SessionInv'
<1>1. SessionShape /\ OneOutstanding /\ CallsOwned /\ Up /\ Store!Waits(r)
  BY Zenon DEF SessionInv, StorageAnswers
<1>2. PICK c \in Clients : c = owner[r] /\ out[c]["storage"] = 1
  BY ZenonT(60), <1>1 DEF CallsOwned
<1>3. {"storage", "header", "mesh"} \subseteq OpKinds
  BY Zenon DEF OpKinds, Callbacks, Sockets
<1>4. conn[c] = "in" /\ out[c] = Single("storage")
  BY SMTT(60), <1>1, <1>2, <1>3, OnlyOne
<1>5. /\ trouble' = {} /\ UNCHANGED <<conn, req, owner>>
      /\ \E j \in {"header", "mesh"} : Starts(c, "storage", j)
  BY Zenon, <1>2, <1>4
  DEF StorageAnswers, CallbackFinds, StorageGetResponse, StorageGetFailed,
      StorageWriteResponse, sendResponse
<1>6. PICK res \in Store!Results, got \in SUBSET Reqs : Store!Answer(r, res, got)
  BY Zenon DEF StorageAnswers
<1>7. PICK j \in {"header", "mesh"} : OutIs(c, Single(j)) /\ Single(j)["storage"] = 0
  <2>1. PICK j \in {"header", "mesh"} : Starts(c, "storage", j)
    BY ZenonT(60), <1>5
  <2>2. j \in OpKinds /\ "storage" \in OpKinds /\ j # "storage"
    BY ZenonT(60), <1>3
  <2>3. OutIs(c, Single(j)) /\ Single(j)["storage"] = 0
    BY ZenonT(60), <1>1, <1>4, <2>1, <2>2, StartsOne, SingleIs
  <2>4. QED
    BY ZenonT(60), <2>3
<1>8. OneOutstanding'
  BY ZenonT(60), <1>1, <1>3, <1>4, <1>5, <1>7, OneClient
<1>9. /\ call' = call /\ reply'[r] = [res |-> res, got |-> got]
      /\ reply' = [reply EXCEPT ![r] = [res |-> res, got |-> got]]
      /\ \A q \in Reqs : q # r => reply'[q] = reply[q]
  BY ZenonT(60), <1>1, <1>6 DEF Store!Answer, SessionShape
<1>10. ~Store!Waits(r)'
  BY <1>6, <1>9 DEF Store!Waits, Store!NoReply, Store!Results
<1>11. \A q \in Reqs : q # r => (Store!Waits(q)' <=> Store!Waits(q))
  BY Zenon, <1>9 DEF Store!Waits, Store!NoReply
<1>12. \A q \in Reqs : Store!Waits(q)' => Store!Waits(q) /\ owner[q] # c
  BY ZenonT(60), <1>1, <1>2, <1>10, <1>11 DEF CallsOwned
<1>13. CallsOwned'
  BY ZenonT(60), <1>1, <1>5, <1>7, <1>12 DEF CallsOwned, OutIs
<1>14. reply' \in [Reqs -> [res : Store!Results \cup {"none"}, got : SUBSET Reqs]]
  BY ZenonT(60), <1>1, <1>6, <1>9 DEF SessionShape
<1>15. SessionShape'
  BY ZenonT(60), <1>1, <1>5, <1>7, <1>9, <1>14 DEF SessionShape, OutIs
<1>16. QED
  BY ZenonT(60), <1>5, <1>8, <1>13, <1>15 DEF SessionInv, NoDanglingCallback

\* The request a handler remembers, and those of the other sessions.
LEMMA RequestIs ==
    ASSUME SessionShape, NEW c \in Clients, NEW type \in RequestTypes \cup {"none"},
           NEW id \in Ids \cup {None},
           req' = req \/ req' = [req EXCEPT ![c] = [type |-> type, id |-> id]]
    PROVE  /\ req' \in [Clients -> Requests]
           /\ \A d \in Clients : d # c => req'[d] = req[d]
<1>1. [type |-> type, id |-> id] \in Requests
  BY Zenon DEF Requests
<1>2. QED
  BY ZenonT(60), <1>1 DEF SessionShape

\* A handler that ends the session or goes back to reading forgets the request.
LEMMA RequestForgotten ==
    ASSUME SessionShape, NEW c \in Clients,
           req' = req \/ req' = [req EXCEPT ![c] = NoRequest]
    PROVE  /\ req' \in [Clients -> Requests]
           /\ \A d \in Clients : d # c => req'[d] = req[d]
  BY Zenon, RequestIs DEF NoRequest

\* Connecting and authenticating keep the invariant.
LEMMA AuthenticatingStep ==
    ASSUME SessionInv, NEW c \in Clients, Authenticating(c)
    PROVE  SessionInv'
<1>0. SessionShape /\ OneOutstanding /\ CallsOwned /\ NoDanglingCallback
  BY Zenon DEF SessionInv
<1>1. {"challenge", "authResponse", "authSuccess", "authFailure", "request"}
         \subseteq OpKinds \ {"storage"} /\ "storage" \in OpKinds
  BY Zenon DEF OpKinds, Sockets, Callbacks
<1>2. CASE handleAccept(c)
  <2>1. /\ Up /\ conn[c] = "new" /\ conn' = [conn EXCEPT ![c] = "in"]
        /\ out' = [out EXCEPT ![c]["challenge"] = @ + 1]
        /\ UNCHANGED <<storage, req, owner, trouble>>
    BY Zenon, <1>2 DEF handleAccept
  <2>2. out[c] = Nothing
    BY Zenon, <1>0, <2>1 DEF OneOutstanding
  <2>3. /\ out' \in [Clients -> [OpKinds -> Nat]]
        /\ out'[c]["challenge"] = 1
        /\ \A i \in OpKinds \ {"challenge"} : out'[c][i] = 0
        /\ \A d \in Clients : d # c => out'[d] = out[d]
    BY SMTT(60), <1>0, <1>1, <2>1, <2>2, SingleIs DEF SessionShape
  <2>4. out'[c] = Single("challenge")
    <3>1. \A i \in OpKinds : out'[c][i] = Single("challenge")[i]
      BY Zenon, <1>1, <2>3, SingleIs
    <3>2. out'[c] \in [OpKinds -> Nat] /\ Single("challenge") \in [OpKinds -> Nat]
      BY Zenon, <1>1, <2>3, SingleIs
    <3>3. QED
      BY SMTT(60), <3>1, <3>2
  <2>5. OutIs(c, Single("challenge"))
    BY Zenon, <2>3, <2>4 DEF OutIs
  <2>6. /\ conn'[c] = "in" /\ \A d \in Clients : d # c => conn'[d] = conn[d]
        /\ conn' \in [Clients -> {"new", "in", "gone"}]
    BY Zenon, <1>0, <2>1 DEF SessionShape
  <2>7. OneOutstanding'
    BY ZenonT(60), <1>0, <1>1, <2>1, <2>5, <2>6, OneClient
  <2>8. CallsOwned'
    <3>1. out'[c]["storage"] = 0 /\ out[c]["storage"] = 0
      BY ZenonT(60), <1>1, <2>2, <2>3, SingleIs
    <3>2. \A d \in Clients : out'[d]["storage"] = out[d]["storage"]
      BY ZenonT(60), <2>3, <3>1
    <3>3. QED
      BY ZenonT(60), <1>0, <2>1, <3>2, CallsStay
  <2>9. SessionShape'
    BY ZenonT(60), <1>0, <2>1, <2>3, <2>6 DEF SessionShape, storage
  <2>10. QED
    BY ZenonT(60), <1>0, <2>1, <2>7, <2>8, <2>9 DEF SessionInv, NoDanglingCallback
<1>3. CASE handleWriteChallenge(c)
  BY ZenonT(60), <1>0, <1>1, <1>3, RequestForgotten, HandlerStep
  DEF handleWriteChallenge, Outstanding, NoDanglingCallback
<1>4. CASE handleReadChallengeResponse(c)
  <2>1. /\ Up /\ out[c]["authResponse"] > 0
        /\ UNCHANGED <<storage, conn, req, owner, trouble>>
        /\ \E j \in {"authSuccess", "authFailure"} : Starts(c, "authResponse", j)
    BY Zenon, <1>4 DEF handleReadChallengeResponse, Outstanding
  <2>2. \E j \in OpKinds \ {"storage", "authResponse"} : Starts(c, "authResponse", j)
    BY Zenon, <1>1, <2>1
  <2>3. QED
    BY ZenonT(60), <1>0, <1>1, <2>1, <2>2, RequestForgotten, HandlerStep DEF NoDanglingCallback
<1>5. CASE handleWriteAuthFailure(c)
  BY ZenonT(60), <1>0, <1>1, <1>5, RequestForgotten, HandlerStep
  DEF handleWriteAuthFailure, Disconnect, Outstanding, NoDanglingCallback
<1>6. CASE handleWriteAuthSuccess(c)
  <2>1. Up /\ out[c]["authSuccess"] > 0 /\ UNCHANGED <<storage, conn, owner>>
    BY Zenon, <1>6 DEF handleWriteAuthSuccess, Outstanding
  <2>2. CASE waitForRequest(c, "authSuccess") /\ UNCHANGED trouble
    <3>1. \E j \in OpKinds \ {"storage", "authSuccess"} : Starts(c, "authSuccess", j)
      BY ZenonT(60), <1>1, <2>2 DEF waitForRequest
    <3>2. QED
      BY ZenonT(60), <1>0, <1>1, <2>1, <2>2, <3>1, RequestForgotten, HandlerStep
      DEF waitForRequest, NoDanglingCallback
  <2>3. CASE Ends(c, "authSuccess") /\ trouble' = {"escaped"} /\ req' = req
    BY ZenonT(60), <1>0, <1>1, <2>1, <2>3, RequestForgotten, HandlerStep
  <2>4. QED
    BY Zenon, <1>6, <2>2, <2>3 DEF handleWriteAuthSuccess
<1>7. QED
  BY Zenon, <1>2, <1>3, <1>4, <1>5, <1>6 DEF Authenticating

\* Reading and starting a request keep the invariant.
LEMMA RequestingStep ==
    ASSUME SessionInv, NEW c \in Clients, Requesting(c)
    PROVE  SessionInv'
<1>0. SessionShape /\ OneOutstanding /\ CallsOwned /\ NoDanglingCallback
  BY Zenon DEF SessionInv
<1>1. {"request", "putData", "header", "cacheHit"} \subseteq OpKinds \ {"storage"}
  BY Zenon DEF OpKinds, Sockets, Callbacks
<1>2. ASSUME NEW type \in RequestTypes, NEW id \in Ids \cup {None},
             RequestRead(c, type, id), UNCHANGED <<storage, conn, owner, trouble>>,
             \/ Starts(c, "request", "putData")
             \/ Starts(c, "request", "header")
             \/ Starts(c, "request", "cacheHit")
             \/ Ends(c, "request") /\ type = "purge"
      PROVE  SessionInv'
  <2>1. /\ Up /\ out[c]["request"] > 0
        /\ req' = [req EXCEPT ![c] = [type |-> type, id |-> id]]
    BY Zenon, <1>2 DEF RequestRead, Outstanding
  <2>2. req' \in [Clients -> Requests] /\ \A d \in Clients : d # c => req'[d] = req[d]
    BY ZenonT(60), <1>0, <2>1, RequestIs
  <2>3. req'[c].type = type
    BY Zenon, <1>0, <2>1 DEF SessionShape
  <2>4. \/ \E j \in OpKinds \ {"storage", "request"} : Starts(c, "request", j)
        \/ Ends(c, "request") /\ req'[c].type = "purge"
    BY ZenonT(60), <1>1, <1>2, <2>3
  <2>5. QED
    BY ZenonT(60), <1>0, <1>1, <1>2, <2>1, <2>2, <2>4, HandlerStep DEF NoDanglingCallback
<1>3. ASSUME NEW type \in RequestTypes, NEW id \in Ids, RequestRead(c, type, id),
             NEW op \in Store!Ops, CallStorage(c, "request", op, id, "globals"),
             UNCHANGED <<conn, trouble>>
      PROVE  SessionInv'
  <2>1. /\ Up /\ out[c]["request"] > 0
        /\ req' = [req EXCEPT ![c] = [type |-> type, id |-> id]]
    BY Zenon, <1>3 DEF RequestRead, Outstanding
  <2>2. req' \in [Clients -> Requests] /\ \A d \in Clients : d # c => req'[d] = req[d]
    BY ZenonT(60), <1>0, <2>1, RequestIs
  <2>3. QED
    BY ZenonT(60), <1>1, <1>3, <2>1, <2>2, AskStep
<1>4. ASSUME NEW type \in RequestTypes, NEW id \in Ids, handleGetRequest(c, type, id)
      PROVE  SessionInv'
  BY ZenonT(60), <1>2, <1>3, <1>4 DEF handleGetRequest, Store!Ops
<1>5. ASSUME NEW type \in RequestTypes, NEW id \in Ids, handleStorageQuery(c, type, id)
      PROVE  SessionInv'
  BY ZenonT(60), <1>3, <1>5 DEF handleStorageQuery, Store!Ops
<1>6. ASSUME NEW id \in Ids,
             handlePutRequest(c, id) \/ handleTestRequest(c, id) \/ handlePurgeRequest(c, id)
      PROVE  SessionInv'
  BY ZenonT(60), <1>2, <1>6
  DEF handlePutRequest, handleTestRequest, handlePurgeRequest, sendResponse,
      RequestTypes
<1>7. CASE handlePurgeLocals(c)
  BY ZenonT(60), <1>2, <1>7 DEF handlePurgeLocals, sendResponse, RequestTypes
<1>8. ASSUME NEW type \in RequestTypes, InvalidId(c, type) PROVE SessionInv'
  BY ZenonT(60), <1>2, <1>8 DEF InvalidId, sendResponse
<1>9. CASE InvalidHeader(c)
  BY ZenonT(60), <1>0, <1>1, <1>9, RequestForgotten, HandlerStep
  DEF InvalidHeader, Disconnect, Outstanding, NoDanglingCallback
<1>10. CASE handleAssetDataRead(c)
  <2>1. Up /\ out[c]["putData"] > 0 /\ UNCHANGED <<conn, req, trouble>>
    BY ZenonT(60), <1>10 DEF handleAssetDataRead, Outstanding
  <2>2. ASSUME NEW id \in Ids, NEW db \in {"globals", "locals"},
               CallStorage(c, "putData", "put", id, db)
        PROVE  SessionInv'
    BY ZenonT(60), <1>0, <1>1, <2>1, <2>2, RequestForgotten, AskStep DEF Store!Ops
  <2>3. CASE sendResponse(c, "putData", "ERROR", None) /\ UNCHANGED <<storage, owner>>
    <3>1. \E j \in OpKinds \ {"storage", "putData"} : Starts(c, "putData", j)
      BY Zenon, <1>1, <2>3 DEF sendResponse
    <3>2. QED
      BY ZenonT(60), <1>0, <1>1, <2>1, <2>3, <3>1, RequestForgotten, HandlerStep
      DEF NoDanglingCallback
  <2>4. QED
    BY ZenonT(60), <1>10, <2>2, <2>3 DEF handleAssetDataRead
<1>11. QED
  BY ZenonT(60), <1>4, <1>5, <1>6, <1>7, <1>8, <1>9, <1>10 DEF Requesting

\* The callbacks that hold the session find it there: while one is outstanding
\* nothing else of the session is, so nothing can have ended it.
LEMMA CallbackStep ==
    ASSUME SessionInv, NEW c \in Clients, NEW k \in OpKinds, out[c][k] > 0,
           CallbackFinds(c)
    PROVE  trouble' = {}
<1>1. conn[c] = "in"
  BY Zenon, OnlyOne DEF SessionInv
<1>2. QED
  BY Zenon, <1>1 DEF CallbackFinds

\* Answering a request keeps the invariant.
LEMMA AnsweringStep ==
    ASSUME SessionInv, NEW c \in Clients, Answering(c)
    PROVE  SessionInv'
<1>0. SessionShape /\ OneOutstanding /\ CallsOwned /\ NoDanglingCallback
  BY Zenon DEF SessionInv
<1>1. {"request", "cacheHit", "mesh", "header", "data"} \subseteq OpKinds \ {"storage"}
  BY Zenon DEF OpKinds, Sockets, Callbacks
<1>2. ASSUME NEW k \in {"cacheHit", "mesh"}, Outstanding(c, k), Starts(c, k, "header"),
             CallbackFinds(c), UNCHANGED <<storage, conn, req, owner>>
      PROVE  SessionInv'
  <2>1. Up /\ out[c][k] > 0
    BY Zenon, <1>2 DEF Outstanding
  <2>2. trouble' = {}
    BY ZenonT(60), <1>1, <1>2, <2>1, CallbackStep
  <2>3. \E j \in OpKinds \ {"storage", k} : Starts(c, k, j)
    BY ZenonT(60), <1>1, <1>2
  <2>4. QED
    BY ZenonT(60), <1>0, <1>1, <1>2, <2>1, <2>2, <2>3, RequestForgotten, HandlerStep
<1>3. CASE CacheHitRuns(c)
  BY ZenonT(60), <1>2, <1>3 DEF CacheHitRuns, sendResponse
<1>4. CASE MeshAnswers(c)
  BY ZenonT(60), <1>2, <1>4 DEF MeshAnswers, sendResponse
<1>5. ASSUME NEW k \in {"header", "data"}, Outstanding(c, k),
             \/ Starts(c, k, "request") /\ req' = [req EXCEPT ![c] = NoRequest]
             \/ Starts(c, k, "data") /\ k # "data" /\ req' = req,
             UNCHANGED <<storage, conn, owner, trouble>>
      PROVE  SessionInv'
  <2>1. Up /\ out[c][k] > 0
    BY Zenon, <1>5 DEF Outstanding
  <2>2. req' = req \/ req' = [req EXCEPT ![c] = NoRequest]
    BY ZenonT(60), <1>5
  <2>3. \E j \in OpKinds \ {"storage", k} : Starts(c, k, j)
    BY ZenonT(60), <1>1, <1>5
  <2>4. QED
    BY <1>0, <1>1, <1>5, <2>1, <2>2, <2>3, RequestForgotten, HandlerStep
    DEF NoDanglingCallback
<1>6. CASE handleResponseHeaderWrite(c)
  BY ZenonT(60), <1>5, <1>6 DEF handleResponseHeaderWrite, waitForRequest
<1>7. CASE handleResponseDataWrite(c)
  BY Zenon, <1>5, <1>7 DEF handleResponseDataWrite, waitForRequest
<1>8. QED
  BY ZenonT(60), <1>3, <1>4, <1>6, <1>7 DEF Answering

\* An operation on the socket that fails ends the session.
LEMMA FailureStep ==
    ASSUME SessionInv, NEW c \in Clients, NEW k \in Sockets, handleIoFailure(c, k)
    PROVE  SessionInv'
<1>1. SessionShape /\ NoDanglingCallback
  BY Zenon DEF SessionInv
<1>2. k \in OpKinds \ {"storage"}
  BY Zenon DEF OpKinds, Sockets, Callbacks
<1>3. QED
  BY ZenonT(60), <1>1, <1>2, RequestForgotten, HandlerStep
  DEF handleIoFailure, Disconnect, Outstanding, NoDanglingCallback

\* An asset that becomes durable changes nothing the sessions wait for.
LEMMA KeepStep ==
    ASSUME SessionInv, NEW r \in Reqs, StorageKeeps(r)
    PROVE  SessionInv'
<1>1. UNCHANGED <<call, reply, conn, out, req, owner, trouble>>
  BY Zenon DEF StorageKeeps, Store!Keep
<1>2. QED
  BY Zenon, <1>1 DEF SessionInv, SessionShape, OneOutstanding, CallsOwned, NoDanglingCallback,
              Store!Waits, Up

\* SessionInv holds initially.
LEMMA InitSession == Init => SessionInv
<1> SUFFICES ASSUME Init PROVE SessionInv
  BY Zenon
<1>1. Nothing \in [OpKinds -> Nat] /\ \A k \in OpKinds : Nothing[k] = 0
  BY Zenon DEF Nothing
<1>2. /\ conn = [c \in Clients |-> "new"] /\ out = [c \in Clients |-> Nothing]
      /\ req = [c \in Clients |-> NoRequest] /\ owner = [r \in Reqs |-> None]
      /\ trouble = {}
      /\ call = [r \in Reqs |-> None] /\ reply = [r \in Reqs |-> Store!NoReply]
  BY Zenon DEF Init, Store!Init
<1>3. NoRequest \in Requests
  BY Zenon DEF NoRequest, Requests
<1>4. QED
  BY ZenonT(60), <1>1, <1>2, <1>3
  DEF SessionInv, SessionShape, OneOutstanding, CallsOwned, NoDanglingCallback,
      Store!Waits, Store!NoReply, Up

\* Every step keeps SessionInv.
LEMMA SessionStep == SessionInv /\ [Next]_vars => SessionInv'
<1> SUFFICES ASSUME SessionInv, [Next]_vars PROVE SessionInv'
  BY Zenon
<1>1. ASSUME NEW c \in Clients,
             \/ Authenticating(c) \/ Requesting(c) \/ Answering(c)
             \/ \E k \in Sockets : handleIoFailure(c, k)
      PROVE  SessionInv'
  BY ZenonT(60), <1>1, AuthenticatingStep, RequestingStep, AnsweringStep, FailureStep
<1>2. ASSUME NEW r \in Reqs, StorageAnswers(r) \/ StorageKeeps(r)
      PROVE  SessionInv'
  BY ZenonT(60), <1>2, AnswerStep, KeepStep
<1>3. CASE UNCHANGED vars
  BY Zenon, <1>3
  DEF vars, storage, SessionInv, SessionShape, OneOutstanding, CallsOwned,
      NoDanglingCallback, Store!Waits, Up
<1>4. QED
  BY ZenonT(60), <1>1, <1>2, <1>3 DEF Next

\* The sessions keep SessionInv (AssetClient.cpp,
\* CSUnauthenticated.cpp and CSAuthenticated.cpp).
THEOREM SessionSafety == Spec => []SessionInv
  BY InitSession, SessionStep, PTL DEF Spec

\* Exactly one operation of a connected session is outstanding
\* (AssetClient.cpp), whatever the clients send and the connections do.
THEOREM OutstandingSafety == Spec => []OneOutstanding
<1>1. SessionInv => OneOutstanding
  BY ZenonT(60) DEF SessionInv
<1>2. QED
  BY <1>1, SessionSafety, PTL

\* A storage call that waits belongs to the one request of its session.
THEOREM OwnedSafety == Spec => []CallsOwned
<1>1. SessionInv => CallsOwned
  BY Zenon DEF SessionInv
<1>2. QED
  BY <1>1, SessionSafety, PTL

\* No callback of the cache, the storage or the mesh runs on a session that
\* AssetClient::disconnect has freed.
THEOREM DanglingSafety == Spec => []NoDanglingCallback
<1>1. SessionInv => NoDanglingCallback
  BY Zenon DEF SessionInv
<1>2. QED
  BY <1>1, SessionSafety, PTL

(***************************************************************************)
(* What the responses carry and what the cache holds                       *)
(***************************************************************************)
Gets == {"get", "getDontCache"}

\* An asset that has an id: a peer's copy, or what a PUT was called with.
Known(a) == a \in Ids \/ (a \in Reqs /\ call[a] # None)

\* The asset may be shown for the id.
Held(x, a) ==
    /\ Known(a) /\ IdOfAsset(a) = x
    /\ a \in Reqs /\ call[a].db = "globals" => kept[x] = a

EntriesOK ==
    \A i \in 1 .. Len(cache.list) : Held(cache.list[i].key, cache.list[i].data)

CacheInv ==
    /\ kept \in [Ids -> Reqs \cup {None}]
    /\ Sound(cache, Ids, Assets) /\ cache.counted <= MaxSize
    /\ used \in Seq(Ids) /\ InOrder(cache, used)
    /\ EntriesOK

\* What was asked of the storage stays, and so does what it keeps.
StoreGrows ==
    /\ \A r \in Reqs : call[r] # None => call'[r] = call[r]
    /\ \A x \in Ids : kept[x] # None => kept'[x] = kept[x]
    /\ kept' \in [Ids -> Reqs \cup {None}]

\* An asset that may be shown may be shown later.
LEMMA HeldStays ==
    ASSUME StoreGrows, NEW x \in Ids, NEW a \in Assets, Held(x, a)
    PROVE  Held(x, a)'
<1>1. CASE a \in Ids
  BY Zenon, <1>1, ConstantsAssumption DEF Held, Known, IdOfAsset
<1>2. CASE a \in Reqs
  <2>1. a \notin Ids /\ call[a] # None /\ call'[a] = call[a] /\ a # None
    BY <1>2, ConstantsAssumption DEF Held, Known, StoreGrows
  <2>2. QED
    BY <1>2, <2>1 DEF Held, Known, IdOfAsset, StoreGrows
<1>3. QED
  BY Zenon, <1>1, <1>2 DEF Assets

\* And an asset that has an id has it later.
LEMMA KnownStays ==
    ASSUME StoreGrows, NEW a \in Assets, Known(a)
    PROVE  Known(a)' /\ IdOfAsset(a)' = IdOfAsset(a)
<1>1. CASE a \in Ids
  BY <1>1 DEF Known, IdOfAsset
<1>2. CASE a \notin Ids
  BY <1>2 DEF Known, IdOfAsset, StoreGrows
<1>3. QED
  BY <1>1, <1>2

\* The entries of the cache have an id and an asset.
LEMMA EntryTyped ==
    ASSUME CacheInv, NEW i \in 1 .. Len(cache.list)
    PROVE  cache.list[i] \in Entry(Ids, Assets)
  BY ElementOfSeq DEF CacheInv, Sound

\* The assets have sizes.
LEMMA AssetsSized == Sized(Assets) /\ MaxSize \in Nat
  BY ConstantsAssumption DEF Sized, Assets

\* The entries of the next cache are old ones or one that may be shown.
LEMMA EntriesHeld ==
    ASSUME CacheInv, StoreGrows, NEW x \in Ids, NEW a \in Assets, Held(x, a)',
           FromListOr(cache', cache, [key |-> x, data |-> a])
    PROVE  EntriesOK'
<1>1. ASSUME NEW j \in 1 .. Len(cache'.list)
      PROVE  \E y \in Ids, b \in Assets :
                Held(y, b)' /\ cache'.list[j].key = y /\ cache'.list[j].data = b
  <2>1. CASE cache'.list[j] = [key |-> x, data |-> a]
    BY <2>1
  <2>2. ASSUME NEW i \in 1 .. Len(cache.list), cache'.list[j] = cache.list[i]
        PROVE  \E y \in Ids, b \in Assets :
                  Held(y, b)' /\ cache'.list[j].key = y /\ cache'.list[j].data = b
    <3>1. PICK y \in Ids, b \in Assets : y = cache.list[i].key /\ b = cache.list[i].data
      BY EntryTyped DEF Entry
    <3>2. Held(y, b)
      BY Zenon, <3>1 DEF CacheInv, EntriesOK
    <3>3. Held(y, b)'
      BY Zenon, <3>2, HeldStays
    <3>4. QED
      BY Zenon, <2>2, <3>1, <3>3
  <2>3. QED
    BY Zenon, <2>1, <2>2 DEF FromListOr
<1>2. QED
  BY Zenon, <1>1 DEF EntriesOK

\* The cache is as it was.
LEMMA CacheSame ==
    ASSUME CacheInv, StoreGrows, UNCHANGED caching
    PROVE  CacheInv'
<1>1. ASSUME NEW j \in 1 .. Len(cache.list)
      PROVE  \E y \in Ids, b \in Assets :
                Held(y, b)' /\ cache.list[j].key = y /\ cache.list[j].data = b
  <2>1. PICK y \in Ids, b \in Assets : y = cache.list[j].key /\ b = cache.list[j].data
    BY EntryTyped DEF Entry
  <2>2. Held(y, b)
    BY Zenon, <2>1 DEF CacheInv, EntriesOK
  <2>3. Held(y, b)'
    BY Zenon, <2>2, HeldStays
  <2>4. QED
    BY Zenon, <2>1, <2>3
<1>2. cache' = cache /\ used' = used
  BY DEF caching
<1>3. EntriesOK'
  BY Zenon, <1>1, <1>2 DEF EntriesOK
<1>4. QED
  BY Zenon, <1>2, <1>3 DEF CacheInv, StoreGrows

\* The asset of an id is put into the cache (AssetCache::asyncPutCompleted and the
\* others).
LEMMA CacheInsert ==
    ASSUME CacheInv, StoreGrows, NEW x \in Ids, NEW a \in Assets, Held(x, a)',
           Caches(x, a)
    PROVE  CacheInv'
<1>1. cache' = insert(cache, x, a) /\ used' = Latest(used, x)
  BY Zenon DEF Caches, Uses
<1>2. Sound(cache, Ids, Assets) /\ used \in Seq(Ids) /\ InOrder(cache, used)
  BY Zenon DEF CacheInv
<1>3. Sound(cache', Ids, Assets) /\ cache'.counted <= MaxSize
  BY Zenon, <1>1, <1>2, AssetsSized, InsertSound
<1>4. used' \in Seq(Ids) /\ InOrder(cache', used')
  BY Zenon, <1>1, <1>2, AssetsSized, InsertInOrder
<1>5. FromListOr(cache', cache, [key |-> x, data |-> a])
  BY Zenon, <1>1, <1>2, AssetsSized, InsertKeeps
<1>6. EntriesOK'
  BY Zenon, <1>5, EntriesHeld
<1>7. QED
  BY Zenon, <1>3, <1>4, <1>6 DEF CacheInv, StoreGrows

\* The asset of an id is fetched (AssetCache::getAsset).
LEMMA CacheFetch ==
    ASSUME CacheInv, StoreGrows, NEW x \in Ids, exists(cache, x),
           cache' = fetch(cache, x), Uses(x)
    PROVE  CacheInv'
<1>1. x \in cache.index /\ cache' = touch(cache, x) /\ used' = Latest(used, x)
  BY Zenon DEF exists, fetch, Uses
<1>2. Sound(cache, Ids, Assets) /\ used \in Seq(Ids) /\ InOrder(cache, used)
  BY Zenon DEF CacheInv
<1>3. PICK t : t = touch(cache, x)
  OBVIOUS
<1>4. Sound(t, Ids, Assets) /\ Touched(t, cache, At(cache, x))
  BY Zenon, <1>1, <1>2, <1>3, AssetsSized, TouchSound
<1>5. t.counted = cache.counted
  BY Zenon, <1>4 DEF Touched
<1>6. used' \in Seq(Ids) /\ InOrder(t, used')
  BY Zenon, <1>1, <1>2, <1>3, AssetsSized, TouchInOrder
<1>7. FromList(t, cache)
  BY Zenon, <1>1, <1>2, <1>3, AssetsSized, TouchKeeps
<1>8. PICK y \in Ids, b \in Assets : Held(y, b)
  <2>1. PICK i \in 1 .. Len(cache.list) : i = At(cache, x)
    BY Zenon, <1>1, <1>2, AtIs
  <2>2. PICK y \in Ids, b \in Assets : y = cache.list[i].key /\ b = cache.list[i].data
    BY EntryTyped DEF Entry
  <2>3. QED
    BY Zenon, <2>2 DEF CacheInv, EntriesOK
<1>9. EntriesOK'
  <2>1. FromListOr(cache', cache, [key |-> y, data |-> b])
    BY ZenonT(60), <1>1, <1>3, <1>7 DEF FromList, FromListOr
  <2>2. QED
    BY Zenon, <1>8, <2>1, HeldStays, EntriesHeld
<1>10. QED
  BY Zenon, <1>1, <1>3, <1>4, <1>5, <1>6, <1>9 DEF CacheInv, StoreGrows

Codes == {"none", "FOUND", "NOTFOUND", "OK", "ERROR"}
Responses == [code : Codes, got : Assets \cup {None}]

\* The operations during which a session has an asset for its client.
Delivers(c) == out[c]["cacheHit"] > 0 \/ out[c]["header"] > 0 \/ out[c]["data"] > 0

Carries(c) ==
    resp[c].got # None =>
        /\ Known(resp[c].got) /\ req[c].type \in Gets
        /\ IdOfAsset(resp[c].got) = req[c].id
        /\ Delivers(c)

Searches(c) == out[c]["mesh"] > 0 => req[c].type \in Gets /\ req[c].id \in Ids

Expects(r) ==
    Store!Waits(r) /\ call[r].op = "get" =>
        req[owner[r]].type \in Gets /\ req[owner[r]].id = call[r].id

\* An asset on its way to a client, a search for one and a storage call for one
\* belong to a GET with its id.
AnswerInv ==
    /\ resp \in [Clients -> Responses]
    /\ \A c \in Clients : Carries(c) /\ Searches(c)
    /\ \A r \in Reqs : Expects(r)

\* A session that is doing something else has no asset for its client.
LEMMA Silent ==
    ASSUME SessionInv, AnswerInv, NEW c \in Clients,
           NEW k \in OpKinds \ {"cacheHit", "header", "data"}, out[c][k] > 0
    PROVE  resp[c].got = None
<1>1. out[c] = Single(k)
  BY Zenon, OnlyOne DEF SessionInv
<1>2. {"cacheHit", "header", "data"} \subseteq OpKinds
  BY DEF OpKinds, Callbacks, Sockets
<1>3. \A j \in {"cacheHit", "header", "data"} : out[c][j] = 0
  BY <1>1, <1>2, SingleIs
<1>4. ~Delivers(c)
  BY <1>3 DEF Delivers
<1>5. QED
  BY Zenon, <1>4 DEF AnswerInv, Carries

\* The response a session gives, and those of the others.
LEMMA ResponseIs ==
    ASSUME AnswerInv, NEW c \in Clients, NEW code \in Codes, NEW g \in Assets \cup {None},
           resp' = [resp EXCEPT ![c] = [code |-> code, got |-> g]]
    PROVE  /\ resp' \in [Clients -> Responses]
           /\ resp'[c].got = g
           /\ \A d \in Clients : d # c => resp'[d] = resp[d]
<1>1. [code |-> code, got |-> g] \in Responses
  BY DEF Responses
<1>2. QED
  BY <1>1 DEF AnswerInv

\* After a step about one client the others' responses are as they were.
LEMMA OthersAnswers ==
    ASSUME AnswerInv, StoreGrows, NEW c \in Clients, NEW v, OutIs(c, v),
           \A d \in Clients : d # c => req'[d] = req[d] /\ resp'[d] = resp[d],
           resp' \in [Clients -> Responses], Carries(c)', Searches(c)',
           \A r \in Reqs : Expects(r)'
    PROVE  AnswerInv'
<1>1. ASSUME NEW d \in Clients, d # c PROVE Carries(d)' /\ Searches(d)'
  <2>1. req'[d] = req[d] /\ resp'[d] = resp[d] /\ out'[d] = out[d]
    BY Zenon, <1>1 DEF OutIs
  <2>2. Carries(d) /\ Searches(d)
    BY Zenon DEF AnswerInv
  <2>3. Searches(d)'
    BY Zenon, <2>1, <2>2 DEF Searches
  <2>4. ASSUME resp[d].got # None
        PROVE  Known(resp[d].got)' /\ IdOfAsset(resp[d].got)' = IdOfAsset(resp[d].got)
    <3>1. PICK g \in Assets : g = resp[d].got
      BY <2>4 DEF AnswerInv, Responses
    <3>2. Known(g)
      BY Zenon, <2>2, <2>4, <3>1 DEF Carries
    <3>3. Known(g)' /\ IdOfAsset(g)' = IdOfAsset(g)
      BY Zenon, <3>2, KnownStays
    <3>4. g = resp'[d].got
      BY Zenon, <2>1, <3>1
    <3>5. QED
      BY Zenon, <3>1, <3>3, <3>4 DEF Known, IdOfAsset
  <2>5. Carries(d)'
    BY Zenon, <2>1, <2>2, <2>4 DEF Carries, Delivers
  <2>6. QED
    BY Zenon, <2>3, <2>5
<1>2. QED
  BY Zenon, <1>1 DEF AnswerInv

\* A handler of a session that waits for nothing from the storage leaves the others'
\* calls alone.
LEMMA ExpectsStay ==
    ASSUME SessionInv, AnswerInv, NEW c \in Clients, UNCHANGED <<storage, owner>>,
           out[c]["storage"] = 0, \A d \in Clients : d # c => req'[d] = req[d]
    PROVE  \A r \in Reqs : Expects(r)'
<1> TAKE r \in Reqs
<1>1. Store!Waits(r)' <=> Store!Waits(r)
  BY DEF Store!Waits, Store!NoReply, storage
<1>2. ASSUME Store!Waits(r) PROVE owner[r] \in Clients /\ owner[r] # c
  BY <1>2 DEF SessionInv, CallsOwned
<1>3. call' = call /\ owner' = owner /\ Expects(r)
  BY Zenon DEF storage, AnswerInv
<1>4. QED
  BY Zenon, <1>1, <1>2, <1>3 DEF Expects

ContentInv == CacheInv /\ AnswerInv

\* A step that does not concern the storage.
LEMMA StoreSame ==
    ASSUME CacheInv, UNCHANGED storage
    PROVE  StoreGrows
  BY Zenon DEF CacheInv, StoreGrows, storage

\* The operations of a session after its handler of kind k.
LEMMA OutAfter ==
    ASSUME SessionInv, NEW c \in Clients, NEW k \in OpKinds, out[c][k] > 0,
           NEW j \in OpKinds, j # k
    PROVE  /\ Starts(c, k, j) => OutIs(c, Single(j))
           /\ Ends(c, k) => OutIs(c, Nothing)
<1>1. SessionShape /\ out[c] = Single(k)
  BY Zenon, OnlyOne DEF SessionInv
<1>2. QED
  BY Zenon, <1>1, StartsOne, EndsOne

\* A handler that has nothing to do with the storage or the mesh.
LEMMA HandlerAnswers ==
    ASSUME SessionInv, ContentInv, NEW c \in Clients,
           NEW k \in OpKinds \ {"storage"}, out[c][k] > 0,
           NEW j \in OpKinds \ {"mesh"}, j # k, Starts(c, k, j) \/ Ends(c, k),
           UNCHANGED <<storage, owner>>,
           \A d \in Clients : d # c => req'[d] = req[d] /\ resp'[d] = resp[d],
           resp' \in [Clients -> Responses], Carries(c)'
    PROVE  AnswerInv'
<1>1. PICK v : OutIs(c, v) /\ (v = Single(j) \/ v = Nothing)
  BY Zenon, OutAfter
<1>2. out[c] = Single(k) /\ "storage" \in OpKinds /\ "mesh" \in OpKinds
  <2>1. out[c] = Single(k)
    BY Zenon, OnlyOne DEF SessionInv
  <2>2. QED
    BY <2>1 DEF OpKinds, Callbacks
<1>3. v["mesh"] = 0 /\ out[c]["storage"] = 0
  BY SMTT(60), <1>1, <1>2, SingleIs
<1>4. Searches(c)'
  BY <1>1, <1>3 DEF Searches, OutIs
<1>5. \A r \in Reqs : Expects(r)'
  BY Zenon, <1>3, ExpectsStay DEF ContentInv
<1>6. StoreGrows
  BY Zenon, StoreSame DEF ContentInv
<1>7. QED
  BY Zenon, <1>1, <1>4, <1>5, <1>6, OthersAnswers DEF ContentInv

\* One that has no asset for its client afterwards.
LEMMA QuietHandler ==
    ASSUME SessionInv, ContentInv, NEW c \in Clients,
           NEW k \in OpKinds \ {"storage"}, out[c][k] > 0,
           NEW j \in OpKinds \ {"mesh"}, j # k, Starts(c, k, j) \/ Ends(c, k),
           UNCHANGED <<storage, owner>>,
           \A d \in Clients : d # c => req'[d] = req[d],
           \/ resp' = resp /\ k \notin {"cacheHit", "header", "data"}
           \/ \E code \in Codes : resp' = [resp EXCEPT ![c] = [code |-> code, got |-> None]]
    PROVE  AnswerInv'
<1>1. /\ resp' \in [Clients -> Responses] /\ resp'[c].got = None
      /\ \A d \in Clients : d # c => resp'[d] = resp[d]
  <2>1. CASE resp' = resp /\ k \notin {"cacheHit", "header", "data"}
    <3>1. resp[c].got = None
      BY Zenon, <2>1, Silent DEF ContentInv
    <3>2. QED
      BY Zenon, <2>1, <3>1 DEF ContentInv, AnswerInv
  <2>2. CASE \E code \in Codes : resp' = [resp EXCEPT ![c] = [code |-> code, got |-> None]]
    <3>1. PICK code \in Codes : resp' = [resp EXCEPT ![c] = [code |-> code, got |-> None]]
      BY Zenon, <2>2
    <3>2. AnswerInv /\ None \in Assets \cup {None}
      BY Zenon DEF ContentInv
    <3>3. QED
      BY Zenon, <3>1, <3>2, ResponseIs
  <2>3. QED
    BY Zenon, <2>1, <2>2
<1>2. Carries(c)'
  BY Zenon, <1>1 DEF Carries
<1>3. QED
  BY Zenon, <1>1, <1>2, HandlerAnswers

\* Connecting and authenticating have nothing to do with assets.
LEMMA AuthenticatingContent ==
    ASSUME SessionInv, ContentInv, NEW c \in Clients, Authenticating(c)
    PROVE  ContentInv'
<1>1. CacheInv'
  <2>1. UNCHANGED <<storage, caching>>
    BY Zenon DEF Authenticating, handleAccept, handleWriteChallenge,
          handleReadChallengeResponse, handleWriteAuthFailure, handleWriteAuthSuccess
  <2>2. QED
    BY Zenon, <2>1, StoreSame, CacheSame DEF ContentInv
<1>2. {"challenge", "authResponse", "authSuccess", "authFailure", "request"}
        \subseteq OpKinds \ {"storage", "mesh", "cacheHit", "header", "data"}
  BY DEF OpKinds, Sockets, Callbacks
<1>3. SessionShape
  BY Zenon DEF SessionInv
<1>4. NoResponse = [code |-> "none", got |-> None] /\ "none" \in Codes
  BY DEF NoResponse, Codes
<1>5. CASE handleAccept(c)
  <2>1. /\ conn[c] = "new" /\ UNCHANGED <<storage, owner, req, resp>>
        /\ out' = [out EXCEPT ![c]["challenge"] = @ + 1]
    BY <1>5 DEF handleAccept
  <2>2. out[c] = Nothing
    BY Zenon, <2>1 DEF SessionInv, OneOutstanding
  <2>3. /\ out' \in [Clients -> [OpKinds -> Nat]]
        /\ \A i \in OpKinds \ {"challenge"} : out'[c][i] = out[c][i]
        /\ \A d \in Clients : d # c => out'[d] = out[d]
    BY SMTT(60), <1>2, <1>3, <2>1 DEF SessionShape
  <2>4. PICK v : v = out'[c]
    OBVIOUS
  <2>5. OutIs(c, v)
    BY Zenon, <2>3, <2>4 DEF OutIs
  <2>6. {"cacheHit", "header", "data", "mesh", "storage"} \subseteq OpKinds \ {"challenge"}
    BY DEF OpKinds, Sockets, Callbacks
  <2>7. \A i \in {"cacheHit", "header", "data", "mesh", "storage"} : out'[c][i] = 0 /\ out[c][i] = 0
    BY Zenon, <2>2, <2>3, <2>6, SingleIs
  <2>8. Carries(c)' /\ Searches(c)'
    <3>1. ~Delivers(c) /\ Carries(c)
      BY <2>7 DEF Delivers, ContentInv, AnswerInv
    <3>2. resp'[c].got = None
      BY Zenon, <2>1, <3>1 DEF Carries
    <3>3. QED
      BY <2>7, <3>2 DEF Carries, Searches
  <2>9. \A r \in Reqs : Expects(r)'
    BY Zenon, <2>1, <2>7, ExpectsStay DEF ContentInv
  <2>10. AnswerInv /\ StoreGrows /\ resp' \in [Clients -> Responses]
    BY Zenon, <2>1, StoreSame DEF ContentInv, AnswerInv
  <2>11. AnswerInv'
    BY Zenon, <2>1, <2>5, <2>8, <2>9, <2>10, OthersAnswers
  <2>12. QED
    BY Zenon, <1>1, <2>11 DEF ContentInv
<1>6. CASE handleWriteChallenge(c)
  <2>1. /\ out[c]["challenge"] > 0 /\ Starts(c, "challenge", "authResponse")
        /\ UNCHANGED <<storage, owner, req, resp>>
    BY Zenon, <1>6 DEF handleWriteChallenge, Outstanding
  <2>2. AnswerInv'
    BY Zenon, <1>2, <2>1, QuietHandler
  <2>3. QED
    BY Zenon, <1>1, <2>2 DEF ContentInv
<1>7. CASE handleReadChallengeResponse(c)
  <2>1. /\ out[c]["authResponse"] > 0 /\ UNCHANGED <<storage, owner, req, resp>>
        /\ Starts(c, "authResponse", "authSuccess") \/ Starts(c, "authResponse", "authFailure")
    BY Zenon, <1>7 DEF handleReadChallengeResponse, Outstanding
  <2>2. AnswerInv'
    BY Zenon, <1>2, <2>1, QuietHandler
  <2>3. QED
    BY Zenon, <1>1, <2>2 DEF ContentInv
<1>8. CASE handleWriteAuthFailure(c)
  <2>1. /\ out[c]["authFailure"] > 0 /\ Ends(c, "authFailure") /\ UNCHANGED <<storage, owner>>
        /\ req' = [req EXCEPT ![c] = NoRequest] /\ resp' = [resp EXCEPT ![c] = NoResponse]
    BY Zenon, <1>8 DEF handleWriteAuthFailure, Disconnect, Outstanding
  <2>2. \A d \in Clients : d # c => req'[d] = req[d]
    BY Zenon, <1>3, <2>1 DEF SessionShape
  <2>3. AnswerInv'
    BY Zenon, <1>2, <1>4, <2>1, <2>2, QuietHandler
  <2>4. QED
    BY Zenon, <1>1, <2>3 DEF ContentInv
<1>9. CASE handleWriteAuthSuccess(c)
  <2>1. /\ out[c]["authSuccess"] > 0 /\ UNCHANGED <<storage, owner>>
        /\ \/ /\ Starts(c, "authSuccess", "request")
              /\ req' = [req EXCEPT ![c] = NoRequest] /\ resp' = [resp EXCEPT ![c] = NoResponse]
           \/ Ends(c, "authSuccess") /\ req' = req /\ resp' = resp
    BY Zenon, <1>9 DEF handleWriteAuthSuccess, waitForRequest, Outstanding
  <2>2. \A d \in Clients : d # c => req'[d] = req[d]
    BY Zenon, <1>3, <2>1 DEF SessionShape
  <2>3. AnswerInv'
    BY <1>2, <1>4, <2>1, <2>2, QuietHandler
  <2>4. QED
    BY Zenon, <1>1, <2>3 DEF ContentInv
<1>10. QED
  BY Zenon, <1>5, <1>6, <1>7, <1>8, <1>9 DEF Authenticating

\* A handler calls the storage: for an asset only if it is the one of the request.
LEMMA AskContent ==
    ASSUME SessionInv, ContentInv, NEW c \in Clients,
           NEW k \in OpKinds \ {"storage", "mesh", "cacheHit", "header", "data"},
           out[c][k] > 0, NEW op, NEW id \in Ids, NEW db, CallStorage(c, k, op, id, db),
           \A d \in Clients : d # c => req'[d] = req[d], resp' = resp,
           op = "get" => req'[c].type \in Gets /\ req'[c].id = id
    PROVE  AnswerInv' /\ StoreGrows
<1>1. PICK r \in Reqs : /\ Store!Ask(r, [op |-> op, id |-> id, db |-> db])
                        /\ owner' = [owner EXCEPT ![r] = c]
                        /\ Starts(c, k, "storage")
  BY Zenon DEF CallStorage
<1>2. SessionShape /\ CacheInv /\ AnswerInv
  BY Zenon DEF SessionInv, ContentInv
<1>3. /\ call[r] = None /\ reply' = reply /\ kept' = kept
      /\ call'[r].op = op /\ call'[r].id = id /\ owner'[r] = c
      /\ \A q \in Reqs : q # r => call'[q] = call[q] /\ owner'[q] = owner[q]
  BY <1>1, <1>2 DEF SessionShape, Store!Ask
<1>4. StoreGrows
  BY Zenon, <1>2, <1>3 DEF StoreGrows, CacheInv
<1>5. "storage" \in OpKinds /\ "mesh" \in OpKinds
  BY DEF OpKinds, Callbacks
<1>6. out[c] = Single(k) /\ OutIs(c, Single("storage"))
  BY Zenon, <1>1, <1>5, OutAfter, OnlyOne DEF SessionInv
<1>7. out[c]["storage"] = 0 /\ Single("storage")["mesh"] = 0
  BY SMTT(30), <1>5, <1>6, SingleIs
<1>8. ASSUME NEW q \in Reqs PROVE Expects(q)'
  <2>1. CASE q = r
    BY Zenon, <1>3, <2>1 DEF Expects
  <2>2. CASE q # r
    <3>1. call'[q] = call[q] /\ owner'[q] = owner[q] /\ (Store!Waits(q)' <=> Store!Waits(q))
      BY Zenon, <1>3, <2>2 DEF Store!Waits, Store!NoReply
    <3>2. ASSUME Store!Waits(q) PROVE req'[owner[q]] = req[owner[q]]
      <4>1. owner[q] \in Clients /\ owner[q] # c
        BY SMTT(30), <1>7, <3>2 DEF SessionInv, CallsOwned
      <4>2. QED
        BY Zenon, <4>1
    <3>3. Expects(q)
      BY Zenon, <1>2 DEF AnswerInv
    <3>4. QED
      BY Zenon, <3>1, <3>2, <3>3 DEF Expects
  <2>3. QED
    BY Zenon, <2>1, <2>2
<1>9. resp[c].got = None
  BY Zenon, <1>2, Silent
<1>10. Carries(c)'
  BY Zenon, <1>9 DEF Carries
<1>11. Searches(c)'
  BY SMTT(30), <1>6, <1>7 DEF Searches, OutIs
<1>12. AnswerInv'
  BY Zenon, <1>2, <1>4, <1>6, <1>8, <1>10, <1>11, OthersAnswers DEF AnswerInv
<1>13. QED
  BY Zenon, <1>4, <1>12

\* A GET finds its asset in the cache.
LEMMA HitContent ==
    ASSUME SessionInv, ContentInv, NEW c \in Clients, NEW type \in Gets, NEW id \in Ids,
           RequestRead(c, type, id), exists(cache, id), cache' = fetch(cache, id),
           Starts(c, "request", "cacheHit"),
           resp' = [resp EXCEPT ![c] = [code |-> "none", got |-> fetched(cache, id)]],
           Uses(id), UNCHANGED <<storage, owner>>
    PROVE  ContentInv'
<1>1. SessionShape /\ CacheInv /\ AnswerInv
  BY Zenon DEF SessionInv, ContentInv
<1>2. StoreGrows
  BY Zenon, <1>1, StoreSame
<1>3. CacheInv'
  BY Zenon, <1>1, <1>2, CacheFetch
<1>4. PICK g \in Assets : g = fetched(cache, id) /\ Held(id, g)
  <2>1. id \in cache.index /\ Sound(cache, Ids, Assets)
    BY Zenon, <1>1 DEF exists, CacheInv
  <2>2. PICK i \in 1 .. Len(cache.list) : i = At(cache, id) /\ cache.list[i].key = id
    <3>1. At(cache, id) \in 1 .. Len(cache.list) /\ cache.list[At(cache, id)].key = id
      BY SMTT(60), <2>1, AtIs
    <3>2. QED
      BY Zenon, <3>1
  <2>3. PICK y \in Ids, g \in Assets : y = cache.list[i].key /\ g = cache.list[i].data
    BY <1>1, EntryTyped DEF Entry
  <2>4. Held(y, g)
    BY Zenon, <1>1, <2>3 DEF CacheInv, EntriesOK
  <2>5. QED
    BY Zenon, <2>2, <2>3, <2>4 DEF fetched
<1>5. /\ resp' \in [Clients -> Responses] /\ resp'[c].got = g
      /\ \A d \in Clients : d # c => resp'[d] = resp[d]
  <2>1. "none" \in Codes /\ g \in Assets \cup {None}
    BY DEF Codes
  <2>2. QED
    BY Zenon, <1>1, <1>4, <2>1, ResponseIs
<1>6. /\ out[c]["request"] > 0
      /\ req' = [req EXCEPT ![c] = [type |-> type, id |-> id]]
  BY Zenon DEF RequestRead, Outstanding
<1>7. /\ req'[c].type = type /\ req'[c].id = id
      /\ \A d \in Clients : d # c => req'[d] = req[d]
  BY <1>1, <1>6 DEF SessionShape
<1>8. {"request", "cacheHit"} \subseteq OpKinds \ {"storage", "mesh"}
  BY DEF OpKinds, Sockets, Callbacks
<1>9. Delivers(c)'
  <2>1. OutIs(c, Single("cacheHit"))
    BY Zenon, <1>6, <1>8, OutAfter
  <2>2. out'[c]["cacheHit"] > 0
    BY SMTT(60), <1>8, <2>1, SingleIs DEF OutIs
  <2>3. QED
    BY Zenon, <2>2 DEF Delivers
<1>10. Known(g)' /\ IdOfAsset(g)' = id
  BY Zenon, <1>2, <1>4, KnownStays DEF Held
<1>11. Carries(c)'
  BY Zenon, <1>5, <1>7, <1>9, <1>10 DEF Carries, Known, IdOfAsset
<1>12. AnswerInv'
  BY ZenonT(60), <1>5, <1>6, <1>7, <1>8, <1>11, HandlerAnswers
<1>13. QED
  BY Zenon, <1>3, <1>12 DEF ContentInv

\* Reading and starting a request.
LEMMA RequestingContent ==
    ASSUME SessionInv, ContentInv, NEW c \in Clients, Requesting(c)
    PROVE  ContentInv'
<1>0. SessionShape /\ CacheInv /\ AnswerInv
  BY Zenon DEF SessionInv, ContentInv
<1>1. /\ {"request", "putData"} \subseteq OpKinds \ {"storage", "mesh", "cacheHit", "header", "data"}
      /\ {"header", "cacheHit"} \subseteq OpKinds \ {"mesh"}
  BY DEF OpKinds, Sockets, Callbacks
<1>2. NoResponse = [code |-> "none", got |-> None] /\ {"none", "FOUND", "NOTFOUND", "OK", "ERROR"} \subseteq Codes
  BY DEF NoResponse, Codes
<1>3. ASSUME NEW type, NEW id, RequestRead(c, type, id)
      PROVE  /\ out[c]["request"] > 0
             /\ req'[c].type = type /\ req'[c].id = id
             /\ \A d \in Clients : d # c => req'[d] = req[d]
  <2>1. /\ out[c]["request"] > 0
        /\ req' = [req EXCEPT ![c] = [type |-> type, id |-> id]]
    BY Zenon, <1>3 DEF RequestRead, Outstanding
  <2>2. QED
    BY <1>0, <2>1 DEF SessionShape
<1>4. ASSUME NEW type, NEW id, RequestRead(c, type, id), UNCHANGED <<storage, owner, caching>>,
             \/ resp' = resp /\ (Starts(c, "request", "putData") \/ Ends(c, "request"))
             \/ \E code \in Codes : sendResponse(c, "request", code, None)
      PROVE  ContentInv'
  <2>1. out[c]["request"] > 0 /\ \A d \in Clients : d # c => req'[d] = req[d]
    BY Zenon, <1>3, <1>4
  <2>2. CASE resp' = resp /\ (Starts(c, "request", "putData") \/ Ends(c, "request"))
    <3>1. AnswerInv'
      BY Zenon, <1>1, <1>4, <2>1, <2>2, QuietHandler
    <3>2. QED
      BY Zenon, <3>1, <1>0, <1>4, StoreSame, CacheSame DEF ContentInv
  <2>3. CASE \E code \in Codes : sendResponse(c, "request", code, None)
    <3>1. /\ Starts(c, "request", "header")
          /\ \E code \in Codes : resp' = [resp EXCEPT ![c] = [code |-> code, got |-> None]]
      BY Zenon, <2>3 DEF sendResponse
    <3>2. AnswerInv'
      BY Zenon, <1>1, <1>4, <2>1, <3>1, QuietHandler
    <3>3. QED
      BY Zenon, <3>2, <1>0, <1>4, StoreSame, CacheSame DEF ContentInv
  <2>4. QED
    BY Zenon, <1>4, <2>2, <2>3
<1>5. ASSUME NEW type \in RequestTypes, NEW id \in Ids, handleGetRequest(c, type, id)
      PROVE  ContentInv'
  <2>1. /\ type \in Gets /\ RequestRead(c, type, id) /\ cache' = fetch(cache, id)
        /\ \/ /\ exists(cache, id)
              /\ Starts(c, "request", "cacheHit")
              /\ resp' = [resp EXCEPT ![c] = [code |-> "none", got |-> fetched(cache, id)]]
              /\ Uses(id) /\ UNCHANGED <<storage, owner>>
           \/ /\ ~exists(cache, id)
              /\ CallStorage(c, "request", "get", id, "globals")
              /\ resp' = resp /\ used' = used
    BY Zenon, <1>5 DEF handleGetRequest, Gets
  <2>2. CASE exists(cache, id)
    BY Zenon, <2>1, <2>2, HitContent
  <2>3. CASE ~exists(cache, id)
    <3>1. UNCHANGED caching
      BY Zenon, <2>1, <2>3 DEF fetch, caching
    <3>2. /\ out[c]["request"] > 0 /\ req'[c].type \in Gets /\ req'[c].id = id
          /\ \A d \in Clients : d # c => req'[d] = req[d]
      BY Zenon, <1>3, <2>1
    <3>3. AnswerInv' /\ StoreGrows
      BY Zenon, <1>1, <2>1, <2>3, <3>2, AskContent
    <3>4. QED
      BY Zenon, <1>0, <3>1, <3>3, CacheSame DEF ContentInv
  <2>4. QED
    BY Zenon, <2>2, <2>3
<1>6. ASSUME NEW type \in RequestTypes, NEW id \in Ids, handleStorageQuery(c, type, id)
      PROVE  ContentInv'
  <2>1. /\ type \in {"status", "list"} /\ RequestRead(c, type, id)
        /\ CallStorage(c, "request", type, id, "globals")
        /\ resp' = resp /\ UNCHANGED caching
    BY Zenon, <1>6 DEF handleStorageQuery
  <2>2. type # "get"
    BY <2>1
  <2>3. out[c]["request"] > 0 /\ \A d \in Clients : d # c => req'[d] = req[d]
    BY Zenon, <1>3, <2>1
  <2>4. AnswerInv' /\ StoreGrows
    BY <1>1, <2>1, <2>2, <2>3, AskContent
  <2>5. QED
    BY Zenon, <1>0, <2>1, <2>4, CacheSame DEF ContentInv
<1>7. ASSUME NEW id \in Ids,
             handlePutRequest(c, id) \/ handleTestRequest(c, id) \/ handlePurgeRequest(c, id)
      PROVE  ContentInv'
  <2>1. CASE handlePutRequest(c, id)
    BY Zenon, <1>4, <2>1 DEF handlePutRequest
  <2>2. CASE handleTestRequest(c, id)
    <3>1. /\ RequestRead(c, "test", id) /\ UNCHANGED <<storage, owner, caching>>
          /\ \E code \in {"FOUND", "NOTFOUND"} : sendResponse(c, "request", code, None)
      BY Zenon, <2>2 DEF handleTestRequest
    <3>2. \E code \in Codes : sendResponse(c, "request", code, None)
      BY Zenon, <1>2, <3>1
    <3>3. QED
      BY Zenon, <1>4, <3>1, <3>2
  <2>3. CASE handlePurgeRequest(c, id)
    BY Zenon, <1>4, <2>3 DEF handlePurgeRequest
  <2>4. QED
    BY Zenon, <1>7, <2>1, <2>2, <2>3
<1>8. CASE handlePurgeLocals(c)
  <2>1. "OK" \in Codes
    BY <1>2
  <2>2. QED
    BY Zenon, <1>4, <1>8, <2>1 DEF handlePurgeLocals
<1>9. ASSUME NEW type \in RequestTypes, InvalidId(c, type) PROVE ContentInv'
  <2>1. "ERROR" \in Codes
    BY <1>2
  <2>2. QED
    BY Zenon, <1>4, <1>9, <2>1 DEF InvalidId
<1>10. CASE InvalidHeader(c)
  <2>1. /\ out[c]["request"] > 0 /\ Ends(c, "request") /\ UNCHANGED <<storage, owner, caching>>
        /\ req' = [req EXCEPT ![c] = NoRequest] /\ resp' = [resp EXCEPT ![c] = NoResponse]
    BY Zenon, <1>10 DEF InvalidHeader, Disconnect, Outstanding
  <2>2. \A d \in Clients : d # c => req'[d] = req[d]
    BY Zenon, <1>0, <2>1 DEF SessionShape
  <2>3. AnswerInv'
    BY Zenon, <1>1, <1>2, <2>1, <2>2, QuietHandler
  <2>4. QED
    BY Zenon, <1>0, <2>1, <2>3, StoreSame, CacheSame DEF ContentInv
<1>11. CASE handleAssetDataRead(c)
  <2>1. out[c]["putData"] > 0 /\ UNCHANGED <<req, caching>>
    BY Zenon, <1>11 DEF handleAssetDataRead, Outstanding
  <2>2. ASSUME NEW id \in Ids, NEW db, CallStorage(c, "putData", "put", id, db), resp' = resp
        PROVE  ContentInv'
    <3>1. AnswerInv' /\ StoreGrows
      BY Zenon, <1>1, <2>1, <2>2, AskContent
    <3>2. QED
      BY Zenon, <1>0, <2>1, <3>1, CacheSame DEF ContentInv
  <2>3. CASE sendResponse(c, "putData", "ERROR", None) /\ UNCHANGED <<storage, owner>>
    <3>1. Starts(c, "putData", "header") /\ resp' = [resp EXCEPT ![c] = [code |-> "ERROR", got |-> None]]
      BY Zenon, <2>3 DEF sendResponse
    <3>2. AnswerInv'
      BY Zenon, <1>1, <1>2, <2>1, <2>3, <3>1, QuietHandler
    <3>3. QED
      BY Zenon, <1>0, <2>1, <2>3, <3>2, StoreSame, CacheSame DEF ContentInv
  <2>4. QED
    BY Zenon, <1>11, <2>2, <2>3 DEF handleAssetDataRead
<1>12. QED
  BY Zenon, <1>5, <1>6, <1>7, <1>8, <1>9, <1>10, <1>11 DEF Requesting

\* A handler writes a response, with an asset of the request or none.
LEMMA Delivered ==
    ASSUME SessionInv, NEW c \in Clients, NEW k \in OpKinds, out[c][k] > 0,
           NEW j \in {"header", "data"}, j # k, Starts(c, k, j),
           NEW g \in Assets \cup {None}, resp'[c].got = g,
           g # None => Known(g)' /\ IdOfAsset(g)' = req'[c].id /\ req'[c].type \in Gets
    PROVE  Carries(c)' /\ Searches(c)' /\ OutIs(c, Single(j))
<1>1. j \in OpKinds /\ "mesh" \in OpKinds /\ j # "mesh"
  BY DEF OpKinds, Sockets, Callbacks
<1>2. OutIs(c, Single(j))
  BY Zenon, <1>1, OutAfter
<1>3. out'[c][j] > 0 /\ out'[c]["mesh"] = 0
  BY <1>1, <1>2, SingleIs DEF OutIs
<1>4. Delivers(c)'
  BY Zenon, <1>3 DEF Delivers
<1>5. Searches(c)'
  BY SMTT(30), <1>3 DEF Searches
<1>6. Carries(c)'
  BY Zenon, <1>4 DEF Carries, Known, IdOfAsset
<1>7. QED
  BY Zenon, <1>2, <1>5, <1>6

\* A handler that has nothing to do with the storage writes a response.
LEMMA PassedOn ==
    ASSUME SessionInv, ContentInv, NEW c \in Clients,
           NEW k \in OpKinds \ {"storage"}, out[c][k] > 0,
           NEW j \in {"header", "data"}, j # k, Starts(c, k, j),
           UNCHANGED <<storage, owner, req>>,
           resp' \in [Clients -> Responses],
           \A d \in Clients : d # c => resp'[d] = resp[d],
           NEW g \in Assets \cup {None}, resp'[c].got = g,
           g # None => Known(g) /\ IdOfAsset(g) = req[c].id /\ req[c].type \in Gets
    PROVE  AnswerInv'
<1>1. call' = call /\ req' = req
  BY Zenon DEF storage
<1>2. g # None => Known(g)' /\ IdOfAsset(g)' = req'[c].id /\ req'[c].type \in Gets
  BY Zenon, <1>1 DEF Known, IdOfAsset
<1>3. Carries(c)'
  BY Zenon, <1>2, Delivered
<1>4. j \in OpKinds \ {"mesh"}
  BY DEF OpKinds, Sockets, Callbacks
<1>5. \A d \in Clients : d # c => req'[d] = req[d] /\ resp'[d] = resp[d]
  BY Zenon, <1>1
<1>6. QED
  BY Zenon, <1>3, <1>4, <1>5, HandlerAnswers

\* The asset a session has for its client is one of its request.
LEMMA GotIs ==
    ASSUME AnswerInv, NEW c \in Clients
    PROVE  /\ resp[c].got \in Assets \cup {None}
           /\ resp[c].got # None =>
                /\ Known(resp[c].got) /\ IdOfAsset(resp[c].got) = req[c].id
                /\ req[c].type \in Gets
<1>1. resp[c] \in Responses /\ Carries(c)
  BY Zenon DEF AnswerInv
<1>2. QED
  BY <1>1 DEF Responses, Carries

\* Answering a request.
LEMMA AnsweringContent ==
    ASSUME SessionInv, ContentInv, NEW c \in Clients, Answering(c)
    PROVE  ContentInv'
<1>0. SessionShape /\ CacheInv /\ AnswerInv
  BY Zenon DEF SessionInv, ContentInv
<1>1. {"request", "cacheHit", "mesh", "header", "data"} \subseteq OpKinds \ {"storage"}
  BY DEF OpKinds, Sockets, Callbacks
<1>2. NoResponse = [code |-> "none", got |-> None] /\ {"none", "FOUND", "NOTFOUND"} \subseteq Codes
  BY DEF NoResponse, Codes
<1>3. CASE CacheHitRuns(c)
  <2>1. /\ out[c]["cacheHit"] > 0 /\ Starts(c, "cacheHit", "header")
        /\ resp' = [resp EXCEPT ![c] = [code |-> "FOUND", got |-> resp[c].got]]
        /\ UNCHANGED <<storage, owner, req, caching>>
    BY Zenon, <1>3 DEF CacheHitRuns, sendResponse, Outstanding
  <2>2. PICK g \in Assets \cup {None} :
            /\ g = resp[c].got
            /\ g # None => Known(g) /\ IdOfAsset(g) = req[c].id /\ req[c].type \in Gets
    BY Zenon, <1>0, GotIs
  <2>3. /\ resp' \in [Clients -> Responses] /\ resp'[c].got = g
        /\ \A d \in Clients : d # c => resp'[d] = resp[d]
    BY Zenon, <1>0, <1>2, <2>1, <2>2, ResponseIs
  <2>4. AnswerInv'
    BY <1>1, <2>1, <2>2, <2>3, PassedOn
  <2>5. QED
    BY Zenon, <1>0, <2>1, <2>4, StoreSame, CacheSame DEF ContentInv
<1>4. CASE MeshAnswers(c)
  <2>1. /\ out[c]["mesh"] > 0 /\ UNCHANGED <<storage, owner, req>>
        /\ \/ /\ Caches(req[c].id, req[c].id)
              /\ sendResponse(c, "mesh", "FOUND", req[c].id)
           \/ sendResponse(c, "mesh", "NOTFOUND", None) /\ UNCHANGED caching
    BY Zenon, <1>4 DEF MeshAnswers, Outstanding
  <2>2. PICK x \in Ids : x = req[c].id /\ req[c].type \in Gets
    BY Zenon, <1>0, <2>1 DEF AnswerInv, Searches
  <2>3. x \in Assets /\ x \notin Reqs /\ Known(x) /\ IdOfAsset(x) = x
    BY ConstantsAssumption DEF Assets, Known, IdOfAsset
  <2>4. StoreGrows
    BY Zenon, <1>0, <2>1, StoreSame
  <2>5. CacheInv'
    <3>1. Held(x, x)
      BY Zenon, <2>3 DEF Held
    <3>2. Held(x, x)'
      BY Zenon, <2>3, <2>4, <3>1, HeldStays
    <3>3. QED
      BY Zenon, <1>0, <2>1, <2>2, <2>3, <2>4, <3>2, CacheInsert, CacheSame
  <2>6. PICK g \in Assets \cup {None}, code \in Codes :
            /\ Starts(c, "mesh", "header") /\ (g = None \/ g = x)
            /\ resp' = [resp EXCEPT ![c] = [code |-> code, got |-> g]]
    BY Zenon, <1>2, <2>1, <2>2, <2>3 DEF sendResponse
  <2>7. /\ resp' \in [Clients -> Responses] /\ resp'[c].got = g
        /\ \A d \in Clients : d # c => resp'[d] = resp[d]
    BY Zenon, <1>0, <2>6, ResponseIs
  <2>8. g # None => Known(g) /\ IdOfAsset(g) = req[c].id /\ req[c].type \in Gets
    BY Zenon, <2>2, <2>3, <2>6
  <2>9. AnswerInv'
    BY Zenon, <1>1, <2>1, <2>6, <2>7, <2>8, PassedOn
  <2>10. QED
    BY Zenon, <2>5, <2>9 DEF ContentInv
<1>5. ASSUME NEW k \in {"header", "data"}, out[c][k] > 0, waitForRequest(c, k),
             UNCHANGED <<storage, owner, caching>>
      PROVE  ContentInv'
  <2>1. /\ Starts(c, k, "request")
        /\ req' = [req EXCEPT ![c] = NoRequest] /\ resp' = [resp EXCEPT ![c] = NoResponse]
    BY Zenon, <1>5 DEF waitForRequest
  <2>2. \A d \in Clients : d # c => req'[d] = req[d]
    BY <1>0, <2>1 DEF SessionShape
  <2>3. k \in OpKinds \ {"storage"} /\ "request" \in OpKinds \ {"mesh"} /\ "request" # k
    BY <1>1
  <2>4. \E code \in Codes : resp' = [resp EXCEPT ![c] = [code |-> code, got |-> None]]
    BY Zenon, <1>2, <2>1
  <2>5. AnswerInv'
    BY Zenon, <1>5, <2>1, <2>2, <2>3, <2>4, QuietHandler
  <2>6. QED
    BY Zenon, <1>0, <1>5, <2>5, StoreSame, CacheSame DEF ContentInv
<1>6. CASE handleResponseHeaderWrite(c)
  <2>1. /\ out[c]["header"] > 0 /\ UNCHANGED <<storage, owner, caching>>
        /\ \/ Starts(c, "header", "data") /\ UNCHANGED <<req, resp>>
           \/ waitForRequest(c, "header")
    BY <1>6 DEF handleResponseHeaderWrite, Outstanding
  <2>2. CASE Starts(c, "header", "data") /\ UNCHANGED <<req, resp>>
    <3>1. PICK g \in Assets \cup {None} :
            /\ g = resp[c].got
            /\ g # None => Known(g) /\ IdOfAsset(g) = req[c].id /\ req[c].type \in Gets
      BY Zenon, <1>0, GotIs
    <3>2. resp' \in [Clients -> Responses] /\ resp' = resp /\ resp'[c].got = g
      BY Zenon, <1>0, <2>2, <3>1 DEF AnswerInv
    <3>3. AnswerInv'
      BY Zenon, <1>1, <2>1, <2>2, <3>1, <3>2, PassedOn
    <3>4. QED
      BY Zenon, <1>0, <2>1, <3>3, StoreSame, CacheSame DEF ContentInv
  <2>3. QED
    BY Zenon, <1>5, <2>1, <2>2
<1>7. CASE handleResponseDataWrite(c)
  <2>1. /\ out[c]["data"] > 0 /\ UNCHANGED <<storage, owner, caching>>
        /\ waitForRequest(c, "data")
    BY Zenon, <1>7 DEF handleResponseDataWrite, Outstanding
  <2>2. QED
    BY <1>5, <2>1
<1>8. QED
  BY Zenon, <1>3, <1>4, <1>6, <1>7 DEF Answering

\* A handler gets an error and ends the session.
LEMMA FailureContent ==
    ASSUME SessionInv, ContentInv, NEW c \in Clients, NEW k \in Sockets,
           handleIoFailure(c, k)
    PROVE  ContentInv'
<1>1. /\ out[c][k] > 0 /\ Ends(c, k) /\ UNCHANGED <<storage, owner, caching>>
      /\ req' = [req EXCEPT ![c] = NoRequest] /\ resp' = [resp EXCEPT ![c] = NoResponse]
  BY Zenon DEF handleIoFailure, Disconnect, Outstanding
<1>2. \A d \in Clients : d # c => req'[d] = req[d]
  BY <1>1 DEF SessionInv, SessionShape
<1>3. /\ k \in OpKinds \ {"storage"} /\ "storage" \in OpKinds \ {"mesh"}
      /\ "storage" # k
  BY DEF OpKinds, Sockets, Callbacks
<1>4. \E code \in Codes : resp' = [resp EXCEPT ![c] = [code |-> code, got |-> None]]
  BY <1>1 DEF Codes, NoResponse
<1>5. AnswerInv'
  BY Zenon, <1>1, <1>2, <1>3, <1>4, QuietHandler
<1>6. QED
  BY Zenon, <1>1, <1>5, StoreSame, CacheSame DEF ContentInv

\* The storage's answer to one call leaves the others waiting for theirs.
LEMMA AnswerOthers ==
    ASSUME SessionInv, ContentInv, NEW r \in Reqs, NEW res, NEW got, Store!Answer(r, res, got),
           res \in Store!Results, UNCHANGED <<req, owner>>
    PROVE  StoreGrows /\ call' = call /\ kept' = kept /\ \A q \in Reqs : Expects(q)'
<1>1. SessionShape /\ CacheInv /\ AnswerInv
  BY Zenon DEF SessionInv, ContentInv
<1>2. /\ call' = call /\ kept' = kept /\ reply'[r] = [res |-> res, got |-> got]
      /\ \A q \in Reqs : q # r => reply'[q] = reply[q]
  BY <1>1 DEF Store!Answer, SessionShape
<1>3. ~Store!Waits(r)'
  BY <1>2 DEF Store!Waits, Store!NoReply, Store!Results
<1>4. ASSUME NEW q \in Reqs PROVE Expects(q)'
  <2>1. CASE q = r
    BY Zenon, <1>3, <2>1 DEF Expects
  <2>2. CASE q # r
    <3>1. Store!Waits(q)' <=> Store!Waits(q)
      BY Zenon, <1>2, <2>2 DEF Store!Waits, Store!NoReply
    <3>2. Expects(q)
      BY Zenon, <1>1 DEF AnswerInv
    <3>3. QED
      BY Zenon, <1>2, <3>1, <3>2 DEF Expects
  <2>3. QED
    BY Zenon, <2>1, <2>2
<1>5. StoreGrows
  BY Zenon, <1>1, <1>2 DEF StoreGrows, CacheInv
<1>6. QED
  BY Zenon, <1>2, <1>4, <1>5

\* An asset the storage answers with or has stored may be shown for its id.
LEMMA GenuineHeld ==
    ASSUME SessionShape, NEW a \in Reqs, call[a] # None,
           call[a].db = "globals" => kept[call[a].id] = a
    PROVE  /\ call[a].id \in Ids /\ a \in Assets /\ a # None
           /\ Held(call[a].id, a) /\ IdOfAsset(a) = call[a].id
<1>1. call[a].id \in Ids
  BY DEF SessionShape, Store!Call
<1>2. a \notin Ids /\ a \in Assets /\ a # None
  BY ConstantsAssumption DEF Assets
<1>3. IdOfAsset(a) = call[a].id
  BY Zenon, <1>2 DEF IdOfAsset
<1>4. QED
  BY Zenon, <1>1, <1>2, <1>3 DEF Held, Known

\* The storage's callback: the asset found goes to the session that asked for its id
\* and, with the assets that were stored, to the cache.
LEMMA AnswerContent ==
    ASSUME SessionInv, ContentInv, NEW r \in Reqs, StorageAnswers(r)
    PROVE  ContentInv'
<1>0. SessionShape /\ CacheInv /\ AnswerInv /\ CallsOwned
  BY Zenon DEF SessionInv, ContentInv
<1>1. PICK c \in Clients : c = owner[r] /\ out[c]["storage"] = 1
  BY Zenon, <1>0 DEF CallsOwned, StorageAnswers
<1>2. PICK res \in Store!Results, got \in SUBSET Reqs :
         /\ Store!Answer(r, res, got)
         /\ \/ call[r].op = "get" /\ StorageGetResponse(c, r, res, got)
            \/ call[r].op = "put" /\ StorageWriteResponse(c, r, res)
            \/ /\ call[r].op \in {"status", "list"}
               /\ sendResponse(c, "storage", "OK", None)
               /\ UNCHANGED caching
  BY Zenon, <1>1 DEF StorageAnswers
<1>3. req' = req /\ owner' = owner
  BY Zenon DEF StorageAnswers
<1>4. StoreGrows /\ call' = call /\ kept' = kept /\ \A q \in Reqs : Expects(q)'
  BY Zenon, <1>2, <1>3, AnswerOthers
<1>5. Store!Waits(r) /\ Store!Legal(r, res, got) /\ call[r] # None
  BY Zenon, <1>2 DEF Store!Answer, Store!Waits
<1>6. /\ {"storage", "header", "mesh"} \subseteq OpKinds /\ out[c]["storage"] > 0
      /\ {"FOUND", "NOTFOUND", "OK", "ERROR"} \subseteq Codes
  BY <1>1 DEF OpKinds, Sockets, Callbacks, Codes
<1>7. ASSUME NEW code \in Codes, NEW g \in Assets \cup {None},
             sendResponse(c, "storage", code, g),
             g # None => Known(g) /\ IdOfAsset(g) = req[c].id /\ req[c].type \in Gets
      PROVE  AnswerInv'
  <2>1. /\ Starts(c, "storage", "header")
        /\ resp' = [resp EXCEPT ![c] = [code |-> code, got |-> g]]
    BY Zenon, <1>7 DEF sendResponse
  <2>2. /\ resp' \in [Clients -> Responses] /\ resp'[c].got = g
        /\ \A d \in Clients : d # c => resp'[d] = resp[d]
    BY Zenon, <1>0, <2>1, ResponseIs
  <2>3. g # None => Known(g)' /\ IdOfAsset(g)' = req'[c].id /\ req'[c].type \in Gets
    BY Zenon, <1>3, <1>4, <1>7 DEF Known, IdOfAsset
  <2>4. Carries(c)' /\ Searches(c)' /\ OutIs(c, Single("header"))
    BY <1>6, <2>1, <2>2, <2>3, Delivered
  <2>5. QED
    BY Zenon, <1>0, <1>3, <1>4, <2>2, <2>4, OthersAnswers
<1>8. ASSUME NEW code \in Codes, sendResponse(c, "storage", code, None) PROVE AnswerInv'
  BY Zenon, <1>7, <1>8
<1>9. CASE call[r].op = "get" /\ StorageGetResponse(c, r, res, got)
  <2>1. req[c].type \in Gets /\ req[c].id = call[r].id
    BY Zenon, <1>0, <1>1, <1>5, <1>9 DEF AnswerInv, Expects
  <2>2. CASE res = "found"
    <3>1. PICK a \in got :
            /\ IF req[c].type = "getDontCache" THEN UNCHANGED caching
               ELSE Caches(call[a].id, a)
            /\ sendResponse(c, "storage", "FOUND", a)
      BY Zenon, <1>9, <2>2 DEF StorageGetResponse
    <3>2. PICK b \in Reqs : got = {b} /\ Store!Genuine(call[r].id, b)
      BY Zenon, <1>5, <1>9, <2>2 DEF Store!Legal
    <3>3. /\ a \in Reqs /\ call[a] # None /\ call[a].id = call[r].id
          /\ call[a].db = "globals" => kept[call[a].id] = a
      BY <3>1, <3>2 DEF Store!Genuine
    <3>4. PICK x : x = call[a].id
      OBVIOUS
    <3>5. x \in Ids /\ a \in Assets /\ a # None /\ Held(x, a) /\ IdOfAsset(a) = x
      BY Zenon, <1>0, <3>3, <3>4, GenuineHeld
    <3>6. Held(x, a)'
      BY Zenon, <1>4, <3>5, HeldStays
    <3>7. CacheInv'
      <4>1. CASE req[c].type = "getDontCache"
        BY Zenon, <1>0, <1>4, <3>1, <4>1, CacheSame
      <4>2. CASE req[c].type # "getDontCache"
        BY Zenon, <1>0, <1>4, <3>1, <3>4, <3>5, <3>6, <4>2, CacheInsert
      <4>3. QED
        BY Zenon, <4>1, <4>2
    <3>8. AnswerInv'
      <4>1. Known(a) /\ IdOfAsset(a) = req[c].id /\ a \in Assets \cup {None} /\ "FOUND" \in Codes
        <5>1. Known(a) /\ IdOfAsset(a) = req[c].id
          BY Zenon, <2>1, <3>3, <3>4, <3>5 DEF Held
        <5>2. QED
          BY <1>6, <3>5, <5>1
      <4>2. QED
        BY Zenon, <1>7, <2>1, <3>1, <4>1
    <3>9. QED
      BY Zenon, <3>7, <3>8 DEF ContentInv
  <2>3. CASE res # "found"
    <3>1. StorageGetFailed(c) /\ UNCHANGED caching
      BY Zenon, <1>9, <2>3 DEF StorageGetResponse
    <3>2. CacheInv'
      BY Zenon, <1>0, <1>4, <3>1, CacheSame
    <3>3. CASE sendResponse(c, "storage", "NOTFOUND", None)
      <4>1. "NOTFOUND" \in Codes
        BY <1>6
      <4>2. QED
        BY Zenon, <1>8, <3>2, <3>3, <4>1 DEF ContentInv
    <3>4. CASE Starts(c, "storage", "mesh") /\ resp' = resp
      <4>1. OutIs(c, Single("mesh"))
        BY Zenon, <1>6, <3>4, OutAfter
      <4>2. resp[c].got = None
        BY <1>0, <1>6, Silent
      <4>3. Carries(c)'
        BY Zenon, <3>4, <4>2 DEF Carries
      <4>4. call[r].id \in Ids
        BY <1>0, <1>5 DEF SessionShape, Store!Call
      <4>5. Searches(c)'
        BY Zenon, <1>3, <2>1, <4>4 DEF Searches
      <4>6. AnswerInv'
        BY Zenon, <1>0, <1>3, <1>4, <3>4, <4>1, <4>3, <4>5, OthersAnswers DEF AnswerInv
      <4>7. QED
        BY Zenon, <3>2, <4>6 DEF ContentInv
    <3>5. QED
      BY Zenon, <3>1, <3>3, <3>4 DEF StorageGetFailed
  <2>4. QED
    BY Zenon, <2>2, <2>3
<1>10. CASE call[r].op = "put" /\ StorageWriteResponse(c, r, res)
  <2>1. AnswerInv'
    <3>1. sendResponse(c, "storage", "OK", None) \/ sendResponse(c, "storage", "ERROR", None)
      BY <1>10 DEF StorageWriteResponse
    <3>2. "OK" \in Codes /\ "ERROR" \in Codes
      BY <1>6
    <3>3. QED
      BY Zenon, <1>8, <3>1, <3>2
  <2>2. CASE res = "ok"
    <3>1. call[r].db = "globals" => kept[call[r].id] = r
      BY Zenon, <1>5, <1>10, <2>2 DEF Store!Legal
    <3>2. PICK x : x = call[r].id
      OBVIOUS
    <3>3. x \in Ids /\ r \in Assets /\ Held(x, r)
      BY Zenon, <1>0, <1>5, <3>1, <3>2, GenuineHeld
    <3>4. Held(x, r)'
      BY Zenon, <1>4, <3>3, HeldStays
    <3>5. Caches(x, r)
      BY Zenon, <1>10, <2>2, <3>2 DEF StorageWriteResponse
    <3>6. CacheInv'
      BY Zenon, <1>0, <1>4, <3>3, <3>4, <3>5, CacheInsert
    <3>7. QED
      BY Zenon, <2>1, <3>6 DEF ContentInv
  <2>3. CASE res # "ok"
    <3>1. UNCHANGED caching
      BY Zenon, <1>10, <2>3 DEF StorageWriteResponse
    <3>2. QED
      BY Zenon, <1>0, <1>4, <2>1, <3>1, CacheSame DEF ContentInv
  <2>4. QED
    BY Zenon, <2>2, <2>3
<1>11. CASE sendResponse(c, "storage", "OK", None) /\ UNCHANGED caching
  <2>1. "OK" \in Codes
    BY <1>6
  <2>2. QED
    BY Zenon, <1>0, <1>4, <1>8, <1>11, <2>1, CacheSame DEF ContentInv
<1>12. QED
  BY Zenon, <1>2, <1>9, <1>10, <1>11

\* What the responses carry does not depend on anything else.
LEMMA AnswersSame ==
    ASSUME AnswerInv, UNCHANGED <<call, reply, out, req, resp, owner>>
    PROVE  AnswerInv'
<1>1. /\ call' = call /\ reply' = reply /\ out' = out /\ req' = req /\ resp' = resp
      /\ owner' = owner
  BY Zenon
<1>2. \A c \in Clients : Carries(c)' /\ Searches(c)'
  BY Zenon, <1>1 DEF AnswerInv, Carries, Searches, Delivers, Known, IdOfAsset
<1>3. \A r \in Reqs : Expects(r)'
  BY Zenon, <1>1 DEF AnswerInv, Expects, Store!Waits, Store!NoReply
<1>4. QED
  BY Zenon, <1>1, <1>2, <1>3 DEF AnswerInv

\* The asset of a PUT becomes durable: its id had none.
LEMMA KeepContent ==
    ASSUME SessionInv, ContentInv, NEW r \in Reqs, StorageKeeps(r)
    PROVE  ContentInv'
<1>1. SessionShape /\ CacheInv /\ AnswerInv
  BY Zenon DEF SessionInv, ContentInv
<1>2. /\ UNCHANGED <<call, reply, out, req, resp, owner>> /\ UNCHANGED caching
      /\ kept[call[r].id] = None /\ kept' = [kept EXCEPT ![call[r].id] = r]
      /\ call[r] # None
  BY Zenon DEF StorageKeeps, Store!Keep, Store!Waits
<1>3. PICK x \in Ids : x = call[r].id
  BY <1>1, <1>2 DEF SessionShape, Store!Call
<1>4. kept[x] = None /\ kept' = [kept EXCEPT ![x] = r] /\ kept \in [Ids -> Reqs \cup {None}]
  BY Zenon, <1>1, <1>2, <1>3 DEF CacheInv
<1>5. /\ kept' \in [Ids -> Reqs \cup {None}]
      /\ \A y \in Ids : kept[y] # None => kept'[y] = kept[y]
  BY <1>4
<1>6. StoreGrows
  BY Zenon, <1>2, <1>5 DEF StoreGrows
<1>7. QED
  BY Zenon, <1>1, <1>2, <1>6, CacheSame, AnswersSame DEF ContentInv

\* ContentInv holds initially.
LEMMA InitContent == Init => ContentInv
<1> SUFFICES ASSUME Init PROVE ContentInv
  BY Zenon
<1>1. /\ cache.list = <<>> /\ cache.index = {} /\ cache.counted = 0 /\ used = <<>>
      /\ cache = [list |-> <<>>, index |-> {}, counted |-> 0]
  BY DEF Init, EmptyCache
<1>2. kept \in [Ids -> Reqs \cup {None}]
  BY DEF Init, Store!Init
<1>3. <<>> \in Seq(Entry(Ids, Assets)) /\ <<>> \in Seq(Ids) /\ Len(<<>>) = 0
  BY Zenon, EmptySeq
<1>4. Sums(<<>>, [n \in 0 .. 0 |-> 0])
  BY SMTT(30), <1>3 DEF Sums
<1>5. Consistent(<<>>, {}, 0)
  <2>1. PICK t : Sums(<<>>, t) /\ t[0] = 0
    BY ZenonT(60), <1>3, <1>4 DEF Sums
  <2>2. \E s : Sums(<<>>, s) /\ 0 = s[Len(<<>>)]
    BY <1>3, <2>1
  <2>3. QED
    BY SMTT(60), <1>3, <2>2 DEF Consistent
<1>6. Sound(cache, Ids, Assets)
  BY <1>1, <1>3, <1>5 DEF Sound
<1>7. CacheInv
  BY SMTT(60), <1>1, <1>2, <1>3, <1>6, AssetsSized DEF CacheInv, InOrder, EntriesOK
<1>8. AnswerInv
  <2>1. /\ resp = [c \in Clients |-> NoResponse] /\ out = [c \in Clients |-> Nothing]
        /\ call = [r \in Reqs |-> None]
    BY DEF Init, Store!Init
  <2>2. NoResponse \in Responses /\ NoResponse.got = None
    BY DEF NoResponse, Responses, Codes
  <2>3. \A c \in Clients : Carries(c)
    BY <2>1, <2>2 DEF Carries
  <2>4. \A c \in Clients : Searches(c)
    BY <2>1 DEF Searches, Nothing, OpKinds, Callbacks
  <2>5. \A r \in Reqs : Expects(r)
    BY <2>1 DEF Expects, Store!Waits
  <2>6. QED
    BY Zenon, <2>1, <2>2, <2>3, <2>4, <2>5 DEF AnswerInv
<1>9. QED
  BY Zenon, <1>7, <1>8 DEF ContentInv

\* Every step keeps ContentInv.
LEMMA ContentStep == SessionInv /\ ContentInv /\ [Next]_vars => ContentInv'
<1> SUFFICES ASSUME SessionInv, ContentInv, [Next]_vars PROVE ContentInv'
  OBVIOUS
<1>1. ASSUME NEW c \in Clients,
             \/ Authenticating(c) \/ Requesting(c) \/ Answering(c)
             \/ \E k \in Sockets : handleIoFailure(c, k)
      PROVE  ContentInv'
  BY Zenon, <1>1, AuthenticatingContent, RequestingContent, AnsweringContent, FailureContent
<1>2. ASSUME NEW r \in Reqs, StorageAnswers(r) \/ StorageKeeps(r)
      PROVE  ContentInv'
  BY Zenon, <1>2, AnswerContent, KeepContent
<1>3. CASE UNCHANGED vars
  <2>1. UNCHANGED <<call, reply, out, req, resp, owner>> /\ UNCHANGED <<storage, caching>>
    BY Zenon, <1>3 DEF vars, storage
  <2>2. QED
    BY Zenon, <2>1, StoreSame, CacheSame, AnswersSame DEF ContentInv
<1>4. QED
  BY Zenon, <1>1, <1>2, <1>3 DEF Next

\* The sessions and the cache keep ContentInv (CSAuthenticated.cpp, AssetCache.cpp and
\* LRUCache.h).
THEOREM ContentSafety == Spec => [](SessionInv /\ ContentInv)
<1>1. Init => SessionInv /\ ContentInv
  BY InitSession, InitContent
<1>2. SessionInv /\ ContentInv /\ [Next]_vars => (SessionInv /\ ContentInv)'
  BY SessionStep, ContentStep
<1>3. QED
  BY <1>1, <1>2, PTL DEF Spec

\* A response carries an asset with the id that was asked for, whichever of the cache,
\* the storage or the mesh produced it and however the requests interleave
\* (CSAuthenticated::handleGetRequest and its callbacks).
THEOREM AnswersSafety == Spec => []AnswersItsRequest
<1>1. ContentInv => AnswersItsRequest
  BY Zenon DEF ContentInv, AnswerInv, Carries, AnswersItsRequest, Gets
<1>2. QED
  BY <1>1, ContentSafety, PTL

\* A cached asset is filed under its own id, and one that was PUT here as a global
\* asset is what the storage keeps for it (AssetCache.cpp).
THEOREM HonestSafety == Spec => []CacheHonest
<1>1. ContentInv => CacheHonest
  <2> SUFFICES ASSUME ContentInv PROVE CacheHonest
    OBVIOUS
  <2>1. DOMAIN cache.list = 1 .. Len(cache.list)
    BY LenProperties DEF ContentInv, CacheInv, Sound
  <2>2. ASSUME NEW i \in DOMAIN cache.list
        PROVE  /\ IdOfAsset(cache.list[i].data) = cache.list[i].key
               /\ cache.list[i].data \in Reqs /\ call[cache.list[i].data].db = "globals"
                     => kept[cache.list[i].key] = cache.list[i].data
    BY Zenon, <2>1 DEF ContentInv, CacheInv, EntriesOK, Held
  <2>3. QED
    BY Zenon, <2>2 DEF CacheHonest
<1>2. QED
  BY <1>1, ContentSafety, PTL

\* The list, the index and the total of the cache agree, the total stays in bounds,
\* and the list has the keys that were used last in the order of their use, for any
\* bound and any sizes (LRUCache.h).
THEOREM CacheSafety == Spec => []CacheSound
<1>1. ContentInv => CacheSound
  BY Zenon, AssetsSized, SoundAgrees DEF ContentInv, CacheInv, CacheSound
<1>2. QED
  BY <1>1, ContentSafety, PTL
=============================================================================
