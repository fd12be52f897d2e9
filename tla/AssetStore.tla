----------------------------- MODULE AssetStore -----------------------------
(***************************************************************************)
(* What a storage backend of the WHIP server promises its callers          *)
(* (src/whip-server/whip/IAsyncStorageBackend.h), without its threads,     *)
(* files and queues: every call is answered at most once; the first global *)
(* asset kept for an id is the id's meaning for good; a PUT is answered    *)
(* with success only if its asset is the one kept, and with a failure only *)
(* if it is not; no answer invents an asset.  VFSBackend implements it,    *)
(* and ClientSession is checked against it.                                *)
(***************************************************************************)
CONSTANTS Reqs, Ids, None

Ops == {"get", "put", "purge", "status", "list"}
Call == [op : Ops, id : Ids, db : {"globals", "locals"}]
Results == {"ok", "found", "notfound", "exists", "failed", "lost"}
NoReply == [res |-> "none", got |-> {}]

VARIABLES
    call,       \* the calls made
    reply,      \* their answers
    kept        \* the global asset kept for an id; a PUT's name is its asset

vars == <<call, reply, kept>>

Init ==
    /\ call = [r \in Reqs |-> None]
    /\ reply = [r \in Reqs |-> NoReply]
    /\ kept = [id \in Ids |-> None]

Waits(r) == call[r] # None /\ reply[r] = NoReply

Ask(r, c) ==
    /\ call[r] = None
    /\ call' = [call EXCEPT ![r] = c]
    /\ UNCHANGED <<reply, kept>>

\* The asset of a global PUT takes effect, some time before its answer.
Keep(r) ==
    /\ Waits(r)
    /\ call[r].op = "put" /\ call[r].db = "globals"
    /\ kept[call[r].id] = None
    /\ kept' = [kept EXCEPT ![call[r].id] = r]
    /\ UNCHANGED <<call, reply>>

\* An asset was PUT under the id, and if it is a global one it is the one kept.
Genuine(id, a) ==
    /\ call[a] # None /\ call[a].op = "put" /\ call[a].id = id
    /\ call[a].db = "globals" => kept[id] = a

Legal(r, res, got) ==
    \/ /\ call[r].op = "get" /\ res = "found"
       /\ \E a \in Reqs : got = {a} /\ Genuine(call[r].id, a)
    \/ /\ call[r].op = "get" /\ res \in {"notfound", "failed"} /\ got = {}
    \/ /\ call[r].op = "put" /\ res = "ok" /\ got = {}
       /\ call[r].db = "globals" => kept[call[r].id] = r
    \/ /\ call[r].op = "put" /\ res \in {"exists", "failed"} /\ got = {}
       /\ kept[call[r].id] # r
    \/ call[r].op = "status" /\ res = "ok" /\ got = {}
    \/ /\ call[r].op = "list" /\ res = "ok"
       /\ \A a \in got : \E id \in Ids : kept[id] = a

Answer(r, res, got) ==
    /\ Waits(r)
    /\ reply' = [reply EXCEPT ![r] = [res |-> res, got |-> got]]
    /\ Legal(r, res, got)
    /\ UNCHANGED <<call, kept>>

\* The process ends: what waits is not answered any more.
Lose ==
    /\ reply' = [r \in Reqs |-> IF Waits(r) THEN [res |-> "lost", got |-> {}]
                                ELSE reply[r]]
    /\ UNCHANGED <<call, kept>>

Next ==
    \/ \E r \in Reqs : call[r] = None /\ \E c \in Call : Ask(r, c)
    \/ \E r \in Reqs : Keep(r)
    \/ \E r \in Reqs : Waits(r) /\ \E res \in Results, got \in SUBSET Reqs :
                                       Answer(r, res, got)
    \/ Lose

Spec == Init /\ [][Next]_vars
=============================================================================
