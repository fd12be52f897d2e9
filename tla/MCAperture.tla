----------------------------- MODULE MCAperture -----------------------------
(***************************************************************************)
(* Instances of Aperture: two connections, two assets and one cap.         *)
(***************************************************************************)
EXTENDS Aperture, TLC

CONSTANTS viewer, sim, i1, i2, k1

Request(op) == [op |-> op, cap |-> k1, id |-> i1, limit |-> None, range |-> TRUE,
                close |-> FALSE]

Range416 == [Request("asset") EXCEPT !.range = FALSE, !.close = TRUE]
AssetB == [Request("asset") EXCEPT !.id = i2]

\* One client is a viewer, which also sends several requests at once.  The other
\* one manages the cap, and asks for an asset, too.
Viewer == {<<Request("asset")>>, <<AssetB, Request("asset")>>, <<Range416>>,
           <<Request("refused"), Request("bad")>>}
Simulator == {<<Request(op)>> : op \in {"asset", "add", "rem", "pause", "resume"}}
               \cup {<<[Request("limit") EXCEPT !.limit = n]>> : n \in {0, 2}}
               \cup {<<[Request("add") EXCEPT !.limit = Junk]>>}

MCBatches == viewer :> Viewer @@ sim :> Simulator
MCSizeOf == i1 :> 3 @@ i2 :> 1
=============================================================================
