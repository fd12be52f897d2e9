--------------------------- MODULE MCClientSession ---------------------------
(***************************************************************************)
(* Instances of ClientSession: two clients, two ids, and assets of which   *)
(* one is too large for the cache.                                         *)
(***************************************************************************)
EXTENDS ClientSession, TLC

CONSTANTS c1, c2, r1, r2, a, b

MCSizeOf == r1 :> 1 @@ r2 :> 3 @@ a :> 1 @@ b :> 1

ClientSymmetry == Permutations({c1, c2}) \cup Permutations({a, b})
=============================================================================
