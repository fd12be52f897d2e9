---------------------------- MODULE MCMeshSearch ----------------------------
(***************************************************************************)
(* Instances of MeshSearch: one or two peers, and two or three searches,   *)
(* of which some are for the same id.                                      *)
(***************************************************************************)
EXTENDS MeshSearch, TLC

CONSTANTS s1, s2, x1, x2, x3, a, b

SameId == x1 :> a @@ x2 :> a
TwoIds == x1 :> a @@ x2 :> a @@ x3 :> b

PeerSymmetry == Permutations({s1, s2})
=============================================================================
