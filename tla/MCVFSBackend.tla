---------------------------- MODULE MCVFSBackend ----------------------------
(* Small instances of VFSBackend for TLC. *)
EXTENDS VFSBackend, TLC

CONSTANTS r1, r2, r3, i1

MCReqs == {r1, r2, r3}
MCReqsTwo == {r1, r2}
ReqSymmetry == Permutations(MCReqs)
\* Only one id, in the last of the directories.
MCIdsOne == {i1}
MCHeadOfLast == i1 :> (NHeads - 1)
=============================================================================
