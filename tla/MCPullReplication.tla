------------------------- MODULE MCPullReplication -------------------------
(* Instances of PullReplication. *)
EXTENDS PullReplication

\* Two assets, and a prefix without one.
MCHoldsGap == << <<"a", "b">>, <<>> >>
============================================================================
