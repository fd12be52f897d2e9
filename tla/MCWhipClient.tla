---------------------------- MODULE MCWhipClient ----------------------------
(***************************************************************************)
(* Two calls on a WhipClient: GETs that may share a request, with or       *)
(* without a callback, or another request.                                 *)
(***************************************************************************)
EXTENDS WhipClient, TLC

CONSTANTS c1, c2, i1, i2

Plan(op, id) == [op |-> op, id |-> id]
MCPlans ==
    c1 :> {Plan("async", i1), Plan("other", i2)}
      @@ c2 :> {Plan("get", i1), Plan("async", i1), Plan("other", i2)}
=============================================================================
