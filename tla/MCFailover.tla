----------------------------- MODULE MCFailover -----------------------------
(***************************************************************************)
(* Instances of Failover for TLC.                                          *)
(***************************************************************************)
EXTENDS Failover, TLC

CONSTANTS a, b, c, o1, o2, g1, g2

HomeOfNone == [g \in {} |-> None]
HomeOfOne == g1 :> a
HomeOfTwo == g1 :> a @@ g2 :> a
=============================================================================
