----------------------------- MODULE MCJoinQueue -----------------------------
(***************************************************************************)
(* Instances of JoinQueue for TLC.                                         *)
(***************************************************************************)
EXTENDS JoinQueue, TLC

CONSTANTS p1, p2, g1, g2, s1, s2

IntoOne == [p \in Player |-> g1]
OneEach == s1 :> {g1} @@ s2 :> {g2}
OneServer == s1 :> {g1}
=============================================================================
