---------------------------- MODULE MCGameServer ----------------------------
(***************************************************************************)
(* Instances of GameServer for TLC.                                        *)
(***************************************************************************)
EXTENDS GameServer, TLC

CONSTANTS s1, s2, g1, p1, p2, w1, w2

\* A client that only walks, and one that rings at a player.
Walks(p) == [game |-> g1, user |-> p, ring |-> FALSE, hits |-> {}]
Rings(p, q) == [game |-> g1, user |-> p, ring |-> TRUE, hits |-> {q}]

DistinctDraw == [s \in Session |-> IF s = s1 THEN {1} ELSE {2}]
OneMove == [s \in Session |-> {Walks(p1)}]
RingOrBadKey == [s \in Session |-> IF s = s1 THEN {Rings(p1, p2)} ELSE {Walks(BadKey)}]
NoPairs == {}
OneArrives == {<<p1, g1>>}
OneDeparts == {<<p1, g1>>}
OneGame == {{g1}}
MayLoseGame == {{g1}, {}}
OneSaved == g1 :> {p1 :> FALSE}
\* p1 may not have been taken from the queue when the board was saved.
BothSaved == g1 :> {p1 :> FALSE @@ p2 :> FALSE, p2 :> FALSE}

WorkerSymmetry == Permutations(Worker)
=============================================================================
