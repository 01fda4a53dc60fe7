------------------------------- MODULE Lobby -------------------------------
(***************************************************************************)
(* What joining a game promises, whatever lies between the players and the *)
(* boards: a player comes onto the board of its game once, while there is  *)
(* room, and is told of a success only if it has; who is told that a game  *)
(* is full never comes.  A call that ends without a result promises        *)
(* nothing: its player may come later.                                     *)
(***************************************************************************)
EXTENDS Naturals, FiniteSets

CONSTANTS
    Player,
    Into,       \* Into[p]: the game p joins
    MaxPlayers

VARIABLES
    answer,     \* answer[p]: what the call of p was told, "none" while it was not
    here,       \* players on a board
    been,       \* players that were on a board
    crowded,    \* games that may be overfull
    doubtful    \* players that may be told of a success they do not have

vars == <<answer, here, been, crowded, doubtful>>

Init ==
    /\ answer = [p \in Player |-> "none"]
    /\ here = {} /\ been = {} /\ crowded = {}
    /\ doubtful \subseteq Player

Tell(p) ==
    /\ answer[p] = "none"
    /\ \/ p \in been \cup doubtful /\ answer' = [answer EXCEPT ![p] = "joined"]
       \/ p \notin been /\ answer' = [answer EXCEPT ![p] = "full"]
       \/ answer' = [answer EXCEPT ![p] = "sorry"]
    /\ UNCHANGED <<here, been, crowded, doubtful>>

Come(p) ==
    /\ p \notin been
    /\ answer[p] # "full"
    /\ Into[p] \in crowded \/ Cardinality({q \in here : Into[q] = Into[p]}) < MaxPlayers
    /\ here' = here \cup {p}
    /\ been' = been \cup {p}
    /\ UNCHANGED <<answer, crowded, doubtful>>

Go(p) ==
    /\ here' = here \ {p}
    /\ UNCHANGED <<answer, been, crowded, doubtful>>

\* Two calls find the same room, or an entry is dropped.
Doubt ==
    /\ crowded \subseteq crowded'
    /\ doubtful \subseteq doubtful'
    /\ UNCHANGED <<answer, here, been>>

Next ==
    \/ \E p \in Player : Tell(p) \/ Come(p) \/ Go(p)
    \/ Doubt

Spec == Init /\ [][Next]_vars
=============================================================================
