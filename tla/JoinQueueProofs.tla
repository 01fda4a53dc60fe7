--------------------------- MODULE JoinQueueProofs ---------------------------
(***************************************************************************)
(* The types of JoinQueue, that no server puts a player on its boards      *)
(* twice, that a game is not overfull, that an answer of success is true,  *)
(* and that all of it together keeps the promise of Lobby.                 *)
(***************************************************************************)
EXTENDS JoinQueue, FiniteSetTheorems, TLAPS

LEMMA TypeInit == Init => TypeOK
BY JoinAssumption DEF Init, TypeOK

LEMMA TypeJoin ==
    ASSUME TypeOK, NEW p \in Player, JoinGame(p) \/ ExitGame(p)
    PROVE  TypeOK'
<1> USE DEF TypeOK, redis, join, gsync
<1>1. CASE Get(p) BY <1>1, JoinAssumption DEF Get, Admit
<1>2. CASE HSet(p) BY <1>2 DEF HSet
<1>3. CASE Poll(p) BY <1>3, JoinAssumption DEF Poll
<1>4. CASE Cancel(p) BY <1>4 DEF Cancel
<1>5. CASE ExitGame(p) BY <1>5 DEF ExitGame
<1> QED BY <1>1, <1>2, <1>3, <1>4, <1>5 DEF JoinGame

LEMMA TypeServer ==
    ASSUME TypeOK, NEW s \in Server, GSync(s) \/ Die(s)
    PROVE  TypeOK'
<1> USE DEF TypeOK, redis, join, gsync, Goto
<1>1. CASE ReadQueue(s) BY <1>1 DEF ReadQueue
<1>2. CASE AddPlayer(s) BY <1>2 DEF AddPlayer
<1>3. CASE ClearQueue(s) BY <1>3 DEF ClearQueue
<1>4. CASE ReadExitQueue(s) BY <1>4 DEF ReadExitQueue
<1>5. CASE RemovePlayer(s) BY <1>5 DEF RemovePlayer
<1>6. CASE ClearExitQueue(s) BY <1>6 DEF ClearExitQueue
<1>7. CASE Persist(s) BY <1>7 DEF Persist, On
<1>8. CASE Die(s) BY <1>8 DEF Die
<1> QED BY <1>1, <1>2, <1>3, <1>4, <1>5, <1>6, <1>7, <1>8 DEF GSync

\* Every variable of JoinQueue keeps its type, for any number of players,
\* servers and games, whichever calls fail.
THEOREM JoinTypeCorrect == Spec => []TypeOK
<1>1. TypeOK /\ [Next]_vars => TypeOK'
  <2> SUFFICES ASSUME TypeOK, [Next]_vars PROVE TypeOK'
    OBVIOUS
  <2>1. CASE UNCHANGED vars BY <2>1 DEF vars, redis, join, gsync, TypeOK
  <2> QED BY <2>1, TypeJoin, TypeServer DEF Next
<1> QED BY <1>1, TypeInit, PTL DEF Spec

-----------------------------------------------------------------------------
(* What makes a second time impossible.  A call queues its player once, so  *)
(* one that a server has handled can only be in its batch or in the queue   *)
(* it will delete.                                                          *)

\* A player that died or left does not come back to the server.
AddedOnce ==
    [][\A s \in Server : (players'[s] \ players[s]) \cap seen[s] = {}]_vars

\* What AddedOnce needs and the code does not give: a Del that fails leaves
\* the players it has added in the queue.
DeletesSucceed == \A s \in Server \cap Errors, p \in Player : Into[p] \notin Loaded[s]

\* The call has queued nobody, and will not if it was told that the game is full.
Early(p) == pc[p] \in {"get", "hset", "full"}

QueuedIsLate ==
    /\ \A p \in queue : ~Early(p)
    /\ \A s \in Server : gpc[s] = "adding" => \A p \in batch[s] : ~Early(p)

\* A player that was handled is behind the sweep of its server.
SeenIsDone ==
    \A s \in Server : players[s] \subseteq seen[s] /\ \A p \in seen[s] :
        /\ Into[p] \in Loaded[s]
        /\ ~Early(p)
        /\ gpc[s] = "adding" => p \notin batch[s]
        /\ gpc[s] # "adding" => p \notin queue

QueueInv == TypeOK /\ QueuedIsLate /\ SeenIsDone

LEMMA QueueInit == Init => QueueInv
BY TypeInit DEF Init, QueueInv, QueuedIsLate, SeenIsDone, Early

LEMMA QueueJoin ==
    ASSUME QueueInv, NEW p \in Player, JoinGame(p) \/ ExitGame(p)
    PROVE  QueuedIsLate' /\ SeenIsDone'
<1> USE DEF QueueInv, QueuedIsLate, SeenIsDone, Early, TypeOK, redis, join, gsync
<1>1. CASE Get(p) BY <1>1 DEF Get, Admit
<1>2. CASE HSet(p) BY <1>2 DEF HSet
<1>3. CASE Poll(p) BY <1>3 DEF Poll
<1>4. CASE Cancel(p) BY <1>4 DEF Cancel
<1>5. CASE ExitGame(p) BY <1>5 DEF ExitGame
<1> QED BY <1>1, <1>2, <1>3, <1>4, <1>5 DEF JoinGame

LEMMA QueueServer ==
    ASSUME QueueInv, DeletesSucceed, NEW s \in Server, GSync(s) \/ Die(s)
    PROVE  QueuedIsLate' /\ SeenIsDone'
<1> USE DEF QueueInv, QueuedIsLate, SeenIsDone, Early, TypeOK, redis, join, gsync, Goto
<1>1. CASE ReadQueue(s) BY <1>1, DeletesSucceed DEF ReadQueue, DeletesSucceed
<1>2. CASE AddPlayer(s) BY <1>2 DEF AddPlayer
<1>3. CASE ClearQueue(s) BY <1>3, DeletesSucceed DEF ClearQueue, DeletesSucceed
<1>4. CASE ReadExitQueue(s) BY <1>4 DEF ReadExitQueue
<1>5. CASE RemovePlayer(s) BY <1>5 DEF RemovePlayer
<1>6. CASE ClearExitQueue(s) BY <1>6 DEF ClearExitQueue
<1>7. CASE Persist(s) BY <1>7 DEF Persist
<1>8. CASE Die(s) BY <1>8 DEF Die
<1> QED BY <1>1, <1>2, <1>3, <1>4, <1>5, <1>6, <1>7, <1>8 DEF GSync

LEMMA QueueStep ==
    ASSUME DeletesSucceed, QueueInv, [Next]_vars
    PROVE  QueueInv'
<1>1. CASE UNCHANGED vars
  BY <1>1 DEF vars, redis, join, gsync, QueueInv, TypeOK, QueuedIsLate, SeenIsDone, Early
<1>2. CASE \E p \in Player : JoinGame(p) \/ ExitGame(p)
  BY <1>2, TypeJoin, QueueJoin DEF QueueInv
<1>3. CASE \E s \in Server : GSync(s) \/ Die(s)
  BY <1>3, TypeServer, QueueServer DEF QueueInv
<1> QED BY <1>1, <1>2, <1>3 DEF Next

\* One step of a server adds a player from its batch alone.
LEMMA AddedFromBatch ==
    ASSUME QueueInv, [Next]_vars, NEW s \in Server
    PROVE  (players'[s] \ players[s]) \cap seen[s] = {}
<1> USE DEF TypeOK, QueueInv
<1>1. CASE UNCHANGED vars BY <1>1 DEF vars, gsync
<1>2. CASE \E p \in Player : JoinGame(p) \/ ExitGame(p)
  BY <1>2 DEF JoinGame, Get, HSet, Poll, Cancel, ExitGame, gsync
<1>3. ASSUME NEW t \in Server, GSync(t) \/ Die(t)
      PROVE  (players'[s] \ players[s]) \cap seen[s] = {}
  <2>1. CASE AddPlayer(t) BY <2>1 DEF AddPlayer, SeenIsDone
  <2>2. CASE RemovePlayer(t) BY <2>2 DEF RemovePlayer
  <2>3. CASE Die(t) BY <2>3 DEF Die
  <2>4. CASE UNCHANGED players BY <2>4
  <2> QED BY <1>3, <2>1, <2>2, <2>3, <2>4
      DEF GSync, ReadQueue, ClearQueue, ReadExitQueue, ClearExitQueue, Persist
<1> QED BY <1>1, <1>2, <1>3 DEF Next

\* With servers whose calls succeed where a game is loaded, a player that died
\* or left never comes back, for any number of servers that read and delete
\* the queues of the others as a whole.
THEOREM PlayersAreAddedOnce ==
    ASSUME DeletesSucceed
    PROVE  Spec => AddedOnce
<1>1. QueueInv /\ [Next]_vars => QueueInv'
  BY QueueStep
<1>2. QueueInv /\ [Next]_vars =>
        [\A s \in Server : (players'[s] \ players[s]) \cap seen[s] = {}]_vars
  BY AddedFromBatch
<1> QED BY <1>1, <1>2, QueueInit, PTL DEF Spec, AddedOnce

-----------------------------------------------------------------------------
(* Room in a game.  Whoever is around once had room, and a call that finds  *)
(* room in a game that is not crowded has counted all that are around.      *)

RoomInv == \A g \in Game \ crowded : Cardinality(On(g, Around)) <= MaxPlayers

LEMMA AroundFinite ==
    ASSUME TypeOK, NEW g \in Game
    PROVE  /\ IsFiniteSet(On(g, Around)) /\ Cardinality(On(g, Around)) \in Nat
           /\ IsFiniteSet(saved[g]) /\ Cardinality(saved[g]) \in Nat
<1>1. On(g, Around) \subseteq Player /\ saved[g] \subseteq Player
  BY DEF TypeOK, On, Around
<1> QED
  BY <1>1, JoinAssumption, FS_Subset, FS_CardinalityType

LEMMA OneMore ==
    ASSUME NEW S, IsFiniteSet(S), NEW x
    PROVE  /\ IsFiniteSet(S \cup {x}) /\ Cardinality(S \cup {x}) \in Nat
           /\ Cardinality(S \cup {x}) <= Cardinality(S) + 1
<1>1. Cardinality(S) \in Nat
  BY FS_CardinalityType
<1> QED BY <1>1, FS_AddElement, FS_CardinalityType

\* Nobody comes near a board but through a call that found room.
LEMMA RoomShrinks ==
    ASSUME TypeOK, RoomInv, Around' \subseteq Around, crowded' = crowded
    PROVE  RoomInv'
<1> SUFFICES ASSUME NEW g \in Game \ crowded
             PROVE  Cardinality(On(g, Around)') <= MaxPlayers
  BY DEF RoomInv
<1>1. On(g, Around)' \subseteq On(g, Around)
  BY DEF On
<1>2. Cardinality(On(g, Around)') <= Cardinality(On(g, Around))
      /\ Cardinality(On(g, Around)') \in Nat
  BY <1>1, AroundFinite, FS_Subset, FS_CardinalityType
<1> QED
  BY <1>2, AroundFinite, JoinAssumption DEF RoomInv

LEMMA RoomFound ==
    ASSUME TypeOK, RoomInv, NEW p \in Player, Get(p)
    PROVE  RoomInv'
<1> USE DEF TypeOK, redis, gsync
<1>1. CASE crowded' = crowded /\ pc'[p] # "hset"
  <2>1. Around' \subseteq Around
    BY <1>1 DEF Get, Admit, Around
  <2> QED BY <1>1, <2>1, RoomShrinks
<1>2. CASE Admit(p, TRUE) /\ MaxPlayers >= Cardinality(saved[Into[p]]) + 1
  <2>1. Around' \subseteq Around \cup {p}
    BY <1>2 DEF Get, Admit, Around
  <2> SUFFICES ASSUME NEW g \in Game \ crowded'
               PROVE  Cardinality(On(g, Around)') <= MaxPlayers
    BY DEF RoomInv
  <2>2. g \notin crowded
    BY <1>2 DEF Admit
  <2>3. CASE g # Into[p]
    <3>1. On(g, Around)' \subseteq On(g, Around)
      BY <2>1, <2>3 DEF On
    <3>2. Cardinality(On(g, Around)') <= Cardinality(On(g, Around))
          /\ Cardinality(On(g, Around)') \in Nat
      BY <3>1, AroundFinite, FS_Subset, FS_CardinalityType
    <3> QED BY <3>2, <2>2, AroundFinite, JoinAssumption DEF RoomInv
  <2>4. CASE g = Into[p]
    <3>1. On(g, Around) \subseteq saved[g]
      BY <1>2, <2>4 DEF Admit
    <3>2. On(g, Around)' \subseteq saved[g] \cup {p}
      BY <2>1, <3>1 DEF On
    <3>3. IsFiniteSet(saved[g] \cup {p})
          /\ Cardinality(saved[g] \cup {p}) <= Cardinality(saved[g]) + 1
          /\ Cardinality(saved[g] \cup {p}) \in Nat
      BY AroundFinite, OneMore
    <3>4. Cardinality(On(g, Around)') <= Cardinality(saved[g] \cup {p})
          /\ Cardinality(On(g, Around)') \in Nat
      BY <3>2, <3>3, FS_Subset, FS_CardinalityType
    <3> QED BY <1>2, <2>4, <3>3, <3>4, AroundFinite, JoinAssumption
  <2> QED BY <2>3, <2>4
<1> QED BY <1>1, <1>2 DEF Get, Admit

LEMMA RoomServer ==
    ASSUME TypeOK, NEW s \in Server, GSync(s) \/ Die(s)
    PROVE  Around' \subseteq Around /\ crowded' = crowded
<1> USE DEF TypeOK, Around, redis, join, gsync, Goto
<1>1. CASE ReadQueue(s) BY <1>1 DEF ReadQueue
<1>2. CASE AddPlayer(s) BY <1>2 DEF AddPlayer
<1>3. CASE ClearQueue(s) BY <1>3 DEF ClearQueue
<1>4. CASE ReadExitQueue(s) BY <1>4 DEF ReadExitQueue
<1>5. CASE RemovePlayer(s) BY <1>5 DEF RemovePlayer
<1>6. CASE ClearExitQueue(s) BY <1>6 DEF ClearExitQueue
<1>7. CASE Persist(s) BY <1>7 DEF Persist
<1>8. CASE Die(s) BY <1>8 DEF Die
<1> QED BY <1>1, <1>2, <1>3, <1>4, <1>5, <1>6, <1>7, <1>8 DEF GSync

LEMMA RoomCall ==
    ASSUME TypeOK, NEW p \in Player, HSet(p) \/ Poll(p) \/ Cancel(p) \/ ExitGame(p)
    PROVE  Around' \subseteq Around /\ crowded' = crowded
<1> USE DEF TypeOK, Around, redis, join, gsync
<1>1. CASE HSet(p) BY <1>1 DEF HSet
<1>2. CASE Poll(p) BY <1>2 DEF Poll
<1>3. CASE Cancel(p) BY <1>3 DEF Cancel
<1>4. CASE ExitGame(p) BY <1>4 DEF ExitGame
<1> QED BY <1>1, <1>2, <1>3, <1>4

LEMMA RoomInit == Init => RoomInv
<1> SUFFICES ASSUME Init, NEW g \in Game PROVE Cardinality(On(g, Around)) <= MaxPlayers
  BY DEF RoomInv
<1>1. On(g, Around) = {}
  BY DEF Init, On, Around
<1> QED BY <1>1, FS_EmptySet, JoinAssumption

LEMMA RoomStep ==
    ASSUME TypeOK, RoomInv, [Next]_vars
    PROVE  RoomInv'
<1>1. CASE UNCHANGED vars
  <2>1. Around' = Around /\ crowded' = crowded
    BY <1>1 DEF vars, redis, join, gsync, Around
  <2> QED BY <2>1, RoomShrinks
<1>2. CASE \E p \in Player : JoinGame(p) \/ ExitGame(p)
  BY <1>2, RoomFound, RoomCall, RoomShrinks DEF JoinGame
<1>3. CASE \E s \in Server : GSync(s) \/ Die(s)
  BY <1>3, RoomServer, RoomShrinks
<1> QED BY <1>1, <1>2, <1>3 DEF Next

\* No game has more players than slots unless two calls saw the same saved
\* board, for any number of players, games and servers, even if several of them
\* have the game, and whichever calls fail.
THEOREM RoomIsKept == Spec => []RoomKept
<1>1. TypeOK /\ RoomInv => RoomKept
  <2> SUFFICES ASSUME TypeOK, RoomInv, NEW g \in Game \ crowded
               PROVE  Cardinality(On(g, UNION {players[s] : s \in Server})) <= MaxPlayers
    BY DEF RoomKept
  <2> DEFINE Here == On(g, UNION {players[s] : s \in Server})
  <2>1. Here \subseteq On(g, Around)
    BY DEF On, Around
  <2>2. Cardinality(Here) <= Cardinality(On(g, Around)) /\ Cardinality(Here) \in Nat
    BY <2>1, AroundFinite, FS_Subset, FS_CardinalityType
  <2> QED BY <2>2, AroundFinite, JoinAssumption DEF RoomInv
<1> QED BY <1>1, RoomInit, RoomStep, JoinTypeCorrect, PTL DEF Spec

-----------------------------------------------------------------------------
(* Success.  As long as a call waits its entry is in the queue, and an      *)
(* entry leaves the queue through a server that has added it, or unread.    *)

SuccessInv ==
    \A p \in Player \ (Errors \cup unread) :
        pc[p] \in {"wait", "joined", "left"} =>
            \/ pc[p] = "wait" /\ p \in queue
            \/ \E s \in Server : p \in seen[s]

LEMMA SuccessCall ==
    ASSUME TypeOK, SuccessInv, NEW p \in Player, JoinGame(p) \/ ExitGame(p)
    PROVE  SuccessInv'
<1> USE DEF TypeOK, SuccessInv, redis, join, gsync
<1>1. CASE Get(p) BY <1>1 DEF Get, Admit
<1>2. CASE HSet(p) BY <1>2 DEF HSet
<1>3. CASE Poll(p) BY <1>3 DEF Poll
<1>4. CASE Cancel(p) BY <1>4 DEF Cancel
<1>5. CASE ExitGame(p) BY <1>5 DEF ExitGame
<1> QED BY <1>1, <1>2, <1>3, <1>4, <1>5 DEF JoinGame

LEMMA SuccessServer ==
    ASSUME TypeOK, SuccessInv, NEW s \in Server, GSync(s) \/ Die(s)
    PROVE  SuccessInv'
<1> USE DEF TypeOK, SuccessInv, redis, join, gsync, Goto
<1>1. CASE ReadQueue(s) BY <1>1 DEF ReadQueue
<1>2. CASE AddPlayer(s) BY <1>2 DEF AddPlayer
<1>3. CASE ClearQueue(s) BY <1>3 DEF ClearQueue
<1>4. CASE ReadExitQueue(s) BY <1>4 DEF ReadExitQueue
<1>5. CASE RemovePlayer(s) BY <1>5 DEF RemovePlayer
<1>6. CASE ClearExitQueue(s) BY <1>6 DEF ClearExitQueue
<1>7. CASE Persist(s) BY <1>7 DEF Persist
<1>8. CASE Die(s) BY <1>8 DEF Die
<1> QED BY <1>1, <1>2, <1>3, <1>4, <1>5, <1>6, <1>7, <1>8 DEF GSync

LEMMA SuccessStep ==
    ASSUME TypeOK, SuccessInv, [Next]_vars
    PROVE  SuccessInv'
<1>1. CASE UNCHANGED vars
  BY <1>1 DEF vars, redis, join, gsync, SuccessInv
<1> QED BY <1>1, SuccessCall, SuccessServer DEF Next

\* Who is told of a success has been on a board, for any number of players and
\* servers, unless a poll failed or the entry was deleted by a server that had
\* not added it.
THEOREM SuccessHolds == Spec => []SuccessIsTrue
<1>1. Init => SuccessInv
  BY DEF Init, SuccessInv
<1>2. SuccessInv => SuccessIsTrue
  BY DEF SuccessInv, SuccessIsTrue
<1> QED BY <1>1, <1>2, SuccessStep, JoinTypeCorrect, PTL DEF Spec

-----------------------------------------------------------------------------
(* The refinement of Lobby.                                                 *)

\* A game is loaded by one server: what Failover is about.
OneHome == \A s, t \in Server : Loaded[s] \cap Loaded[t] # {} => s = t

Here == UNION {players[s] : s \in Server}
Been == UNION {seen[s] : s \in Server}
Doubtful == (Errors \cap Player) \cup unread

LobbyInv == QueueInv /\ RoomInv /\ SuccessInv

LEMMA Tells ==
    ASSUME TypeOK, NEW p \in Player, NEW l, pc' = [pc EXCEPT ![p] = l]
    PROVE  /\ Answer' = [Answer EXCEPT ![p] = Told(l)]
           /\ Answer[p] = Told(pc[p])
BY DEF Answer, TypeOK

\* A step of a call tells its caller something, or nobody anything.
LEMMA LobbyCall ==
    ASSUME LobbyInv, NEW p \in Player, JoinGame(p) \/ ExitGame(p)
    PROVE  [Promise!Next]_(Promise!vars)
<1> USE DEF LobbyInv, QueueInv, TypeOK, Here, Been
<1>1. Here' = Here /\ Been' = Been /\ Doubtful' = Doubtful
  BY DEF JoinGame, Get, HSet, Poll, Cancel, ExitGame, gsync, Doubtful
<1>2. ASSUME NEW l, pc' = [pc EXCEPT ![p] = l], Told(l) = Told(pc[p]), crowded \subseteq crowded'
      PROVE  Promise!Doubt
  <2>1. Answer' = Answer
    BY <1>2, Tells DEF Answer
  <2> QED
    BY <1>1, <1>2, <2>1 DEF Promise!Doubt, Doubtful
<1>3. ASSUME NEW l, pc' = [pc EXCEPT ![p] = l], Told(pc[p]) = "none", crowded' = crowded,
             \/ Told(l) = "joined" /\ p \in Been \cup Doubtful
             \/ Told(l) = "full" /\ p \notin Been
             \/ Told(l) = "sorry"
      PROVE  Promise!Tell(p)
  <2>1. Answer[p] = "none" /\ Answer' = [Answer EXCEPT ![p] = Told(l)]
    BY <1>3, Tells
  <2> QED
    BY <1>1, <1>3, <2>1 DEF Promise!Tell, Doubtful
<1>4. CASE Get(p)
  <2>1. p \notin Been /\ Told(pc[p]) = "none"
    BY <1>4 DEF Get, Told, SeenIsDone, Early
  <2>2. \/ pc' = [pc EXCEPT ![p] = "hset"] /\ crowded \subseteq crowded'
        \/ pc' = [pc EXCEPT ![p] = "full"] /\ crowded' = crowded
        \/ pc' = [pc EXCEPT ![p] = "failed"] /\ crowded' = crowded
    BY <1>4 DEF Get, Admit
  <2>3. Told("hset") = "none" /\ Told("full") = "full" /\ Told("failed") = "sorry"
    BY DEF Told
  <2> QED
    BY <1>2, <1>3, <2>1, <2>2, <2>3 DEF Promise!Next
<1>5. CASE HSet(p)
  <2>1. /\ Told(pc[p]) = "none" /\ crowded' = crowded
        /\ \/ pc' = [pc EXCEPT ![p] = "wait"]
           \/ pc' = [pc EXCEPT ![p] = "failed"]
    BY <1>5 DEF HSet, Told
  <2>2. Told("wait") = "none" /\ Told("failed") = "sorry"
    BY DEF Told
  <2> QED
    BY <1>2, <1>3, <2>1, <2>2 DEF Promise!Next
<1>6. CASE Poll(p)
  <2>1. p \notin queue \/ p \in Errors => p \in Been \cup Doubtful
    BY <1>6 DEF Poll, SuccessInv, Doubtful
  <2>2. /\ Told(pc[p]) = "none" /\ crowded' = crowded
        /\ \/ pc' = [pc EXCEPT ![p] = "joined"] /\ (p \notin queue \/ p \in Errors)
           \/ pc' = [pc EXCEPT ![p] = "wait"]
           \/ pc' = [pc EXCEPT ![p] = "cancel"]
    BY <1>6 DEF Poll, Told
  <2>3. Told("joined") = "joined" /\ Told("wait") = "none" /\ Told("cancel") = "none"
    BY DEF Told
  <2> QED
    BY <1>2, <1>3, <2>1, <2>2, <2>3 DEF Promise!Next
<1>7. CASE Cancel(p)
  <2>1. /\ Told(pc[p]) = "none" /\ crowded' = crowded
        /\ pc' = [pc EXCEPT ![p] = "timeout"] /\ Told("timeout") = "sorry"
    BY <1>7 DEF Cancel, Told
  <2> QED
    BY <1>3, <2>1 DEF Promise!Next
<1>8. CASE ExitGame(p)
  <2>1. /\ Told(pc[p]) = "joined" /\ crowded' = crowded
        /\ \/ pc' = [pc EXCEPT ![p] = "left"]
           \/ pc' = [pc EXCEPT ![p] = "joined"]
    BY <1>8 DEF ExitGame, Told
  <2>2. Told("left") = "joined" /\ Told("joined") = "joined"
    BY DEF Told
  <2> QED
    BY <1>2, <2>1, <2>2 DEF Promise!Next
<1> QED
  BY <1>4, <1>5, <1>6, <1>7, <1>8 DEF JoinGame

\* A player that is added was never on a board, and finds room.
LEMMA LobbyComes ==
    ASSUME LobbyInv, OneHome, NEW s \in Server, NEW p \in batch[s], gpc[s] = "adding",
           Into[p] \in Loaded[s]
    PROVE  /\ p \in Player /\ p \notin Been /\ Answer[p] # "full"
           /\ \/ Into[p] \in crowded
              \/ Cardinality({q \in Here : Into[q] = Into[p]}) < MaxPlayers
<1> USE DEF LobbyInv, QueueInv, TypeOK
<1>1. p \in Player /\ ~Early(p)
  BY DEF QueuedIsLate
<1>2. p \notin Been
  <2>1. \A t \in Server : p \in seen[t] => t = s
    BY JoinAssumption DEF SeenIsDone, OneHome
  <2> QED
    BY <2>1 DEF Been, SeenIsDone
<1>3. Answer[p] # "full"
  BY <1>1 DEF Answer, Told, Early
<1>4. ASSUME Into[p] \notin crowded
      PROVE  Cardinality({q \in Here : Into[q] = Into[p]}) < MaxPlayers
  <2> DEFINE S == {q \in Here : Into[q] = Into[p]}
             A == On(Into[p], Around)
  <2>1. p \notin S
    BY <1>2 DEF Here, Been, SeenIsDone
  <2>2. S \cup {p} \subseteq A
    BY <1>1 DEF Here, On, Around
  <2>3. Into[p] \in Game
    BY <1>1, JoinAssumption
  <2>4. IsFiniteSet(A) /\ Cardinality(A) \in Nat /\ Cardinality(A) <= MaxPlayers
    BY <1>4, <2>3, AroundFinite DEF RoomInv
  <2> HIDE DEF S, A
  <2>5. IsFiniteSet(S \cup {p}) /\ Cardinality(S \cup {p}) <= Cardinality(A)
        /\ IsFiniteSet(S) /\ Cardinality(S) \in Nat /\ Cardinality(S \cup {p}) \in Nat
    BY <2>2, <2>4, FS_Subset, FS_CardinalityType
  <2>6. Cardinality(S \cup {p}) = Cardinality(S) + 1
    BY <2>1, <2>5, FS_AddElement
  <2>7. Cardinality(S) < MaxPlayers
    BY <2>4, <2>5, <2>6, JoinAssumption
  <2> QED
    BY <2>7 DEF S
<1> QED
  BY <1>1, <1>2, <1>3, <1>4

\* Who leaves the board of its game is on no other.
LEMMA LobbyGoes ==
    ASSUME LobbyInv, OneHome, NEW s \in Server, NEW p \in players[s],
           players' = [players EXCEPT ![s] = @ \ {p}]
    PROVE  p \in Player /\ Here' = Here \ {p}
<1> USE DEF LobbyInv, QueueInv, TypeOK
<1>1. \A t \in Server : p \in players[t] => t = s
  BY JoinAssumption DEF SeenIsDone, OneHome
<1> QED
  BY <1>1 DEF Here

\* The two modules count alike.
LEMMA SameCount ==
    ASSUME NEW S
    PROVE  Promise!Cardinality(S) = Cardinality(S)
BY DEF Promise!Cardinality, Cardinality

LEMMA LobbyServer ==
    ASSUME LobbyInv, OneHome, NEW s \in Server, GSync(s) \/ Die(s)
    PROVE  [Promise!Next]_(Promise!vars)
<1> USE DEF LobbyInv, QueueInv, TypeOK, Here, Been
<1>1. Answer' = Answer /\ crowded' = crowded
  BY DEF GSync, ReadQueue, AddPlayer, ClearQueue, ReadExitQueue, RemovePlayer, ClearExitQueue,
         Persist, Die, join, Answer
<1>2. ASSUME Here' = Here, Been' = Been, Doubtful \subseteq Doubtful'
      PROVE  Promise!Doubt
  BY <1>1, <1>2 DEF Promise!Doubt, Doubtful
<1>3. ASSUME NEW p \in players[s], players' = [players EXCEPT ![s] = @ \ {p}],
             UNCHANGED <<seen, unread>>
      PROVE  \E q \in Player : Promise!Go(q)
  <2>1. p \in Player /\ Here' = Here \ {p}
    <3> HIDE DEF LobbyInv, Here
    <3> QED
      BY <1>3, LobbyGoes
  <2>2. Been' = Been /\ Doubtful' = Doubtful
    BY <1>3 DEF Doubtful
  <2> QED
    BY <1>1, <2>1, <2>2 DEF Promise!Go, Doubtful
<1>4. CASE AddPlayer(s)
  <2>1. PICK p \in batch[s] :
           IF Into[p] \in Loaded[s]
           THEN /\ players' = [players EXCEPT ![s] = @ \cup {p}]
                /\ seen' = [seen EXCEPT ![s] = @ \cup {p}]
           ELSE UNCHANGED <<players, seen>>
    BY <1>4 DEF AddPlayer
  <2>2. gpc[s] = "adding" /\ unread' = unread
    BY <1>4 DEF AddPlayer
  <2>3. CASE Into[p] \in Loaded[s]
    <3>1. Here' = Here \cup {p} /\ Been' = Been \cup {p}
      BY <2>1, <2>3
    <3>2. /\ p \in Player /\ p \notin Been /\ Answer[p] # "full"
          /\ \/ Into[p] \in crowded
             \/ Cardinality({q \in Here : Into[q] = Into[p]}) < MaxPlayers
      <4> HIDE DEF LobbyInv, Here, Been
      <4> QED
        BY <2>2, <2>3, LobbyComes
    <3>3. Promise!Come(p)
      BY <1>1, <2>2, <3>1, <3>2, SameCount DEF Promise!Come
    <3> QED
      BY <3>2, <3>3 DEF Promise!Next
  <2>4. CASE Into[p] \notin Loaded[s]
    BY <1>2, <2>1, <2>2, <2>4 DEF Promise!Next, Doubtful
  <2> QED
    BY <2>3, <2>4
<1>5. CASE RemovePlayer(s)
  <2>1. PICK p \in batch[s] : players' = [players EXCEPT ![s] = @ \ {p}]
    BY <1>5 DEF RemovePlayer
  <2>2. UNCHANGED <<seen, unread>>
    BY <1>5 DEF RemovePlayer
  <2>3. CASE p \in players[s]
    BY <1>3, <2>1, <2>2, <2>3 DEF Promise!Next
  <2>4. CASE p \notin players[s]
    <3>1. players' = players
      BY <2>1, <2>4
    <3> QED
      BY <1>2, <2>2, <3>1 DEF Promise!Next, Doubtful
  <2> QED
    BY <2>3, <2>4
<1>6. CASE Die(s)
  BY <1>3, <1>6 DEF Die, Promise!Next
<1>7. CASE ReadQueue(s) \/ ClearQueue(s) \/ ReadExitQueue(s) \/ ClearExitQueue(s) \/ Persist(s)
  <2>1. UNCHANGED <<players, seen>> /\ unread \subseteq unread'
    BY <1>7 DEF ReadQueue, ClearQueue, ReadExitQueue, ClearExitQueue, Persist
  <2> QED
    BY <1>2, <2>1 DEF Promise!Next, Doubtful
<1> QED
  BY <1>4, <1>5, <1>6, <1>7 DEF GSync

\* Joins, exits, deaths and the passes of the servers over the queues keep the
\* promise of Lobby, for any number of players, games and servers, if a game is
\* loaded by one server and deleting the queue does not fail there.
THEOREM JoiningIsLobby ==
    ASSUME DeletesSucceed, OneHome
    PROVE  Spec => LobbySpec
<1>1. Init => Promise!Init
  <2> SUFFICES ASSUME Init PROVE Promise!Init
    OBVIOUS
  <2>1. Answer = [p \in Player |-> "none"]
    BY DEF Init, Answer, Told
  <2> QED
    BY <2>1 DEF Init, Promise!Init
<1>2. Init => LobbyInv
  BY QueueInit, RoomInit DEF Init, LobbyInv, SuccessInv
<1>3. LobbyInv /\ [Next]_vars => LobbyInv'
  BY QueueStep, RoomStep, SuccessStep DEF LobbyInv, QueueInv
<1>4. LobbyInv /\ [Next]_vars => [Promise!Next]_(Promise!vars)
  <2> SUFFICES ASSUME LobbyInv, [Next]_vars PROVE [Promise!Next]_(Promise!vars)
    OBVIOUS
  <2>1. CASE UNCHANGED vars
    BY <2>1 DEF vars, join, gsync, Promise!vars, Answer
  <2> QED
    BY <2>1, LobbyCall, LobbyServer DEF Next
<1>5. Spec => Promise!Init /\ [][Promise!Next]_(Promise!vars)
  BY <1>1, <1>2, <1>3, <1>4, PTL DEF Spec
<1> QED
  BY <1>5 DEF LobbySpec, Promise!Spec
=============================================================================
