------------------------------ MODULE JoinQueue ------------------------------
(***************************************************************************)
(* How a player gets onto a board and off it: JoinGame and ExitGame in the *)
(* orchestrators put it on one of two hashes in Redis, which every         *)
(* gameserver reads and then deletes as a whole.  One step per call to     *)
(* Redis.  Which games a server has is fixed here, and moves in Failover.  *)
(***************************************************************************)
EXTENDS Integers, FiniteSets

CONSTANTS
    Player,         \* one JoinGame call each: the ids come from a counter
    Leaving,        \* players that call ExitGame once they have joined
    Game,
    Into,           \* Into[p]: the game p joins
    MaxPlayers,     \* of every game
    Timeout,        \* GameJoinTimeoutSec, in polls
    Server,
    Loaded,         \* Loaded[s]: the games of the server s
    Errors          \* players and servers whose calls to Redis may fail,
                    \* after they took effect or not

ASSUME JoinAssumption ==
    /\ IsFiniteSet(Player)
    /\ Leaving \subseteq Player
    /\ Into \in [Player -> Game]
    /\ MaxPlayers \in Nat /\ Timeout \in Nat
    /\ Loaded \in [Server -> SUBSET Game]
    /\ Errors \subseteq Player \cup Server

VARIABLES
    queue,      \* the players on game:queue, each with its game
    exitqueue,  \* the same for game:exitqueue
    saved,      \* saved[g]: the players in the board stored at game:{g}
    pc,         \* pc[p]: where the calls of p are
    checkCount, \* checkCount[p]: polls left before the timeout
    crowded,    \* games a call found room in while a player of theirs that was
                \* not in the saved board was on its way or playing (history)
    gpc,        \* gpc[s]: where the gsync loop of s is
    batch,      \* batch[s]: entries read and not yet handled
    players,    \* players[s]: the players on the boards of s
    seen,       \* seen[s]: those that ever were (history)
    unread      \* players whose entry was deleted by a server that had not
                \* added them (history)

redis == <<queue, exitqueue, saved>>
join == <<pc, checkCount, crowded>>
gsync == <<gpc, batch, players, seen, unread>>
vars == <<redis, join, gsync>>

On(g, ps) == {p \in ps : Into[p] = g}

\* Players on a board, and those that may come onto one.
Around ==
    {p \in Player : pc[p] = "hset"} \cup queue \cup
        UNION {players[s] \cup (IF gpc[s] = "adding" THEN batch[s] ELSE {}) : s \in Server}

Init ==
    /\ queue = {}
    /\ exitqueue = {}
    /\ saved = [g \in Game |-> {}]
    /\ pc = [p \in Player |-> "get"]
    /\ checkCount = [p \in Player |-> Timeout]
    /\ crowded = {}
    /\ gpc = [s \in Server |-> "add"]
    /\ batch = [s \in Server |-> {}]
    /\ players = [s \in Server |-> {}]
    /\ seen = [s \in Server |-> {}]
    /\ unread = {}

-----------------------------------------------------------------------------
(* JoinGame and ExitGame for the player p.                                  *)

Admit(p, room) ==
    /\ pc' = [pc EXCEPT ![p] = IF room THEN "hset" ELSE "full"]
    /\ crowded' = IF room /\ ~(On(Into[p], Around) \subseteq saved[Into[p]])
                  THEN crowded \cup {Into[p]} ELSE crowded

\* Mutated: the player that joins is not counted.
GetUncounted(p) ==
    /\ pc[p] = "get"
    /\ \/ Admit(p, MaxPlayers >= Cardinality(saved[Into[p]]))
       \/ p \in Errors /\ pc' = [pc EXCEPT ![p] = "failed"] /\ UNCHANGED crowded
    /\ UNCHANGED <<redis, checkCount, gsync>>

\* The saved board says whether there is room.
Get(p) ==
    /\ pc[p] = "get"
    /\ \/ Admit(p, MaxPlayers >= Cardinality(saved[Into[p]]) + 1)
       \/ p \in Errors /\ pc' = [pc EXCEPT ![p] = "failed"] /\ UNCHANGED crowded
    /\ UNCHANGED <<redis, checkCount, gsync>>

HSet(p) ==
    /\ pc[p] = "hset"
    /\ \/ /\ queue' = queue \cup {p}
          /\ pc' = [pc EXCEPT ![p] = "wait"]
       \/ /\ p \in Errors
          /\ queue' \in {queue, queue \cup {p}}
          /\ pc' = [pc EXCEPT ![p] = "failed"]
    /\ UNCHANGED <<exitqueue, saved, checkCount, crowded, gsync>>

\* Mutated: the polls are not counted.
PollUncounted(p) ==
    /\ pc[p] = "wait"
    /\ IF p \in queue THEN UNCHANGED pc
       ELSE pc' = [pc EXCEPT ![p] = "joined"]
    /\ UNCHANGED <<redis, checkCount, crowded, gsync>>

\* Mutated: one poll too many.
PollPastZero(p) ==
    /\ pc[p] = "wait"
    /\ \/ /\ p \notin queue \/ p \in Errors
          /\ pc' = [pc EXCEPT ![p] = "joined"]
          /\ UNCHANGED checkCount
       \/ /\ p \in queue
          /\ checkCount' = [checkCount EXCEPT ![p] = @ - 1]
          /\ pc' = [pc EXCEPT ![p] = IF checkCount[p] < 0 THEN "cancel" ELSE "wait"]
    /\ UNCHANGED <<redis, crowded, gsync>>

\* Mutated: the loop ends when the time is up, and nothing is looked at.
PollTimesOut(p) ==
    /\ pc[p] = "wait"
    /\ \/ /\ p \notin queue \/ p \in Errors \/ checkCount[p] <= 0
          /\ pc' = [pc EXCEPT ![p] = "joined"]
          /\ UNCHANGED checkCount
       \/ /\ p \in queue
          /\ checkCount[p] > 0
          /\ checkCount' = [checkCount EXCEPT ![p] = @ - 1]
          /\ UNCHANGED pc
    /\ UNCHANGED <<redis, crowded, gsync>>

\* Once a second: is the player still queued?  When HExists fails it answers
\* no, and that is looked at before the error.
Poll(p) ==
    /\ pc[p] = "wait"
    /\ \/ /\ p \notin queue \/ p \in Errors
          /\ pc' = [pc EXCEPT ![p] = "joined"]
          /\ UNCHANGED checkCount
       \/ /\ p \in queue
          /\ checkCount[p] > 0
          /\ checkCount' = [checkCount EXCEPT ![p] = @ - 1]
          /\ UNCHANGED pc
       \/ /\ p \in queue
          /\ checkCount[p] <= 0
          /\ pc' = [pc EXCEPT ![p] = "cancel"]
          /\ UNCHANGED checkCount
    /\ UNCHANGED <<redis, crowded, gsync>>

Cancel(p) ==
    /\ pc[p] = "cancel"
    /\ \/ queue' = queue \ {p}
       \/ p \in Errors /\ UNCHANGED queue
    /\ pc' = [pc EXCEPT ![p] = "timeout"]
    /\ UNCHANGED <<exitqueue, saved, checkCount, crowded, gsync>>

JoinGame(p) == Get(p) \/ HSet(p) \/ Poll(p) \/ Cancel(p)

ExitGame(p) ==
    /\ p \in Leaving
    /\ pc[p] = "joined"
    /\ \/ /\ exitqueue' = exitqueue \cup {p}
          /\ pc' = [pc EXCEPT ![p] = "left"]
       \/ /\ p \in Errors
          /\ exitqueue' \in {exitqueue, exitqueue \cup {p}}
          /\ UNCHANGED pc
    /\ UNCHANGED <<queue, saved, checkCount, crowded, gsync>>

-----------------------------------------------------------------------------
(* addPlayers, removePlayers and the persisting of the server s.            *)

Goto(s, l) == gpc' = [gpc EXCEPT ![s] = l]

ReadQueue(s) ==
    /\ gpc[s] = "add"
    /\ \/ batch' = [batch EXCEPT ![s] = queue] /\ Goto(s, "adding")
       \/ s \in Errors /\ Goto(s, "remove") /\ UNCHANGED batch
    /\ UNCHANGED <<redis, join, players, seen, unread>>

\* Players whose game is not loaded are passed over.
AddPlayer(s) ==
    /\ gpc[s] = "adding"
    /\ \E p \in batch[s] :
          /\ batch' = [batch EXCEPT ![s] = @ \ {p}]
          /\ IF Into[p] \in Loaded[s]
             THEN /\ players' = [players EXCEPT ![s] = @ \cup {p}]
                  /\ seen' = [seen EXCEPT ![s] = @ \cup {p}]
             ELSE UNCHANGED <<players, seen>>
    /\ UNCHANGED <<redis, join, gpc, unread>>

\* Mutated: the queue is not deleted.
ClearNothing(s) ==
    /\ gpc[s] = "adding"
    /\ batch[s] = {}
    /\ Goto(s, "remove")
    /\ UNCHANGED <<redis, join, batch, players, seen, unread>>

\* The whole queue is deleted, whatever it holds by now.
ClearQueue(s) ==
    /\ gpc[s] = "adding"
    /\ batch[s] = {}
    /\ \/ queue' = {} /\ unread' = unread \cup (queue \ seen[s])
       \/ s \in Errors /\ UNCHANGED <<queue, unread>>
    /\ Goto(s, "remove")
    /\ UNCHANGED <<exitqueue, saved, join, batch, players, seen>>

ReadExitQueue(s) ==
    /\ gpc[s] = "remove"
    /\ \/ batch' = [batch EXCEPT ![s] = exitqueue] /\ Goto(s, "removing")
       \/ s \in Errors /\ Goto(s, "persist") /\ UNCHANGED batch
    /\ UNCHANGED <<redis, join, players, seen, unread>>

RemovePlayer(s) ==
    /\ gpc[s] = "removing"
    /\ \E p \in batch[s] :
          /\ batch' = [batch EXCEPT ![s] = @ \ {p}]
          /\ players' = [players EXCEPT ![s] = @ \ {p}]
    /\ UNCHANGED <<redis, join, gpc, seen, unread>>

ClearExitQueue(s) ==
    /\ gpc[s] = "removing"
    /\ batch[s] = {}
    /\ \/ exitqueue' = {}
       \/ s \in Errors /\ UNCHANGED exitqueue
    /\ Goto(s, "persist")
    /\ UNCHANGED <<queue, saved, join, batch, players, seen, unread>>

\* Every board is saved, but for those whose Set fails.
Persist(s) ==
    /\ gpc[s] = "persist"
    /\ \E kept \in IF s \in Errors THEN SUBSET Loaded[s] ELSE {Loaded[s]} :
          saved' = [g \in Game |-> IF g \in kept THEN On(g, players[s]) ELSE saved[g]]
    /\ Goto(s, "add")
    /\ UNCHANGED <<queue, exitqueue, join, batch, players, seen, unread>>

GSync(s) ==
    \/ ReadQueue(s) \/ AddPlayer(s) \/ ClearQueue(s) \/ ReadExitQueue(s)
    \/ RemovePlayer(s) \/ ClearExitQueue(s) \/ Persist(s)

\* A player loses the game: Respond takes it off the board.
Die(s) ==
    /\ \E p \in players[s] : players' = [players EXCEPT ![s] = @ \ {p}]
    /\ UNCHANGED <<redis, join, gpc, batch, seen, unread>>

-----------------------------------------------------------------------------
Next ==
    \/ \E p \in Player : JoinGame(p) \/ ExitGame(p)
    \/ \E s \in Server : GSync(s) \/ Die(s)

Spec == Init /\ [][Next]_vars

\* A call goes on polling.  Nothing is asked of the servers: none may be up.
Fairness == \A p \in Player : WF_vars(JoinGame(p))

FairSpec == Spec /\ Fairness

-----------------------------------------------------------------------------
TypeOK ==
    /\ queue \subseteq Player
    /\ exitqueue \subseteq Player
    /\ saved \in [Game -> SUBSET Player]
    /\ pc \in [Player -> {"get", "hset", "wait", "cancel", "joined", "left",
                          "timeout", "full", "failed"}]
    /\ checkCount \in [Player -> 0 .. Timeout]
    /\ crowded \subseteq Game
    /\ gpc \in [Server -> {"add", "adding", "remove", "removing", "persist"}]
    /\ batch \in [Server -> SUBSET Player]
    /\ players \in [Server -> SUBSET Player]
    /\ seen \in [Server -> SUBSET Player]
    /\ unread \subseteq Player

\* Every JoinGame call is answered, whether or not a gameserver is up.
JoinEnds == \A p \in Player : []<>(pc[p] \notin {"get", "hset", "wait", "cancel"})

\* "Game full, no available slots.": a game has never more players than it has
\* slots, as long as no call found room on a saved board that lacked a player;
\* whatever fails, dies, leaves or is queued a second time meanwhile.
RoomKept ==
    \A g \in Game \ crowded :
        Cardinality(On(g, UNION {players[s] : s \in Server})) <= MaxPlayers

\* A player is told of a success only when it has been put on a board, unless
\* a poll of its call failed, or its entry was deleted by a server that had not
\* added it: the timeout and the passes of the other servers do not matter.
SuccessIsTrue ==
    \A p \in Player \ (Errors \cup unread) :
        pc[p] \in {"joined", "left"} => \E s \in Server : p \in seen[s]

\* "checks if the player has been handled (taken out of the queue)": who is
\* told to have joined has been put on a board.
JoinedWasAdded ==
    \A p \in Player : pc[p] = "joined" => \E s \in Server : p \in seen[s]

-----------------------------------------------------------------------------
\* What the caller has been told when its call is at l.
Told(l) ==
    CASE l \in {"joined", "left"} -> "joined"
      [] l = "full" -> "full"
      [] l \in {"timeout", "failed"} -> "sorry"
      [] OTHER -> "none"

Answer == [p \in Player |-> Told(pc[p])]

Promise ==
    INSTANCE Lobby WITH answer <- Answer,
                        here <- UNION {players[s] : s \in Server},
                        been <- UNION {seen[s] : s \in Server},
                        doubtful <- (Errors \cap Player) \cup unread

\* What the calls, the queues and the passes of the servers do together is what
\* Lobby promises: an entry that several servers read and delete as a whole, next
\* to joins, exits and deaths, puts its player on a board once and never again, and
\* a call that was told "Game full" has left nothing behind.
LobbySpec == Promise!Spec
=============================================================================
