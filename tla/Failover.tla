------------------------------ MODULE Failover ------------------------------
(***************************************************************************)
(* Who handles which game: the gsync loop of the gameservers, and in the   *)
(* orchestrators CreateGame and the failover controller (FOController).    *)
(* They share nothing but Redis, and take one step per call to it.         *)
(*                                                                         *)
(* The timers are the TTLs of three keys: a key expires when it pleases,   *)
(* within what the constants Lagging and Expiring allow.                   *)
(***************************************************************************)
EXTENDS Integers, FiniteSets

CONSTANTS
    Server,     \* gameserver processes, each with the id it drew at its start
    Orch,       \* orchestrator processes, as failover controllers
    Game,
    New,        \* games that a CreateGame call may create, the others exist
    Home,       \* Home[g]: the server that handles the existing game g
    Mortal,     \* servers and orchestrators that may crash
    Lagging,    \* servers whose heartbeat may be late
    Expiring,   \* games whose lifetime may end
    Errors,     \* a call to Redis may fail, after it took effect or not
    None

Caller == Orch \cup New

ASSUME ProcessAssumption ==
    /\ IsFiniteSet(Server)
    /\ Orch \cap Game = {}
    /\ None \notin Server \cup Orch \cup Game
ASSUME GameAssumption ==
    /\ IsFiniteSet(Game)
    /\ New \subseteq Game
    /\ Home \in [Game \ New -> Server]
ASSUME FaultAssumption == Errors \in BOOLEAN

VARIABLES
    index,      \* gserver:index:games: the servers whose map is listed
    games,      \* games[s]: the keys of gserver:{s}:games
    addr,       \* servers with a key gserver:{s}:addr
    stored,     \* stored[g]: whether game:{g} exists, and with a TTL
    holder,     \* orchestrator:focontroller
    spc,        \* spc[s]: where the server s is in the gsync loop
    boards,     \* boards[s]: the games loaded
    buf,        \* buf[s]: boardBuf of syncBoardStates
    todo,       \* todo[s]: games the current loop of s has yet to visit
    missing,    \* missing[s]: the game s has just failed to find
    pc,         \* pc[c]: where the caller c is
    list,       \* list[o]: servers FindUnhandledGameMaps has yet to visit
    dead,       \* dead[o]: unhandled servers ReallocateGames has yet to visit
    cur,        \* cur[o]: the server being emptied
    moving,     \* moving[o]: its games that are yet to be allocated
    item,       \* item[c]: the game being allocated
    cand,       \* cand[c]: servers whose load is yet to be read
    best        \* best[c]: curKey and curLoad of AllocateGame

redis == <<index, games, addr, stored, holder>>
server == <<spc, boards, buf, todo, missing>>
controller == <<list, dead, cur, moving>>
allocation == <<item, cand, best>>
vars == <<redis, server, pc, controller, allocation>>

NoServer == [key |-> None, load |-> -1]

Init ==
    /\ index = Server
    /\ games = [s \in Server |-> {g \in DOMAIN Home : Home[g] = s}]
    /\ addr = Server
    /\ stored = [g \in Game |-> IF g \in New THEN "none" ELSE "ttl"]
    /\ holder = None
    /\ spc = [s \in Server |-> "beat"]
    /\ boards = games
    /\ buf = [s \in Server |-> {}]
    /\ todo = [s \in Server |-> {}]
    /\ missing = [s \in Server |-> None]
    /\ pc = [c \in Caller |-> IF c \in Orch THEN "lease" ELSE "create"]
    /\ list = [o \in Orch |-> {}]
    /\ dead = [o \in Orch |-> {}]
    /\ cur = [c \in Caller |-> None]
    /\ moving = [o \in Orch |-> {}]
    /\ item = [c \in Caller |-> IF c \in New THEN c ELSE None]
    /\ cand = [c \in Caller |-> {}]
    /\ best = [c \in Caller |-> NoServer]

-----------------------------------------------------------------------------
(* The gsync loop of the server s.                                          *)

\* The heartbeat; a failed Set is logged and the pass goes on.
Beat(s) ==
    /\ spc[s] = "beat"
    /\ \/ addr' = addr \cup {s}
       \/ Errors /\ UNCHANGED addr
    /\ spc' = [spc EXCEPT ![s] = "persist"]
    /\ todo' = [todo EXCEPT ![s] = boards[s]]
    /\ UNCHANGED <<index, games, stored, holder, boards, buf, missing, pc,
                   controller, allocation>>

\* Set with KeepTTL: a key that is not there is created, with no TTL.
Persist(s) ==
    /\ spc[s] = "persist"
    /\ \E g \in todo[s] :
          /\ todo' = [todo EXCEPT ![s] = @ \ {g}]
          /\ \/ stored' = [stored EXCEPT ![g] = IF @ = "none" THEN "kept" ELSE @]
             \/ Errors /\ UNCHANGED stored
    /\ UNCHANGED <<index, games, addr, holder, spc, boards, buf, missing, pc,
                   controller, allocation>>

Ask(s) ==
    /\ spc[s] = "persist"
    /\ todo[s] = {}
    /\ \/ /\ todo' = [todo EXCEPT ![s] = games[s]]
          /\ spc' = [spc EXCEPT ![s] = "index"]
       \/ /\ Errors
          /\ spc' = [spc EXCEPT ![s] = "beat"]
          /\ UNCHANGED todo
    /\ UNCHANGED <<redis, boards, buf, missing, pc, controller, allocation>>

Index(s) ==
    /\ spc[s] = "index"
    /\ \/ /\ index' = index \cup {s}
          /\ spc' = [spc EXCEPT ![s] = "load"]
          /\ UNCHANGED todo
       \/ /\ Errors
          /\ spc' = [spc EXCEPT ![s] = "beat"]
          /\ todo' = [todo EXCEPT ![s] = {}]
          /\ index' \in {index, index \cup {s}}
    /\ UNCHANGED <<games, addr, stored, holder, boards, buf, missing, pc,
                   controller, allocation>>

\* A loaded game is kept as it is, one that is not is read from Redis.
Load(s) ==
    /\ spc[s] = "load"
    /\ \E g \in todo[s] :
          /\ todo' = [todo EXCEPT ![s] = @ \ {g}]
          /\ \/ /\ g \in boards[s] \/ stored[g] # "none"
                /\ buf' = [buf EXCEPT ![s] = @ \cup {g}]
                /\ UNCHANGED <<spc, missing>>
             \/ /\ g \notin boards[s] /\ stored[g] = "none"
                /\ spc' = [spc EXCEPT ![s] = "forget"]
                /\ missing' = [missing EXCEPT ![s] = g]
                /\ UNCHANGED buf
             \/ /\ g \notin boards[s] /\ Errors
                /\ UNCHANGED <<spc, buf, missing>>
    /\ UNCHANGED <<redis, boards, pc, controller, allocation>>

\* Mutated: the map is left as it is.
ForgetNothing(s) ==
    /\ spc[s] = "forget"
    /\ spc' = [spc EXCEPT ![s] = "load"]
    /\ missing' = [missing EXCEPT ![s] = None]
    /\ UNCHANGED <<redis, boards, buf, todo, pc, controller, allocation>>

\* A game that does not exist any more is taken off the map.
Forget(s) ==
    /\ spc[s] = "forget"
    /\ \/ games' = [games EXCEPT ![s] = @ \ {missing[s]}]
       \/ Errors /\ UNCHANGED games
    /\ spc' = [spc EXCEPT ![s] = "load"]
    /\ missing' = [missing EXCEPT ![s] = None]
    /\ UNCHANGED <<index, addr, stored, holder, boards, buf, todo, pc,
                   controller, allocation>>

Swap(s) ==
    /\ spc[s] = "load"
    /\ todo[s] = {}
    /\ boards' = [boards EXCEPT ![s] = buf[s]]
    /\ buf' = [buf EXCEPT ![s] = {}]
    /\ spc' = [spc EXCEPT ![s] = "beat"]
    /\ UNCHANGED <<redis, todo, missing, pc, controller, allocation>>

\* The process ends; the next one draws another id.
Crash(s) ==
    /\ s \in Mortal
    /\ spc[s] # "down"
    /\ spc' = [spc EXCEPT ![s] = "down"]
    /\ boards' = [boards EXCEPT ![s] = {}]
    /\ buf' = [buf EXCEPT ![s] = {}]
    /\ todo' = [todo EXCEPT ![s] = {}]
    /\ missing' = [missing EXCEPT ![s] = None]
    /\ UNCHANGED <<redis, pc, controller, allocation>>

GSync(s) ==
    Beat(s) \/ Persist(s) \/ Ask(s) \/ Index(s) \/ Load(s) \/ Forget(s) \/ Swap(s)

-----------------------------------------------------------------------------
(* AllocateGame, called for the game item[c].                               *)

Goto(c, l) == pc' = [pc EXCEPT ![c] = l]

\* Where the caller goes on: an orchestrator with the next game, or after a
\* failure with the next server.
Returns(c) == Goto(c, IF c \in Orch THEN "pick" ELSE "done")
Fails(c) ==
    /\ Goto(c, IF c \in Orch THEN "fetch" ELSE "failed")
    /\ moving' = [o \in Orch |-> IF o = c THEN {} ELSE moving[o]]

\* Mutated: the server that is being emptied is a candidate as well.
AllocateAnywhere(c) ==
    /\ pc[c] = "allocate"
    /\ \/ /\ cand' = [cand EXCEPT ![c] = index]
          /\ Goto(c, "measure")
          /\ UNCHANGED moving
       \/ Errors /\ Fails(c) /\ UNCHANGED cand
    /\ UNCHANGED <<redis, server, list, dead, cur, item, best>>

Allocate(c) ==
    /\ pc[c] = "allocate"
    /\ \/ /\ cand' = [cand EXCEPT ![c] = index \ {cur[c]}]
          /\ Goto(c, "measure")
          /\ UNCHANGED moving
       \/ Errors /\ Fails(c) /\ UNCHANGED cand
    /\ UNCHANGED <<redis, server, list, dead, cur, item, best>>

\* The candidates in any order; the first empty one will do.
Measure(c) ==
    /\ pc[c] = "measure"
    /\ \E s \in cand[c] :
          LET load == Cardinality(games[s]) IN
          \/ /\ best[c].load < 0 \/ load < best[c].load
             /\ best' = [best EXCEPT ![c] = [key |-> s, load |-> load]]
             /\ cand' = [cand EXCEPT ![c] = IF load = 0 THEN {} ELSE @ \ {s}]
          \/ /\ (best[c].load >= 0 /\ load >= best[c].load) \/ Errors
             /\ cand' = [cand EXCEPT ![c] = @ \ {s}]
             /\ UNCHANGED best
    /\ UNCHANGED <<redis, server, pc, controller, item>>

\* Mutated: the best server so far is kept for the next game.
PlaceKeepingBest(c) ==
    /\ pc[c] = "measure"
    /\ cand[c] = {}
    /\ LET placed == [games EXCEPT ![best[c].key] = @ \cup {item[c]}] IN
       \/ best[c] # NoServer /\ games' = placed /\ Returns(c) /\ UNCHANGED moving
       \/ best[c] # NoServer /\ Errors /\ games' \in {games, placed} /\ Fails(c)
       \/ best[c] = NoServer /\ UNCHANGED games /\ Fails(c)
    /\ item' = [item EXCEPT ![c] = None]
    /\ UNCHANGED <<index, addr, stored, holder, server, list, dead, cur, cand, best>>

\* The game goes to the best server; without one the call fails.
Place(c) ==
    /\ pc[c] = "measure"
    /\ cand[c] = {}
    /\ LET placed == [games EXCEPT ![best[c].key] = @ \cup {item[c]}] IN
       \/ best[c] # NoServer /\ games' = placed /\ Returns(c) /\ UNCHANGED moving
       \/ best[c] # NoServer /\ Errors /\ games' \in {games, placed} /\ Fails(c)
       \/ best[c] = NoServer /\ UNCHANGED games /\ Fails(c)
    /\ best' = [best EXCEPT ![c] = NoServer]
    /\ item' = [item EXCEPT ![c] = None]
    /\ UNCHANGED <<index, addr, stored, holder, server, list, dead, cur, cand>>

AllocateGame(c) == Allocate(c) \/ Measure(c) \/ Place(c)

\* CreateGame, past its checks: the game is stored with its lifetime and
\* then allocated.
Create(c) ==
    /\ c \in New
    /\ pc[c] = "create"
    /\ \/ /\ stored' = [stored EXCEPT ![c] = "ttl"]
          /\ Goto(c, "allocate")
       \/ /\ Errors
          /\ stored' \in {stored, [stored EXCEPT ![c] = "ttl"]}
          /\ Goto(c, "failed")
    /\ UNCHANGED <<index, games, addr, holder, server, controller, allocation>>

-----------------------------------------------------------------------------
(* The failover controller of the orchestrator o.                           *)

\* SetNX, whose result is ignored ...
Lease(o) ==
    /\ pc[o] = "lease"
    /\ holder' \in {IF holder = None THEN o ELSE holder}
                     \cup IF Errors THEN {holder} ELSE {}
    /\ Goto(o, "check")
    /\ UNCHANGED <<index, games, addr, stored, server, controller, allocation>>

\* ... and Get: only the holder goes on.
Check(o) ==
    /\ pc[o] = "check"
    /\ \/ holder = o /\ Goto(o, "list")
       \/ (holder # o \/ Errors) /\ Goto(o, "lease")
    /\ UNCHANGED <<redis, server, controller, allocation>>

List(o) ==
    /\ pc[o] = "list"
    /\ \E keys \in {index} \cup IF Errors THEN {{}} ELSE {} :
          /\ list' = [list EXCEPT ![o] = keys]
          /\ Goto(o, IF keys = {} THEN "lease" ELSE "find")
    /\ UNCHANGED <<redis, server, dead, cur, moving, allocation>>

\* Mutated: any listed server is taken for dead.
FindAny(o) ==
    /\ pc[o] = "find"
    /\ \E s \in list[o] :
          /\ list' = [list EXCEPT ![o] = @ \ {s}]
          /\ dead' = [dead EXCEPT ![o] = @ \cup {s}]
          /\ Goto(o, IF list[o] = {s} THEN "fetch" ELSE "find")
    /\ UNCHANGED <<redis, server, cur, moving, allocation>>

\* A server without an address is unhandled.
Find(o) ==
    /\ pc[o] = "find"
    /\ \E s \in list[o] :
          /\ list' = [list EXCEPT ![o] = @ \ {s}]
          /\ \/ s \notin addr /\ dead' = [dead EXCEPT ![o] = @ \cup {s}]
             \/ (s \in addr \/ Errors) /\ UNCHANGED dead
          /\ Goto(o, IF list[o] = {s} THEN "fetch" ELSE "find")
    /\ UNCHANGED <<redis, server, cur, moving, allocation>>

\* ReallocateGames: the next unhandled server, and its games.
Fetch(o) ==
    /\ pc[o] = "fetch"
    /\ \E s \in dead[o] :
          /\ dead' = [dead EXCEPT ![o] = @ \ {s}]
          /\ \/ /\ cur' = [cur EXCEPT ![o] = s]
                /\ moving' = [moving EXCEPT ![o] = games[s]]
                /\ Goto(o, "pick")
             \/ Errors /\ UNCHANGED <<pc, cur, moving>>
    /\ UNCHANGED <<redis, server, list, allocation>>

Pick(o) ==
    /\ pc[o] = "pick"
    /\ \E g \in moving[o] :
          /\ item' = [item EXCEPT ![o] = g]
          /\ moving' = [moving EXCEPT ![o] = @ \ {g}]
    /\ Goto(o, "allocate")
    /\ UNCHANGED <<redis, server, list, dead, cur, cand, best>>

\* Mutated: the map leaves the index while games of it are to be allocated.
SRemEarly(o) ==
    /\ pc[o] = "pick"
    /\ \/ index' = index \ {cur[o]} /\ Goto(o, "del")
       \/ Errors /\ Goto(o, "fetch") /\ index' \in {index, index \ {cur[o]}}
    /\ UNCHANGED <<games, addr, stored, holder, server, controller, allocation>>

\* Every game has been allocated: the map leaves the index ...
SRem(o) ==
    /\ pc[o] = "pick"
    /\ moving[o] = {}
    /\ \/ index' = index \ {cur[o]} /\ Goto(o, "del")
       \/ Errors /\ Goto(o, "fetch") /\ index' \in {index, index \ {cur[o]}}
    /\ UNCHANGED <<games, addr, stored, holder, server, controller, allocation>>

\* ... and is deleted.
Del(o) ==
    /\ pc[o] = "del"
    /\ \/ games' = [games EXCEPT ![cur[o]] = {}]
       \/ Errors /\ UNCHANGED games
    /\ Goto(o, "fetch")
    /\ UNCHANGED <<index, addr, stored, holder, server, controller, allocation>>

EndPass(o) ==
    /\ pc[o] = "fetch"
    /\ dead[o] = {}
    /\ cur' = [cur EXCEPT ![o] = None]
    /\ Goto(o, "lease")
    /\ UNCHANGED <<redis, server, list, dead, moving, allocation>>

FOController(o) ==
    \/ Lease(o) \/ Check(o) \/ List(o) \/ Find(o) \/ Fetch(o) \/ Pick(o)
    \/ SRem(o) \/ Del(o) \/ EndPass(o)

\* A crashed orchestrator does not come back: one that does is another one.
CrashOrch(o) ==
    /\ o \in Mortal
    /\ pc[o] # "down"
    /\ Goto(o, "down")
    /\ list' = [list EXCEPT ![o] = {}]
    /\ dead' = [dead EXCEPT ![o] = {}]
    /\ cur' = [cur EXCEPT ![o] = None]
    /\ moving' = [moving EXCEPT ![o] = {}]
    /\ item' = [item EXCEPT ![o] = None]
    /\ cand' = [cand EXCEPT ![o] = {}]
    /\ best' = [best EXCEPT ![o] = NoServer]
    /\ UNCHANGED <<redis, server>>

-----------------------------------------------------------------------------
(* The TTLs.                                                                *)

\* The steps of a pass in which the orchestrator acts as the FOController.
Acting(o) ==
    pc[o] \in {"list", "find", "fetch", "pick", "allocate", "measure", "del"}

AddrExpires(s) ==
    /\ s \in addr
    /\ spc[s] = "down" \/ s \in Lagging
    /\ addr' = addr \ {s}
    /\ UNCHANGED <<index, games, stored, holder, server, pc, controller, allocation>>

GameExpires(g) ==
    /\ g \in Expiring
    /\ stored[g] = "ttl"
    /\ stored' = [stored EXCEPT ![g] = "none"]
    /\ UNCHANGED <<index, games, addr, holder, server, pc, controller, allocation>>

\* Mutated: the lease is set with no TTL.
LeaseStays == FALSE /\ UNCHANGED vars

\* The lease is never renewed: it ends when its time is up, in the middle of
\* a pass of its holder as well.
LeaseExpires ==
    /\ holder # None
    /\ holder' = None
    /\ UNCHANGED <<index, games, addr, stored, server, pc, controller, allocation>>

-----------------------------------------------------------------------------
Next ==
    \/ \E s \in Server : GSync(s) \/ Crash(s) \/ AddrExpires(s)
    \/ \E c \in Caller : AllocateGame(c) \/ Create(c)
    \/ \E o \in Orch : FOController(o) \/ CrashOrch(o)
    \/ \E g \in Game : GameExpires(g)
    \/ LeaseExpires

Spec == Init /\ [][Next]_vars

(***************************************************************************)
(* Fairness.  A process that is up goes on with its loop, and the TTL of a *)
(* key nobody refreshes runs out.  Redis does not refuse the lease for     *)
(* ever, and the lease outlives the two calls that take and check it by    *)
(* far: hence the strong fairness of taking it and of finding it held.     *)
(***************************************************************************)
Fairness ==
    /\ \A s \in Server :
          /\ WF_vars(GSync(s))
          /\ WF_vars(spc[s] = "down" /\ AddrExpires(s))
    /\ \A o \in Orch :
          /\ WF_vars(FOController(o) \/ AllocateGame(o))
          /\ SF_vars(Lease(o) /\ holder' # None)
          /\ SF_vars(Check(o) /\ pc'[o] = "list")
    /\ WF_vars(LeaseExpires)

FairSpec == Spec /\ Fairness

-----------------------------------------------------------------------------
Status == {"none", "ttl", "kept"}

RedisType ==
    /\ index \subseteq Server
    /\ games \in [Server -> SUBSET Game]
    /\ addr \subseteq Server
    /\ stored \in [Game -> Status]
    /\ holder \in Orch \cup {None}

ServerType ==
    /\ spc \in [Server -> {"beat", "persist", "index", "load", "forget", "down"}]
    /\ boards \in [Server -> SUBSET Game]
    /\ buf \in [Server -> SUBSET Game]
    /\ todo \in [Server -> SUBSET Game]
    /\ missing \in [Server -> Game \cup {None}]

ControllerType ==
    /\ pc \in [Caller -> {"lease", "check", "list", "find", "fetch", "pick", "del",
                          "create", "allocate", "measure", "done", "failed", "down"}]
    /\ list \in [Orch -> SUBSET Server]
    /\ dead \in [Orch -> SUBSET Server]
    /\ cur \in [Caller -> Server \cup {None}]
    /\ moving \in [Orch -> SUBSET Game]

AllocationType ==
    /\ item \in [Caller -> Game \cup {None}]
    /\ cand \in [Caller -> SUBSET Server]
    /\ best \in [Caller -> {NoServer} \cup [key : Server, load : Nat]]
    /\ \A c \in Caller :
          /\ pc[c] # "measure" => cand[c] = {} /\ best[c] = NoServer
          /\ pc[c] \in {"create", "allocate", "measure"} => item[c] \in Game
          /\ c \in Orch => pc[c] # "create"

TypeOK == RedisType /\ ServerType /\ ControllerType /\ AllocationType

Allocated(g) == \E s \in Server : g \in games[s]

\* "Don't continue on allocfailure, this can lead to loss of prod games":
\* no step takes a game that exists off the last map that has it, however
\* the calls of a pass fail and whatever the servers do in the meantime.
LastCopyKept ==
    [][\A g \in Game : Allocated(g) /\ stored[g] # "none" => Allocated(g)']_vars

\* One FOController at a time: what LastCopyKept rests on, and what the
\* lease does not give when a pass may outlive it.
OneController == \A o, p \in Orch : Acting(o) /\ Acting(p) => o = p

\* A game is on the map of at most one server that is alive and whose
\* heartbeats are on time: while a dead one is being emptied nobody else is
\* given its games, and a live one keeps its.
OneLiveOwner ==
    \A g \in Game : \A s, t \in addr \ Lagging : g \in games[s] \cap games[t] => s = t

\* A game whose key is gone for good leaves the listed maps, whichever server
\* has it and whoever crashes meanwhile.
Listed(g) == \E s \in index : g \in games[s]
ExpiredIsUnlisted ==
    \A g \in Game : <>[](stored[g] = "none") => <>[]~Listed(g)

\* "the offline-threshold until the orchestrator will panic and reallocate the
\* games": as long as it exists a game is loaded again and again by a server
\* that is up.
Served(g) == \E s \in Server : spc[s] # "down" /\ g \in boards[s]
GamesAreServed ==
    \A g \in Game : [](stored[g] # "none") => []<>Served(g)

\* "after this time a new focontroller is defined": as long as an orchestrator
\* is up, one of those that are up acts again and again.
ControllerTakesOver ==
    \A o \in Orch : [](pc[o] # "down") => []<>(\E p \in Orch : Acting(p))

-----------------------------------------------------------------------------
(* Why no copy is lost: the inductive invariant behind LastCopyKept.        *)

Emptying(o) == pc[o] \in {"pick", "allocate", "measure", "del"}
Pending(o, g) ==
    g \in moving[o] \/ (pc[o] \in {"allocate", "measure"} /\ g = item[o])
Elsewhere(g, s) == \E t \in Server \ {s} : g \in games[t]

\* While a map is emptied each of its games is either yet to be moved or on
\* another map as well, and no game is placed back on it: when the map is
\* deleted, calls after its games were read, all are on other maps.
MapIsMoved ==
    \A o \in Orch : Emptying(o) =>
        /\ cur[o] \in Server
        /\ cur[o] \notin cand[o] /\ best[o].key # cur[o]
        /\ pc[o] = "del" => moving[o] = {}
        /\ \A g \in games[cur[o]] : Pending(o, g) \/ Elsewhere(g, cur[o])

=============================================================================
