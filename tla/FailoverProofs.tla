---------------------------- MODULE FailoverProofs ----------------------------
(***************************************************************************)
(* Theorems about Failover for every set of servers, orchestrators and     *)
(* games: its types, and that one controller at a time loses no game.      *)
(***************************************************************************)
EXTENDS Failover, FiniteSetTheorems, TLAPS

-----------------------------------------------------------------------------
(* Type correctness, by the parts of the type invariant.                    *)

LEMMA InitType == Init => TypeOK
<1> SUFFICES ASSUME Init PROVE TypeOK
  OBVIOUS
<1>1. RedisType
  BY GameAssumption DEF Init, RedisType, Status
<1>2. ServerType
  BY GameAssumption DEF Init, ServerType
<1>3. ControllerType
  BY DEF Init, ControllerType, Caller
<1>4. AllocationType
  BY GameAssumption DEF Init, AllocationType, Caller
<1> QED
  BY <1>1, <1>2, <1>3, <1>4 DEF TypeOK

LEMMA ControllerUnchanged ==
    ControllerType /\ UNCHANGED <<pc, controller>> => ControllerType'
BY DEF ControllerType, controller

LEMMA AllocationUnchanged ==
    AllocationType /\ UNCHANGED <<pc, allocation>> => AllocationType'
BY DEF AllocationType, allocation, NoServer

LEMMA ServerUnchanged == ServerType /\ UNCHANGED server => ServerType'
BY DEF ServerType, server

LEMMA RedisUnchanged == RedisType /\ UNCHANGED redis => RedisType'
BY DEF RedisType, redis

\* The gsync loop of a server.
LEMMA GSyncType ==
    ASSUME TypeOK, NEW s \in Server, GSync(s) \/ Crash(s)
    PROVE  RedisType' /\ ServerType'
<1> USE DEF TypeOK, RedisType, ServerType, Status
<1>1. CASE Beat(s)
  BY <1>1 DEF Beat
<1>2. CASE Persist(s)
  BY <1>2 DEF Persist
<1>3. CASE Ask(s)
  BY <1>3 DEF Ask, redis
<1>4. CASE Index(s)
  BY <1>4 DEF Index
<1>5. CASE Load(s)
  BY <1>5 DEF Load, redis
<1>6. CASE Forget(s)
  BY <1>6 DEF Forget
<1>7. CASE Swap(s)
  BY <1>7 DEF Swap, redis
<1>8. CASE Crash(s)
  BY <1>8 DEF Crash, redis
<1> QED
  BY <1>1, <1>2, <1>3, <1>4, <1>5, <1>6, <1>7, <1>8 DEF GSync

\* AllocateGame, for any caller.
LEMMA LoadIsNat ==
    ASSUME TypeOK, NEW s \in Server
    PROVE  Cardinality(games[s]) \in Nat
<1>1. games[s] \in SUBSET Game
  BY DEF TypeOK, RedisType
<1>2. IsFiniteSet(games[s])
  BY <1>1, GameAssumption, FS_Subset
<1> QED
  BY <1>2, FS_CardinalityType

LEMMA AllocateGameType ==
    ASSUME TypeOK, NEW c \in Caller, AllocateGame(c)
    PROVE  TypeOK'
<1> USE DEF TypeOK
<1>1. CASE Allocate(c)
  <2>1. ControllerType'
    BY <1>1 DEF Allocate, Goto, Fails, ControllerType
  <2>2. AllocationType'
    BY <1>1 DEF Allocate, Goto, Fails, AllocationType, ControllerType, RedisType,
                NoServer
  <2> QED
    BY <1>1, <2>1, <2>2, RedisUnchanged, ServerUnchanged DEF Allocate
<1>2. CASE Measure(c)
  <2>1. PICK s \in cand[c] :
          LET load == Cardinality(games[s]) IN
          \/ /\ best' = [best EXCEPT ![c] = [key |-> s, load |-> load]]
             /\ cand' = [cand EXCEPT ![c] = IF load = 0 THEN {} ELSE @ \ {s}]
          \/ /\ cand' = [cand EXCEPT ![c] = @ \ {s}]
             /\ UNCHANGED best
    BY <1>2 DEF Measure
  <2>2. s \in Server /\ Cardinality(games[s]) \in Nat
    BY <2>1, LoadIsNat DEF AllocationType
  <2>3. AllocationType'
    BY <1>2, <2>1, <2>2 DEF Measure, AllocationType, NoServer
  <2>4. ControllerType'
    BY <1>2 DEF Measure, ControllerType, controller
  <2> QED
    BY <1>2, <2>3, <2>4, RedisUnchanged, ServerUnchanged DEF Measure
<1>3. CASE Place(c)
  <2>1. item[c] \in Game
    BY <1>3 DEF Place, AllocationType
  <2>2. RedisType'
    BY <1>3, <2>1 DEF Place, RedisType
  <2>3. ControllerType'
    BY <1>3 DEF Place, Returns, Fails, Goto, ControllerType
  <2>4. AllocationType'
    BY <1>3 DEF Place, Returns, Fails, Goto, AllocationType, ControllerType, NoServer
  <2> QED
    BY <1>3, <2>2, <2>3, <2>4, ServerUnchanged DEF Place
<1> QED
  BY <1>1, <1>2, <1>3 DEF AllocateGame

LEMMA CreateType ==
    ASSUME TypeOK, NEW c \in Caller, Create(c)
    PROVE  TypeOK'
<1>1. RedisType'
  BY GameAssumption DEF TypeOK, Create, RedisType, Status
<1>2. ControllerType'
  BY DEF TypeOK, Create, Goto, ControllerType, controller
<1>3. AllocationType'
  BY DEF TypeOK, Create, Goto, AllocationType, ControllerType, allocation
<1> QED
  BY <1>1, <1>2, <1>3, ServerUnchanged DEF TypeOK, Create

\* The failover controller: a pass changes redis by the lease, SRem and Del.
LEMMA ControllerStepType ==
    ASSUME TypeOK, NEW o \in Orch, FOController(o) \/ CrashOrch(o)
    PROVE  TypeOK'
<1> USE DEF TypeOK, Goto
<1>0. o \in Caller
  BY DEF Caller
<1>1. ServerType'
  BY ServerUnchanged
  DEF FOController, CrashOrch, Lease, Check, List, Find, Fetch, Pick, SRem, Del, EndPass
<1>2. RedisType'
  BY RedisUnchanged
  DEF FOController, CrashOrch, Lease, Check, List, Find, Fetch, Pick, SRem, Del,
      EndPass, RedisType, redis
<1>3. ControllerType'
  <2> USE <1>0 DEF ControllerType, RedisType, controller
  <2>1. CASE Lease(o)
    BY <2>1 DEF Lease
  <2>2. CASE Check(o)
    BY <2>2 DEF Check
  <2>3. CASE List(o)
    BY <2>3 DEF List
  <2>4. CASE Find(o)
    BY <2>4 DEF Find
  <2>5. CASE Fetch(o)
    BY <2>5 DEF Fetch
  <2>6. CASE Pick(o)
    BY <2>6 DEF Pick
  <2>7. CASE SRem(o)
    BY <2>7 DEF SRem
  <2>8. CASE Del(o)
    BY <2>8 DEF Del
  <2>9. CASE EndPass(o)
    BY <2>9 DEF EndPass
  <2>10. CASE CrashOrch(o)
    BY <2>10 DEF CrashOrch
  <2> QED
    BY <2>1, <2>2, <2>3, <2>4, <2>5, <2>6, <2>7, <2>8, <2>9, <2>10 DEF FOController
<1>4. AllocationType'
  <2> USE <1>0 DEF AllocationType, ControllerType, allocation
  <2>1. CASE Lease(o)
    BY <2>1 DEF Lease
  <2>2. CASE Check(o)
    BY <2>2 DEF Check
  <2>3. CASE List(o)
    BY <2>3 DEF List
  <2>4. CASE Find(o)
    BY <2>4 DEF Find
  <2>5. CASE Fetch(o)
    BY <2>5 DEF Fetch
  <2>6. CASE Pick(o)
    BY <2>6 DEF Pick
  <2>7. CASE SRem(o)
    BY <2>7 DEF SRem
  <2>8. CASE Del(o)
    BY <2>8 DEF Del
  <2>9. CASE EndPass(o)
    BY <2>9 DEF EndPass
  <2>10. CASE CrashOrch(o)
    BY <2>10 DEF CrashOrch
  <2> QED
    BY <2>1, <2>2, <2>3, <2>4, <2>5, <2>6, <2>7, <2>8, <2>9, <2>10 DEF FOController
<1> QED
  BY <1>1, <1>2, <1>3, <1>4

LEMMA TypeStep == TypeOK /\ [Next]_vars => TypeOK'
<1> SUFFICES ASSUME TypeOK, [Next]_vars
             PROVE  TypeOK'
  OBVIOUS
<1>1. ASSUME NEW s \in Server, GSync(s) \/ Crash(s)
      PROVE  TypeOK'
  <2>1. UNCHANGED <<pc, controller, allocation>>
    BY <1>1 DEF GSync, Beat, Persist, Ask, Index, Load, Forget, Swap, Crash
  <2> QED
    BY <1>1, <2>1, GSyncType, ControllerUnchanged, AllocationUnchanged DEF TypeOK
<1>2. ASSUME NEW s \in Server, AddrExpires(s)
      PROVE  TypeOK'
  <2>1. RedisType'
    BY <1>2 DEF AddrExpires, TypeOK, RedisType
  <2> QED
    BY <1>2, <2>1, ServerUnchanged, ControllerUnchanged, AllocationUnchanged
    DEF AddrExpires, TypeOK
<1>3. ASSUME NEW c \in Caller, AllocateGame(c) \/ Create(c)
      PROVE  TypeOK'
  BY <1>3, AllocateGameType, CreateType
<1>4. ASSUME NEW o \in Orch, FOController(o) \/ CrashOrch(o)
      PROVE  TypeOK'
  BY <1>4, ControllerStepType
<1>5. ASSUME NEW g \in Game, GameExpires(g)
      PROVE  TypeOK'
  <2>1. RedisType'
    BY <1>5 DEF GameExpires, TypeOK, RedisType, Status
  <2> QED
    BY <1>5, <2>1, ServerUnchanged, ControllerUnchanged, AllocationUnchanged
    DEF GameExpires, TypeOK
<1>6. CASE LeaseExpires
  <2>1. RedisType'
    BY <1>6 DEF LeaseExpires, TypeOK, RedisType
  <2> QED
    BY <1>6, <2>1, ServerUnchanged, ControllerUnchanged, AllocationUnchanged
    DEF LeaseExpires, TypeOK
<1>7. CASE UNCHANGED vars
  BY <1>7, RedisUnchanged, ServerUnchanged, ControllerUnchanged, AllocationUnchanged
  DEF vars, TypeOK
<1> QED
  BY <1>1, <1>2, <1>3, <1>4, <1>5, <1>6, <1>7 DEF Next

\* Every variable keeps its type, however calls fail and processes crash.
THEOREM FailoverTypeCorrect == Spec => []TypeOK
BY InitType, TypeStep, PTL DEF Spec

-----------------------------------------------------------------------------
(* No game is lost by moving it: with one controller at a time, for every   *)
(* number of servers and games, whichever calls fail, whichever servers lag *)
(* and whoever crashes.  Games are neither created nor do they expire, for  *)
(* then the code does not keep them.                                        *)

\* Every game exists, so that no server takes one off its map.
NoneExpires ==
    /\ \A g \in Game : stored[g] # "none"
    /\ \A s \in Server : spc[s] # "forget"

LEMMA NoneExpiresInit ==
    ASSUME New = {}, Init
    PROVE  NoneExpires
BY GameAssumption DEF Init, NoneExpires

LEMMA NoneExpiresStep ==
    ASSUME New = {}, Expiring = {}, TypeOK, NoneExpires, [Next]_vars
    PROVE  NoneExpires'
<1> USE DEF NoneExpires, TypeOK, RedisType, ServerType
<1>1. ASSUME NEW s \in Server, GSync(s) \/ Crash(s)
      PROVE  NoneExpires'
  <2>1. CASE Beat(s) \/ Persist(s) \/ Ask(s) \/ Index(s)
    BY <2>1 DEF Beat, Persist, Ask, Index, redis
  <2>2. CASE Load(s) \/ Forget(s) \/ Swap(s) \/ Crash(s)
    BY <2>2 DEF Load, Forget, Swap, Crash, redis
  <2> QED
    BY <1>1, <2>1, <2>2 DEF GSync
<1>2. CASE UNCHANGED <<stored, server>>
  BY <1>2 DEF server
<1>3. ASSUME NEW c \in Caller, AllocateGame(c) \/ Create(c)
      PROVE  UNCHANGED <<stored, server>>
  BY <1>3 DEF AllocateGame, Allocate, Measure, Place, Create, redis
<1>4. ASSUME NEW o \in Orch, FOController(o) \/ CrashOrch(o)
      PROVE  UNCHANGED <<stored, server>>
  BY <1>4 DEF FOController, CrashOrch, Lease, Check, List, Find, Fetch, Pick, SRem,
              Del, EndPass, redis
<1>5. (\E s \in Server : AddrExpires(s)) \/ LeaseExpires \/ UNCHANGED vars
         => UNCHANGED <<stored, server>>
  BY DEF AddrExpires, LeaseExpires, vars, redis
<1>6. ~ \E g \in Game : GameExpires(g)
  BY DEF GameExpires
<1> QED
  BY <1>1, <1>2, <1>3, <1>4, <1>5, <1>6 DEF Next

-----------------------------------------------------------------------------
(* The map that is emptied.                                                 *)

LEMMA MapIsMovedInit == Init => MapIsMoved
BY DEF Init, MapIsMoved, Emptying, Caller

LEMMA MapIsMovedUnchanged ==
    MapIsMoved /\ UNCHANGED <<games, pc, controller, allocation>> => MapIsMoved'
BY DEF MapIsMoved, Emptying, Pending, Elsewhere, controller, allocation

\* What one controller does disturbs no other: both would be acting.
LEMMA AllocateMoves ==
    ASSUME New = {}, TypeOK, MapIsMoved, OneController,
           NEW c \in Caller, AllocateGame(c)
    PROVE  MapIsMoved'
<1> USE DEF TypeOK, RedisType, ControllerType, AllocationType
<1>1. c \in Orch /\ pc[c] \in {"allocate", "measure"}
  BY DEF Caller, AllocateGame, Allocate, Measure, Place
<1>2. ASSUME NEW o \in Orch, Emptying(o)', o # c
      PROVE  FALSE
  <2>1. pc'[o] = pc[o]
    BY <1>1, <1>2 DEF AllocateGame, Allocate, Measure, Place, Goto, Returns, Fails, Caller
  <2> QED
    BY <1>1, <1>2, <2>1 DEF OneController, Acting, Emptying
<1>3. /\ cur[c] \in Server /\ cur[c] \notin cand[c] /\ best[c].key # cur[c]
      /\ \A g \in games[cur[c]] : Pending(c, g) \/ Elsewhere(g, cur[c])
  BY <1>1 DEF MapIsMoved, Emptying
<1>4. cur' = cur
  BY DEF AllocateGame, Allocate, Measure, Place, controller
<1>5. SUFFICES ASSUME Emptying(c)'
      PROVE  /\ cur[c] \notin cand'[c] /\ best'[c].key # cur[c]
             /\ pc'[c] = "del" => moving'[c] = {}
             /\ \A g \in games'[cur[c]] : Pending(c, g)' \/ Elsewhere(g, cur[c])'
  BY <1>1, <1>2, <1>3, <1>4 DEF MapIsMoved
<1>6. CASE Allocate(c)
  BY <1>1, <1>3, <1>5, <1>6
  DEF Allocate, Goto, Fails, Emptying, Pending, Elsewhere, redis
<1>7. CASE Measure(c)
  <2>1. PICK s \in cand[c] :
          /\ best' = [best EXCEPT ![c] = [key |-> s, load |-> Cardinality(games[s])]]
                \/ UNCHANGED best
          /\ cand'[c] \subseteq cand[c]
    BY <1>7 DEF Measure
  <2>2. cur[c] \notin cand'[c] /\ best'[c].key # cur[c]
    BY <1>3, <2>1
  <2> QED
    BY <1>1, <1>3, <1>7, <2>2 DEF Measure, Pending, Elsewhere, redis, controller
<1>8. CASE Place(c)
  <2>1. /\ best[c] # NoServer /\ best[c].key \in Server
        /\ games' = [games EXCEPT ![best[c].key] = @ \cup {item[c]}]
        /\ pc'[c] = "pick" /\ moving' = moving
    BY <1>1, <1>5, <1>8 DEF Place, Returns, Fails, Goto, Emptying, NoServer
  <2>2. \E t \in Server \ {cur[c]} : item[c] \in games'[t]
    BY <1>3, <2>1
  <2>3. ASSUME NEW g \in games'[cur[c]]
        PROVE  g \in moving'[c] \/ Elsewhere(g, cur[c])'
    <3>1. g \in games[cur[c]]
      BY <1>3, <2>1
    <3>2. CASE g = item[c]
      BY <3>2, <2>2, <1>4 DEF Elsewhere
    <3>3. CASE g \in moving[c]
      BY <3>3, <2>1
    <3>4. CASE Elsewhere(g, cur[c])
      BY <3>4, <2>1, <1>4 DEF Elsewhere
    <3> QED
      BY <1>3, <3>1, <3>2, <3>3, <3>4 DEF Pending
  <2>4. cand' = cand /\ best'[c].key # cur[c]
    BY <1>3, <1>8, ProcessAssumption DEF Place, NoServer
  <2> QED
    BY <1>3, <2>1, <2>3, <2>4 DEF Pending
<1> QED
  BY <1>6, <1>7, <1>8 DEF AllocateGame

LEMMA ControllerMoves ==
    ASSUME TypeOK, MapIsMoved, OneController,
           NEW p \in Orch, FOController(p) \/ CrashOrch(p)
    PROVE  MapIsMoved'
<1> USE DEF TypeOK, RedisType, ControllerType, AllocationType
<1>0. Orch \subseteq Caller
  BY DEF Caller
<1>1. SUFFICES ASSUME NEW o \in Orch, Emptying(o)'
      PROVE  /\ cur'[o] \in Server
             /\ cur'[o] \notin cand'[o] /\ best'[o].key # cur'[o]
             /\ pc'[o] = "del" => moving'[o] = {}
             /\ \A g \in games'[cur'[o]] : Pending(o, g)' \/ Elsewhere(g, cur[o])'
  BY DEF MapIsMoved
<1>2. CASE o # p
  <2>1. /\ pc'[o] = pc[o] /\ cur'[o] = cur[o] /\ moving'[o] = moving[o]
        /\ item'[o] = item[o] /\ cand'[o] = cand[o] /\ best'[o] = best[o]
    BY <1>0, <1>2
    DEF FOController, CrashOrch, Lease, Check, List, Find, Fetch, Pick, SRem, Del,
        EndPass, Goto, controller, allocation
  <2>2. Emptying(o) /\ Acting(o)
    BY <1>1, <2>1 DEF Emptying, Acting
  <2>3. ~Del(p)
    BY <1>2, <2>2 DEF OneController, Acting, Del
  <2>4. games' = games
    BY <2>3 DEF FOController, CrashOrch, Lease, Check, List, Find, Fetch, Pick, SRem,
                EndPass, redis
  <2> QED
    BY <2>1, <2>2, <2>4 DEF MapIsMoved, Pending, Elsewhere
<1>3. CASE o = p
  <2>1. ~(Lease(p) \/ Check(p) \/ List(p) \/ Find(p) \/ Del(p) \/ EndPass(p) \/ CrashOrch(p))
    BY <1>0, <1>1, <1>3 DEF Lease, Check, List, Find, Del, EndPass, CrashOrch, Goto, Emptying
  <2>2. CASE Fetch(p)
    <3>1. /\ cur'[o] \in Server /\ moving'[o] = games[cur'[o]] /\ pc'[o] = "pick"
          /\ games' = games /\ UNCHANGED <<cand, best>>
      BY <1>0, <1>1, <1>3, <2>2 DEF Fetch, Goto, Emptying, redis, allocation
    <3>2. cand[o] = {} /\ best[o] = NoServer
      BY <1>0, <1>3, <2>2 DEF Fetch
    <3> QED
      BY <3>1, <3>2, ProcessAssumption DEF NoServer, Pending
  <2>3. CASE Pick(p)
    BY <1>0, <1>3, <2>3
    DEF Pick, Goto, MapIsMoved, Emptying, Pending, Elsewhere, redis
  <2>4. CASE SRem(p)
    BY <1>0, <1>1, <1>3, <2>4
    DEF SRem, Goto, MapIsMoved, Emptying, Pending, Elsewhere, controller, allocation
  <2> QED
    BY <2>1, <2>2, <2>3, <2>4 DEF FOController
<1> QED
  BY <1>2, <1>3

LEMMA MapIsMovedStep ==
    ASSUME New = {}, TypeOK, NoneExpires, MapIsMoved, OneController, [Next]_vars
    PROVE  MapIsMoved'
<1>1. ASSUME NEW s \in Server, GSync(s) \/ Crash(s)
      PROVE  MapIsMoved'
  BY <1>1, MapIsMovedUnchanged
  DEF GSync, Beat, Persist, Ask, Index, Load, Forget, Swap, Crash, NoneExpires, redis
<1>2. ASSUME NEW c \in Caller, AllocateGame(c) \/ Create(c)
      PROVE  MapIsMoved'
  BY <1>2, AllocateMoves DEF Create
<1>3. ASSUME NEW o \in Orch, FOController(o) \/ CrashOrch(o)
      PROVE  MapIsMoved'
  BY <1>3, ControllerMoves
<1>4. CASE \/ \E s \in Server : AddrExpires(s)
           \/ \E g \in Game : GameExpires(g)
           \/ LeaseExpires \/ UNCHANGED vars
  BY <1>4, MapIsMovedUnchanged DEF AddrExpires, GameExpires, LeaseExpires, vars, redis
<1> QED
  BY <1>1, <1>2, <1>3, <1>4 DEF Next

-----------------------------------------------------------------------------
(* No step takes the last copy.                                             *)

\* Only Forget, which needs a game that does not exist, and Del take a game
\* off a map.
LEMMA KeptStep ==
    ASSUME TypeOK, NoneExpires, MapIsMoved, [Next]_vars, NEW g \in Game, Allocated(g)
    PROVE  Allocated(g)'
<1> USE DEF TypeOK, RedisType, ControllerType, AllocationType
<1>1. CASE UNCHANGED games
  BY <1>1 DEF Allocated
<1>2. ASSUME NEW s \in Server, GSync(s) \/ Crash(s)
      PROVE  UNCHANGED games
  BY <1>2
  DEF GSync, Beat, Persist, Ask, Index, Load, Forget, Swap, Crash, NoneExpires, redis
<1>3. ASSUME NEW c \in Caller, AllocateGame(c) \/ Create(c)
      PROVE  Allocated(g)'
  <2>1. CASE Place(c)
    BY <2>1 DEF Place, Allocated
  <2> QED
    BY <1>1, <1>3, <2>1 DEF AllocateGame, Allocate, Measure, Create, redis
<1>4. ASSUME NEW o \in Orch, FOController(o) \/ CrashOrch(o)
      PROVE  Allocated(g)'
  <2>1. CASE Del(o)
    <3>1. PICK s \in Server : g \in games[s]
      BY DEF Allocated
    <3>2. \E t \in Server \ {cur[o]} : g \in games[t]
      <4>1. CASE s = cur[o]
        BY <2>1, <3>1, <4>1 DEF Del, MapIsMoved, Emptying, Pending, Elsewhere
      <4> QED
        BY <3>1, <4>1
    <3> QED
      BY <2>1, <3>2 DEF Del, Allocated
  <2> QED
    BY <1>1, <1>4, <2>1
    DEF FOController, CrashOrch, Lease, Check, List, Find, Fetch, Pick, SRem, EndPass,
        redis
<1>5. (\/ \E s \in Server : AddrExpires(s)
       \/ \E h \in Game : GameExpires(h)
       \/ LeaseExpires \/ UNCHANGED vars) => UNCHANGED games
  BY DEF AddrExpires, GameExpires, LeaseExpires, vars, redis
<1> QED
  BY <1>1, <1>2, <1>3, <1>4, <1>5 DEF Next

\* While a map is emptied its games are pending or on another map.
THEOREM MapMoved ==
    ASSUME New = {}, Expiring = {}
    PROVE  Spec /\ []OneController => []MapIsMoved
<1>1. Init => NoneExpires /\ MapIsMoved
  BY NoneExpiresInit, MapIsMovedInit
<1>2. TypeOK /\ NoneExpires /\ MapIsMoved /\ OneController /\ [Next]_vars
         => NoneExpires' /\ MapIsMoved'
  BY NoneExpiresStep, MapIsMovedStep
<1> QED
  BY <1>1, <1>2, FailoverTypeCorrect, PTL DEF Spec

\* One controller at a time loses no game, however its calls fail.
THEOREM GamesAreKept ==
    ASSUME New = {}, Expiring = {}
    PROVE  Spec /\ []OneController => LastCopyKept
<1>1. Init => NoneExpires
  BY NoneExpiresInit
<1>2. TypeOK /\ NoneExpires /\ [Next]_vars => NoneExpires'
  BY NoneExpiresStep
<1>3. TypeOK /\ NoneExpires /\ MapIsMoved /\ [Next]_vars
         => [\A g \in Game : Allocated(g) /\ stored[g] # "none" => Allocated(g)']_vars
  BY KeptStep
<1> QED
  BY <1>1, <1>2, <1>3, FailoverTypeCorrect, MapMoved, PTL DEF Spec, LastCopyKept

-----------------------------------------------------------------------------
(* One live owner.  No call fails and no orchestrator crashes here: a pass  *)
(* that stops half-way leaves games on two maps, and the next pass moves    *)
(* them from one to a third.                                                *)

\* A server whose games may be given away: it is down, or is known to be late.
Gone(s) == s \in Lagging \/ (s \notin addr /\ spc[s] = "down")

GoneInv ==
    /\ \A s \in Server : s \in addr \/ Gone(s)
    /\ \A o \in Orch : \A s \in dead[o] : Gone(s)
    /\ \A o \in Orch : Emptying(o) => cur[o] \in Server /\ Gone(cur[o])

LEMMA GoneInit == Init => GoneInv
BY DEF Init, GoneInv, Emptying, Caller

LEMMA GoneStep ==
    ASSUME TypeOK, GoneInv, [Next]_vars
    PROVE  GoneInv'
<1> USE DEF TypeOK, RedisType, ServerType, ControllerType
<1>0. Orch \subseteq Caller
  BY DEF Caller
<1>1. ASSUME NEW s \in Server, Gone(s)
      PROVE  Gone(s)'
  <2>1. CASE s \in Lagging
    BY <2>1 DEF Gone
  <2>2. CASE s \notin addr /\ spc[s] = "down"
    <3>1. ASSUME NEW t \in Server, GSync(t) \/ Crash(t) \/ AddrExpires(t)
          PROVE  s \notin addr' /\ spc'[s] = "down"
      <4>1. CASE Beat(t) BY <2>2, <4>1 DEF Beat
      <4>2. CASE Persist(t) \/ Ask(t) \/ Index(t) BY <2>2, <4>2 DEF Persist, Ask, Index, redis
      <4>3. CASE Load(t) \/ Forget(t) \/ Swap(t) BY <2>2, <4>3 DEF Load, Forget, Swap, redis
      <4>4. CASE Crash(t) \/ AddrExpires(t)
        BY <2>2, <4>4 DEF Crash, AddrExpires, redis, server
      <4> QED BY <3>1, <4>1, <4>2, <4>3, <4>4 DEF GSync
    <3>2. CASE UNCHANGED <<addr, spc>>
      BY <2>2, <3>2 DEF Gone
    <3>3. (\E c \in Caller : AllocateGame(c) \/ Create(c)) => UNCHANGED <<addr, spc>>
      BY DEF AllocateGame, Allocate, Measure, Place, Create, redis, server
    <3>4. (\E o \in Orch : FOController(o) \/ CrashOrch(o)) => UNCHANGED <<addr, spc>>
      BY DEF FOController, CrashOrch, Lease, Check, List, Find, Fetch, Pick, SRem, Del,
             EndPass, redis, server
    <3>5. (\E g \in Game : GameExpires(g)) \/ LeaseExpires \/ UNCHANGED vars
             => UNCHANGED <<addr, spc>>
      BY DEF GameExpires, LeaseExpires, vars, redis, server
    <3> QED
      BY <3>1, <3>2, <3>3, <3>4, <3>5 DEF Next, Gone
  <2> QED BY <1>1, <2>1, <2>2 DEF Gone
<1>2. ASSUME NEW s \in Server, s \in addr, s \notin addr'
      PROVE  Gone(s)'
  <2>1. AddrExpires(s)
    BY <1>2 DEF Next, GSync, Beat, Persist, Ask, Index, Load, Forget, Swap, Crash,
       AllocateGame, Allocate, Measure, Place, Create, FOController, CrashOrch, Lease,
       Check, List, Find, Fetch, Pick, SRem, Del, EndPass, AddrExpires, GameExpires,
       LeaseExpires, vars, redis
  <2> QED BY <1>2, <2>1 DEF AddrExpires, Gone, server
<1>3. ASSUME NEW o \in Orch, NEW s \in dead'[o]
      PROVE  s \in Server /\ Gone(s)
  <2>1. CASE s \in dead[o]
    BY <2>1 DEF GoneInv
  <2>2. CASE s \notin dead[o]
    <3>1. PICK p \in Orch : Find(p)
      BY <1>3, <2>2 DEF Next, GSync, Beat, Persist, Ask, Index, Load, Forget, Swap, Crash,
         AllocateGame, Allocate, Measure, Place, Create, FOController, CrashOrch, Lease,
         Check, List, Fetch, Pick, SRem, Del, EndPass, AddrExpires, GameExpires,
         LeaseExpires, vars, controller
    <3>2. s \in Server /\ s \notin addr
      BY <1>3, <2>2, <3>1 DEF Find
    <3> QED BY <3>2 DEF GoneInv
  <2> QED BY <2>1, <2>2
<1>4. ASSUME NEW o \in Orch, Emptying(o)'
      PROVE  cur'[o] \in Server /\ Gone(cur'[o])
  <2>1. CASE Emptying(o) /\ cur'[o] = cur[o]
    BY <2>1 DEF GoneInv
  <2>2. CASE Fetch(o)
    <3>1. cur'[o] \in dead[o]
      BY <1>0, <1>4, <2>2 DEF Fetch, Emptying
    <3> QED BY <3>1 DEF GoneInv
  <2>3. ASSUME NEW p \in Orch, FOController(p) \/ CrashOrch(p), ~Fetch(o)
        PROVE  Emptying(o) /\ cur'[o] = cur[o]
    BY <1>0, <1>4, <2>3
    DEF FOController, CrashOrch, Lease, Check, List, Find, Fetch, Pick, SRem, Del, EndPass,
        Goto, Emptying, controller
  <2>4. ASSUME NEW c \in Caller, AllocateGame(c) \/ Create(c)
        PROVE  Emptying(o) /\ cur'[o] = cur[o]
    BY <1>0, <1>4, <2>4, GameAssumption, ProcessAssumption
    DEF AllocateGame, Allocate, Measure, Place, Create, Returns, Fails, Goto, Emptying,
        controller
  <2>5. UNCHANGED <<pc, controller>> => Emptying(o) /\ cur'[o] = cur[o]
    BY <1>4 DEF Emptying, controller
  <2>6. (\/ \E s \in Server : GSync(s) \/ Crash(s) \/ AddrExpires(s)
         \/ \E g \in Game : GameExpires(g)
         \/ LeaseExpires \/ UNCHANGED vars) => UNCHANGED <<pc, controller>>
    BY DEF GSync, Beat, Persist, Ask, Index, Load, Forget, Swap, Crash, AddrExpires,
           GameExpires, LeaseExpires, vars
  <2> QED BY <1>0, <2>1, <2>2, <2>3, <2>4, <2>5, <2>6 DEF Next
<1>5. \A s \in Server : (s \in addr \/ Gone(s))'
  BY <1>1, <1>2 DEF GoneInv
<1>6. \A o \in Orch : \A s \in dead'[o] : Gone(s)'
  BY <1>1, <1>3
<1>7. \A o \in Orch : Emptying(o)' => cur'[o] \in Server /\ Gone(cur[o])'
  BY <1>1, <1>4
<1> QED BY <1>5, <1>6, <1>7 DEF GoneInv

\* Games are only ever on two maps while one of these is emptied.
OneMap ==
    \A g \in Game : \A s, t \in Server : s # t /\ g \in games[s] /\ g \in games[t] =>
        \E o \in Orch : Emptying(o) /\ cur[o] \in {s, t} /\ ~Pending(o, g)

HasMoved(o) == \E g \in games[cur[o]] : Elsewhere(g, cur[o])

\* A game that is to be moved is on no other map; once one has been moved
\* there is a server for the next one too, so that the pass does not stop.
MoveInv(o) ==
    /\ cur[o] \in Server
    /\ \A g \in Game : Pending(o, g) => ~Elsewhere(g, cur[o])
    /\ pc[o] \in {"allocate", "measure"} => item[o] \notin moving[o]
    /\ pc[o] = "del" => moving[o] = {}
    /\ pc[o] # "del" /\ HasMoved(o) => index \ {cur[o]} # {}
    /\ pc[o] = "measure" =>
          /\ cand[o] \subseteq index \ {cur[o]}
          /\ best[o] # NoServer => best[o].key \in index \ {cur[o]}
          /\ HasMoved(o) => cand[o] # {} \/ best[o] # NoServer

\* A game that is being created is nowhere yet.
NewInv ==
    \A n \in New : pc[n] \in {"create", "allocate", "measure"} =>
        /\ ~Allocated(n)
        /\ item[n] = n
        /\ \A o \in Orch : n \notin moving[o] /\ item[o] # n

OwnerInv == OneMap /\ NewInv /\ (\A o \in Orch : Emptying(o) => MoveInv(o))

LEMMA OwnerInit == Init => OwnerInv
<1> SUFFICES ASSUME Init PROVE OwnerInv
  OBVIOUS
<1> USE GameAssumption, ProcessAssumption
<1>1. OneMap
  BY DEF Init, OneMap
<1>2. NewInv
  BY DEF Init, NewInv, Allocated, Caller
<1>3. \A o \in Orch : ~Emptying(o)
  BY DEF Init, Emptying, Caller
<1> QED
  BY <1>1, <1>2, <1>3 DEF OwnerInv

\* A server may list its map and take a game off it.
LEMMA OwnerShrinks ==
    ASSUME OwnerInv, index \subseteq index', \A t \in Server : games'[t] \subseteq games[t],
           UNCHANGED <<pc, controller, allocation>>
    PROVE  OwnerInv'
<1> USE DEF controller, allocation, Emptying, Pending
<1>1. OneMap'
  BY DEF OwnerInv, OneMap
<1>2. NewInv'
  BY DEF OwnerInv, NewInv, Allocated
<1>3. ASSUME NEW o \in Orch, Emptying(o)'
      PROVE  MoveInv(o)'
  <2>1. MoveInv(o)
    BY <1>3 DEF OwnerInv
  <2>2. \A g \in Game : Elsewhere(g, cur[o])' => Elsewhere(g, cur[o])
    BY DEF Elsewhere
  <2>3. HasMoved(o)' => HasMoved(o)
    BY <2>1, <2>2 DEF HasMoved, MoveInv, Elsewhere
  <2> QED
    BY <2>1, <2>2, <2>3 DEF MoveInv
<1> QED
  BY <1>1, <1>2, <1>3 DEF OwnerInv

LEMMA GSyncOwner ==
    ASSUME TypeOK, OwnerInv, NEW s \in Server, GSync(s) \/ Crash(s)
    PROVE  OwnerInv'
<1>1. UNCHANGED <<pc, controller, allocation>>
  BY DEF GSync, Beat, Persist, Ask, Index, Load, Forget, Swap, Crash
<1>2. index \subseteq index'
  BY DEF GSync, Beat, Persist, Ask, Index, Load, Forget, Swap, Crash, redis
<1>3. \A t \in Server : games'[t] \subseteq games[t]
  BY DEF GSync, Beat, Persist, Ask, Index, Load, Forget, Swap, Crash, redis, TypeOK, RedisType
<1> QED
  BY <1>1, <1>2, <1>3, OwnerShrinks

LEMMA CreateOwner ==
    ASSUME Errors = FALSE, TypeOK, OwnerInv, NEW n \in New, Create(n)
    PROVE  OwnerInv'
<1> USE DEF Create, controller, allocation, TypeOK, ControllerType
<1>1. n \notin Orch /\ New \subseteq Caller /\ Orch \subseteq Caller
  BY GameAssumption, ProcessAssumption DEF Caller
<1>2. pc' = [pc EXCEPT ![n] = "allocate"]
  BY DEF Goto
<1>3. \A o \in Orch : pc'[o] = pc[o]
  BY <1>1, <1>2
<1>4. NewInv'
  BY <1>1, <1>2 DEF OwnerInv, NewInv, Allocated
<1>5. OneMap'
  BY <1>3 DEF OwnerInv, OneMap, Emptying, Pending
<1>6. ASSUME NEW o \in Orch, Emptying(o)'
      PROVE  MoveInv(o)'
  BY <1>3, <1>6 DEF OwnerInv, MoveInv, Emptying, Pending, HasMoved, Elsewhere
<1> QED
  BY <1>4, <1>5, <1>6 DEF OwnerInv

\* A new game is on no map and is placed on one.
LEMMA NewAllocates ==
    ASSUME Errors = FALSE, TypeOK, OwnerInv, NEW n \in New, AllocateGame(n)
    PROVE  OwnerInv'
<1> USE DEF TypeOK, RedisType, ControllerType, AllocationType
<1>0. n \notin Orch /\ New \subseteq Caller /\ Orch \subseteq Caller
  BY GameAssumption, ProcessAssumption DEF Caller
<1>1. /\ ~Allocated(n) /\ item[n] = n
      /\ \A o \in Orch : n \notin moving[o] /\ item[o] # n
  BY DEF OwnerInv, NewInv, AllocateGame, Allocate, Measure, Place
<1>2. /\ index' = index /\ cur' = cur /\ moving' = moving
      /\ \A c \in Caller \ {n} : pc'[c] = pc[c] /\ item'[c] = item[c]
                                   /\ cand'[c] = cand[c] /\ best'[c] = best[c]
  BY <1>0 DEF AllocateGame, Allocate, Measure, Place, Goto, Returns, Fails, redis, controller
<1>3. /\ \A s \in Server : games[s] \subseteq games'[s] /\ games'[s] \subseteq games[s] \cup {n}
      /\ \A s, t \in Server : n \in games'[s] /\ n \in games'[t] => s = t
      /\ pc'[n] \in {"allocate", "measure"} => games' = games /\ item'[n] = item[n]
  <2>1. CASE Allocate(n) \/ Measure(n)
    BY <1>1, <2>1 DEF Allocate, Measure, redis, Allocated
  <2>2. CASE Place(n)
    <3>1. \/ games' = [games EXCEPT ![best[n].key] = @ \cup {n}]
          \/ games' = games
      BY <1>1, <2>2 DEF Place
    <3>2. pc'[n] \in {"done", "failed"}
      BY <1>0, <2>2 DEF Place, Returns, Fails, Goto
    <3> QED BY <1>1, <3>1, <3>2 DEF Allocated
  <2> QED BY <2>1, <2>2 DEF AllocateGame
<1>4. \A g \in Game \ {n} : \A s \in Server : g \in games'[s] <=> g \in games[s]
  BY <1>3
<1>5. ASSUME NEW o \in Orch
      PROVE  /\ Emptying(o)' <=> Emptying(o)
             /\ \A g \in Game : Pending(o, g)' <=> Pending(o, g)
             /\ Emptying(o) => ~Pending(o, n)
  BY <1>0, <1>1, <1>2 DEF Emptying, Pending
<1>6. OneMap'
  BY <1>2, <1>3, <1>4, <1>5 DEF OwnerInv, OneMap
<1>7. NewInv'
  <2> SUFFICES ASSUME NEW m \in New, pc'[m] \in {"create", "allocate", "measure"}
               PROVE  /\ ~Allocated(m)' /\ item'[m] = m
                      /\ \A o \in Orch : m \notin moving'[o] /\ item'[o] # m
    BY DEF NewInv
  <2>1. CASE m = n
    <3>1. pc'[n] \in {"allocate", "measure"}
      BY <1>0, <2>1 DEF AllocateGame, Allocate, Measure, Place, Returns, Fails, Goto, controller
    <3> QED BY <1>0, <1>1, <1>2, <1>3, <2>1, <3>1 DEF Allocated
  <2>2. CASE m # n
    BY <1>0, <1>2, <1>4, <2>2, GameAssumption DEF OwnerInv, NewInv, Allocated
  <2> QED BY <2>1, <2>2
<1>8. ASSUME NEW o \in Orch, Emptying(o)'
      PROVE  MoveInv(o)'
  <2>1. MoveInv(o) /\ cur[o] \in Server
    BY <1>5, <1>8 DEF OwnerInv, MoveInv
  <2>2. \A g \in Game \ {n} : Elsewhere(g, cur[o])' <=> Elsewhere(g, cur[o])
    BY <1>2, <1>4 DEF Elsewhere
  <2>3. HasMoved(o)' => HasMoved(o)
    BY <1>2, <1>3, <1>4, <2>1, <2>2 DEF HasMoved, Elsewhere
  <2> QED
    BY <1>0, <1>2, <1>5, <1>8, <2>1, <2>2, <2>3 DEF MoveInv
<1> QED
  BY <1>6, <1>7, <1>8 DEF OwnerInv

\* Only one controller empties a map.
LEMMA OneEmpties ==
    ASSUME OneController, NEW o \in Orch, NEW p \in Orch, Acting(o), Emptying(p)
    PROVE  p = o
BY DEF OneController, Acting, Emptying

LEMMA OrchAllocates ==
    ASSUME Errors = FALSE, TypeOK, OwnerInv, OneController, NEW o \in Orch, AllocateGame(o)
    PROVE  OwnerInv'
<1> USE DEF TypeOK, RedisType, ControllerType, AllocationType
<1>0. o \notin New /\ o \in Caller /\ New \subseteq Caller /\ Orch \subseteq Caller
  BY GameAssumption, ProcessAssumption DEF Caller
<1>1. /\ Emptying(o) /\ Acting(o) /\ MoveInv(o)
      /\ pc[o] \in {"allocate", "measure"} /\ item[o] \in Game
  BY <1>0 DEF AllocateGame, Allocate, Measure, Place, Emptying, Acting, OwnerInv
<1>2. ASSUME NEW p \in Orch, p # o
      PROVE  ~Emptying(p) /\ ~Emptying(p)'
  <2>1. ~Emptying(p)
    BY <1>1, <1>2, OneEmpties
  <2>2. pc'[p] = pc[p]
    BY <1>0, <1>2 DEF AllocateGame, Allocate, Measure, Place, Goto, Returns, Fails
  <2> QED BY <2>1, <2>2 DEF Emptying
<1>3. \A n \in New : pc'[n] = pc[n] /\ item'[n] = item[n]
  BY <1>0 DEF AllocateGame, Allocate, Measure, Place, Goto, Returns, Fails
<1>4. /\ index' = index /\ cur' = cur
      /\ \A p \in Orch : moving'[p] \subseteq moving[p]
      /\ \A p \in Orch : item'[p] = item[p] \/ item'[p] = None
  BY <1>0 DEF AllocateGame, Allocate, Measure, Place, Fails, redis, controller
<1>5. \A g \in Game : \A s, t \in Server : s # t /\ g \in games[s] /\ g \in games[t] =>
          cur[o] \in {s, t} /\ ~Pending(o, g)
  BY <1>2 DEF OwnerInv, OneMap
<1>6. CASE Allocate(o)
  <2>1. UNCHANGED <<games, moving, item, best>> /\ cand' = [cand EXCEPT ![o] = index \ {cur[o]}]
        /\ pc' = [pc EXCEPT ![o] = "measure"]
    BY <1>6 DEF Allocate, Goto, redis
  <2>2. best[o] = NoServer
    BY <1>0, <1>6 DEF Allocate
  <2>3. Emptying(o)' /\ MoveInv(o)'
    BY <1>0, <1>1, <1>4, <1>6, <2>1, <2>2
    DEF Allocate, Emptying, MoveInv, Pending, HasMoved, Elsewhere
  <2>4. OneMap'
    BY <1>0, <1>4, <1>5, <1>6, <2>1, <2>3 DEF Allocate, OneMap, Pending
  <2>5. NewInv'
    BY <1>3, <2>1 DEF OwnerInv, NewInv, Allocated
  <2> QED BY <1>2, <2>3, <2>4, <2>5 DEF OwnerInv
<1>7. CASE Measure(o)
  <2>1. UNCHANGED <<pc, games, moving, item>>
    BY <1>7 DEF Measure, redis, controller
  <2>2. PICK s \in cand[o] :
          \/ /\ best'[o] = [key |-> s, load |-> Cardinality(games[s])]
             /\ cand'[o] \subseteq cand[o]
          \/ /\ best[o].load >= 0
             /\ best'[o] = best[o] /\ cand'[o] = cand[o] \ {s}
    BY <1>0, <1>7 DEF Measure
  <2>3. /\ s \in index \ {cur[o]} /\ s # None
        /\ best[o].load >= 0 => best[o] # NoServer
    BY <1>1, <1>7, ProcessAssumption DEF Measure, MoveInv, NoServer
  <2>4. /\ cand'[o] \subseteq index \ {cur[o]}
        /\ best'[o] # NoServer /\ best'[o].key \in index \ {cur[o]}
    <3>1. CASE best'[o] = [key |-> s, load |-> Cardinality(games[s])] /\ cand'[o] \subseteq cand[o]
      BY <1>1, <1>7, <2>3, <3>1 DEF Measure, MoveInv, NoServer
    <3>2. CASE best[o].load >= 0 /\ best'[o] = best[o] /\ cand'[o] = cand[o] \ {s}
      BY <1>1, <1>7, <2>3, <3>2 DEF Measure, MoveInv
    <3> QED BY <2>2, <3>1, <3>2
  <2>5. Emptying(o)' /\ MoveInv(o)'
    BY <1>1, <1>4, <1>7, <2>1, <2>4
    DEF Measure, Emptying, MoveInv, Pending, HasMoved, Elsewhere
  <2>6. OneMap'
    BY <1>4, <1>5, <2>1, <2>5 DEF OneMap, Pending
  <2>7. NewInv'
    BY <1>3, <2>1 DEF OwnerInv, NewInv, Allocated
  <2> QED BY <1>2, <2>5, <2>6, <2>7 DEF OwnerInv
<1>8. CASE Place(o) /\ best[o] # NoServer
  <2> DEFINE t == best[o].key
  <2>1. /\ games' = [games EXCEPT ![t] = @ \cup {item[o]}]
        /\ pc' = [pc EXCEPT ![o] = "pick"] /\ moving' = moving
    BY <1>8 DEF Place, Returns, Goto
  <2>2. t \in index \ {cur[o]} /\ t \in Server
    BY <1>1, <1>8 DEF Place, MoveInv
  <2>3. item[o] \notin moving[o] /\ ~Elsewhere(item[o], cur[o]) /\ cur[o] \in Server
    BY <1>1 DEF MoveInv, Pending
  <2>4. pc'[o] = "pick" /\ Emptying(o)'
    BY <1>0, <2>1 DEF Emptying
  <2>5. MoveInv(o)'
    <3>1. \A g \in moving'[o] : g \in Game /\ ~Elsewhere(g, cur[o])'
      BY <1>1, <1>4, <2>1, <2>3 DEF MoveInv, Pending, Elsewhere
    <3>2. index' \ {cur'[o]} # {}
      BY <1>4, <2>2
    <3> QED BY <1>4, <2>3, <2>4, <3>1, <3>2 DEF MoveInv, Pending
  <2>6. OneMap'
    <3> SUFFICES ASSUME NEW g \in Game, NEW u \in Server, NEW v \in Server, u # v,
                        g \in games'[u], g \in games'[v]
                 PROVE  cur'[o] \in {u, v} /\ ~Pending(o, g)'
      BY <2>4 DEF OneMap
    <3>1. CASE g = item[o]
      BY <1>4, <2>1, <2>2, <2>3, <2>4, <3>1 DEF Elsewhere, Pending
    <3>2. CASE g # item[o]
      <4>1. g \in games[u] /\ g \in games[v]
        BY <2>1, <2>2, <3>2
      <4> QED BY <1>4, <1>5, <2>1, <2>4, <4>1 DEF Pending
    <3> QED BY <3>1, <3>2
  <2>7. NewInv'
    BY <1>0, <1>3, <1>4, <2>1, <2>2, ProcessAssumption, GameAssumption DEF OwnerInv, NewInv, Allocated
  <2> QED BY <1>2, <2>5, <2>6, <2>7 DEF OwnerInv
<1>9. CASE Place(o) /\ best[o] = NoServer
  <2>1. games' = games /\ pc' = [pc EXCEPT ![o] = "fetch"]
    BY <1>9 DEF Place, Fails, Goto
  <2>2. ~HasMoved(o)
    BY <1>1, <1>9 DEF Place, MoveInv
  <2>3. OneMap'
    BY <1>5, <2>1, <2>2 DEF OneMap, HasMoved, Elsewhere
  <2>4. ~Emptying(o)'
    BY <1>0, <2>1 DEF Emptying
  <2>5. NewInv'
    BY <1>0, <1>3, <1>4, <2>1, ProcessAssumption, GameAssumption DEF OwnerInv, NewInv, Allocated
  <2> QED BY <1>2, <2>3, <2>4, <2>5 DEF OwnerInv
<1> QED
  BY <1>6, <1>7, <1>8, <1>9 DEF AllocateGame

LEMMA ControllerOwner ==
    ASSUME Errors = FALSE, TypeOK, OwnerInv, OneController, NEW p \in Orch, FOController(p)
    PROVE  OwnerInv'
<1> USE DEF TypeOK, RedisType, ControllerType, AllocationType
<1>0. p \notin New /\ New \subseteq Caller /\ Orch \subseteq Caller
  BY GameAssumption, ProcessAssumption DEF Caller
<1>1. /\ \A c \in Caller \ {p} : pc'[c] = pc[c] /\ item'[c] = item[c]
      /\ \A o \in Orch \ {p} : moving'[o] = moving[o] /\ cur'[o] = cur[o]
  BY <1>0
  DEF FOController, Lease, Check, List, Find, Fetch, Pick, SRem, Del, EndPass, Goto,
      controller, allocation
<1>2. UNCHANGED <<cand, best>>
  BY DEF FOController, Lease, Check, List, Find, Fetch, Pick, SRem, Del, EndPass, allocation
<1>3. CASE Lease(p) \/ Check(p) \/ List(p) \/ Find(p) \/ EndPass(p)
  <2>1. UNCHANGED <<index, games, moving, item>> /\ ~Emptying(p) /\ ~Emptying(p)'
    BY <1>0, <1>3
    DEF Lease, Check, List, Find, EndPass, Goto, Emptying, redis, controller, allocation
  <2>2. OneMap'
    BY <1>0, <1>1, <2>1 DEF OwnerInv, OneMap, Emptying, Pending
  <2>3. NewInv'
    BY <1>0, <1>1, <2>1 DEF OwnerInv, NewInv, Allocated
  <2>4. ASSUME NEW o \in Orch, Emptying(o)'
        PROVE  MoveInv(o)'
    BY <1>0, <1>1, <1>2, <2>1, <2>4
    DEF OwnerInv, MoveInv, Emptying, Pending, HasMoved, Elsewhere
  <2> QED BY <2>2, <2>3, <2>4 DEF OwnerInv
<1>4. ASSUME NEW o \in Orch, o # p, Acting(p)
      PROVE  ~Emptying(o) /\ ~Emptying(o)'
  BY <1>0, <1>1, <1>4 DEF OneController, Acting, Emptying
<1>5. CASE Fetch(p)
  <2>1. /\ UNCHANGED <<index, games, item>>
        /\ cur'[p] \in Server /\ moving'[p] = games[cur'[p]]
        /\ pc'[p] = "pick"
    BY <1>0, <1>5 DEF Fetch, Goto, redis, allocation
  <2>2. Acting(p) /\ ~Emptying(p)
    BY <1>5 DEF Fetch, Acting, Emptying
  <2>3. \A g \in Game : \A s, t \in Server : g \in games[s] /\ g \in games[t] => s = t
    BY <1>4, <2>2 DEF OwnerInv, OneMap
  <2>4. MoveInv(p)'
    BY <1>2, <2>1, <2>3 DEF MoveInv, Pending, HasMoved, Elsewhere
  <2>5. OneMap'
    BY <2>1, <2>3 DEF OneMap
  <2>6. NewInv'
    BY <1>0, <1>1, <2>1 DEF OwnerInv, NewInv, Allocated
  <2> QED BY <1>4, <2>2, <2>4, <2>5, <2>6 DEF OwnerInv
<1>6. CASE Pick(p) \/ SRem(p) \/ Del(p)
  <2>1. Acting(p) /\ Emptying(p) /\ MoveInv(p)
    BY <1>6 DEF Pick, SRem, Del, Acting, Emptying, OwnerInv
  <2>2. cur' = cur
    BY <1>6 DEF Pick, SRem, Del, controller
  <2>3. \A g \in Game : \A s, t \in Server : s # t /\ g \in games[s] /\ g \in games[t] =>
            cur[p] \in {s, t} /\ ~Pending(p, g)
    BY <1>4, <2>1 DEF OwnerInv, OneMap
  <2>4. CASE Pick(p)
    <3>1. PICK g \in moving[p] : /\ item' = [item EXCEPT ![p] = g]
                                 /\ moving' = [moving EXCEPT ![p] = @ \ {g}]
                                 /\ pc' = [pc EXCEPT ![p] = "allocate"]
                                 /\ UNCHANGED <<index, games>>
      BY <2>4 DEF Pick, Goto, redis
    <3>2. Emptying(p)' /\ (\A h \in Game : Pending(p, h)' <=> Pending(p, h))
      BY <1>0, <2>4, <3>1 DEF Pick, Emptying, Pending
    <3>3. MoveInv(p)'
      BY <1>0, <1>2, <2>1, <2>2, <2>4, <3>1, <3>2 DEF Pick, MoveInv, HasMoved, Elsewhere
    <3>4. OneMap'
      BY <2>2, <2>3, <3>1, <3>2 DEF OneMap
    <3>5. NewInv'
      BY <1>0, <1>1, <3>1 DEF OwnerInv, NewInv, Allocated
    <3> QED BY <1>4, <2>1, <3>3, <3>4, <3>5 DEF OwnerInv
  <2>5. CASE SRem(p)
    <3>1. /\ pc' = [pc EXCEPT ![p] = "del"] /\ moving[p] = {}
          /\ UNCHANGED <<games, moving, item>>
      BY <2>5 DEF SRem, Goto, controller, allocation
    <3>2. Emptying(p)' /\ (\A h \in Game : Pending(p, h)' => Pending(p, h))
      BY <1>0, <3>1 DEF Emptying, Pending
    <3>3. MoveInv(p)'
      BY <1>0, <2>1, <2>2, <3>1, <3>2 DEF MoveInv, Elsewhere
    <3>4. OneMap'
      BY <2>2, <2>3, <3>1, <3>2 DEF OneMap
    <3>5. NewInv'
      BY <1>0, <1>1, <3>1 DEF OwnerInv, NewInv, Allocated
    <3> QED BY <1>4, <2>1, <3>3, <3>4, <3>5 DEF OwnerInv
  <2>6. CASE Del(p)
    <3>1. /\ games' = [games EXCEPT ![cur[p]] = {}] /\ UNCHANGED <<moving, item>>
          /\ ~Emptying(p)'
      BY <1>0, <2>6 DEF Del, Goto, Emptying, controller, allocation
    <3>2. OneMap'
      BY <2>1, <2>3, <3>1 DEF OneMap, MoveInv
    <3>3. NewInv'
      BY <1>0, <1>1, <2>1, <3>1 DEF OwnerInv, NewInv, Allocated, MoveInv
    <3> QED BY <1>4, <2>1, <3>1, <3>2, <3>3 DEF OwnerInv
  <2> QED BY <1>6, <2>4, <2>5, <2>6
<1> QED
  BY <1>3, <1>5, <1>6 DEF FOController

LEMMA OwnerStep ==
    ASSUME Errors = FALSE, Orch \cap Mortal = {}, TypeOK, OwnerInv, OneController,
           [Next]_vars
    PROVE  OwnerInv'
<1>1. ASSUME NEW s \in Server, GSync(s) \/ Crash(s)
      PROVE  OwnerInv'
  BY <1>1, GSyncOwner
<1>2. ASSUME NEW n \in Caller, AllocateGame(n) \/ Create(n)
      PROVE  OwnerInv'
  BY <1>2, NewAllocates, OrchAllocates, CreateOwner DEF Create, Caller
<1>3. ASSUME NEW o \in Orch, FOController(o) \/ CrashOrch(o)
      PROVE  OwnerInv'
  BY <1>3, ControllerOwner DEF CrashOrch
<1>4. CASE \/ \E s \in Server : AddrExpires(s)
           \/ \E g \in Game : GameExpires(g)
           \/ LeaseExpires \/ UNCHANGED vars
  BY <1>4, OwnerShrinks DEF AddrExpires, GameExpires, LeaseExpires, vars, redis
<1> QED
  BY <1>1, <1>2, <1>3, <1>4 DEF Next

\* As long as no call fails and no orchestrator crashes, whatever the servers
\* do, no two servers that are alive and on time handle the same game.
THEOREM GamesHaveOneOwner ==
    ASSUME Errors = FALSE, Orch \cap Mortal = {}
    PROVE  Spec /\ []OneController => []OneLiveOwner
<1>1. Init => GoneInv /\ OwnerInv
  BY GoneInit, OwnerInit
<1>2. TypeOK /\ GoneInv /\ OwnerInv /\ OneController /\ [Next]_vars
         => GoneInv' /\ OwnerInv'
  BY GoneStep, OwnerStep
<1>3. ASSUME TypeOK, GoneInv, OwnerInv
      PROVE  OneLiveOwner
  <2> SUFFICES ASSUME NEW g \in Game, NEW s \in addr \ Lagging, NEW t \in addr \ Lagging,
                      g \in games[s], g \in games[t], s # t
               PROVE  FALSE
    BY DEF OneLiveOwner
  <2>1. PICK o \in Orch : Emptying(o) /\ cur[o] \in {s, t}
    BY <1>3 DEF OwnerInv, OneMap, TypeOK, RedisType
  <2> QED
    BY <1>3, <2>1 DEF GoneInv, Gone
<1> QED
  BY <1>1, <1>2, <1>3, FailoverTypeCorrect, PTL DEF Spec
=============================================================================
