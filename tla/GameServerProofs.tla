-------------------------- MODULE GameServerProofs --------------------------
(***************************************************************************)
(* Theorems about GameServer for every set of streams, ids, games, players *)
(* and workers, every channel size and every number of requests per        *)
(* worker.                                                                 *)
(***************************************************************************)
EXTENDS GameServer, RequestSplitProofs, SequenceTheorems

-----------------------------------------------------------------------------
(* Partial functions: the maps of the program.                              *)

LEMMA PartialFnDef ==
    ASSUME NEW S, NEW T, NEW f
    PROVE  f \in PartialFn(S, T) <=> DOMAIN f \subseteq S /\ f \in [DOMAIN f -> T]
BY DEF PartialFn

LEMMA EmptyType ==
    ASSUME NEW S, NEW T
    PROVE  Empty \in PartialFn(S, T) /\ DOMAIN Empty = {}
BY DEF PartialFn, Empty

LEMMA PutType ==
    ASSUME NEW S, NEW T, NEW f \in PartialFn(S, T), NEW k \in S, NEW v \in T
    PROVE  Put(f, k, v) \in PartialFn(S, T)
<1>1. DOMAIN f \subseteq S /\ f \in [DOMAIN f -> T]
  BY PartialFnDef
<1>2. Put(f, k, v) \in [DOMAIN f \cup {k} -> T]
  BY <1>1 DEF Put
<1> QED
  BY <1>1, <1>2 DEF PartialFn

LEMMA RestrictType ==
    ASSUME NEW S, NEW T, NEW f \in PartialFn(S, T), NEW D \in SUBSET DOMAIN f
    PROVE  Restrict(f, D) \in PartialFn(S, T) /\ DOMAIN Restrict(f, D) = D
<1>1. DOMAIN f \subseteq S /\ f \in [DOMAIN f -> T]
  BY PartialFnDef
<1>2. Restrict(f, D) \in [D -> T]
  BY <1>1 DEF Restrict
<1> QED
  BY <1>1, <1>2 DEF PartialFn

LEMMA DropType ==
    ASSUME NEW S, NEW T, NEW f \in PartialFn(S, T), NEW k
    PROVE  Drop(f, k) \in PartialFn(S, T) /\ DOMAIN Drop(f, k) = DOMAIN f \ {k}
BY RestrictType DEF Drop

LEMMA ExceptType ==
    ASSUME NEW S, NEW T, NEW f \in PartialFn(S, T), NEW k \in DOMAIN f, NEW v \in T
    PROVE  /\ [f EXCEPT ![k] = v] \in PartialFn(S, T)
           /\ DOMAIN [f EXCEPT ![k] = v] = DOMAIN f
<1>1. DOMAIN f \subseteq S /\ f \in [DOMAIN f -> T]
  BY PartialFnDef
<1>2. [f EXCEPT ![k] = v] \in [DOMAIN f -> T]
  BY <1>1
<1> QED
  BY <1>1, <1>2 DEF PartialFn

-----------------------------------------------------------------------------
(* Type correctness, by the parts of the type invariant.                    *)

LEMMA SharedUnchanged == SharedType /\ UNCHANGED shared => SharedType'
BY DEF SharedType, shared

LEMMA StreamsUnchanged == StreamType /\ UNCHANGED streams => StreamType'
BY DEF StreamType, streams

LEMMA SchedulerUnchanged == SchedulerType /\ UNCHANGED scheduler => SchedulerType'
BY DEF SchedulerType, scheduler

LEMMA WorkersUnchanged == WorkerType /\ UNCHANGED workers => WorkerType'
BY DEF WorkerType, workers

LEMMA SyncUnchanged ==
    SyncType /\ UNCHANGED syncer /\ DOMAIN boards' = DOMAIN boards => SyncType'
BY DEF SyncType, syncer

\* What a step on one board does to the type of the boards.
LEMMA BoardType ==
    ASSUME SharedType, NEW g \in DOMAIN boards, NEW b \in Board,
           boards' = [boards EXCEPT ![g] = b]
    PROVE  boards' \in PartialFn(Game, Board) /\ DOMAIN boards' = DOMAIN boards
BY ExceptType DEF SharedType

LEMMA BoardsHoldBoards ==
    ASSUME SharedType, NEW g \in DOMAIN boards
    PROVE  g \in Game /\ boards[g] \in Board
BY PartialFnDef DEF SharedType

LEMMA InitType == Init => TypeOK
<1> SUFFICES ASSUME Init
             PROVE  TypeOK
  OBVIOUS
<1>1. SharedType
  BY EmptyType DEF Init, SharedType, Slice
<1>2. StreamType
  BY DEF Init, StreamType
<1>3. SchedulerType
  BY EmptySeq DEF Init, SchedulerType
<1>4. WorkerType
  BY EmptySeq, EmptyType DEF Init, WorkerType, Slice
<1>5. SyncType
  BY EmptyType DEF Init, SyncType
<1> QED
  BY <1>1, <1>2, <1>3, <1>4, <1>5 DEF TypeOK

LEMMA StreamStepType ==
    ASSUME TypeOK, NEW s \in Session, Stream(s)
    PROVE  TypeOK'
<1> USE DEF TypeOK
<1>a. sid[s] \in SessionId
  BY DEF StreamType
<1>1. CASE Recv(s)
  <2>1. PICK m \in Moves[s] :
          IF m.game \in DOMAIN boards
          THEN /\ pc' = [pc EXCEPT ![s] = "store"]
               /\ inbox' = [inbox EXCEPT ![s] = m]
               /\ view' = [view EXCEPT ![s] = m.game]
               /\ UNCHANGED result
          ELSE /\ pc' = [pc EXCEPT ![s] = "cleanup"]
               /\ result' = [result EXCEPT ![s] = "notfound"]
               /\ UNCHANGED <<inbox, view>>
    BY <1>1 DEF Recv
  <2>2. m \in Move /\ m.game \in Game /\ m # NoMove
    BY InputAssumption, NullAssumption DEF Move
  <2>3. UNCHANGED <<shared, sid, scheduler, workers, syncer>>
    BY <1>1 DEF Recv
  <2>4. StreamType'
    BY <2>1, <2>2, <2>3 DEF StreamType, Error
  <2> QED
    BY <2>3, <2>4, SharedUnchanged, SchedulerUnchanged, WorkersUnchanged,
       SyncUnchanged DEF shared
<1>2. CASE RecvEnd(s)
  <2>1. StreamType'
    BY <1>2 DEF RecvEnd, StreamType
  <2> QED
    BY <1>2, <2>1, SharedUnchanged, SchedulerUnchanged, WorkersUnchanged,
       SyncUnchanged DEF RecvEnd, shared
<1>3. CASE Store(s)
  <2>1. inbox[s] \in Move
    BY <1>3 DEF Store, StreamType
  <2>2. requests' \in Slice
    BY <1>3, <1>a, <2>1, PutType DEF Store, SharedType, Slice
  <2>3. SharedType'
    BY <1>3, <2>2 DEF Store, SharedType, WriteLocked
  <2>4. StreamType'
    BY <1>3 DEF Store, StreamType
  <2> QED
    BY <1>3, <2>3, <2>4, SchedulerUnchanged, WorkersUnchanged, SyncUnchanged
    DEF Store
<1>4. CASE Check(s)
  <2>1. HasError(sid[s]) => responses[sid[s]] \in Error
    BY PartialFnDef DEF HasError, SharedType
  <2>2. StreamType'
    BY <1>4, <2>1 DEF Check, StreamType
  <2> QED
    BY <1>4, <2>2, SharedUnchanged, SchedulerUnchanged, WorkersUnchanged,
       SyncUnchanged DEF Check, shared
<1>5. CASE Send(s)
  <2>1. StreamType'
    BY <1>5 DEF Send, StreamType
  <2> QED
    BY <1>5, <2>1, SharedUnchanged, SchedulerUnchanged, WorkersUnchanged,
       SyncUnchanged DEF Send, shared
<1>6. CASE Cleanup(s)
  <2>1. requests' \in Slice
    BY <1>6, DropType DEF Cleanup, SharedType, Slice
  <2>2. responses' \in PartialFn(SessionId, Error \cup {"nil"})
    BY <1>6, DropType DEF Cleanup, SharedType
  <2>3. SharedType'
    BY <1>6, <2>1, <2>2 DEF Cleanup, SharedType, WriteLocked
  <2>4. StreamType'
    BY <1>6 DEF Cleanup, StreamType
  <2> QED
    BY <1>6, <2>3, <2>4, SchedulerUnchanged, WorkersUnchanged, SyncUnchanged
    DEF Cleanup
<1> QED
  BY <1>1, <1>2, <1>3, <1>4, <1>5, <1>6 DEF Stream

\* The scheduler.  The numbers of requests and of workers are naturals.
LEMMA PendingFinite ==
    ASSUME SharedType
    PROVE  Cardinality(DOMAIN requests) \in Nat
BY SizeAssumption, PartialFnDef, FS_Subset, FS_CardinalityType DEF SharedType, Slice

LEMMA SplitsType ==
    ASSUME NEW K, NEW d \in Nat, NEW f \in Splits(K, d)
    PROVE  /\ f \in Seq(SUBSET K)
           /\ Len(f) = d
           /\ \A i \in 1 .. d : f[i] \in SUBSET K
<1>1. CASE d = 0
  <2>1. f = << >>
    BY <1>1 DEF Splits
  <2> QED
    BY <1>1, <2>1, EmptySeq
<1>2. CASE d # 0
  <2>1. f \in [1 .. d -> SUBSET K]
    BY <1>2 DEF Splits
  <2> QED
    BY <2>1
<1> QED
  BY <1>1, <1>2

\* What AdjustWorkers does to the pool, for every number of workers wanted.
LEMMA AdjustLemma ==
    ASSUME SchedulerType, NEW desired \in Nat, AdjustWorkers(desired)
    PROVE  /\ pool' \in Seq(Worker)
           /\ Len(pool') = desired
           /\ running' \subseteq Worker /\ running \subseteq running'
           /\ closed' \subseteq Worker /\ closed \subseteq closed'
           /\ \A i \in 1 .. desired :
                 IF i <= Len(pool) THEN pool'[i] = pool[i]
                 ELSE pool'[i] \in running' \ running
           /\ closed' = closed \cup {pool[i] : i \in desired + 1 .. Len(pool)}
           /\ \A i, j \in 1 .. desired :
                 i > Len(pool) /\ j > Len(pool) /\ pool'[i] = pool'[j] => i = j
<1> DEFINE n == Len(pool)
<1>1. PICK new \in [n + 1 .. desired -> Worker \ running] :
        /\ IsInjective(new)
        /\ pool' = [i \in 1 .. desired |-> IF i <= n THEN pool[i] ELSE new[i]]
        /\ running' = running \cup Range(new)
        /\ closed' = closed \cup {pool[i] : i \in desired + 1 .. n}
  BY DEF AdjustWorkers
<1>2. n \in Nat /\ pool \in [1 .. n -> Worker]
  BY DEF SchedulerType
<1>3. ASSUME NEW i \in 1 .. desired
      PROVE  IF i <= n THEN pool[i] \in Worker
             ELSE i \in n + 1 .. desired /\ new[i] \in Worker \ running
  BY <1>1, <1>2
<1>4. pool' \in Seq(Worker) /\ Len(pool') = desired
  <2>1. pool' \in [1 .. desired -> Worker]
    BY <1>1, <1>3
  <2> QED
    BY <2>1
<1>5. \A i \in n + 1 .. desired : new[i] \in Range(new) /\ new[i] \in Worker \ running
  BY <1>1 DEF Range
<1>6. Range(new) \subseteq Worker
  BY <1>1 DEF Range
<1>7. {pool[i] : i \in desired + 1 .. n} \subseteq Worker
  BY <1>2
<1>8. ASSUME NEW i \in 1 .. desired, NEW j \in 1 .. desired,
             i > n, j > n, pool'[i] = pool'[j]
      PROVE  i = j
  <2>1. i \in DOMAIN new /\ j \in DOMAIN new /\ new[i] = new[j]
    BY <1>1, <1>2, <1>8
  <2> QED
    BY <1>1, <2>1 DEF IsInjective
<1>9. \A i \in 1 .. desired : IF i <= n THEN pool'[i] = pool[i]
                              ELSE pool'[i] \in running' \ running
  BY <1>1, <1>2, <1>5
<1>10. /\ running' \subseteq Worker /\ running \subseteq running'
       /\ closed' \subseteq Worker /\ closed \subseteq closed'
  BY <1>1, <1>6, <1>7 DEF SchedulerType
<1> QED
  BY <1>1, <1>4, <1>8, <1>9, <1>10

\* Cutting the slices: their number is the count, their union the requests.
LEMMA SlicesType ==
    ASSUME SharedType, SchedulerType, BeginDispatch
    PROVE  slices' \in Seq(Slice) /\ Len(slices') = count
<1>1. PICK f \in Splits(DOMAIN requests, count) :
        slices' = [i \in 1 .. Len(f) |-> Restrict(requests, f[i])]
  BY DEF BeginDispatch
<1>2. /\ count \in Nat
      /\ Len(f) = count
      /\ \A i \in 1 .. count : f[i] \in SUBSET DOMAIN requests
  BY <1>1, SplitsType DEF SchedulerType
<1>3. \A i \in 1 .. count : Restrict(requests, f[i]) \in Slice
  BY <1>2, RestrictType DEF SharedType, Slice
<1>4. slices' \in [1 .. count -> Slice]
  BY <1>1, <1>2, <1>3
<1> QED
  BY <1>2, <1>4

LEMMA SchedulerStepType ==
    ASSUME TypeOK, Scheduler
    PROVE  TypeOK'
<1> USE DEF TypeOK
<1>1. CASE Tick
  <2>1. count' \in Nat
    BY <1>1, PendingFinite, ConfAssumption, CeilDivSpec DEF Tick, WorkerCount
  <2>2. SchedulerType'
    BY <1>1, <2>1, AdjustLemma DEF Tick, SchedulerType
  <2> QED
    BY <1>1, <2>2, SharedUnchanged, StreamsUnchanged, WorkersUnchanged,
       SyncUnchanged DEF Tick, shared
<1>2. CASE BeginDispatch
  <2>1. SchedulerType'
    <3>1. slices' \in Seq(Slice) /\ Len(slices') \in Nat
      BY <1>2, SlicesType DEF SchedulerType
    <3> QED
      BY <1>2, <3>1 DEF BeginDispatch, SchedulerType
  <2>2. SharedType'
    BY <1>2 DEF BeginDispatch, SharedType
  <2> QED
    BY <1>2, <2>1, <2>2, StreamsUnchanged, WorkersUnchanged, SyncUnchanged
    DEF BeginDispatch
<1>3. CASE AddResponse
  <2>1. next \in 1 .. Len(slices) /\ slices[next] \in Slice
    BY <1>3, ElementOfSeq DEF AddResponse, SchedulerType
  <2>2. WorkerType'
    BY <1>3, <2>1, AppendProperties DEF AddResponse, WorkerType
  <2>3. SchedulerType'
    BY <1>3, <2>1 DEF AddResponse, SchedulerType
  <2> QED
    BY <1>3, <2>2, <2>3, SharedUnchanged, StreamsUnchanged, SyncUnchanged
    DEF AddResponse, shared
<1>4. CASE EndDispatch
  <2>1. SchedulerType'
    BY <1>4, EmptySeq DEF EndDispatch, SchedulerType
  <2>2. SharedType'
    BY <1>4 DEF EndDispatch, SharedType
  <2> QED
    BY <1>4, <2>1, <2>2, StreamsUnchanged, WorkersUnchanged, SyncUnchanged
    DEF EndDispatch
<1> QED
  BY <1>1, <1>2, <1>3, <1>4 DEF Scheduler

\* The workers.  A move a worker handles for a player on the board names a
\* loaded board and one of its players.
LEMMA MoveType ==
    ASSUME WorkerType, NEW w \in Worker, NEW id \in DOMAIN task[w]
    PROVE  id \in SessionId /\ task[w][id] \in Move
BY PartialFnDef DEF WorkerType, Slice

LEMMA RespondType ==
    ASSUME TypeOK, NEW w \in Worker, NEW id \in SessionId, NextRequest(w, id),
           boards' \in PartialFn(Game, Board), DOMAIN boards' = DOMAIN boards,
           responses' \in PartialFn(SessionId, Error \cup {"nil"}),
           crashed' \in BOOLEAN
    PROVE  TypeOK'
<1> USE DEF TypeOK
<1>1. SharedType'
  BY DEF NextRequest, WriteLocked, SharedType
<1>2. WorkerType'
  BY DropType DEF NextRequest, WorkerType, Slice
<1> QED
  BY <1>1, <1>2, StreamsUnchanged, SchedulerUnchanged, SyncUnchanged
  DEF NextRequest

LEMMA WorkerStepType ==
    ASSUME TypeOK, NEW w \in Worker, PoolWorker(w)
    PROVE  TypeOK'
<1> USE DEF TypeOK
<1>1. CASE Take(w)
  <2>1. WorkerType'
    BY <1>1, HeadTailProperties DEF Take, WorkerType
  <2> QED
    BY <1>1, <2>1, SharedUnchanged, StreamsUnchanged, SchedulerUnchanged,
       SyncUnchanged DEF Take, shared
<1>2. CASE Exit(w)
  <2>1. SchedulerType'
    BY <1>2 DEF Exit, SchedulerType
  <2> QED
    BY <1>2, <2>1, SharedUnchanged, StreamsUnchanged, WorkersUnchanged,
       SyncUnchanged DEF Exit, shared
<1>3. CASE Respond(w)
  <2>1. PICK id \in SessionId : Skip(w, id) \/ Refuse(w, id) \/ LeaveMap(w, id)
                                \/ Ring(w, id) \/ Walk(w, id)
    BY <1>3 DEF Respond
  <2> DEFINE m == task[w][id]
             g == m.game
  <2>2. /\ boards \in PartialFn(Game, Board)
        /\ responses \in PartialFn(SessionId, Error \cup {"nil"})
        /\ crashed \in BOOLEAN
    BY DEF SharedType
  <2>3. WritePlayers(g) => crashed' \in BOOLEAN
    BY DEF WritePlayers, Sending
  <2>4. ASSUME NEW e \in Error \cup {"nil"}
        PROVE  Put(responses, id, e) \in PartialFn(SessionId, Error \cup {"nil"})
    BY <2>2, PutType
  <2>5. ASSUME OnBoard(m)
        PROVE  /\ g \in DOMAIN boards
               /\ boards[g] \in Board
               /\ m.user \in DOMAIN boards[g]
    BY <2>5, BoardsHoldBoards DEF OnBoard
  <2>6. CASE Skip(w, id)
    BY <2>2, <2>6, RespondType DEF Skip
  <2>7. CASE Refuse(w, id)
    <3>1. Verdict(m) \in Error \cup {"nil"}
      BY DEF Verdict, Error
    <3>2. NextRequest(w, id) /\ boards' = boards /\ crashed' = crashed
          /\ responses' = Put(responses, id, Verdict(m))
      BY <2>7 DEF Refuse
    <3> QED
      BY <2>2, <2>4, <3>1, <3>2, RespondType
  <2>8. CASE LeaveMap(w, id)
    <3>1. /\ NextRequest(w, id) /\ OnBoard(m)
          /\ boards' = [boards EXCEPT ![g] = Drop(boards[g], m.user)]
          /\ responses' = Put(responses, id, "gameover") /\ crashed' \in BOOLEAN
      BY <2>3, <2>8 DEF LeaveMap
    <3>2. Drop(boards[g], m.user) \in Board
      BY <2>5, <3>1, DropType DEF Board
    <3>3. boards' \in PartialFn(Game, Board) /\ DOMAIN boards' = DOMAIN boards
      BY <2>5, <3>1, <3>2, BoardType
    <3> QED
      BY <2>4, <3>1, <3>3, RespondType DEF Error
  <2>9. CASE Ring(w, id)
    <3> DEFINE ringed == [boards[g] EXCEPT ![m.user] = TRUE]
    <3>1. PICK killed \in SUBSET {p \in m.hits \cap DOMAIN ringed : ~ringed[p]} :
            /\ boards' = [boards EXCEPT ![g] = Restrict(ringed, DOMAIN ringed \ killed)]
            /\ IF killed = {} THEN UNCHANGED crashed ELSE WritePlayers(g)
      BY <2>9 DEF Ring
    <3>2. /\ NextRequest(w, id) /\ OnBoard(m)
          /\ responses' = Put(responses, id, "nil")
      BY <2>9 DEF Ring
    <3>3. ringed \in Board
      BY <2>5, <3>2, ExceptType DEF Board
    <3>4. Restrict(ringed, DOMAIN ringed \ killed) \in Board
      BY <3>3, RestrictType DEF Board
    <3>5. boards' \in PartialFn(Game, Board) /\ DOMAIN boards' = DOMAIN boards
      BY <2>5, <3>1, <3>2, <3>4, BoardType
    <3>6. crashed' \in BOOLEAN
      BY <2>2, <2>3, <3>1
    <3> QED
      BY <2>4, <3>2, <3>5, <3>6, RespondType
  <2>10. CASE Walk(w, id)
    <3>1. /\ NextRequest(w, id) /\ OnBoard(m)
          /\ boards' = [boards EXCEPT ![g] = [boards[g] EXCEPT ![m.user] = FALSE]]
          /\ responses' = Put(responses, id, "nil") /\ crashed' = crashed
      BY <2>10 DEF Walk
    <3>2. [boards[g] EXCEPT ![m.user] = FALSE] \in Board
      BY <2>5, <3>1, ExceptType DEF Board
    <3>3. boards' \in PartialFn(Game, Board) /\ DOMAIN boards' = DOMAIN boards
      BY <2>5, <3>1, <3>2, BoardType
    <3> QED
      BY <2>2, <2>4, <3>1, <3>3, RespondType
  <2> QED
    BY <2>1, <2>6, <2>7, <2>8, <2>9, <2>10
<1> QED
  BY <1>1, <1>2, <1>3 DEF PoolWorker

\* The gsync loop.
LEMMA SyncStepType ==
    ASSUME TypeOK, GSync
    PROVE  TypeOK'
<1> USE DEF TypeOK
<1>1. CASE TakeArrival
  <2>1. SyncType'
    BY <1>1, InputAssumption DEF TakeArrival, SyncType, shared
  <2> QED
    BY <1>1, <2>1, SharedUnchanged, StreamsUnchanged, SchedulerUnchanged,
       WorkersUnchanged DEF TakeArrival
<1>2. CASE AddPlayer
  <2>1. /\ target \in Player \X Game /\ target[2] \in DOMAIN boards
        /\ target[1] \in Player
    BY <1>2 DEF AddPlayer, SyncType
  <2>2. /\ boards' = [boards EXCEPT ![target[2]] =
                        Put(boards[target[2]], target[1], FALSE)]
        /\ UNCHANGED <<requests, responses, readers, streams, scheduler, workers, buf>>
        /\ gsync' = "add" /\ target' = << >> /\ waiting' = FALSE
        /\ crashed' \in BOOLEAN
    BY <1>2 DEF AddPlayer, WriteLocked, WritePlayers, Sending
  <2>3. Put(boards[target[2]], target[1], FALSE) \in Board
    BY <2>1, BoardsHoldBoards, PutType DEF Board
  <2>4. boards' \in PartialFn(Game, Board)
    BY <2>1, <2>2, <2>3, BoardType
  <2>5. SharedType' /\ SyncType'
    BY <2>2, <2>4 DEF SharedType, SyncType
  <2> QED
    BY <2>2, <2>5, StreamsUnchanged, SchedulerUnchanged, WorkersUnchanged
<1>3. CASE AddPlayersDone
  <2>1. SyncType'
    BY <1>3 DEF AddPlayersDone, SyncType, shared
  <2> QED
    BY <1>3, <2>1, SharedUnchanged, StreamsUnchanged, SchedulerUnchanged,
       WorkersUnchanged DEF AddPlayersDone
<1>4. CASE FindPlayer
  <2>1. SyncType'
    BY <1>4, InputAssumption DEF FindPlayer, SyncType, shared
  <2> QED
    BY <1>4, <2>1, SharedUnchanged, StreamsUnchanged, SchedulerUnchanged,
       WorkersUnchanged DEF FindPlayer
<1>5. CASE DeletePlayer
  <2>1. target[2] \in DOMAIN boards
    BY <1>5 DEF DeletePlayer, SyncType
  <2>2. /\ boards' = [boards EXCEPT ![target[2]] =
                        Drop(boards[target[2]], target[1])]
        /\ UNCHANGED <<requests, responses, readers, streams, scheduler, workers, buf>>
        /\ gsync' = "remove" /\ target' = << >> /\ waiting' = FALSE
        /\ crashed' \in BOOLEAN
    BY <1>5 DEF DeletePlayer, WriteLocked, WritePlayers, Sending
  <2>3. Drop(boards[target[2]], target[1]) \in Board
    BY <2>1, BoardsHoldBoards, DropType DEF Board
  <2>4. boards' \in PartialFn(Game, Board)
    BY <2>1, <2>2, <2>3, BoardType
  <2>5. SharedType' /\ SyncType'
    BY <2>2, <2>4 DEF SharedType, SyncType
  <2> QED
    BY <2>2, <2>5, StreamsUnchanged, SchedulerUnchanged, WorkersUnchanged
<1>6. CASE RemovePlayersDone
  <2>1. SyncType'
    BY <1>6 DEF RemovePlayersDone, SyncType, shared
  <2> QED
    BY <1>6, <2>1, SharedUnchanged, StreamsUnchanged, SchedulerUnchanged,
       WorkersUnchanged DEF RemovePlayersDone
<1>7. CASE BeginPersist \/ EndPersist \/ BeginLoad
  <2>1. SharedType'
    BY <1>7 DEF BeginPersist, EndPersist, BeginLoad, SharedType
  <2>2. SyncType'
    BY <1>7 DEF BeginPersist, EndPersist, BeginLoad, SyncType
  <2> QED
    BY <1>7, <2>1, <2>2, StreamsUnchanged, SchedulerUnchanged, WorkersUnchanged
    DEF BeginPersist, EndPersist, BeginLoad
<1>8. CASE EndLoad
  <2>1. SharedType'
    BY <1>8 DEF EndLoad, SharedType
  <2>2. buf' \in PartialFn(Game, Board)
    BY <1>8, InputAssumption DEF EndLoad, PartialFn
  <2>3. SyncType'
    BY <1>8, <2>2 DEF EndLoad, SyncType
  <2> QED
    BY <1>8, <2>1, <2>3, StreamsUnchanged, SchedulerUnchanged, WorkersUnchanged
    DEF EndLoad
<1>9. CASE Swap
  <2>1. boards' \in PartialFn(Game, Board)
    <3>1. DOMAIN buf \subseteq Game /\ \A g \in DOMAIN buf : buf[g] \in Board
      BY PartialFnDef DEF SyncType
    <3>2. \A g \in DOMAIN boards : boards[g] \in Board
      BY BoardsHoldBoards
    <3>3. boards' \in [DOMAIN buf -> Board]
      BY <1>9, <3>1, <3>2 DEF Swap
    <3> QED
      BY <3>1, <3>3 DEF PartialFn
  <2>2. SharedType'
    BY <1>9, <2>1 DEF Swap, SharedType, WriteLocked
  <2>3. StreamType'
    BY <1>9 DEF Swap, StreamType
  <2>4. SyncType'
    BY <1>9, EmptyType DEF Swap, SyncType
  <2> QED
    BY <1>9, <2>2, <2>3, <2>4, SchedulerUnchanged, WorkersUnchanged DEF Swap
<1> QED
  BY <1>1, <1>2, <1>3, <1>4, <1>5, <1>6, <1>7, <1>8, <1>9 DEF GSync

LEMMA TypeStep == TypeOK /\ [Next]_vars => TypeOK'
<1> SUFFICES ASSUME TypeOK, [Next]_vars
             PROVE  TypeOK'
  OBVIOUS
<1>1. CASE \E s \in Session : Stream(s)
  BY <1>1, StreamStepType
<1>2. CASE Scheduler
  BY <1>2, SchedulerStepType
<1>3. CASE \E w \in Worker : PoolWorker(w)
  BY <1>3, WorkerStepType
<1>4. CASE GSync
  BY <1>4, SyncStepType
<1>5. CASE AwaitReaders
  <2>1. SharedType'
    BY <1>5 DEF AwaitReaders, TypeOK, SharedType
  <2> QED
    BY <1>5, <2>1, StreamsUnchanged, SchedulerUnchanged, WorkersUnchanged,
       SyncUnchanged DEF AwaitReaders, TypeOK
<1>6. CASE UNCHANGED vars
  BY <1>6, SharedUnchanged, StreamsUnchanged, SchedulerUnchanged,
     WorkersUnchanged, SyncUnchanged DEF vars, TypeOK, shared
<1> QED
  BY <1>1, <1>2, <1>3, <1>4, <1>5, <1>6 DEF Next

\* Every variable keeps its type, whatever the interleaving.
THEOREM TypeCorrect == Spec => []TypeOK
BY InitType, TypeStep, PTL DEF Spec
=============================================================================
