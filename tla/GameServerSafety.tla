-------------------------- MODULE GameServerSafety --------------------------
(***************************************************************************)
(* The safety theorems of GameServer, on top of its type correctness: what *)
(* holds of the pool, of a round of the scheduler, of the session maps and *)
(* of the boards, for every value of the constants and every interleaving. *)
(***************************************************************************)
EXTENDS GameServerProofs

-----------------------------------------------------------------------------
(* The pool.  DispatchInBounds is not inductive: that a worker of the pool  *)
(* has a goroutine and an open channel when the round begins rests on what  *)
(* AdjustWorkers keeps between the rounds.                                  *)

PoolIsOpen == \A i \in DOMAIN pool : pool[i] \in running \ closed

PoolIsInjective == \A i, j \in DOMAIN pool : pool[i] = pool[j] => i = j

PoolIsCounted ==
    /\ sched # "tick" => Len(pool) = count
    /\ sched = "dispatch" => Len(slices) = count

PoolInv ==
    /\ PoolIsOpen
    /\ PoolIsInjective
    /\ closed \subseteq running
    /\ PoolIsCounted
    /\ NoTaskDiscarded

LEMMA PoolInit == Init => PoolInv
BY DEF Init, PoolInv, PoolIsOpen, PoolIsInjective, PoolIsCounted, NoTaskDiscarded

LEMMA PoolUnchanged == PoolInv /\ UNCHANGED <<scheduler, workers>> => PoolInv'
BY DEF PoolInv, PoolIsOpen, PoolIsInjective, PoolIsCounted, NoTaskDiscarded,
       scheduler, workers

LEMMA TailIndex ==
    ASSUME NEW n \in Nat, NEW d \in Nat, NEW j \in d + 1 .. n
    PROVE  j \in 1 .. n /\ \A i \in 1 .. d : i # j
OBVIOUS

LEMMA SchedulerKeepsPool ==
    ASSUME TypeOK, PoolInv, Scheduler
    PROVE  PoolInv'
<1> USE DEF TypeOK, PoolInv
<1>0. DOMAIN pool = 1 .. Len(pool) /\ Len(pool) \in Nat /\ count \in Nat
  BY DEF SchedulerType
<1>1. CASE Tick
  <2>1. count' \in Nat
    BY <1>1, PendingFinite, ConfAssumption, CeilDivSpec DEF Tick, WorkerCount
  <2>2. AdjustWorkers(count') /\ sched' = "lock" /\ queue' = queue /\ task' = task
    BY <1>1 DEF Tick, workers
  <2>3. /\ pool' \in Seq(Worker)
        /\ Len(pool') = count'
        /\ running \subseteq running'
        /\ \A i \in 1 .. count' :
              IF i <= Len(pool) THEN pool'[i] = pool[i]
              ELSE pool'[i] \in running' \ running
        /\ closed' = closed \cup {pool[i] : i \in count' + 1 .. Len(pool)}
        /\ \A i, j \in 1 .. count' :
              i > Len(pool) /\ j > Len(pool) /\ pool'[i] = pool'[j] => i = j
    BY <2>1, <2>2, AdjustLemma
  <2>4. DOMAIN pool' = 1 .. count'
    BY <2>3
  <2>5. ASSUME NEW i \in 1 .. count'
        PROVE  pool'[i] \in running' \ closed'
    <3>1. CASE i <= Len(pool)
      <4>1. pool'[i] = pool[i] /\ i \in DOMAIN pool
        BY <1>0, <2>1, <2>3, <3>1
      <4>2. pool[i] \in running /\ pool[i] \notin closed
        BY <4>1 DEF PoolIsOpen
      <4>3. ASSUME NEW j \in count' + 1 .. Len(pool)
            PROVE  pool[i] # pool[j]
        <5>1. j \in DOMAIN pool /\ j # i
          BY <1>0, <2>1, TailIndex
        <5> QED
          BY <4>1, <5>1 DEF PoolIsInjective
      <4> QED
        BY <2>3, <4>1, <4>2, <4>3
    <3>2. CASE i > Len(pool)
      <4>1. pool'[i] \in running' \ running
        BY <1>0, <2>1, <2>3, <3>2
      <4>2. ASSUME NEW j \in count' + 1 .. Len(pool)
            PROVE  pool[j] \in running
        BY <1>0, <2>1, TailIndex DEF PoolIsOpen
      <4> QED
        BY <2>3, <4>1, <4>2
    <3> QED
      BY <1>0, <2>1, <3>1, <3>2
  <2>6. ASSUME NEW i \in 1 .. count', NEW j \in 1 .. count', pool'[i] = pool'[j]
        PROVE  i = j
    <3>1. CASE i <= Len(pool) /\ j <= Len(pool)
      <4>1. i \in DOMAIN pool /\ j \in DOMAIN pool /\ pool[i] = pool[j]
        BY <1>0, <2>1, <2>3, <2>6, <3>1
      <4> QED
        BY <4>1 DEF PoolIsInjective
    <3>2. CASE i > Len(pool) /\ j > Len(pool)
      BY <2>3, <2>6, <3>2
    <3>3. ASSUME NEW a \in 1 .. count', NEW b \in 1 .. count',
                 a <= Len(pool), b > Len(pool)
          PROVE  pool'[a] # pool'[b]
      <4>1. a \in DOMAIN pool /\ pool'[a] = pool[a]
        BY <1>0, <2>1, <2>3, <3>3
      <4>2. pool'[b] \notin running
        BY <1>0, <2>1, <2>3, <3>3
      <4> QED
        BY <4>1, <4>2 DEF PoolIsOpen
    <3> QED
      BY <1>0, <2>1, <2>6, <3>1, <3>2, <3>3
  <2>7. closed' \subseteq running'
    <3>1. ASSUME NEW j \in count' + 1 .. Len(pool)
          PROVE  pool[j] \in running
      BY <1>0, <2>1, TailIndex DEF PoolIsOpen
    <3> QED
      BY <2>3, <3>1
  <2>8. NoTaskDiscarded'
    BY <2>2, <2>3 DEF NoTaskDiscarded
  <2>9. PoolIsCounted'
    BY <2>2, <2>3 DEF PoolIsCounted
  <2> QED
    BY <2>4, <2>5, <2>6, <2>7, <2>8, <2>9 DEF PoolIsOpen, PoolIsInjective
<1>2. CASE BeginDispatch
  <2>1. /\ Len(slices') = count /\ sched = "lock" /\ sched' = "dispatch"
        /\ UNCHANGED <<count, pool, running, closed, workers>>
    BY <1>2, SlicesType DEF BeginDispatch
  <2> QED
    BY <2>1 DEF PoolIsOpen, PoolIsInjective, PoolIsCounted, NoTaskDiscarded, workers
<1>3. CASE AddResponse
  <2>1. /\ sched = "dispatch" /\ next \in DOMAIN pool
        /\ queue' = [queue EXCEPT ![pool[next]] = Append(@, slices[next])]
        /\ UNCHANGED <<sched, count, slices, pool, running, closed, task>>
    BY <1>3 DEF AddResponse, PoolIsCounted, SchedulerType
  <2>2. pool[next] \in running
    BY <2>1 DEF PoolIsOpen
  <2>3. NoTaskDiscarded'
    BY <2>1, <2>2 DEF NoTaskDiscarded, WorkerType
  <2> QED
    BY <2>1, <2>3 DEF PoolIsOpen, PoolIsInjective, PoolIsCounted
<1>4. CASE EndDispatch
  BY <1>4 DEF EndDispatch, PoolIsOpen, PoolIsInjective, PoolIsCounted,
              NoTaskDiscarded, workers
<1> QED
  BY <1>1, <1>2, <1>3, <1>4 DEF Scheduler

LEMMA RespondIsAWorkers ==
    ASSUME NEW w \in Worker, Respond(w)
    PROVE  \E id \in SessionId : NextRequest(w, id)
BY DEF Respond, Skip, Refuse, LeaveMap, Ring, Walk

LEMMA WorkerKeepsPool ==
    ASSUME TypeOK, PoolInv, NEW w \in Worker, PoolWorker(w)
    PROVE  PoolInv'
<1> USE DEF TypeOK, PoolInv
<1>1. CASE Take(w)
  BY <1>1 DEF Take, PoolIsOpen, PoolIsInjective, PoolIsCounted, NoTaskDiscarded,
              WorkerType, scheduler
<1>2. CASE Respond(w)
  <2>1. PICK id \in SessionId : NextRequest(w, id)
    BY <1>2, RespondIsAWorkers
  <2>2. w \in running
    BY <2>1 DEF NextRequest, NoTaskDiscarded, Empty
  <2>3. NoTaskDiscarded'
    BY <2>1, <2>2 DEF NextRequest, NoTaskDiscarded, WorkerType, scheduler
  <2> QED
    BY <2>1, <2>3 DEF NextRequest, PoolIsOpen, PoolIsInjective, PoolIsCounted,
                      scheduler
<1>3. CASE Exit(w)
  <2>1. w \in closed /\ queue[w] = << >> /\ task[w] = Empty
        /\ running' = running \ {w} /\ closed' = closed \ {w}
        /\ UNCHANGED <<sched, count, slices, pool, queue, task>>
    BY <1>3 DEF Exit, workers
  <2>2. \A i \in DOMAIN pool : pool[i] # w
    BY <2>1 DEF PoolIsOpen
  <2> QED
    BY <2>1, <2>2 DEF PoolIsOpen, PoolIsInjective, PoolIsCounted, NoTaskDiscarded
<1> QED
  BY <1>1, <1>2, <1>3 DEF PoolWorker

\* What the streams and gsync leave alone.
LEMMA StreamFrame ==
    ASSUME NEW s \in Session, Stream(s)
    PROVE  UNCHANGED <<scheduler, workers, syncer, sid, readers>>
BY DEF Stream, Recv, RecvEnd, Store, Check, Send, Cleanup, shared

LEMMA SyncFrame ==
    ASSUME GSync
    PROVE  UNCHANGED <<scheduler, workers, requests, responses, pc, sid>>
BY DEF GSync, TakeArrival, AddPlayer, AddPlayersDone, FindPlayer, DeletePlayer,
       RemovePlayersDone, BeginPersist, EndPersist, BeginLoad, EndLoad, Swap,
       shared, streams

LEMMA PoolStep == TypeOK /\ PoolInv /\ [Next]_vars => PoolInv'
<1> SUFFICES ASSUME TypeOK, PoolInv, [Next]_vars
             PROVE  PoolInv'
  OBVIOUS
<1>1. CASE \E s \in Session : Stream(s)
  BY <1>1, StreamFrame, PoolUnchanged
<1>2. CASE Scheduler
  BY <1>2, SchedulerKeepsPool
<1>3. CASE \E w \in Worker : PoolWorker(w)
  BY <1>3, WorkerKeepsPool
<1>4. CASE GSync
  BY <1>4, SyncFrame, PoolUnchanged
<1>5. CASE AwaitReaders
  BY <1>5, PoolUnchanged DEF AwaitReaders
<1>6. CASE UNCHANGED vars
  BY <1>6, PoolUnchanged DEF vars
<1> QED
  BY <1>1, <1>2, <1>3, <1>4, <1>5, <1>6 DEF Next

LEMMA PoolCorrect == Spec => []PoolInv
BY PoolInit, PoolStep, TypeCorrect, PTL DEF Spec

\* A round never indexes the pool out of bounds and never sends on a closed
\* channel, however many requests arrive between the count and the split.
THEOREM DispatchSafe == Spec => []DispatchInBounds
<1>1. TypeOK /\ PoolInv => DispatchInBounds
  BY DEF PoolInv, PoolIsCounted, PoolIsOpen, DispatchInBounds, TypeOK
<1> QED
  BY <1>1, PoolCorrect, TypeCorrect, PTL

\* A goroutine of the pool returns only when it has nothing left to do.
THEOREM NothingDiscarded == Spec => []NoTaskDiscarded
<1>1. PoolInv => NoTaskDiscarded
  BY DEF PoolInv
<1> QED
  BY <1>1, PoolCorrect, PTL

-----------------------------------------------------------------------------
(* The round.  The scheduler is among the readers for as long as it         *)
(* dispatches, and a step on the session maps needs the write lock.         *)

ReadsWhileDispatching == sched = "dispatch" => "scheduler" \in readers

RoundInv == ReadsWhileDispatching /\ FrozenWhileDispatching

LEMMA RoundUnchanged ==
    ASSUME RoundInv, UNCHANGED scheduler, "scheduler" \in readers =>
             "scheduler" \in readers' /\ requests' = requests
    PROVE  RoundInv'
BY DEF RoundInv, ReadsWhileDispatching, FrozenWhileDispatching, scheduler

LEMMA RoundInit == Init => RoundInv
BY DEF Init, RoundInv, ReadsWhileDispatching, FrozenWhileDispatching

\* The slices of a round cover the requests and hold what they hold.
LEMMA RoundBegins ==
    ASSUME TypeOK, BeginDispatch
    PROVE  RoundInv'
<1> DEFINE K == DOMAIN requests
<1>1. PICK f \in Splits(K, count) :
        slices' = [i \in 1 .. Len(f) |-> Restrict(requests, f[i])]
  BY DEF BeginDispatch
<1>2. /\ count \in Nat
      /\ Len(f) = count
      /\ \A i \in 1 .. count : f[i] \in SUBSET K
  BY <1>1, SplitsType DEF TypeOK, SchedulerType
<1>3. slices' = [i \in 1 .. count |-> Restrict(requests, f[i])]
  BY <1>1, <1>2
<1>4. requests' = requests /\ "scheduler" \in readers'
  BY DEF BeginDispatch
<1>5. \A i \in 1 .. count : /\ DOMAIN slices'[i] = f[i]
                            /\ \A id \in f[i] : slices'[i][id] = requests[id]
  BY <1>2, <1>3 DEF Restrict
<1>6. CASE count = 0
  <2>1. slices' = << >>
    BY <1>3, <1>6
  <2> QED
    BY <1>4, <2>1 DEF RoundInv, ReadsWhileDispatching, FrozenWhileDispatching
<1>7. CASE count # 0
  <2>1. /\ UNION {f[i] : i \in 1 .. count} = K
        /\ \A i, j \in 1 .. count : i # j => f[i] \cap f[j] = {}
    BY <1>1, <1>2, <1>7 DEF Splits
  <2>2. DOMAIN slices' = 1 .. count
    BY <1>3
  <2>3. UNION {DOMAIN slices'[i] : i \in DOMAIN slices'} = K
    <3>1. \A i \in DOMAIN slices' : DOMAIN slices'[i] = f[i]
      BY <1>5, <2>2
    <3>2. {DOMAIN slices'[i] : i \in DOMAIN slices'} = {f[i] : i \in DOMAIN slices'}
      BY <3>1, Zenon
    <3> QED
      BY <2>1, <2>2, <3>2
  <2>4. FrozenWhileDispatching'
    BY <1>4, <1>5, <2>1, <2>2, <2>3 DEF FrozenWhileDispatching
  <2> QED
    BY <1>4, <2>4 DEF RoundInv, ReadsWhileDispatching
<1> QED
  BY <1>6, <1>7

LEMMA SchedulerKeepsRound ==
    ASSUME TypeOK, RoundInv, Scheduler
    PROVE  RoundInv'
<1>1. CASE Tick
  BY <1>1 DEF Tick, RoundInv, ReadsWhileDispatching, FrozenWhileDispatching
<1>2. CASE BeginDispatch
  BY <1>2, RoundBegins
<1>3. CASE AddResponse
  BY <1>3 DEF AddResponse, RoundInv, ReadsWhileDispatching,
              FrozenWhileDispatching, shared
<1>4. CASE EndDispatch
  BY <1>4 DEF EndDispatch, RoundInv, ReadsWhileDispatching, FrozenWhileDispatching
<1> QED
  BY <1>1, <1>2, <1>3, <1>4 DEF Scheduler

\* Only a stream changes the requests, and only with nobody reading.
LEMMA StreamKeepsRound ==
    ASSUME RoundInv, NEW s \in Session, Stream(s)
    PROVE  RoundInv'
<1>1. UNCHANGED <<scheduler, readers>>
  BY StreamFrame
<1>2. requests' = requests \/ readers = {}
  BY DEF Stream, Recv, RecvEnd, Store, Check, Send, Cleanup, shared, WriteLocked
<1> QED
  BY <1>1, <1>2, RoundUnchanged

LEMMA WorkerFrame ==
    ASSUME NEW w \in Worker, PoolWorker(w)
    PROVE  UNCHANGED <<requests, readers, streams, sched, count, slices, next,
                       pool, syncer>>
BY RespondIsAWorkers DEF PoolWorker, Take, Exit, NextRequest, shared, scheduler

LEMMA RoundStep == TypeOK /\ RoundInv /\ [Next]_vars => RoundInv'
<1> SUFFICES ASSUME TypeOK, RoundInv, [Next]_vars
             PROVE  RoundInv'
  OBVIOUS
<1>1. CASE \E s \in Session : Stream(s)
  BY <1>1, StreamKeepsRound
<1>2. CASE Scheduler
  BY <1>2, SchedulerKeepsRound
<1>3. CASE \E w \in Worker : PoolWorker(w)
  BY <1>3, WorkerFrame DEF RoundInv, ReadsWhileDispatching, FrozenWhileDispatching
<1>4. CASE GSync
  <2>1. "scheduler" \in readers => "scheduler" \in readers'
    BY <1>4 DEF GSync, TakeArrival, AddPlayer, AddPlayersDone, FindPlayer,
                DeletePlayer, RemovePlayersDone, BeginPersist, EndPersist,
                BeginLoad, EndLoad, Swap, shared
  <2> QED
    BY <1>4, <2>1, SyncFrame, RoundUnchanged
<1>5. CASE AwaitReaders
  BY <1>5, RoundUnchanged DEF AwaitReaders
<1>6. CASE UNCHANGED vars
  BY <1>6, RoundUnchanged DEF vars, shared
<1> QED
  BY <1>1, <1>2, <1>3, <1>4, <1>5, <1>6 DEF Next

LEMMA RoundCorrect == Spec => []RoundInv
BY RoundInit, RoundStep, TypeCorrect, PTL DEF Spec

\* No request is stored, changed or withdrawn in the middle of a round.
THEOREM RoundFrozen == Spec => []FrozenWhileDispatching
<1>1. RoundInv => FrozenWhileDispatching
  BY DEF RoundInv
<1> QED
  BY <1>1, RoundCorrect, PTL

\* The scheduler that waits for room in the channel of a worker that waits
\* for the lock waits for ever: the deadlock is no accident of a schedule.
THEOREM CycleIsForever == Spec => FullChannelIsForever
<1>1. TypeOK /\ RoundInv /\ [Next]_vars => (FullChannelCycle => FullChannelCycle')
  <2> SUFFICES ASSUME TypeOK, RoundInv, [Next]_vars, FullChannelCycle
               PROVE  FullChannelCycle'
    OBVIOUS
  <2> USE DEF FullChannelCycle
  <2>1. readers # {}
    BY DEF RoundInv, ReadsWhileDispatching
  <2>2. Len(queue[pool[next]]) >= MaxChannelSize
    BY ConfAssumption
  <2>3. CASE \E s \in Session : Stream(s)
    BY <2>3, StreamFrame DEF scheduler, workers
  <2>4. CASE Scheduler
    BY <2>2, <2>4, ConfAssumption DEF Scheduler, Tick, BeginDispatch, AddResponse,
                      EndDispatch, TypeOK, SchedulerType
  <2>5. CASE \E w \in Worker : PoolWorker(w)
    <3>1. PICK w \in Worker : PoolWorker(w)
      BY <2>5
    <3>2. ~Respond(w)
      BY <2>1, RespondIsAWorkers DEF NextRequest, WriteLocked
    <3>3. CASE Take(w)
      <4>1. w # pool[next]
        BY <3>3 DEF Take
      <4> QED
        BY <3>3, <4>1 DEF Take, scheduler, TypeOK, WorkerType
    <3>4. CASE Exit(w)
      BY <3>4 DEF Exit, workers
    <3> QED
      BY <3>1, <3>2, <3>3, <3>4 DEF PoolWorker
  <2>6. CASE GSync
    BY <2>6, SyncFrame DEF scheduler, workers
  <2>7. CASE AwaitReaders
    BY <2>7 DEF AwaitReaders, scheduler, workers
  <2>8. CASE UNCHANGED vars
    BY <2>8 DEF vars, scheduler, workers
  <2> QED
    BY <2>3, <2>4, <2>5, <2>6, <2>7, <2>8 DEF Next
<1> QED
  BY <1>1, RoundCorrect, TypeCorrect, PTL DEF Spec, FullChannelIsForever

-----------------------------------------------------------------------------
(* The session maps.                                                        *)

SessionOver == DistinctIds => EndedSessionLeavesNoRequest

LEMMA SessionUnchanged ==
    SessionOver /\ UNCHANGED <<pc, sid, requests>> => SessionOver'
BY DEF SessionOver, DistinctIds, EndedSessionLeavesNoRequest, Ended

LEMMA StreamKeepsSessionOver ==
    ASSUME TypeOK, SessionOver, NEW s \in Session, Stream(s)
    PROVE  SessionOver'
<1> SUFFICES ASSUME DistinctIds, EndedSessionLeavesNoRequest,
                    NEW t \in Session, pc'[t] = "done"
             PROVE  sid[t] \notin DOMAIN requests'
  BY StreamFrame DEF SessionOver, DistinctIds, EndedSessionLeavesNoRequest, Ended
<1> USE DEF TypeOK, StreamType, EndedSessionLeavesNoRequest, Ended
<1>1. CASE Store(s)
  <2>1. t # s /\ pc[t] = "done"
    BY <1>1 DEF Store
  <2>2. sid[t] # sid[s]
    BY <2>1 DEF DistinctIds
  <2> QED
    BY <1>1, <2>1, <2>2 DEF Store, Put
<1>2. CASE Cleanup(s)
  <2>1. DOMAIN requests' = DOMAIN requests \ {sid[s]}
    BY <1>2, DropType DEF Cleanup, SharedType, Slice
  <2> QED
    BY <1>2, <2>1 DEF Cleanup
<1>3. CASE Recv(s) \/ RecvEnd(s) \/ Check(s) \/ Send(s)
  BY <1>3 DEF Recv, RecvEnd, Check, Send, shared
<1> QED
  BY <1>1, <1>2, <1>3 DEF Stream

\* As long as no two streams draw the same id, a stream that has returned
\* leaves no request behind for the scheduler.
THEOREM EndedIsForgotten ==
    Spec => [](DistinctIds => EndedSessionLeavesNoRequest)
<1>1. Init => SessionOver
  BY DEF Init, SessionOver, EndedSessionLeavesNoRequest, Ended
<1>2. TypeOK /\ SessionOver /\ [Next]_vars => SessionOver'
  <2> SUFFICES ASSUME TypeOK, SessionOver, [Next]_vars
               PROVE  SessionOver'
    OBVIOUS
  <2>1. CASE \E s \in Session : Stream(s)
    BY <2>1, StreamKeepsSessionOver
  <2>2. CASE Scheduler
    BY <2>2, SessionUnchanged DEF Scheduler, Tick, BeginDispatch, AddResponse,
                                  EndDispatch, shared, streams
  <2>3. CASE \E w \in Worker : PoolWorker(w)
    BY <2>3, WorkerFrame, SessionUnchanged DEF streams
  <2>4. CASE GSync
    BY <2>4, SyncFrame, SessionUnchanged
  <2>5. CASE AwaitReaders
    BY <2>5, SessionUnchanged DEF AwaitReaders, streams
  <2>6. CASE UNCHANGED vars
    BY <2>6, SessionUnchanged DEF vars, shared, streams
  <2> QED
    BY <2>1, <2>2, <2>3, <2>4, <2>5, <2>6 DEF Next
<1> QED
  BY <1>1, <1>2, TypeCorrect, PTL DEF Spec, SessionOver

\* What a step may do to the error of a session.
ErrorStep(id) ==
    HasError(id) /\ (IF id \in DOMAIN responses'
                     THEN responses'[id] # responses[id] ELSE TRUE) =>
      \E s \in Session : sid[s] = id /\ pc[s] = "cleanup" /\ pc'[s] = "done"

LEMMA ErrorUnchanged ==
    ASSUME NEW id, UNCHANGED responses
    PROVE  ErrorStep(id)
BY DEF ErrorStep, HasError

LEMMA StreamKeepsErrors ==
    ASSUME TypeOK, NEW s \in Session, Stream(s), NEW id \in SessionId
    PROVE  ErrorStep(id)
<1>1. CASE Cleanup(s)
  <2>1. CASE sid[s] = id
    BY <1>1, <2>1 DEF Cleanup, ErrorStep, TypeOK, StreamType
  <2>2. CASE sid[s] # id
    BY <1>1, <2>2 DEF Cleanup, ErrorStep, HasError, Drop, Restrict
  <2> QED
    BY <2>1, <2>2
<1>2. CASE Recv(s) \/ RecvEnd(s) \/ Store(s) \/ Check(s) \/ Send(s)
  BY <1>2, ErrorUnchanged DEF Recv, RecvEnd, Store, Check, Send, shared
<1> QED
  BY <1>1, <1>2 DEF Stream

\* A worker writes the verdict of one session, if it has no error.
LEMMA WorkerKeepsErrors ==
    ASSUME NEW w \in Worker, PoolWorker(w), NEW id \in SessionId
    PROVE  ErrorStep(id)
<1>1. CASE Take(w) \/ Exit(w)
  BY <1>1, ErrorUnchanged DEF Take, Exit, shared
<1>2. CASE Respond(w)
  <2>1. PICK k \in SessionId : Skip(w, k) \/ Refuse(w, k) \/ LeaveMap(w, k)
                               \/ Ring(w, k) \/ Walk(w, k)
    BY <1>2 DEF Respond
  <2>2. responses' = responses
        \/ (~HasError(k) /\ \E v : responses' = Put(responses, k, v))
    BY <2>1, Zenon DEF Skip, Refuse, LeaveMap, Ring, Walk
  <2> QED
    BY <2>2 DEF ErrorStep, HasError, Put
<1> QED
  BY <1>1, <1>2 DEF PoolWorker

\* The error a worker records for a session is the one its stream ends with:
\* only the cleanup of a stream of that session takes it away.
THEOREM ErrorsAreKept == Spec => ErrorKeptUntilCollected
<1>1. TypeOK /\ [Next]_vars => \A id \in SessionId : ErrorStep(id)
  <2> SUFFICES ASSUME TypeOK, [Next]_vars, NEW id \in SessionId
               PROVE  ErrorStep(id)
    OBVIOUS
  <2>1. CASE \E s \in Session : Stream(s)
    BY <2>1, StreamKeepsErrors
  <2>2. CASE Scheduler
    BY <2>2, ErrorUnchanged DEF Scheduler, Tick, BeginDispatch, AddResponse,
                                EndDispatch, shared
  <2>3. CASE \E w \in Worker : PoolWorker(w)
    BY <2>3, WorkerKeepsErrors
  <2>4. CASE GSync
    BY <2>4, SyncFrame, ErrorUnchanged
  <2>5. CASE AwaitReaders
    BY <2>5, ErrorUnchanged DEF AwaitReaders
  <2>6. CASE UNCHANGED vars
    BY <2>6, ErrorUnchanged DEF vars, shared
  <2> QED
    BY <2>1, <2>2, <2>3, <2>4, <2>5, <2>6 DEF Next
<1> QED
  BY <1>1, TypeCorrect, PTL DEF Spec, ErrorKeptUntilCollected, ErrorStep

-----------------------------------------------------------------------------
(* Whose verdict it is.  On its way from the client to the worker a move    *)
(* passes through the requests, the slices, the channels and the tasks, each *)
(* a map by session id; everywhere it is a move of a stream with that id.   *)

Sent(id, m) == \E s \in Session : sid[s] = id /\ m \in Moves[s]
AllSent(f) == \A id \in DOMAIN f : Sent(id, f[id])
BadKeySent(id) == \E m : Sent(id, m) /\ m.user = BadKey

SentInv ==
    /\ \A s \in Session : inbox[s] \in Moves[s] \cup {NoMove}
    /\ AllSent(requests)
    /\ \A i \in DOMAIN slices : AllSent(slices[i])
    /\ \A w \in Worker : \A i \in DOMAIN queue[w] : AllSent(queue[w][i])
    /\ \A w \in Worker : AllSent(task[w])
    /\ \A id \in DOMAIN responses : responses[id] = "badkey" => BadKeySent(id)

VerdictInv == SentInv /\ (DistinctIds => OwnVerdict)

LEMMA VerdictInit == Init => VerdictInv
BY DEF Init, VerdictInv, SentInv, AllSent, OwnVerdict, Empty

LEMMA VerdictUnchanged ==
    ASSUME VerdictInv, UNCHANGED <<requests, responses, sid, inbox, result, slices, workers>>
    PROVE  VerdictInv'
BY DEF VerdictInv, SentInv, AllSent, Sent, BadKeySent, DistinctIds, OwnVerdict, workers

LEMMA StreamKeepsVerdict ==
    ASSUME TypeOK, VerdictInv, NEW s \in Session, Stream(s)
    PROVE  VerdictInv'
<1> USE DEF TypeOK, StreamType
<1>0. UNCHANGED <<slices, workers, sid>>
  BY StreamFrame DEF scheduler
<1>1. /\ \A id, m : Sent(id, m)' <=> Sent(id, m)
      /\ \A id : BadKeySent(id)' <=> BadKeySent(id)
  BY <1>0 DEF Sent, BadKeySent
<1>2. AllSent(requests)'
  <2>1. CASE Store(s)
    <3>1. Sent(sid[s], inbox[s])
      BY <2>1 DEF Store, VerdictInv, SentInv, Sent
    <3> QED
      BY <1>1, <2>1, <3>1 DEF Store, VerdictInv, SentInv, AllSent, Put
  <2>2. CASE Cleanup(s)
    BY <1>1, <2>2 DEF Cleanup, VerdictInv, SentInv, AllSent, Drop, Restrict
  <2>3. CASE requests' = requests
    BY <1>1, <2>3 DEF VerdictInv, SentInv, AllSent
  <2> QED
    BY <2>1, <2>2, <2>3 DEF Stream, Recv, RecvEnd, Check, Send, shared
<1>3. \A id \in DOMAIN responses' : responses'[id] = "badkey" => BadKeySent(id)'
  BY <1>1 DEF Stream, Recv, RecvEnd, Store, Check, Send, Cleanup, shared, VerdictInv, SentInv,
              Drop, Restrict
<1>4. \A t \in Session : inbox'[t] \in Moves[t] \cup {NoMove}
  BY DEF Stream, Recv, RecvEnd, Store, Check, Send, Cleanup, VerdictInv, SentInv
<1>5. SentInv'
  BY <1>0, <1>1, <1>2, <1>3, <1>4 DEF VerdictInv, SentInv, AllSent, workers
<1>6. DistinctIds' => OwnVerdict'
  <2> SUFFICES ASSUME DistinctIds, NEW t \in Session, result'[t] = "badkey"
               PROVE  \E m \in Moves[t] : m.user = BadKey
    BY <1>0 DEF DistinctIds, OwnVerdict
  <2>1. CASE result[t] = "badkey"
    BY <2>1 DEF VerdictInv, OwnVerdict
  <2>2. CASE result[t] # "badkey"
    <3>1. Check(s) /\ t = s /\ HasError(sid[s]) /\ responses[sid[s]] = "badkey"
      BY <2>2 DEF Stream, Recv, RecvEnd, Store, Check, Send, Cleanup
    <3>2. BadKeySent(sid[t])
      BY <3>1 DEF VerdictInv, SentInv, HasError
    <3> QED
      BY <3>2 DEF BadKeySent, Sent, DistinctIds
  <2> QED
    BY <2>1, <2>2
<1> QED
  BY <1>5, <1>6 DEF VerdictInv

LEMMA SchedulerKeepsVerdict ==
    ASSUME TypeOK, VerdictInv, Scheduler
    PROVE  VerdictInv'
<1>1. UNCHANGED <<requests, responses, streams, task>>
  BY DEF Scheduler, Tick, BeginDispatch, AddResponse, EndDispatch, shared, workers
<1>2. \A id, m : Sent(id, m)' <=> Sent(id, m)
  BY <1>1 DEF Sent, streams
<1>3. \A i \in DOMAIN slices' : AllSent(slices'[i])
  <2>1. CASE BeginDispatch
    <3>1. PICK f \in Splits(DOMAIN requests, count) :
            slices' = [i \in 1 .. Len(f) |-> Restrict(requests, f[i])]
      BY <2>1 DEF BeginDispatch
    <3>2. count \in Nat
      BY DEF TypeOK, SchedulerType
    <3>3. \A i \in 1 .. Len(f) : f[i] \in SUBSET DOMAIN requests
      BY <3>2, SplitsType
    <3>4. AllSent(requests)
      BY DEF VerdictInv, SentInv
    <3> QED
      BY <1>2, <3>1, <3>3, <3>4 DEF AllSent, Restrict
  <2>2. CASE Tick \/ AddResponse \/ EndDispatch
    BY <1>2, <2>2 DEF Tick, AddResponse, EndDispatch, VerdictInv, SentInv, AllSent
  <2> QED
    BY <2>1, <2>2 DEF Scheduler
<1>4. \A w \in Worker : \A i \in DOMAIN queue'[w] : AllSent(queue'[w][i])
  <2>1. CASE AddResponse
    <3>1. /\ next \in DOMAIN slices
          /\ queue' = [queue EXCEPT ![pool[next]] = Append(@, slices[next])]
      BY <2>1 DEF AddResponse, TypeOK, SchedulerType
    <3>2. ASSUME NEW w \in Worker, NEW i \in DOMAIN queue'[w]
          PROVE  \/ i \in DOMAIN queue[w] /\ queue'[w][i] = queue[w][i]
                 \/ queue'[w][i] = slices[next]
      BY <3>1, <3>2 DEF TypeOK, WorkerType, SchedulerType
    <3> QED
      BY <1>2, <3>1, <3>2 DEF VerdictInv, SentInv, AllSent
  <2>2. CASE Tick \/ BeginDispatch \/ EndDispatch
    BY <1>2, <2>2 DEF Tick, BeginDispatch, EndDispatch, VerdictInv, SentInv, AllSent, workers
  <2> QED
    BY <2>1, <2>2 DEF Scheduler
<1> QED
  BY <1>1, <1>2, <1>3, <1>4
  DEF VerdictInv, SentInv, AllSent, BadKeySent, DistinctIds, OwnVerdict, streams

LEMMA WorkerKeepsVerdict ==
    ASSUME TypeOK, VerdictInv, NEW w \in Worker, PoolWorker(w)
    PROVE  VerdictInv'
<1>1. UNCHANGED <<requests, streams, slices>>
  BY WorkerFrame
<1>2. \A id, m : Sent(id, m)' <=> Sent(id, m)
  BY <1>1 DEF Sent, streams
<1>3. CASE Take(w)
  <2>1. /\ queue[w] # << >> /\ queue[w] \in Seq(Slice)
        /\ task' = [task EXCEPT ![w] = Head(queue[w])]
        /\ queue' = [queue EXCEPT ![w] = Tail(@)]
    BY <1>3 DEF Take, TypeOK, WorkerType
  <2>2. AllSent(Head(queue[w])) /\ \A i \in DOMAIN Tail(queue[w]) : AllSent(Tail(queue[w])[i])
    <3>1. \A i \in DOMAIN queue[w] : AllSent(queue[w][i])
      BY DEF VerdictInv, SentInv
    <3>2. 1 \in DOMAIN queue[w] /\ Head(queue[w]) = queue[w][1]
      BY <2>1
    <3>3. \A i \in DOMAIN Tail(queue[w]) :
            i + 1 \in DOMAIN queue[w] /\ Tail(queue[w])[i] = queue[w][i + 1]
      BY <2>1
    <3> QED BY <3>1, <3>2, <3>3
  <2>3. \A v \in Worker : AllSent(task'[v]) /\ \A i \in DOMAIN queue'[v] : AllSent(queue'[v][i])
    BY <2>1, <2>2 DEF VerdictInv, SentInv, TypeOK, WorkerType
  <2> QED
    BY <1>1, <1>2, <1>3, <2>3
    DEF Take, shared, VerdictInv, SentInv, AllSent, BadKeySent, DistinctIds, OwnVerdict, streams
<1>4. CASE Respond(w)
  <2>1. PICK id \in SessionId : Skip(w, id) \/ Refuse(w, id) \/ LeaveMap(w, id)
                                \/ Ring(w, id) \/ Walk(w, id)
    BY <1>4 DEF Respond
  <2>2. id \in DOMAIN task[w] /\ queue' = queue /\ task' = [task EXCEPT ![w] = Drop(@, id)]
    BY <2>1 DEF Skip, Refuse, LeaveMap, Ring, Walk, NextRequest
  <2>3. \/ responses' = responses
        \/ \E v : /\ responses' = Put(responses, id, v)
                  /\ v = "badkey" => task[w][id].user = BadKey
    BY <2>1 DEF Skip, Refuse, LeaveMap, Ring, Walk, Verdict
  <2>4. Sent(id, task[w][id])
    BY <2>2 DEF VerdictInv, SentInv, AllSent
  <2>5. \A k \in DOMAIN responses' : responses'[k] = "badkey" => BadKeySent(k)
    BY <2>3, <2>4 DEF VerdictInv, SentInv, BadKeySent, Put
  <2>6. \A v \in Worker : AllSent(task'[v])
    BY <2>2 DEF VerdictInv, SentInv, TypeOK, WorkerType, AllSent, Drop, Restrict
  <2> QED
    BY <1>1, <1>2, <2>2, <2>5, <2>6
    DEF VerdictInv, SentInv, AllSent, BadKeySent, DistinctIds, OwnVerdict, streams
<1>5. CASE Exit(w)
  BY <1>1, <1>5, VerdictUnchanged DEF Exit, shared, streams
<1> QED
  BY <1>3, <1>4, <1>5 DEF PoolWorker

\* As long as no two streams draw the same id, a client is told of an invalid
\* key only when it sent one itself.
THEOREM VerdictIsOwn ==
    Spec => [](DistinctIds => OwnVerdict)
<1>1. TypeOK /\ VerdictInv /\ [Next]_vars => VerdictInv'
  <2> SUFFICES ASSUME TypeOK, VerdictInv, [Next]_vars
               PROVE  VerdictInv'
    OBVIOUS
  <2>1. CASE \E s \in Session : Stream(s)
    BY <2>1, StreamKeepsVerdict
  <2>2. CASE Scheduler
    BY <2>2, SchedulerKeepsVerdict
  <2>3. CASE \E w \in Worker : PoolWorker(w)
    BY <2>3, WorkerKeepsVerdict
  <2>4. CASE GSync
    <3>1. UNCHANGED <<inbox, result>>
      BY <2>4 DEF GSync, TakeArrival, AddPlayer, AddPlayersDone, FindPlayer, DeletePlayer,
         RemovePlayersDone, BeginPersist, EndPersist, BeginLoad, EndLoad, Swap, streams
    <3> QED
      BY <2>4, <3>1, SyncFrame, VerdictUnchanged DEF scheduler
  <2>5. CASE AwaitReaders
    BY <2>5, VerdictUnchanged DEF AwaitReaders, streams, scheduler
  <2>6. CASE UNCHANGED vars
    BY <2>6, VerdictUnchanged DEF vars, shared, streams, scheduler
  <2> QED
    BY <2>1, <2>2, <2>3, <2>4, <2>5, <2>6 DEF Next
<1>2. VerdictInv => (DistinctIds => OwnVerdict)
  BY DEF VerdictInv
<1> QED
  BY <1>1, <1>2, VerdictInit, TypeCorrect, PTL DEF Spec

-----------------------------------------------------------------------------
(* The boards.                                                              *)

\* No step but the one of addPlayers puts a player on a loaded board.
Appears(p, g) ==
    /\ g \in DOMAIN boards \cap DOMAIN boards'
    /\ p \in DOMAIN boards'[g] \ DOMAIN boards[g]

LEMMA NobodyAppears ==
    ASSUME NEW p, NEW g, boards' = boards
    PROVE  ~Appears(p, g)
BY DEF Appears

LEMMA WorkerAddsNobody ==
    ASSUME TypeOK, NEW w \in Worker, PoolWorker(w), NEW p, NEW g
    PROVE  ~Appears(p, g)
<1>1. CASE Take(w) \/ Exit(w)
  BY <1>1, NobodyAppears DEF Take, Exit, shared
<1>2. CASE Respond(w)
  <2>1. PICK id \in SessionId : Skip(w, id) \/ Refuse(w, id) \/ LeaveMap(w, id)
                                \/ Ring(w, id) \/ Walk(w, id)
    BY <1>2 DEF Respond
  <2> DEFINE m == task[w][id]
             b == boards[m.game]
  <2>2. CASE Skip(w, id) \/ Refuse(w, id)
    BY <2>2, NobodyAppears DEF Skip, Refuse
  <2>3. CASE LeaveMap(w, id)
    <3>1. boards' = [boards EXCEPT ![m.game] = Drop(b, m.user)]
      BY <2>3 DEF LeaveMap
    <3> QED
      BY <3>1 DEF Appears, Drop, Restrict
  <2>4. CASE Ring(w, id)
    <3> DEFINE ringed == [b EXCEPT ![m.user] = TRUE]
    <3>1. PICK killed : boards' = [boards EXCEPT ![m.game] =
                                     Restrict(ringed, DOMAIN ringed \ killed)]
      BY <2>4 DEF Ring
    <3>2. DOMAIN ringed = DOMAIN b
      OBVIOUS
    <3>3. DOMAIN Restrict(ringed, DOMAIN ringed \ killed) \subseteq DOMAIN b
      BY <3>2 DEF Restrict
    <3> HIDE DEF ringed
    <3> QED
      BY <3>1, <3>3 DEF Appears
  <2>5. CASE Walk(w, id)
    <3>1. boards' = [boards EXCEPT ![m.game] = [b EXCEPT ![m.user] = FALSE]]
      BY <2>5 DEF Walk
    <3> QED
      BY <3>1 DEF Appears
  <2> QED
    BY <2>1, <2>2, <2>3, <2>4, <2>5
<1> QED
  BY <1>1, <1>2 DEF PoolWorker

LEMMA SyncAddsTheQueued ==
    ASSUME TypeOK, GSync, NEW p, NEW g, Appears(p, g)
    PROVE  gsync = "adding" /\ target = <<p, g>>
<1>1. CASE AddPlayer
  <2>1. target \in Player \X Game
    BY <1>1 DEF AddPlayer, TypeOK, SyncType
  <2>2. boards' = [boards EXCEPT ![target[2]] = Put(@, target[1], FALSE)]
    BY <1>1 DEF AddPlayer
  <2>3. g = target[2] /\ p = target[1]
    BY <2>2 DEF Appears, Put
  <2> QED
    BY <1>1, <2>1, <2>3 DEF AddPlayer
<1>2. CASE DeletePlayer
  BY <1>2 DEF DeletePlayer, Appears, Drop, Restrict
<1>3. CASE Swap
  BY <1>3 DEF Swap, Appears
<1>4. CASE ~(AddPlayer \/ DeletePlayer \/ Swap)
  BY <1>4, NobodyAppears DEF GSync, TakeArrival, AddPlayersDone, FindPlayer,
     RemovePlayersDone, BeginPersist, EndPersist, BeginLoad, EndLoad, shared
<1> QED
  BY <1>1, <1>2, <1>3, <1>4

\* A player that died or left comes back only through the queue: the swap of
\* the boards, prepared under one lock and done under the next, keeps what
\* the workers did in between.
THEOREM NobodyIsResurrected == Spec => NoResurrection
<1>1. TypeOK /\ [Next]_vars => \A p, g : Appears(p, g) =>
                                  gsync = "adding" /\ target = <<p, g>>
  <2> SUFFICES ASSUME TypeOK, [Next]_vars, NEW p, NEW g, Appears(p, g)
               PROVE  gsync = "adding" /\ target = <<p, g>>
    OBVIOUS
  <2>1. CASE \E s \in Session : Stream(s)
    BY <2>1, NobodyAppears DEF Stream, Recv, RecvEnd, Store, Check, Send, Cleanup,
                               shared
  <2>2. CASE Scheduler
    BY <2>2, NobodyAppears DEF Scheduler, Tick, BeginDispatch, AddResponse,
                               EndDispatch, shared
  <2>3. CASE \E w \in Worker : PoolWorker(w)
    BY <2>3, WorkerAddsNobody
  <2>4. CASE GSync
    BY <2>4, SyncAddsTheQueued
  <2>5. CASE AwaitReaders
    BY <2>5, NobodyAppears DEF AwaitReaders
  <2>6. CASE UNCHANGED vars
    BY <2>6, NobodyAppears DEF vars, shared
  <2> QED
    BY <2>1, <2>2, <2>3, <2>4, <2>5, <2>6 DEF Next
<1>2. TypeOK /\ [Next]_vars =>
        [\A g \in DOMAIN boards \cap DOMAIN boards' :
           \A p \in DOMAIN boards'[g] \ DOMAIN boards[g] :
              gsync = "adding" /\ target = <<p, g>>]_vars
  BY <1>1 DEF Appears
<1> QED
  BY <1>2, TypeCorrect, PTL DEF Spec, NoResurrection
=============================================================================
