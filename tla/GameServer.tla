----------------------------- MODULE GameServer -----------------------------
(***************************************************************************)
(* One gameserver process: the goroutines that serve game streams, the     *)
(* response scheduler with its worker pool, and the locked sections of the *)
(* gsync loop.  They share the boards and the two session maps under one   *)
(* RWMutex.                                                                *)
(*                                                                         *)
(* A section under the write lock is one atomic step, guarded by the       *)
(* absence of readers; a section under the read lock that blocks in the    *)
(* middle (a channel send, a round trip to Redis) is held across steps in  *)
(* the variable readers.  As in Go, a writer that waits keeps new readers  *)
(* out.                                                                    *)
(***************************************************************************)
EXTENDS Sequences, Functions, RequestSplit

CONSTANTS
    Session,            \* streams, each one call of StreamGameboard
    SessionId,          \* the int64 keys of the session maps
    Draw,               \* Draw[s]: the ids the stream s may draw
    Game, Player,
    NoGame, NoMove, BadKey,
    Moves,              \* Moves[s]: the messages the client of s may send
    Worker,             \* slots for worker goroutines: bounds the live ones
    RequestPerWorker,   \* conf: requestsperworker
    MaxChannelSize,     \* conf: maxchannelsize
    Arrivals,           \* <<player, game>> pairs gsync may find in game:queue
    Departures,         \* the same for game:exitqueue
    Assignments,        \* what gserver:{id}:games may hold, a set of game sets
    Saved               \* Saved[g]: the boards game:{g} may hold when loaded

\* A Go map: the keys present are the domain.
PartialFn(S, T) == UNION {[D -> T] : D \in SUBSET S}
Empty == [x \in {} |-> x]
Put(f, k, v) == [x \in DOMAIN f \cup {k} |-> IF x = k THEN v ELSE f[x]]
Drop(f, k) == Restrict(f, DOMAIN f \ {k})

\* A board is its Players map; of a player only RingEnabled matters here.
Board == PartialFn(Player, BOOLEAN)

Move == [game: Game, user: Player \cup {BadKey}, ring: BOOLEAN,
         hits: SUBSET Player]

\* The status errors a stream can end with; "nil" is Go's nil error.
Error == {"notfound", "badkey", "gameover"}

ASSUME ConfAssumption ==
    /\ RequestPerWorker \in Nat \ {0}
    /\ MaxChannelSize \in Nat \ {0}
ASSUME NullAssumption == NoGame \notin Game /\ NoMove \notin Move
ASSUME SizeAssumption == IsFiniteSet(SessionId) /\ IsFiniteSet(Worker)
ASSUME InputAssumption ==
    /\ Draw \in [Session -> SUBSET SessionId]
    /\ Moves \in [Session -> SUBSET Move]
    /\ Arrivals \subseteq Player \X Game
    /\ Departures \subseteq Player \X Game
    /\ Assignments \subseteq SUBSET Game
    /\ Saved \in [Game -> SUBSET Board]

VARIABLES
    boards,     \* Boards: the loaded games
    requests,   \* SessionRequests
    responses,  \* SessionResponses: an entry may hold a nil error
    readers,    \* who holds the read lock across steps
    waiting,    \* a writer waits for them: no new reader is admitted
    crashed,    \* the Go runtime ended the process
    pc,         \* pc[s]: where the stream s is in its loop
    sid,        \* sid[s]: its sessionId
    inbox,      \* inbox[s]: req, received and not yet stored
    view,       \* view[s]: the game whose board object curBoard points to
    result,     \* result[s]: err
    sched,      \* where the response scheduler is in its loop
    count,      \* workerCount
    slices,     \* what splitRequestMap returned, while it is dispatched
    next,       \* the slice to dispatch next
    pool,       \* Pool.Workers
    running,    \* workers whose goroutine has not returned
    closed,     \* workers whose channel is closed
    queue,      \* queue[w]: the buffered channel
    task,       \* task[w]: the requests left of the task w is running
    gsync,      \* where the gsync loop is
    target,     \* the player and game of the entry being handled
    buf         \* boardBuf of syncBoardStates

shared == <<boards, requests, responses, readers, waiting, crashed>>
streams == <<pc, sid, inbox, view, result>>
scheduler == <<sched, count, slices, next, pool, running, closed>>
workers == <<queue, task>>
syncer == <<gsync, target, buf>>
vars == <<shared, streams, scheduler, workers, syncer>>

Init ==
    /\ boards = Empty
    /\ requests = Empty
    /\ responses = Empty
    /\ readers = {}
    /\ waiting = FALSE
    /\ crashed = FALSE
    /\ pc = [s \in Session |-> "recv"]
    /\ sid \in {f \in [Session -> SessionId] : \A s \in Session : f[s] \in Draw[s]}
    /\ inbox = [s \in Session |-> NoMove]
    /\ view = [s \in Session |-> NoGame]
    /\ result = [s \in Session |-> "nil"]
    /\ sched = "tick"
    /\ count = 0
    /\ slices = << >>
    /\ next = 1
    /\ pool = << >>
    /\ running = {}
    /\ closed = {}
    /\ queue = [w \in Worker |-> << >>]
    /\ task = [w \in Worker |-> Empty]
    /\ gsync = "add"
    /\ target = << >>
    /\ buf = Empty

-----------------------------------------------------------------------------
(* The lock, and what it does not protect.                                  *)

\* Taking the write lock for one step, and being let in as a reader.
WriteLocked == readers = {} /\ waiting' = FALSE
ReadLockFree == ~waiting

AtWriteLock ==
    \/ \E s \in Session : pc[s] \in {"store", "cleanup"}
    \/ \E w \in Worker : task[w] # Empty
    \/ gsync \in {"adding", "delete", "swap"}

\* A writer that finds readers waits for them to leave.
AwaitReaders ==
    /\ readers # {}
    /\ ~waiting
    /\ AtWriteLock
    /\ waiting' = TRUE
    /\ UNCHANGED <<boards, requests, responses, readers, crashed, streams,
                   scheduler, workers, syncer>>

\* stream.Send marshals the board, iterating its Players map with no lock.
Sending(g) == \E s \in Session : pc[s] = "send" /\ view[s] = g

\* Writing a Players map while it is iterated may end the process: the Go
\* runtime aborts on the iterations it catches, so both outcomes exist.
WritePlayers(g) == crashed' \in {FALSE, Sending(g)}

HasError(id) == id \in DOMAIN responses /\ responses[id] # "nil"

-----------------------------------------------------------------------------
(* StreamGameboard, one stream s.                                           *)

\* A message arrives; the board is looked up with no lock.
Recv(s) ==
    /\ pc[s] = "recv"
    /\ \E m \in Moves[s] :
          IF m.game \in DOMAIN boards
          THEN /\ pc' = [pc EXCEPT ![s] = "store"]
               /\ inbox' = [inbox EXCEPT ![s] = m]
               /\ view' = [view EXCEPT ![s] = m.game]
               /\ UNCHANGED result
          ELSE /\ pc' = [pc EXCEPT ![s] = "cleanup"]
               /\ result' = [result EXCEPT ![s] = "notfound"]
               /\ UNCHANGED <<inbox, view>>
    /\ UNCHANGED <<shared, sid, scheduler, workers, syncer>>

\* The client closes the stream (EOF) or the transport fails.
RecvEnd(s) ==
    /\ pc[s] = "recv"
    /\ pc' = [pc EXCEPT ![s] = "cleanup"]
    /\ \E e \in {"nil", "transport"} : result' = [result EXCEPT ![s] = e]
    /\ UNCHANGED <<shared, sid, inbox, view, scheduler, workers, syncer>>

\* Mutated: the request is stored without the lock.
StoreUnlocked(s) ==
    /\ pc[s] = "store"
    /\ requests' = Put(requests, sid[s], inbox[s])
    /\ pc' = [pc EXCEPT ![s] = "check"]
    /\ inbox' = [inbox EXCEPT ![s] = NoMove]
    /\ UNCHANGED <<boards, responses, readers, waiting, crashed, sid, view,
                   result, scheduler, workers, syncer>>

Store(s) ==
    /\ pc[s] = "store"
    /\ WriteLocked
    /\ requests' = Put(requests, sid[s], inbox[s])
    /\ pc' = [pc EXCEPT ![s] = "check"]
    /\ inbox' = [inbox EXCEPT ![s] = NoMove]
    /\ UNCHANGED <<boards, responses, readers, crashed, sid, view, result,
                   scheduler, workers, syncer>>

\* Mutated: the responses are not looked at.
CheckIgnoring(s) ==
    /\ pc[s] = "check"
    /\ ReadLockFree
    /\ pc' = [pc EXCEPT ![s] = "send"]
    /\ UNCHANGED <<shared, sid, inbox, view, result, scheduler, workers, syncer>>

Check(s) ==
    /\ pc[s] = "check"
    /\ ReadLockFree
    /\ IF HasError(sid[s])
       THEN /\ pc' = [pc EXCEPT ![s] = "cleanup"]
            /\ result' = [result EXCEPT ![s] = responses[sid[s]]]
       ELSE /\ pc' = [pc EXCEPT ![s] = "send"]
            /\ UNCHANGED result
    /\ UNCHANGED <<shared, sid, inbox, view, scheduler, workers, syncer>>

Send(s) ==
    /\ pc[s] = "send"
    /\ \/ pc' = [pc EXCEPT ![s] = "recv"] /\ UNCHANGED result
       \/ /\ pc' = [pc EXCEPT ![s] = "cleanup"]
          /\ result' = [result EXCEPT ![s] = "transport"]
    /\ view' = [view EXCEPT ![s] = NoGame]
    /\ UNCHANGED <<shared, sid, inbox, scheduler, workers, syncer>>

\* Mutated: the request of the session is left behind.
CleanupResponseOnly(s) ==
    /\ pc[s] = "cleanup"
    /\ WriteLocked
    /\ responses' = Drop(responses, sid[s])
    /\ pc' = [pc EXCEPT ![s] = "done"]
    /\ view' = [view EXCEPT ![s] = NoGame]
    /\ UNCHANGED <<boards, requests, readers, crashed, sid, inbox, result,
                   scheduler, workers, syncer>>

Cleanup(s) ==
    /\ pc[s] = "cleanup"
    /\ WriteLocked
    /\ requests' = Drop(requests, sid[s])
    /\ responses' = Drop(responses, sid[s])
    /\ pc' = [pc EXCEPT ![s] = "done"]
    /\ view' = [view EXCEPT ![s] = NoGame]
    /\ UNCHANGED <<boards, readers, crashed, sid, inbox, result,
                   scheduler, workers, syncer>>

-----------------------------------------------------------------------------
(* The response scheduler.                                                  *)

\* AdjustWorkers: too few workers and new ones are started at the end of the
\* pool, too many and the channels of the last ones are closed.
AdjustWorkers(desired) ==
    LET n == Len(pool)
        Idle == Worker \ running
    IN \E new \in [n + 1 .. desired -> Idle] :
         /\ IsInjective(new)
         /\ pool' = [i \in 1 .. desired |-> IF i <= n THEN pool[i] ELSE new[i]]
         /\ running' = running \cup Range(new)
         /\ closed' = closed \cup {pool[i] : i \in desired + 1 .. n}

\* The number of requests is read with no lock.
Tick ==
    /\ sched = "tick"
    /\ count' = WorkerCount(Cardinality(DOMAIN requests), RequestPerWorker)
    /\ AdjustWorkers(count')
    /\ sched' = "lock"
    /\ UNCHANGED <<shared, streams, slices, next, workers, syncer>>

\* Mutated: the workers are counted again under the lock, for the split only.
BeginDispatchRecounting ==
    /\ sched = "lock"
    /\ ReadLockFree
    /\ readers' = readers \cup {"scheduler"}
    /\ \E f \in Splits(DOMAIN requests,
                       WorkerCount(Cardinality(DOMAIN requests), RequestPerWorker)) :
          slices' = [i \in 1 .. Len(f) |-> Restrict(requests, f[i])]
    /\ next' = 1
    /\ sched' = "dispatch"
    /\ UNCHANGED <<boards, requests, responses, waiting, crashed, streams, count,
                   pool, running, closed, workers, syncer>>

BeginDispatch ==
    /\ sched = "lock"
    /\ ReadLockFree
    /\ readers' = readers \cup {"scheduler"}
    /\ \E f \in Splits(DOMAIN requests, count) :
          slices' = [i \in 1 .. Len(f) |-> Restrict(requests, f[i])]
    /\ next' = 1
    /\ sched' = "dispatch"
    /\ UNCHANGED <<boards, requests, responses, waiting, crashed, streams, count,
                   pool, running, closed, workers, syncer>>

\* AddResponse: the send blocks while the channel is full.
AddResponse ==
    /\ sched = "dispatch"
    /\ next <= Len(slices)
    /\ Len(queue[pool[next]]) < MaxChannelSize
    /\ queue' = [queue EXCEPT ![pool[next]] = Append(@, slices[next])]
    /\ next' = next + 1
    /\ UNCHANGED <<shared, streams, sched, count, slices, pool, running,
                   closed, task, syncer>>

\* Mutated: the slice index is not reset for the next round.
EndDispatchKeepingIndex ==
    /\ sched = "dispatch"
    /\ next > Len(slices)
    /\ readers' = readers \ {"scheduler"}
    /\ sched' = "tick"
    /\ slices' = << >>
    /\ UNCHANGED <<boards, requests, responses, waiting, crashed, streams, count,
                   next, pool, running, closed, workers, syncer>>

\* The read lock is released and the rest of the interval slept away.
EndDispatch ==
    /\ sched = "dispatch"
    /\ next > Len(slices)
    /\ readers' = readers \ {"scheduler"}
    /\ sched' = "tick"
    /\ slices' = << >>
    /\ next' = 1
    /\ UNCHANGED <<boards, requests, responses, waiting, crashed, streams, count,
                   pool, running, closed, workers, syncer>>

-----------------------------------------------------------------------------
(* A worker w of the pool.                                                  *)

\* Mutated: a worker waits for a second task before it takes one.
TakeOfTwo(w) ==
    /\ w \in running
    /\ task[w] = Empty
    /\ Len(queue[w]) > 1
    /\ task' = [task EXCEPT ![w] = Head(queue[w])]
    /\ queue' = [queue EXCEPT ![w] = Tail(@)]
    /\ UNCHANGED <<shared, streams, scheduler, syncer>>

\* StartPoolWorker receives the next task; an empty slice is done at once.
Take(w) ==
    /\ w \in running
    /\ task[w] = Empty
    /\ queue[w] # << >>
    /\ task' = [task EXCEPT ![w] = Head(queue[w])]
    /\ queue' = [queue EXCEPT ![w] = Tail(@)]
    /\ UNCHANGED <<shared, streams, scheduler, syncer>>

\* Mutated: the goroutine returns when its channel is closed, drained or not.
ExitAtOnce(w) ==
    /\ w \in running \cap closed
    /\ task[w] = Empty
    /\ running' = running \ {w}
    /\ closed' = closed \ {w}
    /\ UNCHANGED <<shared, streams, sched, count, slices, next, pool,
                   workers, syncer>>

\* A closed channel is drained before the goroutine returns.
Exit(w) ==
    /\ w \in running \cap closed
    /\ task[w] = Empty
    /\ queue[w] = << >>
    /\ running' = running \ {w}
    /\ closed' = closed \ {w}
    /\ UNCHANGED <<shared, streams, sched, count, slices, next, pool,
                   workers, syncer>>

(***************************************************************************)
(* Respond handles the sessions of its slice in any order, each under the  *)
(* write lock, with the move captured when the slice was cut.              *)
(***************************************************************************)
\* Mutated: the write lock is not taken.
NextRequestUnlocked(w, id) ==
    /\ id \in DOMAIN task[w]
    /\ task' = [task EXCEPT ![w] = Drop(@, id)]
    /\ UNCHANGED <<requests, readers, waiting, streams, scheduler, queue, syncer>>

NextRequest(w, id) ==
    /\ WriteLocked
    /\ id \in DOMAIN task[w]
    /\ task' = [task EXCEPT ![w] = Drop(@, id)]
    /\ UNCHANGED <<requests, readers, streams, scheduler, queue, syncer>>

\* Its error has not been collected yet.
Skip(w, id) ==
    /\ NextRequest(w, id)
    /\ HasError(id)
    /\ UNCHANGED <<boards, responses, crashed>>

OnBoard(m) == m.game \in DOMAIN boards /\ m.user \in DOMAIN boards[m.game]

\* Mutated: a player that is gone is taken for an invalid key.
VerdictAbsentIsBadKey(m) ==
    IF m.game \notin DOMAIN boards THEN "notfound" ELSE "badkey"

\* The game is not loaded, the key is no key, or the player is not there.
Verdict(m) ==
    IF m.game \notin DOMAIN boards THEN "notfound"
    ELSE IF m.user = BadKey THEN "badkey" ELSE "gameover"

\* Mutated: the error is not recorded.
RefuseSilently(w, id) ==
    LET m == task[w][id] IN
    /\ NextRequest(w, id)
    /\ ~HasError(id)
    /\ ~OnBoard(m)
    /\ responses' = Put(responses, id, "nil")
    /\ UNCHANGED <<boards, crashed>>

Refuse(w, id) ==
    LET m == task[w][id] IN
    /\ NextRequest(w, id)
    /\ ~HasError(id)
    /\ ~OnBoard(m)
    /\ responses' = Put(responses, id, Verdict(m))
    /\ UNCHANGED <<boards, crashed>>

\* The player is outside the map.  Where players are is abstracted, so any
\* player may be.
LeaveMap(w, id) ==
    LET m == task[w][id] IN
    /\ NextRequest(w, id)
    /\ ~HasError(id)
    /\ OnBoard(m)
    /\ boards' = [boards EXCEPT ![m.game] = Drop(@, m.user)]
    /\ responses' = Put(responses, id, "gameover")
    /\ WritePlayers(m.game)

\* With its ring enabled a player removes those it hits that touch it and
\* have no ring.  Who touches whom is abstracted.
Ring(w, id) ==
    LET m == task[w][id]
        ringed == [boards[m.game] EXCEPT ![m.user] = TRUE]
    IN
    /\ NextRequest(w, id)
    /\ ~HasError(id)
    /\ OnBoard(m)
    /\ m.ring
    /\ \E killed \in SUBSET {p \in m.hits \cap DOMAIN ringed : ~ringed[p]} :
          /\ boards' = [boards EXCEPT ![m.game] =
                          Restrict(ringed, DOMAIN ringed \ killed)]
          /\ IF killed = {} THEN UNCHANGED crashed ELSE WritePlayers(m.game)
    /\ responses' = Put(responses, id, "nil")

\* Mutated: an error that was not collected is overwritten.
WalkOver(w, id) ==
    LET m == task[w][id] IN
    /\ NextRequest(w, id)
    /\ OnBoard(m)
    /\ ~m.ring
    /\ boards' = [boards EXCEPT ![m.game][m.user] = FALSE]
    /\ responses' = Put(responses, id, "nil")
    /\ UNCHANGED crashed

\* Without, it moves.
Walk(w, id) ==
    LET m == task[w][id] IN
    /\ NextRequest(w, id)
    /\ ~HasError(id)
    /\ OnBoard(m)
    /\ ~m.ring
    /\ boards' = [boards EXCEPT ![m.game][m.user] = FALSE]
    /\ responses' = Put(responses, id, "nil")
    /\ UNCHANGED crashed

Respond(w) ==
    \E id \in SessionId :
        Skip(w, id) \/ Refuse(w, id) \/ LeaveMap(w, id) \/ Ring(w, id) \/ Walk(w, id)

-----------------------------------------------------------------------------
(* The gsync loop, by its locked sections.  What Redis answers is any of   *)
(* the values the constants allow.                                         *)

\* addPlayers: an entry of the queue that names a loaded board is added to
\* it; the others are passed over.
TakeArrival ==
    /\ gsync = "add"
    /\ target' \in Arrivals
    /\ target'[2] \in DOMAIN boards
    /\ gsync' = "adding"
    /\ UNCHANGED <<shared, streams, scheduler, workers, buf>>

AddPlayer ==
    /\ gsync = "adding"
    /\ WriteLocked
    /\ boards' = [boards EXCEPT ![target[2]] = Put(@, target[1], FALSE)]
    /\ WritePlayers(target[2])
    /\ gsync' = "add"
    /\ target' = << >>
    /\ UNCHANGED <<requests, responses, readers, streams, scheduler, workers,
                   buf>>

AddPlayersDone ==
    /\ gsync = "add"
    /\ gsync' = "remove"
    /\ UNCHANGED <<shared, streams, scheduler, workers, target, buf>>

\* removePlayers looks under the read lock and deletes under the write lock.
FindPlayer ==
    /\ gsync = "remove"
    /\ ReadLockFree
    /\ target' \in Departures
    /\ target'[2] \in DOMAIN boards
    /\ target'[1] \in DOMAIN boards[target'[2]]
    /\ gsync' = "delete"
    /\ UNCHANGED <<shared, streams, scheduler, workers, buf>>

DeletePlayer ==
    /\ gsync = "delete"
    /\ WriteLocked
    /\ boards' = [boards EXCEPT ![target[2]] = Drop(@, target[1])]
    /\ WritePlayers(target[2])
    /\ gsync' = "remove"
    /\ target' = << >>
    /\ UNCHANGED <<requests, responses, readers, streams, scheduler, workers,
                   buf>>

RemovePlayersDone ==
    /\ gsync = "remove"
    /\ gsync' = "persist"
    /\ UNCHANGED <<shared, streams, scheduler, workers, target, buf>>

\* syncBoardStates writes every board to Redis under the read lock ...
BeginPersist ==
    /\ gsync = "persist"
    /\ ReadLockFree
    /\ readers' = readers \cup {"gsync"}
    /\ gsync' = "persisting"
    /\ UNCHANGED <<boards, requests, responses, waiting, crashed, streams, scheduler,
                   workers, target, buf>>

\* ... then asks which games it has; an error there ends the pass.
EndPersist ==
    /\ gsync = "persisting"
    /\ readers' = readers \ {"gsync"}
    /\ gsync' \in {"load", "add"}
    /\ UNCHANGED <<boards, requests, responses, waiting, crashed, streams, scheduler,
                   workers, target, buf>>

\* The new map is built under the read lock: a loaded board is kept as it
\* is, one that is not is read from Redis, or left out if that fails.
BeginLoad ==
    /\ gsync = "load"
    /\ ReadLockFree
    /\ readers' = readers \cup {"gsync"}
    /\ gsync' = "loading"
    /\ UNCHANGED <<boards, requests, responses, waiting, crashed, streams, scheduler,
                   workers, target, buf>>

EndLoad ==
    /\ gsync = "loading"
    /\ readers' = readers \ {"gsync"}
    /\ \E games \in Assignments :
       \E lost \in SUBSET (games \ DOMAIN boards) :
       \E stored \in [games \ lost -> Board] :
          /\ \A g \in games \ lost :
                stored[g] \in IF g \in DOMAIN boards THEN {Empty} ELSE Saved[g]
          /\ buf' = stored
    /\ gsync' = "swap"
    /\ UNCHANGED <<boards, requests, responses, waiting, crashed, streams, scheduler,
                   workers, target>>

\* Mutated: every board is replaced by what Redis has.
SwapReloading ==
    /\ gsync = "swap"
    /\ WriteLocked
    /\ \E stored \in [DOMAIN buf -> Board] :
          /\ \A g \in DOMAIN buf : stored[g] \in Saved[g]
          /\ boards' = stored
    /\ view' = [s \in Session |-> IF view[s] \in DOMAIN buf THEN view[s]
                                  ELSE NoGame]
    /\ buf' = Empty
    /\ gsync' = "add"
    /\ UNCHANGED <<requests, responses, readers, crashed, pc, sid, inbox,
                   result, scheduler, workers, target>>

\* The boards kept are the same objects, whatever happened to their players
\* since; a stream keeps pointing to a board that is dropped.
Swap ==
    /\ gsync = "swap"
    /\ WriteLocked
    /\ boards' = [g \in DOMAIN buf |->
                    IF g \in DOMAIN boards THEN boards[g] ELSE buf[g]]
    /\ view' = [s \in Session |-> IF view[s] \in DOMAIN buf THEN view[s]
                                  ELSE NoGame]
    /\ buf' = Empty
    /\ gsync' = "add"
    /\ UNCHANGED <<requests, responses, readers, crashed, pc, sid, inbox,
                   result, scheduler, workers, target>>

-----------------------------------------------------------------------------
Stream(s) == Recv(s) \/ RecvEnd(s) \/ Store(s) \/ Check(s) \/ Send(s) \/ Cleanup(s)
Scheduler == Tick \/ BeginDispatch \/ AddResponse \/ EndDispatch
PoolWorker(w) == Take(w) \/ Respond(w) \/ Exit(w)
GSync ==
    \/ TakeArrival \/ AddPlayer \/ AddPlayersDone \/ FindPlayer \/ DeletePlayer
    \/ RemovePlayersDone \/ BeginPersist \/ EndPersist \/ BeginLoad \/ EndLoad
    \/ Swap

Alive == ~crashed

Next ==
    /\ Alive
    /\ \/ \E s \in Session : Stream(s)
       \/ Scheduler
       \/ \E w \in Worker : PoolWorker(w)
       \/ GSync
       \/ AwaitReaders

Spec == Init /\ [][Next]_vars

(***************************************************************************)
(* Fairness.  A goroutine that can run does run.  Go's lock starves        *)
(* nobody: a waiting writer is let in when the readers leave, and the      *)
(* readers it kept out right after it, hence strong fairness of the steps  *)
(* that take the lock.  A message of the client and the end of a stream    *)
(* are not owed to anybody.                                                *)
(***************************************************************************)
Fairness ==
    /\ WF_vars(Alive /\ AwaitReaders)
    /\ WF_vars(Alive /\ Tick)
    /\ SF_vars(Alive /\ BeginDispatch)
    /\ WF_vars(Alive /\ AddResponse)
    /\ WF_vars(Alive /\ EndDispatch)
    /\ \A w \in Worker :
          /\ WF_vars(Alive /\ Take(w))
          /\ SF_vars(Alive /\ Respond(w))
          /\ WF_vars(Alive /\ Exit(w))
    /\ \A s \in Session :
          /\ SF_vars(Alive /\ Store(s))
          /\ SF_vars(Alive /\ Check(s))
          /\ WF_vars(Alive /\ Send(s))
          /\ SF_vars(Alive /\ Cleanup(s))
    /\ WF_vars(Alive /\ EndPersist)
    /\ WF_vars(Alive /\ EndLoad)
    /\ SF_vars(Alive /\ AddPlayer)
    /\ SF_vars(Alive /\ DeletePlayer)
    /\ SF_vars(Alive /\ Swap)

FairSpec == Spec /\ Fairness

\* The app sends a move every 100 ms for as long as the stream is open.
Talking == \A s \in Session : WF_vars(Alive /\ Recv(s))
TalkingSpec == FairSpec /\ Talking

-----------------------------------------------------------------------------
(* Type invariant.                                                          *)

Slice == PartialFn(SessionId, Move)

SharedType ==
    /\ boards \in PartialFn(Game, Board)
    /\ requests \in Slice
    /\ responses \in PartialFn(SessionId, Error \cup {"nil"})
    /\ readers \subseteq {"scheduler", "gsync"}
    /\ waiting \in BOOLEAN
    /\ crashed \in BOOLEAN

StreamType ==
    /\ pc \in [Session ->
                 {"recv", "store", "check", "send", "cleanup", "done"}]
    /\ sid \in [Session -> SessionId]
    /\ inbox \in [Session -> Move \cup {NoMove}]
    /\ \A s \in Session : pc[s] = "store" => inbox[s] # NoMove
    /\ view \in [Session -> Game \cup {NoGame}]
    /\ result \in [Session -> Error \cup {"nil", "transport"}]

SchedulerType ==
    /\ sched \in {"tick", "lock", "dispatch"}
    /\ count \in Nat
    /\ slices \in Seq(Slice)
    /\ next \in 1 .. Len(slices) + 1
    /\ pool \in Seq(Worker)
    /\ running \subseteq Worker
    /\ closed \subseteq Worker

WorkerType ==
    /\ queue \in [Worker -> Seq(Slice)]
    /\ task \in [Worker -> Slice]

SyncType ==
    /\ gsync \in {"add", "adding", "remove", "delete", "persist", "persisting",
                  "load", "loading", "swap"}
    /\ target \in {<< >>} \cup (Player \X Game)
    /\ gsync \in {"adding", "delete"} =>
          target \in Player \X Game /\ target[2] \in DOMAIN boards
    /\ buf \in PartialFn(Game, Board)

TypeOK == SharedType /\ StreamType /\ SchedulerType /\ WorkerType /\ SyncType

-----------------------------------------------------------------------------
(* Safety of the dispatch.                                                  *)

\* pool.Workers[i] is in bounds for every slice, and no task is ever sent on
\* a closed channel or to a goroutine that has returned: workerCount is read
\* before the lock, the map is split after it, and both must be about the
\* same pool.
DispatchInBounds ==
    sched = "dispatch" =>
        /\ Len(slices) = Len(pool)
        /\ \A i \in DOMAIN pool : pool[i] \in running \ closed

\* What is dispatched in one round is exactly the pending requests, each to
\* one worker, also while the scheduler is blocked on a full channel: no
\* stream may store or withdraw a request in the middle of a round.  (A
\* round whose workers were counted before the first request dispatches
\* none.)
FrozenWhileDispatching ==
    (sched = "dispatch" /\ slices # << >>) =>
        /\ UNION {DOMAIN slices[i] : i \in DOMAIN slices} = DOMAIN requests
        /\ \A i \in DOMAIN slices : \A id \in DOMAIN slices[i] :
              slices[i][id] = requests[id]
        /\ \A i, j \in DOMAIN slices :
              i # j => DOMAIN slices[i] \cap DOMAIN slices[j] = {}

\* A worker that left the pool loses none of the tasks it had accepted: it
\* returns only when its channel is drained.
NoTaskDiscarded ==
    \A w \in Worker : w \notin running => queue[w] = << >> /\ task[w] = Empty

-----------------------------------------------------------------------------
(* Safety of the session maps.                                              *)

Ended(s) == pc[s] = "done"
DistinctIds == \A s, t \in Session : sid[s] = sid[t] => s = t

\* When a stream has returned nothing schedules work for its session again:
\* its request is gone for good.
EndedSessionLeavesNoRequest ==
    \A s \in Session : Ended(s) => sid[s] \notin DOMAIN requests

\* The error of a session is never overwritten or dropped by a later round:
\* it stays until the stream it ends takes it down with its own result.
ErrorKeptUntilCollected ==
    [][\A id \in SessionId :
         HasError(id) /\ (IF id \in DOMAIN responses'
                          THEN responses'[id] # responses[id] ELSE TRUE) =>
           \E s \in Session : sid[s] = id /\ pc[s] = "cleanup" /\ pc'[s] = "done"]_vars

\* The stream of a well-behaved client ends with a verdict on a move it made
\* itself: an invalid key is reported only to the one who sent it.
OwnVerdict ==
    \A s \in Session :
        result[s] = "badkey" => \E m \in Moves[s] : m.user = BadKey

\* A player that died or left stays off a board that stays loaded, unless it
\* is queued again: the swap of the boards, prepared under one lock and done
\* under the next, undoes nothing that happened in between.
NoResurrection ==
    [][\A g \in DOMAIN boards \cap DOMAIN boards' :
         \A p \in DOMAIN boards'[g] \ DOMAIN boards[g] :
            gsync = "adding" /\ target = <<p, g>>]_vars

-----------------------------------------------------------------------------
(* The deadlock of a full channel, and liveness.                            *)

(***************************************************************************)
(* The scheduler holds the read lock and waits for room in the channel of  *)
(* a worker that waits for the write lock.  Nobody can ever break this     *)
(* cycle: it is the price of dispatching under the lock.                   *)
(***************************************************************************)
FullChannelCycle ==
    /\ sched = "dispatch"
    /\ next <= Len(slices)
    /\ Len(queue[pool[next]]) = MaxChannelSize
    /\ task[pool[next]] # Empty

FullChannelIsForever == [][FullChannelCycle => FullChannelCycle']_vars

Stopped == crashed \/ FullChannelCycle

\* The response interval keeps being served.
SchedulerTicks == []<>(sched = "tick" \/ crashed)

\* That cycle is the only way the response scheduler can stop, however gsync,
\* the streams and the workers interleave.
SchedulerTicksUnlessStopped == []<>(sched = "tick") \/ <>[]Stopped

\* An error written by a worker ends its stream, if the client keeps sending.
ErrorEndsSession ==
    \A s \in Session : HasError(sid[s]) ~> (Ended(s) \/ Stopped)

\* Game over is told: once the player a stream plays stays off the boards,
\* the stream ends.
GameOverIsTold ==
    \A s \in Session :
        <>[](\A m \in Moves[s] : ~OnBoard(m)) => <>(Ended(s) \/ Stopped)

=============================================================================
