----------------------------- MODULE ProxyProofs -----------------------------
(***************************************************************************)
(* Theorems about Proxy for every set of servers and any number of moves:  *)
(* its types, what its goroutines leave behind, when "Game not found!" is  *)
(* true, and that a proxied stream implements the direct one of Stream.    *)
(***************************************************************************)
EXTENDS Proxy, TLAPS

-----------------------------------------------------------------------------
(* Type correctness.                                                        *)

LEMMA TypeInit == Init => TypeOK
<1> SUFFICES ASSUME Init PROVE TypeOK
  OBVIOUS
<1>1. SearchType
  BY ServerAssumption DEF Init, SearchType
<1>2. StreamType
  <2>1. /\ given = 0 /\ ended = "no" /\ pulled = 0 /\ taken = <<>>
        /\ sent = 0 /\ verdict = "none" /\ read = 0 /\ received = <<>>
        /\ expired = FALSE /\ late = 0
        /\ wpc = "off" /\ wres = "none" /\ rpc = "off" /\ rres = "none"
    BY DEF Init
  <2>2. taken \in Seq(Nat) /\ received \in Seq(Nat)
    BY <2>1
  <2>3. given \in 0 .. MaxMoves /\ pulled \in 0 .. given /\ read \in 0 .. sent
        /\ sent \in Nat /\ late \in Nat
    BY <2>1, BoundAssumption
  <2>4. expired \in BOOLEAN
    BY <2>1
  <2> QED BY <2>1, <2>2, <2>3, <2>4 DEF StreamType, LoopState
<1>3. ControlType
  BY DEF Init, ControlType
<1> QED BY <1>1, <1>2, <1>3 DEF TypeOK

LEMMA SearchUnchanged ==
    SearchType /\ calm' \in BOOLEAN /\ UNCHANGED <<env, pc, search, result>> => SearchType'
BY DEF SearchType, env, redis, search

LEMMA StreamUnchanged == StreamType /\ UNCHANGED stream => StreamType'
BY DEF StreamType, stream, moves, replies, writer, reader

LEMMA ControlUnchanged == ControlType /\ UNCHANGED <<pc, writer, reader>> => ControlType'
BY DEF ControlType, writer, reader

LEMMA WatchType == SearchType /\ Watch => calm' \in BOOLEAN
BY DEF Watch, SearchType

\* The search, which starts no loop.
LEMMA TypeSearch ==
    ASSUME TypeOK, Metadata \/ FindGServer \/ Dial
    PROVE  TypeOK'
<1> USE DEF TypeOK
<1>1. calm' \in BOOLEAN
  BY WatchType DEF Metadata, FindGServer, ReadIndex, ReadMap, NotFound, ReadAddr, Dial,
     Handled
<1>2. SearchType'
  <2> USE <1>1 DEF SearchType, env, redis, search, Return
  <2>1. CASE Metadata BY <2>1 DEF Metadata
  <2>2. CASE ReadIndex BY <2>2 DEF ReadIndex
  <2>3. CASE ReadMap BY <2>3 DEF ReadMap
  <2>4. CASE NotFound BY <2>4 DEF NotFound
  <2>5. CASE ReadAddr BY <2>5 DEF ReadAddr
  <2>6. CASE Dial BY <2>6 DEF Dial
  <2> QED BY <2>1, <2>2, <2>3, <2>4, <2>5, <2>6 DEF FindGServer
<1>3. UNCHANGED stream
  BY DEF Metadata, FindGServer, ReadIndex, ReadMap, NotFound, ReadAddr, Dial
<1>4. pc \notin {"select", "return", "done"} /\ pc' \notin {"select", "return"}
  BY DEF Metadata, FindGServer, ReadIndex, ReadMap, NotFound, ReadAddr, Dial, Return
<1>5. ControlType'
  BY <1>3, <1>4 DEF ControlType, stream, writer, reader
<1> QED BY <1>2, <1>3, <1>5, StreamUnchanged

LEMMA TypeHandler ==
    ASSUME TypeOK, Open \/ Select \/ Close
    PROVE  TypeOK'
<1> USE DEF TypeOK
<1>1. calm' \in BOOLEAN
  BY WatchType DEF Open, Select, Close
<1>2. CASE Open
  <2>1. SearchType' BY <1>1, <1>2 DEF Open, SearchType, Return, env, redis, search
  <2>2. StreamType'
    BY <1>2 DEF Open, StreamType, LoopState, moves, replies, Return
  <2>3. ControlType' BY <1>2 DEF Open, ControlType, Return
  <2> QED BY <2>1, <2>2, <2>3
<1>3. CASE Select
  <2>1. SearchType' BY <1>1, <1>3 DEF Select, SearchType, env, redis, search
  <2>2. StreamType' BY <1>3 DEF Select, StreamType, LoopState, moves, replies
  <2>3. ControlType' BY <1>3 DEF Select, ControlType
  <2> QED BY <2>1, <2>2, <2>3
<1>4. CASE Close
  <2>1. SearchType'
    BY <1>1, <1>4 DEF Close, SearchType, StreamType, Return, env, redis, search
  <2>2. UNCHANGED stream BY <1>4 DEF Close
  <2>3. ControlType' BY <1>4 DEF Close, ControlType, Return, stream, writer, reader
  <2> QED BY <2>1, <2>2, <2>3, StreamUnchanged
<1> QED BY <1>2, <1>3, <1>4

LEMMA TypeLoops ==
    ASSUME TypeOK, WriterLoop \/ ReaderLoop
    PROVE  TypeOK'
<1> USE DEF TypeOK
<1>1. SearchType'
  BY WatchType, SearchUnchanged DEF WriterLoop, ReaderLoop
<1>2. CASE WriterLoop
  <2> USE <1>2 DEF WriterLoop, StreamType, LoopState, moves, reader, replies
  <2>1. CASE WriterRecv
    <3>1. PICK r \in SrvRecv :
            IF r = "board" THEN wpc' = "send" /\ read' = read + 1 /\ UNCHANGED wres
                           ELSE wpc' = "report" /\ wres' = r /\ UNCHANGED read
      BY <2>1 DEF WriterRecv
    <3>2. r \in {"board", "over", "lost", "expired", "canceled"}
          /\ (r = "board" => read < sent)
      BY <3>1 DEF SrvRecv
    <3>3. StreamType' BY <2>1, <3>1, <3>2 DEF WriterRecv
    <3>4. ControlType' BY <2>1, <3>1, <3>2 DEF WriterRecv, ControlType
    <3> QED BY <1>1, <3>3, <3>4
  <2>2. CASE WriterSend
    <3>1. StreamType' BY <2>2 DEF WriterSend, ClientSend
    <3>2. ControlType' BY <2>2 DEF WriterSend, ControlType
    <3> QED BY <1>1, <3>1, <3>2
  <2>3. CASE WriterCheck
    <3>1. StreamType' BY <2>3 DEF WriterCheck
    <3>2. ControlType' BY <2>3 DEF WriterCheck, ControlType
    <3> QED BY <1>1, <3>1, <3>2
  <2> QED BY <2>1, <2>2, <2>3
<1>3. CASE ReaderLoop
  <2> USE <1>3 DEF ReaderLoop, StreamType, LoopState, moves, writer, replies
  <2>1. CASE ReaderRecv
    <3>1. PICK r \in ClientRecv :
            IF r = "move" THEN rpc' = "send" /\ pulled' = pulled + 1 /\ UNCHANGED rres
                          ELSE rpc' = "report" /\ rres' = r /\ UNCHANGED pulled
      BY <2>1 DEF ReaderRecv
    <3>2. r \in {"move", "eof", "canceled"} /\ (r = "move" => pulled < given)
      BY <3>1 DEF ClientRecv
    <3>3. StreamType' BY <2>1, <3>1, <3>2, BoundAssumption DEF ReaderRecv
    <3>4. ControlType' BY <2>1, <3>1, <3>2 DEF ReaderRecv, ControlType
    <3> QED BY <1>1, <3>3, <3>4
  <2>2. CASE ReaderSend
    <3>1. StreamType' BY <2>2, BoundAssumption DEF ReaderSend, SrvSend
    <3>2. ControlType' BY <2>2 DEF ReaderSend, ControlType
    <3> QED BY <1>1, <3>1, <3>2
  <2>3. CASE ReaderCheck
    <3>1. StreamType' BY <2>3 DEF ReaderCheck
    <3>2. ControlType' BY <2>3 DEF ReaderCheck, ControlType
    <3> QED BY <1>1, <3>1, <3>2
  <2> QED BY <2>1, <2>2, <2>3
<1> QED BY <1>2, <1>3

LEMMA TypeAround ==
    ASSUME TypeOK, Ends \/ Deadline \/ Cluster
    PROVE  TypeOK'
<1> USE DEF TypeOK
<1>1. CASE Ends
  <2>1. SearchType' BY <1>1, WatchType, SearchUnchanged DEF Ends
  <2>2. StreamType'
    BY <1>1, BoundAssumption
    DEF Ends, Give, EndClient, Answer, EndServer, StreamType, LoopState, replies, writer,
        reader
  <2>3. ControlType' BY <1>1, ControlUnchanged DEF Ends
  <2> QED BY <2>1, <2>2, <2>3
<1>2. CASE Deadline
  <2>1. SearchType' BY <1>2, WatchType, SearchUnchanged DEF Deadline
  <2>2. StreamType' BY <1>2 DEF Deadline, StreamType, moves, replies, writer, reader
  <2>3. ControlType' BY <1>2, ControlUnchanged DEF Deadline
  <2> QED BY <2>1, <2>2, <2>3
<1>3. CASE Cluster
  <2>1. SearchType'
    BY <1>3, WatchType
    DEF Cluster, Crash, AddrExpires, Place, SRem, Del, SearchType, redis, search
  <2>2. UNCHANGED <<pc, stream>> BY <1>3 DEF Cluster
  <2>3. ControlType' BY <2>2, ControlUnchanged DEF stream
  <2> QED BY <2>1, <2>2, <2>3, StreamUnchanged
<1> QED BY <1>1, <1>2, <1>3

\* Every variable of Proxy keeps its type, and the handler and its loops keep
\* the order in which they start and end.
THEOREM ProxyTypeCorrect == Spec => []TypeOK
<1>1. TypeOK /\ [Next]_vars => TypeOK'
  <2> SUFFICES ASSUME TypeOK, [Next]_vars PROVE TypeOK'
    OBVIOUS
  <2>1. CASE UNCHANGED vars
    BY <2>1, SearchUnchanged, StreamUnchanged, ControlUnchanged
    DEF vars, TypeOK, SearchType, stream
  <2> QED
    BY <2>1, TypeSearch, TypeHandler, TypeLoops, TypeAround DEF Next, ProxyGameboard
<1> QED BY <1>1, TypeInit, PTL DEF Spec

-----------------------------------------------------------------------------
(* What the goroutines leave behind.                                        *)


\* A status is what ProxyGameboard has returned with, and the one it returns
\* at the end is that of the loop that reported.
ResultInv ==
    /\ result = "none" <=> pc # "done"
    /\ pc = "return" /\ wpc = "gone" => wres # "none"
    /\ pc = "return" /\ rpc = "gone" => rres # "none"

\* A board that was sent too late is the last one the loop sends.
LateInv == late # 0 => pc = "done" /\ late = 1 /\ wpc \in {"check", "gone"}

\* The handler has taken the report of one loop when it returns.
LoopInv == pc = "done" /\ wpc # "off" => "gone" \in {wpc, rpc}

EndInv == ResultInv /\ LateInv /\ LoopInv

LEMMA EndInit == Init => EndInv
BY DEF Init, EndInv, ResultInv, LateInv, LoopInv

LEMMA EndStep == TypeOK /\ EndInv /\ [Next]_vars => EndInv'
<1> SUFFICES ASSUME TypeOK, EndInv, [Next]_vars PROVE EndInv'
  OBVIOUS
<1> USE DEF EndInv, ResultInv, LateInv, LoopInv
<1>1. CASE Metadata \/ FindGServer \/ Dial
  BY <1>1
  DEF TypeOK, ControlType, Metadata, FindGServer, ReadIndex, ReadMap, NotFound, ReadAddr,
      Dial, Return, stream, writer, reader
<1>2. CASE Open
  BY <1>2 DEF TypeOK, ControlType, Open, Return
<1>3. CASE Select
  BY <1>3 DEF TypeOK, ControlType, Select
<1>4. CASE Close
  BY <1>4 DEF TypeOK, ControlType, Close, Return, stream, writer, reader
<1>5. CASE WriterLoop
  <2>1. CASE WriterRecv
    BY <1>5, <2>1 DEF WriterLoop, WriterRecv, reader
  <2>2. CASE WriterSend
    BY <1>5, <2>2 DEF WriterLoop, WriterSend, reader
  <2>3. CASE WriterCheck
    BY <1>5, <2>3 DEF WriterLoop, WriterCheck, reader
  <2> QED BY <1>5, <2>1, <2>2, <2>3 DEF WriterLoop
<1>6. CASE ReaderLoop
  BY <1>6 DEF ReaderLoop, ReaderRecv, ReaderSend, ReaderCheck, writer
<1>7. CASE Ends \/ Deadline \/ Cluster
  BY <1>7 DEF Ends, Deadline, Cluster, stream, writer, reader
<1>8. CASE UNCHANGED vars
  BY <1>8 DEF vars, stream, writer, reader
<1> QED
  BY <1>1, <1>2, <1>3, <1>4, <1>5, <1>6, <1>7, <1>8 DEF Next, ProxyGameboard

LEMMA EndInvariant == Spec => []EndInv
BY EndInit, EndStep, ProxyTypeCorrect, PTL DEF Spec

\* The writer loop uses the stream of the client at most once after the
\* handler has returned.
THEOREM LateSendIsOne == Spec => []OneLateSend
<1>1. EndInv => OneLateSend
  BY DEF EndInv, LateInv, OneLateSend
<1> QED BY <1>1, EndInvariant, PTL

\* A stream that has ended leaves at most one goroutine behind.
THEOREM OneLoopStays == Spec => []OneLoopLeft
<1>1. EndInv => OneLoopLeft
  BY DEF EndInv, LoopInv, OneLoopLeft
<1> QED BY <1>1, EndInvariant, PTL

-----------------------------------------------------------------------------
(* The search.                                                              *)

\* While nothing disturbs it there is still a map to visit that has the game,
\* and each map that has it is listed and that of a server with an address.
SearchInv ==
    /\ calm /\ Searching => Handled
    /\ calm /\ pc = "maps" => todo \cap holds \subseteq index /\ todo \cap holds # {}
    /\ calm /\ pc = "addr" => found \in index \cap holds
    /\ result = "notfound" => ~calm

LEMMA SearchInit == Init => SearchInv
BY DEF Init, SearchInv, Searching

\* The cluster may move what the search has found only by disturbing it.
LEMMA SearchCluster ==
    ASSUME TypeOK, SearchInv, Cluster
    PROVE  SearchInv'
<1>1. Watch /\ UNCHANGED <<pc, search, result>>
  BY DEF Cluster
<1>2. Searching' = Searching
  BY <1>1 DEF Searching
<1>3. calm' => calm /\ (Searching => Handled')
  BY <1>1 DEF Watch, TypeOK, SearchType
<1>4. ASSUME calm', Searching
      PROVE  /\ index' \cap holds = index \cap holds
             /\ index \cap holds' = index \cap holds
             /\ holds' \subseteq holds
  <2>1. index \cap holds \subseteq addr
    BY <1>3, <1>4 DEF SearchInv, Handled
  <2> QED BY <2>1 DEF Cluster, Crash, AddrExpires, Place, SRem, Del, redis
<1>5. ASSUME calm', Searching
      PROVE  index' = index \/ holds' = holds
  BY DEF Cluster, Crash, AddrExpires, Place, SRem, Del, redis
<1> QED
  BY <1>1, <1>2, <1>3, <1>4, <1>5 DEF SearchInv, Searching, search

LEMMA SearchStep == TypeOK /\ EndInv /\ SearchInv /\ [Next]_vars => SearchInv'
<1> SUFFICES ASSUME TypeOK, EndInv, SearchInv, [Next]_vars PROVE SearchInv'
  OBVIOUS
<1> USE DEF SearchInv, Searching
<1>1. CASE Metadata
  BY <1>1 DEF Metadata, Return, Handled, env, redis, EndInv, ResultInv
<1>2. CASE ReadIndex
  BY <1>2 DEF ReadIndex, Watch, Handled, env, redis, EndInv, ResultInv
<1>3. CASE ReadMap
  BY <1>3 DEF ReadMap, Watch, Handled, env, redis, EndInv, ResultInv
<1>4. CASE NotFound
  BY <1>4 DEF NotFound, Return, Watch, Handled, env, redis, search
<1>5. CASE ReadAddr
  BY <1>5 DEF ReadAddr, Return, Watch, Handled, env, redis, search, EndInv, ResultInv
<1>6. ASSUME pc \notin {"metadata", "index", "maps", "addr"}, ~Searching', calm' => calm,
             result' = "notfound" => result = "notfound"
      PROVE  SearchInv'
  BY <1>6
<1>7. CASE Dial \/ Open \/ Select \/ Close
  BY <1>6, <1>7
  DEF Dial, Open, Select, Close, Return, Watch, TypeOK, SearchType, StreamType
<1>8. ASSUME UNCHANGED <<env, pc, search, result>>, calm' => calm
      PROVE  SearchInv'
  BY <1>8 DEF env, redis, search, Handled
<1>9. CASE WriterLoop \/ ReaderLoop \/ Ends \/ Deadline
  BY <1>8, <1>9 DEF WriterLoop, ReaderLoop, Ends, Deadline, Watch
<1>10. CASE UNCHANGED vars
  BY <1>8, <1>10 DEF vars
<1>11. CASE Cluster
  BY <1>11, SearchCluster
<1> QED
  BY <1>1, <1>2, <1>3, <1>4, <1>5, <1>7, <1>9, <1>10, <1>11
  DEF Next, ProxyGameboard, FindGServer

\* "Game not found!" is true unless the search was disturbed, for any number
\* of servers and in whatever order their maps are visited.
THEOREM NotFoundIsRight == Spec => []NotFoundIsTrue
<1>1. SearchInv => NotFoundIsTrue
  BY DEF SearchInv, NotFoundIsTrue
<1> QED
  BY <1>1, SearchInit, SearchStep, ProxyTypeCorrect, EndInvariant, PTL DEF Spec

-----------------------------------------------------------------------------
(* The refinement.                                                          *)

\* While a side is open what was handed to it is what its loop has received,
\* but for the message the loop is about to send; and the verdict of the
\* server is seen after all of its boards.
CopyInv ==
    /\ SrvOpen => Len(taken) = IF rpc = "send" THEN pulled - 1 ELSE pulled
    /\ ClientOpen => Len(received) = IF wpc = "send" THEN read - 1 ELSE read
    /\ rpc = "send" => pulled > 0
    /\ wpc = "send" => read > 0
    /\ wres # "none" => wpc \in {"report", "gone"}
    /\ wres = "over" => verdict = "over" /\ read = sent
    /\ wres = "lost" => verdict = "lost"

LEMMA CopyInit == Init => CopyInv
BY DEF Init, CopyInv

LEMMA CopyStep == TypeOK /\ CopyInv /\ [Next]_vars => CopyInv'
<1> SUFFICES ASSUME TypeOK, CopyInv, [Next]_vars PROVE CopyInv'
  OBVIOUS
<1> USE DEF CopyInv, SrvOpen, ClientOpen
<1>1. ASSUME UNCHANGED <<moves, replies, writer, reader, expired>>,
             pc = "done" => pc' = "done"
      PROVE  CopyInv'
  BY <1>1 DEF moves, replies, writer, reader
<1>2. CASE Metadata \/ FindGServer \/ Dial \/ Close
  BY <1>1, <1>2
  DEF Metadata, FindGServer, ReadIndex, ReadMap, NotFound, ReadAddr, Dial, Close, Return,
      stream
<1>3. CASE Open \/ Select
  BY <1>3 DEF Open, Select, Return, TypeOK, ControlType, moves, replies
<1>4. CASE WriterLoop
  <2> USE DEF TypeOK, StreamType
  <2>1. CASE WriterRecv
    <3>1. PICK r \in SrvRecv :
            IF r = "board" THEN wpc' = "send" /\ read' = read + 1 /\ UNCHANGED wres
                           ELSE wpc' = "report" /\ wres' = r /\ UNCHANGED read
      BY <2>1 DEF WriterRecv
    <3>2. /\ r \in {"board", "over", "lost", "expired", "canceled"}
          /\ r = "board" => read < sent
          /\ r = "over" => verdict = "over" /\ read = sent
          /\ r = "lost" => verdict = "lost"
      BY <3>1 DEF SrvRecv
    <3> QED BY <1>4, <2>1, <3>1, <3>2 DEF WriterLoop, WriterRecv, moves, reader
  <2>2. CASE WriterSend
    BY <1>4, <2>2 DEF WriterLoop, WriterSend, ClientSend, moves, reader
  <2>3. CASE WriterCheck
    BY <1>4, <2>3 DEF WriterLoop, WriterCheck, moves, reader, replies
  <2> QED BY <1>4, <2>1, <2>2, <2>3 DEF WriterLoop
<1>5. CASE ReaderLoop
  <2> USE DEF TypeOK, StreamType
  <2>1. CASE ReaderRecv
    BY <1>5, <2>1 DEF ReaderLoop, ReaderRecv, writer, replies
  <2>2. CASE ReaderSend
    BY <1>5, <2>2 DEF ReaderLoop, ReaderSend, SrvSend, writer, replies
  <2>3. CASE ReaderCheck
    BY <1>5, <2>3 DEF ReaderLoop, ReaderCheck, moves, writer, replies
  <2> QED BY <1>5, <2>1, <2>2, <2>3 DEF ReaderLoop
<1>6. CASE Ends
  BY <1>6
  DEF Ends, Give, EndClient, Answer, EndServer, replies, writer, reader
<1>7. CASE Deadline
  BY <1>7 DEF Deadline, moves, replies, writer, reader
<1>8. CASE Cluster \/ UNCHANGED vars
  BY <1>1, <1>8 DEF Cluster, vars, stream
<1> QED
  BY <1>2, <1>3, <1>4, <1>5, <1>6, <1>7, <1>8 DEF Next, ProxyGameboard

LEMMA CopyInvariant == Spec => []CopyInv
BY CopyInit, CopyStep, ProxyTypeCorrect, PTL DEF Spec

LEMMA DirectInit == Init => Direct!Init
BY DEF Init, Direct!Init, SeenResult

\* Each step of the proxy is one of the direct stream, or none.
LEMMA DirectStep ==
    TypeOK /\ EndInv /\ CopyInv /\ [Next]_vars => [Direct!Next]_(Direct!vars)
<1> SUFFICES ASSUME TypeOK, EndInv, CopyInv, [Next]_vars
             PROVE  Direct!Next \/ UNCHANGED Direct!vars
  OBVIOUS
<1> DEFINE seen == <<given, taken, sent, received, verdict, ended, result>>
<1>1. UNCHANGED seen => UNCHANGED Direct!vars
  BY DEF Direct!vars, SeenResult
<1>2. ASSUME UNCHANGED <<given, taken, sent, received, verdict, ended>>,
             result = "none", result' # "none",
             result' \notin {"over", "lost"}
      PROVE  Direct!Next
  BY <1>2 DEF Direct!Next, Direct!End, SeenResult
<1>3. CASE Metadata \/ FindGServer \/ Dial \/ Open \/ Select
  BY <1>1, <1>2, <1>3
  DEF Metadata, FindGServer, ReadIndex, ReadMap, NotFound, ReadAddr, Dial, Open, Select,
      Return, stream, moves, replies, EndInv, ResultInv
<1>4. CASE Close
  <2>1. /\ result = "none" /\ result' # "none" /\ UNCHANGED <<moves, replies>>
        /\ result' = IF wpc = "gone" THEN wres ELSE rres
    BY <1>4 DEF Close, Return, EndInv, ResultInv, TypeOK, ControlType, stream
  <2>2. rres \notin {"over", "lost"}
    BY DEF TypeOK, StreamType
  <2>3. ClientOpen => ended # "gone" /\ (wpc = "gone" => Len(received) = read)
    BY DEF CopyInv, ClientOpen
  <2>4. ended # "gone" => ClientOpen
    BY <1>4 DEF Close, ClientOpen
  <2> QED
    BY <2>1, <2>2, <2>3, <2>4
    DEF CopyInv, Direct!Next, Direct!End, SeenResult, moves, replies
<1>5. CASE WriterLoop
  <2>1. UNCHANGED <<given, taken, sent, verdict, ended, result>>
    BY <1>5 DEF WriterLoop, WriterRecv, WriterSend, WriterCheck, moves, replies
  <2>2. CASE UNCHANGED received
    BY <1>1, <2>1, <2>2
  <2>3. CASE WriterSend /\ ClientOpen
    <3>1. received' = Append(received, Len(received) + 1) /\ Len(received) < sent
      BY <2>3 DEF WriterSend, ClientSend, CopyInv, TypeOK, StreamType
    <3>2. result = "none"
      BY <2>3 DEF ClientOpen, EndInv, ResultInv
    <3> QED BY <2>1, <3>1, <3>2 DEF Direct!Next, Direct!Receive, SeenResult
  <2> QED BY <1>5, <2>2, <2>3
    DEF WriterLoop, WriterRecv, WriterSend, WriterCheck, ClientSend, replies
<1>6. CASE ReaderLoop
  <2>1. UNCHANGED <<given, sent, received, verdict, ended, result>>
    BY <1>6 DEF ReaderLoop, ReaderRecv, ReaderSend, ReaderCheck, moves, replies
  <2>2. CASE UNCHANGED taken
    BY <1>1, <2>1, <2>2
  <2>3. CASE ReaderSend /\ SrvOpen
    <3>1. taken' = Append(taken, Len(taken) + 1) /\ Len(taken) < given
      BY <2>3, BoundAssumption DEF ReaderSend, SrvSend, CopyInv, TypeOK, StreamType
    <3>2. result = "none"
      BY <2>3 DEF SrvOpen, EndInv, ResultInv
    <3> QED BY <2>1, <3>1, <3>2 DEF Direct!Next, Direct!Take, SeenResult
  <2> QED BY <1>6, <2>2, <2>3
    DEF ReaderLoop, ReaderRecv, ReaderSend, ReaderCheck, SrvSend, moves
<1>7. CASE Ends
  <2>1. UNCHANGED <<taken, received, result>>
    BY <1>7 DEF Ends, Give, EndClient, Answer, EndServer, replies
  <2>2. CASE Give
    BY <2>1, <2>2 DEF Give, Direct!Next, Direct!Give, SeenResult, replies
  <2>3. CASE EndClient
    BY <2>1, <2>3 DEF EndClient, EndInv, ResultInv, Direct!vars, SeenResult, replies
  <2>4. CASE Answer
    BY <2>1, <2>4 DEF Answer, SrvOpen, Direct!Next, Direct!Send, SeenResult
  <2>5. CASE EndServer
    BY <2>1, <2>5 DEF EndServer, SrvOpen, Direct!Next, Direct!Decide, SeenResult
  <2> QED BY <1>7, <2>2, <2>3, <2>4, <2>5 DEF Ends
<1>8. CASE Deadline \/ Cluster \/ UNCHANGED vars
  BY <1>1, <1>8 DEF Deadline, Cluster, vars, stream, moves, replies
<1> QED
  BY <1>3, <1>4, <1>5, <1>6, <1>7, <1>8 DEF Next, ProxyGameboard

\* A proxied stream is a direct one to its client, for any number of moves,
\* however its two loops, its two ends and the failover interleave.
THEOREM ProxyIsDirect == Spec => DirectSpec
<1>1. Spec => Direct!Init /\ [][Direct!Next]_(Direct!vars)
  BY DirectInit, DirectStep, ProxyTypeCorrect, EndInvariant, CopyInvariant, PTL DEF Spec
<1> QED BY <1>1 DEF DirectSpec, Direct!Spec
=============================================================================
