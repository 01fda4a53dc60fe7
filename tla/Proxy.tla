-------------------------------- MODULE Proxy --------------------------------
(***************************************************************************)
(* ProxyGameboard: one stream of a client, taken by an orchestrator to the *)
(* gameserver that handles the game.  FindGServer searches the maps in     *)
(* Redis, one step per call, while games move off dead servers; then two   *)
(* goroutines copy one direction each, and the handler waits for the first *)
(* of them that reports an end.  Streams share nothing: there is one here. *)
(*                                                                         *)
(* The n-th move and the n-th board are the number n.  What Send and Recv  *)
(* do is gRPC's: a stream keeps the order, ends once, and its Send fails   *)
(* when it has ended.                                                      *)
(***************************************************************************)
EXTENDS Integers, Sequences

CONSTANTS
    Server,
    Dead,       \* servers that had crashed before the stream begins
    Mortal,     \* servers that may crash
    Errors,     \* calls to Redis may fail
    MaxMoves,   \* bound: moves the client sends
    None

ASSUME ServerAssumption == Dead \subseteq Server /\ None \notin Server
ASSUME BoundAssumption == MaxMoves \in Nat /\ Errors \in BOOLEAN

VARIABLES
    index,      \* gserver:index:games: servers whose map is listed
    holds,      \* servers whose map lists the game
    addr,       \* servers with a key gserver:{s}:addr
    up,         \* servers that accept connections
    secure,     \* GSCredentials # nil
    pc,         \* where ProxyGameboard is
    todo,       \* keys FindGServer has yet to visit
    found,      \* the server whose map listed the game
    result,     \* the status ProxyGameboard returned
    given,      \* moves the client has sent
    ended,      \* how the client ended its side
    pulled,     \* moves the reader loop has received
    taken,      \* moves handed to the stream of the server
    sent,       \* boards the server has sent
    verdict,    \* how the server ended the stream
    read,       \* boards the writer loop has received
    received,   \* boards handed to the stream of the client
    expired,    \* the deadline of srvCtx has passed
    wpc, wres,  \* startWriterLoop: where it is, what it reports
    rpc, rres,  \* startReaderLoop
    late,       \* calls of clientStream.Send after the return (history)
    calm        \* the search was undisturbed (history)

redis == <<index, holds, addr>>
env == <<redis, up, secure>>
search == <<todo, found>>
moves == <<given, ended, pulled, taken>>
replies == <<sent, verdict, read, received>>
writer == <<wpc, wres>>
reader == <<rpc, rres>>
stream == <<moves, replies, writer, reader, expired, late>>
vars == <<env, pc, search, result, stream, calm>>

Init ==
    /\ index \in SUBSET Server
    /\ \E s \in index : holds = {s}
    /\ up = Server \ Dead
    /\ addr \in {Server, up}
    /\ secure \in BOOLEAN
    /\ pc = "metadata" /\ todo = {} /\ found = None /\ result = "none"
    /\ given = 0 /\ ended = "no" /\ pulled = 0 /\ taken = <<>>
    /\ sent = 0 /\ verdict = "none" /\ read = 0 /\ received = <<>>
    /\ expired = FALSE
    /\ wpc = "off" /\ wres = "none"
    /\ rpc = "off" /\ rres = "none"
    /\ late = 0 /\ calm = TRUE

-----------------------------------------------------------------------------
(* What a search depends on.                                                *)

\* The game is on a listed map, and every listed map that has it is that of
\* a server with an address.
Handled == index \cap holds # {} /\ index \cap holds \subseteq addr
Searching == pc \in {"index", "maps", "addr"}
Watch == calm' = (calm /\ (Searching => Handled'))

Return(r) == pc' = "done" /\ result' = r

-----------------------------------------------------------------------------
(* ProxyGameboard up to the stream to the server.                           *)

Metadata ==
    /\ pc = "metadata"
    /\ \/ pc' = "index" /\ UNCHANGED result
       \/ Return("invalid")
    /\ calm' = Handled
    /\ UNCHANGED <<env, search, stream>>

\* A failed SMembers is logged, and nothing is searched.
ReadIndex ==
    /\ pc = "index"
    /\ pc' = "maps"
    /\ UNCHANGED <<env, found, result, stream>>
    /\ \/ todo' = index /\ Watch
       \/ Errors /\ todo' = {} /\ calm' = FALSE

\* Mutated: the search ends at a map that does not list the game.
ReadFirstMap ==
    /\ pc = "maps"
    /\ UNCHANGED <<env, result, stream>>
    /\ \E s \in todo :
          /\ \/ s \in holds /\ todo' = todo \ {s} /\ found' = s /\ pc' = "addr"
             \/ s \notin holds /\ todo' = {} /\ UNCHANGED <<found, pc>>
          /\ Watch

\* The next map; one that cannot be read is passed over.
ReadMap ==
    /\ pc = "maps"
    /\ UNCHANGED <<env, result, stream>>
    /\ \E s \in todo :
          /\ todo' = todo \ {s}
          /\ \/ s \in holds /\ found' = s /\ pc' = "addr" /\ Watch
             \/ s \notin holds /\ Watch /\ UNCHANGED <<found, pc>>
             \/ Errors /\ calm' = FALSE /\ UNCHANGED <<found, pc>>

NotFound ==
    /\ pc = "maps"
    /\ todo = {}
    /\ Return("notfound")
    /\ UNCHANGED <<env, search, stream>>
    /\ Watch

\* The first map that lists the game decides: without an address of its
\* server the search ends.
ReadAddr ==
    /\ pc = "addr"
    /\ \/ found \in addr /\ pc' = "dial" /\ UNCHANGED result
       \/ found \notin addr /\ Return("notfound")
       \/ Errors /\ Return("internal")
    /\ UNCHANGED <<env, search, stream>>
    /\ Watch

FindGServer == ReadIndex \/ ReadMap \/ NotFound \/ ReadAddr

\* Mutated: the dial blocks with credentials as well.
DialBlocking ==
    /\ pc = "dial"
    /\ found \in up
    /\ pc' = "open"
    /\ UNCHANGED <<env, search, result, stream>>
    /\ Watch

\* grpc.Dial: with credentials it returns at once; without it blocks, with no
\* deadline, until the server is there.
Dial ==
    /\ pc = "dial"
    /\ secure \/ found \in up
    /\ pc' = "open"
    /\ UNCHANGED <<env, search, result, stream>>
    /\ Watch

\* Mutated: only one of the loops is started.
OpenHalf ==
    /\ pc = "open"
    /\ \/ /\ found \in up
          /\ pc' = "select"
          /\ wpc' = "recv"
          /\ UNCHANGED result
       \/ /\ found \notin up
          /\ Return("unavailable")
          /\ UNCHANGED wpc
    /\ UNCHANGED <<env, search, moves, replies, expired, wres, reader, late>>
    /\ Watch

\* StreamGameboard fails when the server cannot be reached; otherwise the two
\* loops are started.
Open ==
    /\ pc = "open"
    /\ \/ /\ found \in up
          /\ pc' = "select"
          /\ wpc' = "recv" /\ rpc' = "recv"
          /\ UNCHANGED result
       \/ /\ found \notin up
          /\ Return("unavailable")
          /\ UNCHANGED <<wpc, rpc>>
    /\ UNCHANGED <<env, search, moves, replies, expired, wres, rres, late>>
    /\ Watch

-----------------------------------------------------------------------------
(* The streams.  When ProxyGameboard has returned, the one of the client is *)
(* over and the one to the server is cancelled.                             *)

SrvOpen == pc # "done" /\ ~expired /\ verdict = "none"
ClientOpen == pc # "done" /\ ended # "gone"

\* What Recv on the stream to the server may return: what has arrived may
\* still be read when the stream is cancelled, and boards in flight are lost
\* with the connection.
SrvRecv ==
    {r \in {"board", "over", "lost", "expired", "canceled"} :
        CASE r = "board" -> read < sent
          [] r = "over" -> verdict = "over" /\ read = sent
          [] r = "lost" -> verdict = "lost"
          [] r = "expired" -> expired
          [] r = "canceled" -> pc = "done"}

\* The same on the stream of the client.
ClientRecv ==
    {r \in {"move", "eof", "canceled"} :
        CASE r = "move" -> pulled < given
          [] r = "eof" -> ended = "eof" /\ pulled = given
          [] r = "canceled" -> ~ClientOpen}

SrvSend(m) == taken' = IF SrvOpen THEN Append(taken, m) ELSE taken
ClientSend(b) == received' = IF ClientOpen THEN Append(received, b) ELSE received

-----------------------------------------------------------------------------
(* startWriterLoop.                                                         *)

\* Mutated: a loop that fails ends without a report.
WriterRecvSilent ==
    /\ wpc = "recv"
    /\ \E r \in SrvRecv :
          IF r = "board" THEN wpc' = "send" /\ read' = read + 1 /\ UNCHANGED wres
                         ELSE wpc' = "gone" /\ wres' = r /\ UNCHANGED read
    /\ UNCHANGED <<sent, verdict, received, late>>

WriterRecv ==
    /\ wpc = "recv"
    /\ \E r \in SrvRecv :
          IF r = "board" THEN wpc' = "send" /\ read' = read + 1 /\ UNCHANGED wres
                         ELSE wpc' = "report" /\ wres' = r /\ UNCHANGED read
    /\ UNCHANGED <<sent, verdict, received, late>>

\* Mutated: a board is skipped when the next one has come.
WriterSendLatest ==
    /\ wpc = "send"
    /\ IF read < sent THEN UNCHANGED received ELSE ClientSend(read)
    /\ late' = IF pc = "done" THEN late + 1 ELSE late
    /\ wpc' = "check"
    /\ UNCHANGED <<sent, verdict, read, wres>>

\* The result of Send is not looked at.
WriterSend ==
    /\ wpc = "send"
    /\ ClientSend(read)
    /\ late' = IF pc = "done" THEN late + 1 ELSE late
    /\ wpc' = "check"
    /\ UNCHANGED <<sent, verdict, read, wres>>

\* Mutated: exitChan is not looked at.
WriterCheckNothing ==
    /\ wpc = "check"
    /\ wpc' = "recv"
    /\ UNCHANGED <<replies, wres, late>>

WriterCheck ==
    /\ wpc = "check"
    /\ wpc' = IF pc = "done" THEN "gone" ELSE "recv"
    /\ UNCHANGED <<replies, wres, late>>

WriterLoop ==
    /\ WriterRecv \/ WriterSend \/ WriterCheck
    /\ UNCHANGED <<env, pc, search, result, moves, reader, expired>>
    /\ Watch

(* startReaderLoop.                                                         *)

ReaderRecv ==
    /\ rpc = "recv"
    /\ \E r \in ClientRecv :
          IF r = "move" THEN rpc' = "send" /\ pulled' = pulled + 1 /\ UNCHANGED rres
                        ELSE rpc' = "report" /\ rres' = r /\ UNCHANGED pulled
    /\ UNCHANGED <<given, ended, taken>>

ReaderSend ==
    /\ rpc = "send"
    /\ SrvSend(pulled)
    /\ rpc' = "check"
    /\ UNCHANGED <<given, ended, pulled, rres>>

ReaderCheck ==
    /\ rpc = "check"
    /\ rpc' = IF pc = "done" THEN "gone" ELSE "recv"
    /\ UNCHANGED <<moves, rres>>

ReaderLoop ==
    /\ ReaderRecv \/ ReaderSend \/ ReaderCheck
    /\ UNCHANGED <<env, pc, search, result, replies, writer, expired, late>>
    /\ Watch

\* Mutated: the handler waits for the deadline as well.
SelectDeadline ==
    /\ pc = "select"
    /\ pc' = "return"
    /\ \/ wpc = "report" /\ wpc' = "gone" /\ UNCHANGED rpc
       \/ rpc = "report" /\ rpc' = "gone" /\ UNCHANGED wpc
       \/ expired /\ UNCHANGED <<wpc, rpc>>
    /\ UNCHANGED <<env, search, result, moves, replies, wres, rres, expired, late>>
    /\ Watch

\* errChan has no room: a loop that reports waits for the handler.
Select ==
    /\ pc = "select"
    /\ pc' = "return"
    /\ \/ wpc = "report" /\ wpc' = "gone" /\ UNCHANGED rpc
       \/ rpc = "report" /\ rpc' = "gone" /\ UNCHANGED wpc
    /\ UNCHANGED <<env, search, result, moves, replies, wres, rres, expired, late>>
    /\ Watch

\* exitChan is closed, srvCtx cancelled, the connection closed and what was
\* reported returned.
Close ==
    /\ pc = "return"
    /\ Return(IF wpc = "gone" THEN wres ELSE rres)
    /\ UNCHANGED <<env, search, stream>>
    /\ Watch

ProxyGameboard ==
    Metadata \/ FindGServer \/ Dial \/ Open \/ Select \/ Close

-----------------------------------------------------------------------------
(* The client, the server and the deadline.                                 *)

Give ==
    /\ pc # "done" /\ ended = "no"
    /\ given < MaxMoves
    /\ given' = given + 1
    /\ UNCHANGED <<ended, replies>>

\* The client closes its side, or leaves.
EndClient ==
    /\ pc # "done" /\ ended = "no"
    /\ ended' \in {"eof", "gone"}
    /\ UNCHANGED <<given, replies>>

\* The server answers a move with a board, ...
Answer ==
    /\ wpc # "off" /\ SrvOpen
    /\ sent < Len(taken)
    /\ sent' = sent + 1
    /\ UNCHANGED <<given, ended, verdict, read, received>>

\* ... ends the stream with an error, or is lost.
EndServer ==
    /\ wpc # "off" /\ SrvOpen
    /\ \/ verdict' = "over"
       \/ found \notin up /\ verdict' = "lost"
    /\ UNCHANGED <<given, ended, sent, read, received>>

Ends ==
    /\ Give \/ EndClient \/ Answer \/ EndServer
    /\ UNCHANGED <<env, pc, search, result, pulled, taken, writer, reader, expired, late>>
    /\ Watch

Deadline ==
    /\ pc = "select"
    /\ ~expired
    /\ expired' = TRUE
    /\ UNCHANGED <<env, pc, search, result, moves, replies, writer, reader, late>>
    /\ Watch

-----------------------------------------------------------------------------
(* The servers, and the failover controller that empties a dead one's map.  *)

Crash(s) ==
    /\ s \in Mortal \cap up
    /\ up' = up \ {s}
    /\ UNCHANGED <<redis, secure>>

AddrExpires(s) ==
    /\ s \in addr \ up
    /\ addr' = addr \ {s}
    /\ UNCHANGED <<index, holds, up, secure>>

Place(s) ==
    /\ s \in (index \cap holds) \ addr
    /\ holds = {s}
    /\ \E t \in index \ {s} : holds' = holds \cup {t}
    /\ UNCHANGED <<index, addr, up, secure>>

SRem(s) ==
    /\ s \in index \ addr
    /\ holds # {s}
    /\ index' = index \ {s}
    /\ UNCHANGED <<holds, addr, up, secure>>

Del(s) ==
    /\ s \in holds \ (addr \cup index)
    /\ holds' = holds \ {s}
    /\ UNCHANGED <<index, addr, up, secure>>

Cluster ==
    /\ \E s \in Server : Crash(s) \/ AddrExpires(s) \/ Place(s) \/ SRem(s) \/ Del(s)
    /\ UNCHANGED <<pc, search, result, stream>>
    /\ Watch

-----------------------------------------------------------------------------
Next ==
    \/ ProxyGameboard \/ WriterLoop \/ ReaderLoop
    \/ Ends \/ Deadline \/ Cluster

Spec == Init /\ [][Next]_vars

(***************************************************************************)
(* Fairness: the handler and the two loops go on when they can.  Nothing   *)
(* is asked of the client, the server, the deadline or the cluster.        *)
(***************************************************************************)
Fairness ==
    /\ WF_vars(ProxyGameboard)
    /\ WF_vars(WriterLoop)
    /\ WF_vars(ReaderLoop)

FairSpec == Spec /\ Fairness

-----------------------------------------------------------------------------
LoopState == {"off", "recv", "send", "check", "report", "gone"}

SearchType ==
    /\ index \subseteq Server /\ holds \subseteq Server
    /\ addr \subseteq Server /\ up \subseteq Server
    /\ secure \in BOOLEAN
    /\ pc \in {"metadata", "index", "maps", "addr", "dial", "open", "select",
               "return", "done"}
    /\ todo \subseteq Server
    /\ found \in Server \cup {None}
    /\ result \in {"none", "invalid", "notfound", "internal", "unavailable",
                   "over", "lost", "expired", "canceled", "eof"}
    /\ calm \in BOOLEAN

StreamType ==
    /\ given \in 0 .. MaxMoves /\ pulled \in 0 .. given
    /\ ended \in {"no", "eof", "gone"}
    /\ taken \in Seq(Nat) /\ received \in Seq(Nat)
    /\ sent \in Nat /\ read \in 0 .. sent
    /\ verdict \in {"none", "over", "lost"}
    /\ expired \in BOOLEAN
    /\ wpc \in LoopState /\ rpc \in LoopState
    /\ wres \in {"none", "over", "lost", "expired", "canceled"}
    /\ rres \in {"none", "eof", "canceled"}
    /\ late \in Nat

\* The handler waits for two loops, and has taken the end of one when it
\* returns.
ControlType ==
    /\ wpc = "off" <=> rpc = "off"
    /\ pc \in {"select", "return"} => wpc # "off"
    /\ pc = "select" => "gone" \notin {wpc, rpc}
    /\ pc = "return" => (wpc = "gone" /\ rpc # "gone") \/ (wpc # "gone" /\ rpc = "gone")
    /\ pc \notin {"select", "return", "done"} => wpc = "off"
    /\ wpc = "report" => wres # "none"
    /\ rpc = "report" => rres # "none"

TypeOK == SearchType /\ StreamType /\ ControlType

\* "Game not found!" is answered only when the search was disturbed: as long
\* as each listed map with the game is that of a server with an address and
\* no call to Redis fails, FindGServer finds it, whichever map it reads first.
NotFoundIsTrue == result = "notfound" => ~calm

\* Once the handler has returned and exitChan is closed, at most one more
\* board is sent on the stream of the client, which is not to be used then.
OneLateSend == late <= 1

\* Nobody receives from errChan a second time: of a stream that has ended at
\* most one loop is left waiting to report for ever.
OneLoopLeft == pc = "done" => ~(wpc = "report" /\ rpc = "report")

\* The end of one side ends the other: when the server or the client ends
\* its side or the deadline passes, ProxyGameboard returns, whatever the two
\* loops are doing.
SidesEndTogether ==
    pc = "select" /\ (verdict # "none" \/ ended # "no" \/ expired) ~> pc = "done"

\* A call gets its stream or a status, but for a dial without credentials to
\* a server that is gone, which no deadline ends.
CallIsAnswered ==
    pc = "metadata" ~>
        \/ pc \in {"select", "done"}
        \/ pc = "dial" /\ ~secure /\ found \notin up

\* The proxied stream is to its client what a stream to the server is: no
\* move and no board is lost, doubled or overtaken while it is open, and its
\* verdict comes after the boards.  A client that leaves learns nothing.
SeenResult == IF ended = "gone" /\ result # "none" THEN "left" ELSE result
Direct == INSTANCE Stream WITH result <- SeenResult
DirectSpec == Direct!Spec
=============================================================================
