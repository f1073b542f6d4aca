------------------------------- MODULE UserIO -------------------------------
(***************************************************************************)
(* A raw connection: run_raw_handler (Context.cpp) runs the handler of     *)
(* App::use_raw in a coroutine on the strand or in a thread of its own,    *)
(* and the handler reads and writes through the Session it was given.      *)
(* read_async and write_async come as promises (read_blocking waits for    *)
(* one), for a coroutine, and with a callback; SessionTCP, SessionSSL and  *)
(* SessionUnix each implement the six.  Promised writes go through         *)
(* queue_write, the other two straight to the socket.                      *)
(*                                                                         *)
(* The bytes of the peer are numbered in the order it sends them, and a    *)
(* write is put on the wire in Parts pieces.  A handler has one read       *)
(* outstanding, as boost::asio asks of it.  WriteQueue has the strand's    *)
(* order among posted writes and the wait of a blocking one; here tasks of *)
(* different kinds may overtake each other on the strand.                  *)
(***************************************************************************)
EXTENDS Naturals, Sequences, FiniteSets

CONSTANTS Transports,   \* classes of the Session: "TCP", "SSL", "Unix"
          Modes,        \* use_raw in a "coro" or in a "thread"
          BufSizes,     \* buffer sizes of the reads
          Parts,        \* pieces async_write sends a write in
          Disciplined,  \* does no write to the socket overlap another write?
          MaxBytes,     \* bound: bytes the peer sends
          MaxOps        \* bound: reads and writes of the handler

ASSUME ConstantsAssumption ==
    /\ Transports \subseteq {"TCP", "SSL", "Unix"} /\ Modes \subseteq {"coro", "thread"}
    /\ BufSizes \subseteq Nat \ {0} /\ Parts \in Nat \ {0}
    /\ Disciplined \in BOOLEAN
    /\ MaxBytes \in Nat /\ MaxOps \in Nat

VARIABLES
    transport, mode,  \* what this connection is, and how its handler runs
    handler,      \* "handshake", "refused", "spawned", "running", "reading",
                  \* "writing" (suspended in a read or write), "ended"
    read,         \* the read outstanding, or NoRead
    reads,        \* reads so far
    arrived,      \* bytes the peer has sent
    taken,        \* bytes taken from the socket
    delivered,    \* the bytes the handler was given
    writes,       \* form, stage and pieces sent of each write
    queue_write,  \* ids of the promised writes
    wire,         \* the ids of the pieces the peer gets
    peer,         \* "open", "shut" (sends no more), "gone"
    sock,         \* "open", "shutdown", "closed"
    closes,       \* close_socket_impl tasks posted and not run
    timer,        \* io_timeout_timer: "idle", "armed"
    expired       \* handlers of the timer that expired and have not run

kindVars == <<transport, mode>>
readVars == <<read, reads, taken, delivered>>
writeVars == <<writes, queue_write, wire>>
peerVars == <<arrived, peer>>
timerVars == <<timer, expired>>
vars == <<kindVars, handler, readVars, writeVars, peerVars, sock, closes, timerVars>>

-----------------------------------------------------------------------------
(* How the three classes fill in the virtual functions: does a promised read
   return what there is ("some", async_read_some) or wait for its whole buffer
   ("full", async_read); which writes go straight to the socket; and what
   close_socket_impl does to it. *)
TCPReads  == [promised |-> "some", coro |-> "some", callback |-> "some"]
SSLReads  == [promised |-> "full", coro |-> "some", callback |-> "some"]
UnixReads == [promised |-> "full", coro |-> "some", callback |-> "some"]
Reads == [TCP |-> TCPReads, SSL |-> SSLReads, Unix |-> UnixReads]

TCPWrites  == [promised |-> "queued", coro |-> "direct", callback |-> "direct"]
SSLWrites  == [promised |-> "queued", coro |-> "direct", callback |-> "direct"]
UnixWrites == [promised |-> "queued", coro |-> "direct", callback |-> "direct"]
Writes == [TCP |-> TCPWrites, SSL |-> SSLWrites, Unix |-> UnixWrites]

SSLClose  == "shutdown"
UnixClose == "closed"
Close == [TCP |-> "shutdown", SSL |-> SSLClose, Unix |-> UnixClose]

Forms == {"promised", "coro", "callback"}
NoRead == [form |-> "none", stage |-> "none", want |-> 0, got |-> 0]
Ids == 1..MaxOps
NoWrite == [form |-> "none", stage |-> "none", sent |-> 0]
Answered == [NoWrite EXCEPT !.stage = "answered"]

Sending(id) == writes[id].stage = "sending"
Outstanding(id) == writes[id].stage \in {"posted", "queued", "sending"}
Started == {id \in Ids : writes[id].stage # "none"}
MayStart == reads + Cardinality(Started) < MaxOps

(* The shared_ptrs to the Session: of the handler, of the handlers of its
   operations, of tasks on the strand.  The waits of the timer hold none. *)
HasRefs ==
    \/ handler \notin {"ended", "refused"} \/ read # NoRead \/ closes > 0
    \/ \E id \in Ids : writes[id].stage \in {"posted", "sending"}

(* A coroutine that runs keeps everything else out of the strand. *)
StrandFree == mode = "thread" \/ handler # "running"

(* SessionTCP::start and SessionUnix::start run the handler; the SSL one
   starts a handshake, without the timer. *)
RunRawHandler(m) == IF m = "coro" THEN "spawned" ELSE "running"

Init ==
    /\ transport \in Transports /\ mode \in Modes
    /\ handler = IF transport = "SSL" THEN "handshake" ELSE RunRawHandler(mode)
    /\ read = NoRead /\ reads = 0 /\ taken = 0 /\ delivered = << >>
    /\ writes = [id \in Ids |-> NoWrite] /\ queue_write = << >> /\ wire = << >>
    /\ arrived = 0 /\ peer = "open" /\ sock = "open" /\ closes = 0
    /\ timer = "idle" /\ expired = 0

(* handler_handshake *)
HandshakeDone ==
    /\ handler = "handshake" /\ peer = "open" /\ sock = "open"
    /\ handler' = RunRawHandler(mode)
    /\ UNCHANGED <<kindVars, readVars, writeVars, peerVars, sock, closes, timerVars>>

HandshakeFails ==
    /\ handler = "handshake" /\ peer # "open"
    /\ handler' = "refused"
    /\ timer' = "idle" /\ closes' = closes + 1
    /\ UNCHANGED <<kindVars, readVars, writeVars, peerVars, sock, expired>>

-----------------------------------------------------------------------------
(* The handler *)

CoroBegins ==
    /\ handler = "spawned"
    /\ handler' = "running"
    /\ UNCHANGED <<kindVars, readVars, writeVars, peerVars, sock, closes, timerVars>>

(* It returns, or an exception of a read or a write leaves it.  Only the
   coroutine closes the socket; the thread just gives up its references. *)
HandlerEnds ==
    /\ handler = "running"
    /\ handler' = "ended"
    /\ closes' = IF mode = "coro" THEN closes + 1 ELSE closes
    /\ UNCHANGED <<kindVars, readVars, writeVars, peerVars, sock, timerVars>>

NewRead(form, stage, n) == [form |-> form, stage |-> stage, want |-> n, got |-> 0]

(* read_async in a coroutine. *)
ReadCoro(n) ==
    /\ handler = "running" /\ mode = "coro" /\ read = NoRead /\ MayStart
    /\ read' = NewRead("coro", "pending", n) /\ reads' = reads + 1
    /\ handler' = "reading"
    /\ timer' = "armed"
    /\ UNCHANGED <<kindVars, taken, delivered, writeVars, peerVars, sock, closes, expired>>

\* Mutant: the read does not arm the timer.
ReadCallbackUntimed(n) ==
    /\ handler = "running" /\ read = NoRead /\ MayStart
    /\ read' = NewRead("callback", "pending", n) /\ reads' = reads + 1
    /\ UNCHANGED <<kindVars, handler, taken, delivered, writeVars, peerVars, sock, closes, timerVars>>

(* read_async with a callback. *)
ReadCallback(n) ==
    /\ handler = "running" /\ read = NoRead /\ MayStart
    /\ read' = NewRead("callback", "pending", n) /\ reads' = reads + 1
    /\ timer' = "armed"
    /\ UNCHANGED <<kindVars, handler, taken, delivered, writeVars, peerVars, sock, closes, expired>>

(* read_blocking posts the read to the strand and waits for its promise. *)
ReadBlocking(n) ==
    /\ handler = "running" /\ mode = "thread" /\ read = NoRead /\ MayStart
    /\ read' = NewRead("promised", "posted", n) /\ reads' = reads + 1
    /\ handler' = "reading"
    /\ UNCHANGED <<kindVars, taken, delivered, writeVars, peerVars, sock, closes, timerVars>>

(* read_async_promised_impl *)
PostedReadStarts ==
    /\ read.stage = "posted"
    /\ read' = [read EXCEPT !.stage = "pending"]
    /\ timer' = "armed"
    /\ UNCHANGED <<kindVars, handler, reads, taken, delivered, writeVars, peerVars, sock, closes, expired>>

-----------------------------------------------------------------------------
(* Reads complete. *)

Fills == read # NoRead /\ Reads[transport][read.form] = "full"
Available == IF sock = "closed" \/ peer = "gone" THEN 0 ELSE arrived - taken
Least(a, b) == IF a < b THEN a ELSE b
Taking == Least(Available, read.want - read.got)

(* The composed operation of async_read keeps what there is and waits on. *)
ReadPart ==
    /\ read.stage = "pending" /\ Fills
    /\ 0 < Taking /\ read.got + Taking < read.want
    /\ read' = [read EXCEPT !.got = @ + Taking]
    /\ taken' = taken + Taking
    /\ UNCHANGED <<kindVars, handler, reads, delivered, writeVars, peerVars, sock, closes, timerVars>>

\* Mutant: the buffer keeps the size it was asked for.
DataUnresized(n) ==
    [i \in 1..read.want |-> IF i <= n THEN taken - read.got + i ELSE 0]

(* The data of a read that ends with n bytes in its buffer: resized to them. *)
Data(n) == [i \in 1..n |-> taken - read.got + i]

Resumes == IF handler = "reading" THEN "running" ELSE handler

(* The handler of a read: sets the promise, resumes the coroutine, or calls
   the callback, which may start the next read.  It leaves the timer armed. *)
ReadOk ==
    /\ read.stage = "pending" /\ StrandFree /\ Taking > 0
    /\ Fills => read.got + Taking = read.want
    /\ delivered' = delivered \o Data(read.got + Taking)
    /\ taken' = taken + Taking
    /\ handler' = IF read.form = "callback" THEN handler ELSE Resumes
    /\ \/ read' = NoRead /\ UNCHANGED <<reads, timer>>
       \/ /\ read.form = "callback" /\ MayStart
          /\ read' = NewRead("callback", "pending", read.want) /\ reads' = reads + 1
          /\ timer' = "armed"
    /\ UNCHANGED <<kindVars, writeVars, peerVars, sock, closes, expired>>

(* error_action *)
ErrorAction == timer' = "idle" /\ closes' = closes + 1

(* End of file, reset or close.  What is in the buffer does not reach the
   handler: read_blocking and the coroutine throw. *)
ReadFails ==
    /\ read.stage = "pending" /\ StrandFree /\ Available = 0
    /\ sock # "open" \/ peer # "open"
    /\ read' = NoRead
    /\ IF read.form = "coro" THEN UNCHANGED <<timer, closes>> ELSE ErrorAction
    /\ handler' = IF read.form = "callback" THEN handler ELSE Resumes
    /\ UNCHANGED <<kindVars, reads, taken, delivered, writeVars, peerVars, sock, expired>>

-----------------------------------------------------------------------------
(* Writes *)

Alone == Disciplined => \A id \in Ids : ~Outstanding(id)
NoDirectOne ==
    Disciplined => \A id \in Ids :
        Outstanding(id) => Writes[transport][writes[id].form] = "queued"

NextId == Cardinality(Started) + 1
Put(id, form, stage) == writes' = [writes EXCEPT ![id] = [form |-> form, stage |-> stage, sent |-> 0]]

(* write_async in a coroutine, whose timer is waited for by another one. *)
WriteCoro ==
    /\ handler = "running" /\ mode = "coro" /\ MayStart /\ Alone
    /\ Put(NextId, "coro", "sending")
    /\ handler' = "writing"
    /\ timer' = "armed"
    /\ UNCHANGED <<kindVars, readVars, queue_write, wire, peerVars, sock, closes, expired>>

(* write_async with a callback. *)
WriteCallback ==
    /\ handler = "running" /\ MayStart /\ Alone
    /\ Put(NextId, "callback", "sending")
    /\ timer' = "armed"
    /\ UNCHANGED <<kindVars, handler, readVars, queue_write, wire, peerVars, sock, closes, expired>>

(* write_async with a promise, and inline_async_write. *)
WritePosted ==
    /\ handler = "running" /\ MayStart /\ NoDirectOne
    /\ Put(NextId, "promised", "posted")
    /\ UNCHANGED <<kindVars, handler, readVars, queue_write, wire, peerVars, sock, closes, timerVars>>

\* Mutant: every write is started when it is queued.
ArrangeAlwaysStarts(id) ==
    /\ writes[id].stage = "posted" /\ StrandFree
    /\ queue_write' = Append(queue_write, id)
    /\ writes' = [writes EXCEPT ![id].stage = "sending"] /\ timer' = "armed"
    /\ UNCHANGED <<kindVars, handler, readVars, wire, peerVars, sock, closes, expired>>

(* arrange_async_write, in the order of the posts. *)
ArrangeAsyncWrite(id) ==
    /\ writes[id].stage = "posted" /\ StrandFree
    /\ \A k \in 1..(id - 1) : writes[k].stage # "posted"
    /\ queue_write' = Append(queue_write, id)
    /\ IF queue_write = << >>
       THEN writes' = [writes EXCEPT ![id].stage = "sending"] /\ timer' = "armed"
       ELSE writes' = [writes EXCEPT ![id].stage = "queued"] /\ UNCHANGED timer
    /\ UNCHANGED <<kindVars, handler, readVars, wire, peerVars, sock, closes, expired>>

WritePart(id) ==
    /\ Sending(id) /\ writes[id].sent < Parts /\ sock = "open" /\ peer # "gone"
    /\ writes' = [writes EXCEPT ![id].sent = @ + 1]
    /\ wire' = Append(wire, id)
    /\ UNCHANGED <<kindVars, handler, readVars, queue_write, peerVars, sock, closes, timerVars>>

(* The handler of an async_write.  A coroutine goes on, or the exception is
   thrown in it; a callback is called; and the front of queue_write is
   answered and the next one started, unless this one failed. *)
WriteOk(id) ==
    /\ Sending(id) /\ writes[id].sent = Parts /\ StrandFree
    /\ handler' = IF writes[id].form = "coro" THEN "running" ELSE handler
    /\ LET done == [writes EXCEPT ![id] = Answered]
           rest == Tail(queue_write)
       IN  IF writes[id].form # "promised"
           THEN writes' = done /\ UNCHANGED <<queue_write, timer>>
           ELSE /\ queue_write' = rest
                /\ IF rest = << >>
                   THEN writes' = done /\ UNCHANGED timer
                   ELSE /\ writes' = [done EXCEPT ![Head(rest)].stage = "sending"]
                        /\ timer' = "armed"
    /\ UNCHANGED <<kindVars, readVars, wire, peerVars, sock, closes, expired>>

WriteFails(id) ==
    /\ Sending(id) /\ writes[id].sent < Parts /\ StrandFree
    /\ sock # "open" \/ peer = "gone"
    /\ writes' = [writes EXCEPT ![id] = Answered]
    /\ queue_write' = IF writes[id].form = "promised" THEN Tail(queue_write) ELSE queue_write
    /\ handler' = IF writes[id].form = "coro" THEN "running" ELSE handler
    /\ IF writes[id].form = "coro" THEN UNCHANGED <<timer, closes>> ELSE ErrorAction
    /\ UNCHANGED <<kindVars, readVars, wire, peerVars, sock, expired>>

-----------------------------------------------------------------------------
(* The close, the timer, the peer *)

(* close_socket_impl *)
CloseSocketImpl ==
    /\ closes > 0 /\ StrandFree
    /\ closes' = closes - 1
    /\ sock' = Close[transport]
    /\ UNCHANGED <<kindVars, handler, readVars, writeVars, peerVars, timerVars>>

(* The destructor of the Session cancels a wait that is still pending. *)
TimerExpires ==
    /\ timer = "armed" /\ HasRefs
    /\ timer' = "idle" /\ expired' = expired + 1
    /\ UNCHANGED <<kindVars, handler, readVars, writeVars, peerVars, sock, closes>>

\* Mutant: the expiry is only logged.
TimeoutHandlerLogs ==
    /\ expired > 0 /\ HasRefs
    /\ expired' = expired - 1
    /\ UNCHANGED <<kindVars, handler, readVars, writeVars, peerVars, sock, closes, timer>>

TimeoutHandler ==
    /\ expired > 0 /\ HasRefs
    /\ expired' = expired - 1 /\ closes' = closes + 1
    /\ UNCHANGED <<kindVars, handler, readVars, writeVars, peerVars, sock, timer>>

PeerSends ==
    /\ peer = "open" /\ sock = "open" /\ arrived < MaxBytes
    /\ arrived' = arrived + 1
    /\ UNCHANGED <<kindVars, handler, readVars, writeVars, peer, sock, closes, timerVars>>

PeerStops ==
    /\ \/ peer = "open" /\ peer' = "shut"
       \/ peer \in {"open", "shut"} /\ peer' = "gone"
    /\ UNCHANGED <<kindVars, handler, readVars, writeVars, arrived, sock, closes, timerVars>>

HandlerStep ==
    \/ HandlerEnds \/ WriteCoro \/ WriteCallback \/ WritePosted
    \/ \E n \in BufSizes : ReadCoro(n) \/ ReadCallback(n) \/ ReadBlocking(n)
StrandStep ==
    \/ CoroBegins \/ PostedReadStarts \/ ReadFails \/ CloseSocketImpl
    \/ \E id \in Ids : ArrangeAsyncWrite(id) \/ WriteOk(id) \/ WriteFails(id)

Next ==
    \/ HandshakeDone \/ HandshakeFails
    \/ HandlerStep \/ StrandStep
    \/ ReadPart \/ ReadOk \/ \E id \in Ids : WritePart(id)
    \/ TimerExpires \/ TimeoutHandler \/ PeerSends \/ PeerStops

Spec == Init /\ [][Next]_vars

(* io_service runs what is ready, a read of a socket that has data takes it,
   an armed timer expires, and the handler's own code goes on.  Nothing is
   owed by the peer. *)
FairSpec ==
    /\ Spec
    /\ WF_vars(HandlerStep) /\ WF_vars(StrandStep)
    /\ WF_vars(ReadPart) /\ WF_vars(ReadOk)
    /\ WF_vars(HandshakeFails) /\ WF_vars(TimerExpires) /\ WF_vars(TimeoutHandler)
-----------------------------------------------------------------------------
TypeOK ==
    /\ transport \in Transports /\ mode \in Modes
    /\ handler \in {"handshake", "refused", "spawned", "running", "reading", "writing", "ended"}
    /\ read \in {NoRead} \cup [form : Forms, stage : {"posted", "pending"},
                               want : BufSizes, got : 0..MaxBytes]
    /\ reads \in 0..MaxOps /\ arrived \in 0..MaxBytes /\ taken \in 0..arrived
    /\ delivered \in Seq(0..MaxBytes)
    /\ writes \in [Ids -> [form : Forms \cup {"none"},
                           stage : {"none", "posted", "queued", "sending", "answered"},
                           sent : 0..Parts]]
    /\ queue_write \in Seq(Ids) /\ wire \in Seq(Ids)
    /\ peer \in {"open", "shut", "gone"} /\ sock \in {"open", "shutdown", "closed"}
    /\ closes \in Nat /\ timer \in {"idle", "armed"} /\ expired \in Nat

(* Whatever the forms of the reads, and however the pieces of the peer fall,
   the handler is given the bytes it was sent, in order and without a gap.
   Bytes that were taken from the socket and not given to it are of a blocking
   read over SSL or a Unix socket, which waits for its whole buffer. *)
ReadsAreInOrder ==
    /\ \A i \in 1..Len(delivered) : delivered[i] = i
    /\ taken > Len(delivered) + read.got => mode = "thread" /\ transport # "TCP"

(* A blocking read gives the handler what it has taken from the socket. *)
BlockingReadGivesWhatItTook == taken = Len(delivered) + read.got

(* The pieces of a write are together on the wire: no other write, through
   queue_write or beside it, comes between them. *)
WritesAreWhole ==
    \A i, j, k \in 1..Len(wire) :
        i < j /\ j < k /\ wire[i] = wire[k] => wire[j] = wire[i]

(* A read is answered, by data or by an error, even when the peer is silent:
   the only timer of the session is armed by each operation, and no end of
   another operation leaves the read without it on a socket that is open. *)
ReadIsAnswered == []<>(read = NoRead)

(* A handler that has ended lets the Session go: the operations it has left
   behind end too. *)
EndedHandlerReleasesSession == handler \in {"ended", "refused"} ~> ~HasRefs
=============================================================================
