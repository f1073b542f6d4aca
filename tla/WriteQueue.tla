----------------------------- MODULE WriteQueue -----------------------------
(***************************************************************************)
(* The write path of one Session (Source/Server/SessionCommon.cpp and      *)
(* SessionTCP.cpp).  Threads that run middlewares never touch the socket:  *)
(* they post a task to the strand of the Instance, and the strand keeps    *)
(* queue_write, starts one boost::asio::async_write for its front package  *)
(* and, when that completes, answers the package's promise, pops it and    *)
(* starts the next one.  A blocking write waits for the promise.  A single *)
(* timer per Session bounds how long an operation may stay outstanding.    *)
(*                                                                         *)
(* A write is named by its rank in the order of the posts, so the data of  *)
(* write k is k.  The strand is the FIFO boost::asio documents: one task   *)
(* runs at a time, in the order in which the tasks were posted.            *)
(***************************************************************************)
EXTENDS Naturals, Sequences

CONSTANTS Blocking,     \* threads that call write_blocking
          Posting,      \* threads that call inline_async_write
          MaxWrites,    \* bound: writes ever posted
          MaxTimeouts,  \* bound: expirations of the timer
          MaxReads,     \* inline reads started while writes are queued
          PeerFails     \* may the peer drop the connection?

ASSUME ConstantsAssumption ==
    /\ MaxWrites \in Nat /\ MaxTimeouts \in Nat /\ MaxReads \in Nat
    /\ PeerFails \in BOOLEAN

VARIABLES
    posted,       \* number of writes posted so far
    waiting,      \* the write a Blocking thread waits for, 0: it is running
    strand,       \* the tasks posted to io_strand that have not run yet
    queue_write,  \* Session::queue_write
    sending,      \* async_write operations outstanding for a write's data
    promise,      \* the std::promise of a package: "none", "ok" or "error"
    wire,         \* the writes the peer got, in order
    sock,         \* "open", "gone" (peer dropped it), "shutdown" (by us)
    timer,        \* io_timeout_timer: "armed" while a wait is pending
    expired,      \* its handlers that expired and have not run yet
    timeouts,     \* expirations so far
    reading,      \* is an inline read outstanding?
    reads         \* inline reads so far

ioVars == <<timer, expired, timeouts, reading, reads>>
vars == <<posted, waiting, strand, queue_write, sending, promise, wire, sock,
          timer, expired, timeouts, reading, reads>>

Writes == 1..MaxWrites
Results == {"ok", "error"}
WriteTask(k) == [op |-> "write", id |-> k]
CloseTask == [op |-> "close", id |-> 0]
Task == [op : {"write"} \cup Results, id : Writes] \cup {CloseTask}

TypeOK ==
    /\ posted \in 0..MaxWrites
    /\ waiting \in [Blocking -> 0..MaxWrites]
    /\ strand \in Seq(Task)
    /\ queue_write \in Seq(Writes)
    /\ sending \in [Writes -> Nat]
    /\ promise \in [Writes -> {"none"} \cup Results]
    /\ wire \in Seq(Writes)
    /\ sock \in {"open", "gone", "shutdown"}
    /\ timer \in {"idle", "armed"} /\ expired \in Nat /\ timeouts \in 0..MaxTimeouts
    /\ reading \in {"no", "yes"} /\ reads \in 0..MaxReads

Init ==
    /\ posted = 0
    /\ waiting = [w \in Blocking |-> 0]
    /\ strand = << >> /\ queue_write = << >> /\ wire = << >>
    /\ sending = [k \in Writes |-> 0]
    /\ promise = [k \in Writes |-> "none"]
    /\ sock = "open"
    /\ timer = "idle" /\ expired = 0 /\ timeouts = 0
    /\ reading = "no" /\ reads = 0

-----------------------------------------------------------------------------
(* The threads that run middlewares. *)

PostWrite ==
    /\ posted < MaxWrites
    /\ posted' = posted + 1
    /\ strand' = Append(strand, WriteTask(posted + 1))

InlineAsyncWrite ==
    /\ Posting # {}
    /\ PostWrite
    /\ UNCHANGED <<waiting, queue_write, sending, promise, wire, sock, ioVars>>

WriteBlocking(w) ==
    /\ waiting[w] = 0
    /\ PostWrite
    /\ waiting' = [waiting EXCEPT ![w] = posted + 1]
    /\ UNCHANGED <<queue_write, sending, promise, wire, sock, ioVars>>

(* Both futures are ready: f_queue.get(), then f_async_write.get(). *)
WriteReturns(w) ==
    /\ waiting[w] # 0
    /\ promise[waiting[w]] # "none"
    /\ waiting' = [waiting EXCEPT ![w] = 0]
    /\ UNCHANGED <<posted, strand, queue_write, sending, promise, wire, sock, ioVars>>

-----------------------------------------------------------------------------
(* The tasks of the strand. *)

\* Mutant: setup_timeout_timer is not called.
StartFrontUntimed(q) ==
    /\ sending' = [sending EXCEPT ![Head(q)] = @ + 1]
    /\ UNCHANGED timer

(* write_async_promised_impl with q as queue_write: arms the timer (which
   cancels its pending wait) and starts an async_write of the front. *)
StartFront(q) ==
    /\ timer' = "armed"
    /\ sending' = [sending EXCEPT ![Head(q)] = @ + 1]

NextTask(op) == strand # << >> /\ Head(strand).op = op

\* Mutant: the test of queue_write.size() is missing.
ArrangeAlwaysStarts ==
    /\ NextTask("write")
    /\ strand' = Tail(strand)
    /\ queue_write' = Append(queue_write, Head(strand).id)
    /\ StartFront(queue_write')
    /\ UNCHANGED <<posted, waiting, promise, wire, sock, expired, timeouts, reading, reads>>

ArrangeAsyncWrite ==
    /\ NextTask("write")
    /\ strand' = Tail(strand)
    /\ queue_write' = Append(queue_write, Head(strand).id)
    /\ IF Len(queue_write') <= 1 THEN StartFront(queue_write')
                                 ELSE UNCHANGED <<timer, sending>>
    /\ UNCHANGED <<posted, waiting, promise, wire, sock, expired, timeouts, reading, reads>>

\* Mutants: the error is not passed on; the promise is not set.
AnswerFrontOk(result) ==
    /\ queue_write # << >>
    /\ promise' = [promise EXCEPT ![Head(queue_write)] = "ok"]
    /\ queue_write' = Tail(queue_write)

PopFront(result) ==
    /\ queue_write # << >>
    /\ queue_write' = Tail(queue_write)
    /\ UNCHANGED promise

(* The handler of async_write: the front package is answered and popped. *)
AnswerFront(result) ==
    /\ queue_write # << >>
    /\ promise' = [promise EXCEPT ![Head(queue_write)] = result]
    /\ queue_write' = Tail(queue_write)

\* Mutant: the handler does not start the next write.
WriteHandlerStops ==
    /\ NextTask("ok")
    /\ strand' = Tail(strand)
    /\ AnswerFront("ok")
    /\ UNCHANGED <<posted, waiting, sending, wire, sock, ioVars>>

WriteHandlerOk ==
    /\ NextTask("ok")
    /\ strand' = Tail(strand)
    /\ AnswerFront("ok")
    /\ IF queue_write' # << >> THEN StartFront(queue_write')
                               ELSE UNCHANGED <<timer, sending>>
    /\ UNCHANGED <<posted, waiting, wire, sock, expired, timeouts, reading, reads>>

(* error_action cancels the timer and posts close_socket_impl; the handler
   returns, so the packages behind the front stay in queue_write. *)
WriteHandlerError ==
    /\ NextTask("error")
    /\ AnswerFront("error")
    /\ timer' = "idle"
    /\ strand' = Append(Tail(strand), CloseTask)
    /\ UNCHANGED <<posted, waiting, sending, wire, sock, expired, timeouts, reading, reads>>

CloseSocketImpl ==
    /\ NextTask("close")
    /\ strand' = Tail(strand)
    /\ sock' = "shutdown"
    /\ UNCHANGED <<posted, waiting, queue_write, sending, promise, wire, ioVars>>

-----------------------------------------------------------------------------
(* The socket: what boost::asio and the peer do. *)

PeerDrops ==
    /\ PeerFails /\ sock = "open"
    /\ sock' = "gone"
    /\ UNCHANGED <<posted, waiting, strand, queue_write, sending, promise, wire, ioVars>>

AsyncWriteCompletes(k, result) ==
    /\ sending[k] > 0
    /\ sending' = [sending EXCEPT ![k] = @ - 1]
    /\ strand' = Append(strand, [op |-> result, id |-> k])

AsyncWriteSucceeds(k) ==
    /\ sock = "open"
    /\ AsyncWriteCompletes(k, "ok")
    /\ wire' = Append(wire, k)
    /\ UNCHANGED <<posted, waiting, queue_write, promise, sock, ioVars>>

AsyncWriteFails(k) ==
    /\ sock # "open"
    /\ AsyncWriteCompletes(k, "error")
    /\ UNCHANGED <<posted, waiting, queue_write, promise, wire, sock, ioVars>>

-----------------------------------------------------------------------------
(* The timer and the inline read that shares it. *)

TimerExpires ==
    /\ timer = "armed" /\ timeouts < MaxTimeouts
    /\ timer' = "idle"
    /\ expired' = expired + 1
    /\ timeouts' = timeouts + 1
    /\ UNCHANGED <<posted, waiting, strand, queue_write, sending, promise, wire, sock, reading, reads>>

\* Mutant: the handler does not look at operation_aborted.
TimeoutHandlerWhenCancelled ==
    /\ timer = "idle"
    /\ expired' = expired - 1
    /\ strand' = Append(strand, CloseTask)
    /\ UNCHANGED <<posted, waiting, queue_write, sending, promise, wire, sock, timer,
                   timeouts, reading, reads>>

(* An expired handler can no longer be cancelled: it posts close_socket_impl
   even when the timer has been armed again in between. *)
TimeoutHandler ==
    /\ expired > 0
    /\ expired' = expired - 1
    /\ strand' = Append(strand, CloseTask)
    /\ UNCHANGED <<posted, waiting, queue_write, sending, promise, wire, sock, timer, timeouts, reading, reads>>

(* reload_context after a kept-alive request starts the next inline read,
   whether or not the writes of the response have left queue_write. *)
InlineAsyncRead ==
    /\ reading = "no" /\ reads < MaxReads
    /\ reading' = "yes" /\ reads' = reads + 1
    /\ timer' = "armed"
    /\ UNCHANGED <<posted, waiting, strand, queue_write, sending, promise, wire, sock, expired, timeouts>>

(* decide_io_action_in_read cancels the timer, whoever armed it last. *)
ReadHandlerOk ==
    /\ reading = "yes" /\ sock = "open"
    /\ reading' = "no"
    /\ timer' = "idle"
    /\ UNCHANGED <<posted, waiting, strand, queue_write, sending, promise, wire, sock, expired, timeouts, reads>>

ReadHandlerError ==
    /\ reading = "yes" /\ sock # "open"
    /\ reading' = "no"
    /\ timer' = "idle"
    /\ strand' = Append(strand, CloseTask)
    /\ UNCHANGED <<posted, waiting, queue_write, sending, promise, wire, sock, expired, timeouts, reads>>

-----------------------------------------------------------------------------
StrandStep ==
    ArrangeAsyncWrite \/ WriteHandlerOk \/ WriteHandlerError \/ CloseSocketImpl

Next ==
    \/ InlineAsyncWrite
    \/ \E w \in Blocking : WriteBlocking(w) \/ WriteReturns(w)
    \/ StrandStep
    \/ PeerDrops
    \/ \E k \in Writes : AsyncWriteSucceeds(k) \/ AsyncWriteFails(k)
    \/ TimerExpires \/ TimeoutHandler
    \/ InlineAsyncRead \/ ReadHandlerOk \/ ReadHandlerError

Spec == Init /\ [][Next]_vars

(* What the program and boost::asio owe: io_service::run keeps running the
   strand and the timer handlers, a pending wait expires, an operation on a
   dead socket completes with an error, and a ready future wakes its thread.
   Nothing is owed by the peer, who may never read a byte. *)
ServerFairness ==
    /\ WF_vars(StrandStep)
    /\ WF_vars(TimerExpires)
    /\ WF_vars(TimeoutHandler)
    /\ WF_vars(ReadHandlerError)
    /\ \A k \in Writes : WF_vars(AsyncWriteFails(k))
    /\ \A w \in Blocking : WF_vars(WriteReturns(w))

FairSpec == Spec /\ ServerFairness
-----------------------------------------------------------------------------
(* Is a completion waiting for the strand? *)
HandlerPending == \E i \in 1..Len(strand) : strand[i].op \in Results

(* At most one async_write is outstanding on the socket, counting one whose
   handler waits for the strand, and it carries the front of queue_write:
   the handler answers and pops the front without looking at what was sent,
   so anything else interleaves two bodies or answers the wrong promise. *)
OneWriteOfTheFront ==
    /\ \A j, k \in Writes :
          sending[j] > 0 /\ sending[k] > 0 => j = k /\ sending[k] = 1
    /\ \A k \in Writes : sending[k] > 0 =>
          ~HandlerPending /\ queue_write # << >> /\ Head(queue_write) = k
    /\ \A i, j \in 1..Len(strand) :
          strand[i].op \in Results /\ strand[j].op \in Results =>
             i = j /\ queue_write # << >> /\ Head(queue_write) = strand[i].id

(* The peer gets the writes in the order of the posts, without a gap and
   without a repetition, whatever thread posted them and however the posts,
   the completions and a failure interleave. *)
WireInPostOrder == wire = [i \in 1..Len(wire) |-> i]

(* A promise tells the truth: "ok" only for data the peer got, "error" only
   for data it never gets; a blocking write throws exactly in that case. *)
PromiseTellsWhatWasSent ==
    \A k \in Writes :
        /\ promise[k] = "ok" => \E i \in 1..Len(wire) : wire[i] = k
        /\ promise[k] = "error" => \A i \in 1..Len(wire) : wire[i] # k

(* As long as no write has failed, queue_write is never idle: something is
   being sent, or a handler that will start the next write waits for the
   strand.  This is what the two places that start a write (the size test of
   arrange_async_write, the empty test of the handler) must guarantee
   together. *)
QueueNeverIdleBeforeError ==
    queue_write # << >> =>
        \/ \E k \in Writes : sending[k] > 0 \/ promise[k] = "error"
        \/ HandlerPending

(* An async_write of an open socket that nothing times any more: no wait is
   pending, none has expired, no close is on its way. *)
WriteIsUntimed ==
    /\ sock = "open" /\ \E k \in Writes : sending[k] > 0
    /\ timer # "armed" /\ expired = 0
    /\ \A i \in 1..Len(strand) : strand[i].op # "close"

(* The inductive invariant: with p packages answered and a arranged,
   queue_write holds p+1 .. a, the strand holds the posts a+1 .. posted in
   order, and only write p+1 can be on its way. *)
QueueShape(p, a) ==
    /\ p <= a /\ a <= posted
    /\ Len(queue_write) = a - p
    /\ \A i \in 1..Len(queue_write) : queue_write[i] = p + i
    /\ \A k \in Writes : (promise[k] # "none") <=> k <= p

StrandShape(a) ==
    /\ \A i \in 1..Len(strand) : strand[i].op = "write" =>
          a < strand[i].id /\ strand[i].id <= posted
    /\ \A i, j \in 1..Len(strand) :
          i < j /\ strand[i].op = "write" /\ strand[j].op = "write" =>
             strand[i].id < strand[j].id
    /\ \A k \in (a + 1)..posted : \E i \in 1..Len(strand) : strand[i] = WriteTask(k)

FlightShape(p, a) ==
    /\ \A k \in Writes : sending[k] > 0 =>
          sending[k] = 1 /\ k = p + 1 /\ p < a /\ ~HandlerPending
    /\ \A i \in 1..Len(strand) : strand[i].op \in Results =>
          strand[i].id = p + 1 /\ p < a
    /\ \A i, j \in 1..Len(strand) :
          strand[i].op \in Results /\ strand[j].op \in Results => i = j
    /\ p < a => \/ HandlerPending
                \/ \E k \in Writes : sending[k] > 0 \/ promise[k] = "error"

WireShape(p) ==
    /\ \A i \in 1..Len(wire) : wire[i] = i
    /\ \A k \in Writes : promise[k] = "ok" => k <= Len(wire)
    /\ \A k \in Writes : promise[k] = "error" => k > Len(wire)
    /\ \A i \in 1..Len(strand) : strand[i].op = "ok" => Len(wire) = p + 1
    /\ \A i \in 1..Len(strand) : strand[i].op = "error" => Len(wire) <= p
    /\ ~HandlerPending => Len(wire) <= p
    /\ sock = "open" =>
          /\ \A i \in 1..Len(strand) : strand[i].op # "error"
          /\ \A k \in Writes : promise[k] # "error"
          /\ ~HandlerPending => Len(wire) = p

Shape(p, a) ==
    QueueShape(p, a) /\ StrandShape(a) /\ FlightShape(p, a) /\ WireShape(p)

IInv == TypeOK /\ \E p, a \in 0..MaxWrites : Shape(p, a)

(* A promise is set once (a second set_value throws future_error in the
   handler), and in the order of the posts. *)
PromisesAnsweredInOrder ==
    [][\A k \in Writes : promise'[k] # promise[k] =>
           /\ promise[k] = "none"
           /\ \A j \in 1..(k - 1) : promise[j] # "none"]_vars

(* write_blocking returns, or throws: a thread is not left waiting. *)
BlockedWriterReturns ==
    \A w \in Blocking : (waiting[w] # 0) ~> (waiting[w] = 0)

(* Two things may keep it waiting for ever.  An earlier write failed: the
   error path answers the front package and leaves the others.  Or an inline
   read of the same session completed and cancelled the timer that covered
   the write in flight, and the peer reads no more. *)
BlockedWriterReturnsOrIsStranded ==
    \A w \in Blocking : (waiting[w] # 0) ~>
        \/ waiting[w] = 0
        \/ \E k \in 1..(waiting[w] - 1) : promise[k] = "error"
        \/ reads > 0 /\ WriteIsUntimed

(* Everything posted is sent, or the connection ends, even when the peer
   stops reading and only the timer can end the write: no package is left
   behind in the strand or in queue_write of a session that goes on, but for
   the write whose timer an inline read has cancelled. *)
EveryWriteIsSentOrClosed ==
    \A k \in Writes : (k <= posted) ~>
        (Len(wire) >= k \/ sock # "open" \/ (reads > 0 /\ WriteIsUntimed))

(* What the write path promises is an ordered stream with answers. *)
Stream == INSTANCE OrderedStream WITH broken <- sock # "open"
ImplementsOrderedStream == Stream!Spec
=============================================================================
