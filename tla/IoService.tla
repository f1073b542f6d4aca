------------------------------- MODULE IoService -------------------------------
(***************************************************************************)
(* The threads of one Instance: App::run and App::stop (App.cpp), the      *)
(* accept loop (InstanceCommon.cpp, InstanceTCP.cpp) and what a request    *)
(* asks of the threads that serve it (run_handler in Context.cpp,          *)
(* do_raw_write in Response.cpp, read in Request.cpp, write_blocking and   *)
(* read_blocking in SessionCommon.cpp).                                    *)
(* All handlers are run by the few threads inside io_service::run, and the *)
(* ones of writes, closes, accepts and coroutines by one strand for all    *)
(* sessions.  A middleware that waits for a read or a write holds the      *)
(* thread, or even the strand, that it needs to complete.                  *)
(*                                                                         *)
(* Each connection carries one request, whose middlewares may read once    *)
(* more (bound) before they write their response.  That is one write if    *)
(* nobody waits for it, and else the headers, which nobody waits for, and  *)
(* a body behind them (bound): the order of bytes is WriteQueue's subject, *)
(* contexts and kept-alive connections are Session's.                      *)
(***************************************************************************)
EXTENDS Naturals, FiniteSets

CONSTANTS Threads,     \* the threads App::run starts for this Instance
          Requests,    \* the connections, each with its request
          Files,       \* the requests answered with send_file, or write(.., true)
          Streamed,    \* the requests whose middlewares may call read
          Modes,       \* modes of the routes
          Compressed,  \* is Compression in front of the middlewares?
          MayStop      \* may App::stop be called?

Free == "free"
ASSUME ConstantsAssumption ==
    /\ IsFiniteSet(Threads) /\ Files \subseteq Requests
    /\ Streamed \subseteq Requests
    /\ Modes \subseteq {"no_yield", "async", "thread"}
    /\ Compressed \in BOOLEAN /\ MayStop \in BOOLEAN
    /\ Free \notin Threads
    /\ Requests \cap {"new", "idle", "exited"} = {}

VARIABLES
    runner,   \* an io thread: not started, idle, exited, or the request it runs
    main,     \* App::run: "running" or "returned"
    stopped,  \* has io_service::stop been called?
    accepts,  \* async_accept operations outstanding
    strand,   \* the io thread that holds the strand across steps
    stage,    \* how far a request has come
    mode,     \* the mode of its route
    read,     \* the read its middlewares ask for
    headers,  \* the write of the headers, if apart from that of the body
    write,    \* the write of its response
    closing   \* its close_socket_impl: posted, then run

sessionVars == <<mode, read, headers, write, closing>>
vars == <<runner, main, stopped, accepts, strand, stage, sessionVars>>

Stages == {"away", "backlog", "reading", "dropped", "arrived", "handling", "starting",
           "spawned", "running", "blocked", "suspended", "returned", "finished"}

(* A queued write is in queue_write behind one that is not answered; a read
   that threw is answered with an error. *)
Operation ==
    {"none", "posted", "queued", "flight", "completed", "failed", "answered", "threw"}

TypeOK ==
    /\ runner \in [Threads -> {"new", "idle", "exited"} \cup Requests]
    /\ main \in {"running", "returned"} /\ stopped \in {"no", "yes"}
    /\ accepts \in 0..Cardinality(Threads)
    /\ strand \in Threads \cup {Free}
    /\ stage \in [Requests -> Stages]
    /\ mode \in [Requests -> Modes \cup {"none"}]
    /\ read \in [Requests -> Operation]
    /\ headers \in [Requests -> Operation] /\ write \in [Requests -> Operation]
    /\ closing \in [Requests -> {"no", "posted", "closed"}]

(* App::run has created the threads. *)
Init ==
    /\ runner = [t \in Threads |-> "new"]
    /\ main = "running" /\ stopped = "no" /\ accepts = 0 /\ strand = Free
    /\ stage = [r \in Requests |-> "away"]
    /\ mode = [r \in Requests |-> "none"]
    /\ read = [r \in Requests |-> "none"]
    /\ headers = [r \in Requests |-> "none"] /\ write = [r \in Requests |-> "none"]
    /\ closing = [r \in Requests |-> "no"]

Enter(r, s) == stage' = [stage EXCEPT ![r] = s]

(* The session goes with its last handler. *)
Finish(r) ==
    /\ Enter(r, "finished")
    /\ mode' = [mode EXCEPT ![r] = "none"]
    /\ read' = [read EXCEPT ![r] = "none"]
    /\ headers' = [headers EXCEPT ![r] = "none"] /\ write' = [write EXCEPT ![r] = "none"]
    /\ closing' = [closing EXCEPT ![r] = "no"]

-----------------------------------------------------------------------------
(* App::run and App::stop *)

(* Instance::run: an async_accept of its own, then io_service::run. *)
RunnerStart(t) ==
    /\ runner[t] = "new"
    /\ runner' = [runner EXCEPT ![t] = "idle"]
    /\ accepts' = accepts + 1
    /\ UNCHANGED <<main, stopped, strand, stage, sessionVars>>

\* Mutant: the io_service is left to run out of work.
RunnerExitOutOfWork(t) ==
    /\ runner[t] = "idle" /\ stopped = "yes" /\ accepts = 0
    /\ runner' = [runner EXCEPT ![t] = "exited"]
    /\ UNCHANGED <<main, stopped, accepts, strand, stage, sessionVars>>

RunnerExit(t) ==
    /\ runner[t] = "idle" /\ stopped = "yes"
    /\ runner' = [runner EXCEPT ![t] = "exited"]
    /\ UNCHANGED <<main, stopped, accepts, strand, stage, sessionVars>>

(* App::run has joined every runner. *)
RunReturns ==
    /\ main = "running" /\ \A t \in Threads : runner[t] = "exited"
    /\ main' = "returned"
    /\ UNCHANGED <<runner, stopped, accepts, strand, stage, sessionVars>>

Stop ==
    /\ MayStop /\ stopped = "no"
    /\ stopped' = "yes"
    /\ UNCHANGED <<runner, main, accepts, strand, stage, sessionVars>>

(* The thread is in io_service::run and takes the next handler. *)
Ready(t) == runner[t] = "idle" /\ stopped = "no"
StrandReady(t) == Ready(t) /\ strand = Free

-----------------------------------------------------------------------------
(* Connections *)

ClientConnects(r) ==
    /\ stage[r] = "away"
    /\ Enter(r, "backlog")
    /\ UNCHANGED <<runner, main, stopped, accepts, strand, sessionVars>>

(* The session starts its inline read, and the next one is prepared: one
   async_accept has completed and another one is started. *)
AcceptHandler(t, r) ==
    /\ StrandReady(t) /\ accepts > 0 /\ stage[r] = "backlog"
    /\ Enter(r, "reading")
    /\ UNCHANGED <<runner, main, stopped, accepts, strand, sessionVars>>

ClientSends(r) ==
    /\ stage[r] = "reading" /\ closing[r] # "closed"
    /\ Enter(r, "arrived")
    /\ UNCHANGED <<runner, main, stopped, accepts, strand, sessionVars>>

(* The peer goes, or the socket has been shut down. *)
InlineReadFails(r) ==
    /\ stage[r] = "reading"
    /\ Enter(r, "dropped")
    /\ UNCHANGED <<runner, main, stopped, accepts, strand, sessionVars>>

(* The handler of the inline read, which no strand wraps.  Once taken by a
   thread it is run to its end, io_service stopped or not. *)
ReadHandler(t, r) ==
    /\ Ready(t) /\ stage[r] = "arrived"
    /\ Enter(r, "handling")
    /\ runner' = [runner EXCEPT ![t] = r]
    /\ UNCHANGED <<main, stopped, accepts, strand, sessionVars>>

(* error_action: the session goes when the socket is closed. *)
ReadHandlerError(t, r) ==
    /\ Ready(t) /\ stage[r] = "dropped"
    /\ Finish(r)
    /\ UNCHANGED <<runner, main, stopped, accepts, strand>>

(* The io thread that runs r, if any, goes back to io_service::run. *)
LeaveThread(r) ==
    /\ runner' = [t \in Threads |-> IF runner[t] = r THEN "idle" ELSE runner[t]]
    /\ strand' = IF \E t \in Threads : strand = t /\ runner[t] = r THEN Free ELSE strand

(* run_handler runs the middlewares here, spawns a coroutine, which runs here
   if nothing is in the strand or is posted to it, or starts a thread. *)
RunInline(r) ==
    /\ mode' = [mode EXCEPT ![r] = "no_yield"] /\ Enter(r, "running")
    /\ UNCHANGED <<runner, strand>>
SpawnHere(t, r) ==
    /\ strand = Free /\ strand' = t
    /\ mode' = [mode EXCEPT ![r] = "async"] /\ Enter(r, "running")
    /\ UNCHANGED runner
SpawnPosted(r) ==
    /\ mode' = [mode EXCEPT ![r] = "async"] /\ Enter(r, "spawned")
    /\ LeaveThread(r)
StartThread(r) ==
    /\ mode' = [mode EXCEPT ![r] = "thread"] /\ Enter(r, "starting")
    /\ LeaveThread(r)

RunHandler(t, r) ==
    /\ runner[t] = r /\ stage[r] = "handling"
    /\ \/ "no_yield" \in Modes /\ RunInline(r)
       \/ "async" \in Modes /\ (SpawnHere(t, r) \/ SpawnPosted(r))
       \/ "thread" \in Modes /\ StartThread(r)
    /\ UNCHANGED <<main, stopped, accepts, read, headers, write, closing>>

ContainerThread(r) ==
    /\ stage[r] = "starting"
    /\ Enter(r, "running")
    /\ UNCHANGED <<runner, main, stopped, accepts, strand, sessionVars>>

(* A coroutine starts or goes on, inside the strand. *)
EnterStrand(t, r) ==
    /\ StrandReady(t)
    /\ runner' = [runner EXCEPT ![t] = r] /\ strand' = t
    /\ Enter(r, "running")

CoroStart(t, r) ==
    /\ stage[r] = "spawned" /\ EnterStrand(t, r)
    /\ UNCHANGED <<main, stopped, accepts, sessionVars>>

-----------------------------------------------------------------------------
(* The middlewares read the rest of the body. *)

(* error_action: a close is posted, unless one was before. *)
CloseSocket(r) ==
    closing' = IF closing[r] = "no" THEN [closing EXCEPT ![r] = "posted"] ELSE closing

Reads(r) == stage[r] = "running" /\ r \in Streamed /\ read[r] = "none"

ReadBlocking(r) ==
    /\ Reads(r) /\ mode[r] # "async"
    /\ Enter(r, "blocked")
    /\ read' = [read EXCEPT ![r] = "posted"]
    /\ UNCHANGED <<runner, main, stopped, accepts, strand, mode, headers, write, closing>>

ReadCoro(r) ==
    /\ Reads(r) /\ mode[r] = "async"
    /\ Enter(r, "suspended") /\ LeaveThread(r)
    /\ read' = [read EXCEPT ![r] = "flight"]
    /\ UNCHANGED <<main, stopped, accepts, mode, headers, write, closing>>

ReadAsyncPromised(t, r) ==
    /\ StrandReady(t) /\ read[r] = "posted"
    /\ read' = [read EXCEPT ![r] = "flight"]
    /\ UNCHANGED <<runner, main, stopped, accepts, strand, stage, mode, headers, write,
                   closing>>

ReadEnds(r, how) ==
    /\ read[r] = "flight"
    /\ read' = [read EXCEPT ![r] = how]
    /\ UNCHANGED <<runner, main, stopped, accepts, strand, stage, mode, headers, write,
                   closing>>
PeerSends(r) == closing[r] # "closed" /\ ReadEnds(r, "completed")
ReadFails(r) == ReadEnds(r, "failed")

(* The promise is set; error_action closes the socket. *)
ReadPromiseHandler(t, r) ==
    /\ StrandReady(t) /\ stage[r] = "blocked" /\ read[r] \in {"completed", "failed"}
    /\ read' = [read EXCEPT ![r] = IF @ = "failed" THEN "threw" ELSE "answered"]
    /\ IF read[r] = "failed" THEN CloseSocket(r) ELSE UNCHANGED closing
    /\ UNCHANGED <<runner, main, stopped, accepts, strand, stage, mode, headers, write>>

(* The middlewares go on, or what read_blocking throws ends them. *)
ReadBlockingReturns(r) ==
    /\ stage[r] = "blocked" /\ read[r] \in {"answered", "threw"} /\ write[r] = "none"
    /\ Enter(r, "running")
    /\ UNCHANGED <<runner, main, stopped, accepts, strand, sessionVars>>

ReadBlockingThrows(r) ==
    /\ stage[r] = "blocked" /\ read[r] = "threw" /\ write[r] = "none"
    /\ Finish(r) /\ LeaveThread(r)
    /\ UNCHANGED <<main, stopped, accepts>>

-----------------------------------------------------------------------------
(* The middlewares write their response. *)

\* Mutants: the yield_context is not used; every write blocks.
WriteKindWithoutYield(r) == IF r \in Files THEN "blocking" ELSE "posted"
WriteKindBlocking(r) ==
    IF mode[r] = "async" /\ ~Compressed THEN "coroutine" ELSE "blocking"

(* do_raw_write.  The response that Compression puts into the context has no
   yield_context. *)
WriteKind(r) ==
    IF mode[r] = "async" /\ ~Compressed THEN "coroutine"
    ELSE IF r \in Files THEN "blocking" ELSE "posted"

(* The write is posted and the middlewares return. *)
InlineAsyncWrite(r) ==
    /\ stage[r] = "running" /\ WriteKind(r) = "posted"
    /\ Enter(r, "returned") /\ LeaveThread(r)
    /\ write' = [write EXCEPT ![r] = "posted"]
    /\ UNCHANGED <<main, stopped, accepts, mode, read, headers, closing>>

(* The headers are posted, then the body, and the thread, whichever it is,
   waits for the body to be written. *)
WriteBlocking(r) ==
    /\ stage[r] = "running" /\ WriteKind(r) = "blocking"
    /\ Enter(r, "blocked")
    /\ headers' = [headers EXCEPT ![r] = "posted"]
    /\ write' = [write EXCEPT ![r] = "posted"]
    /\ UNCHANGED <<runner, main, stopped, accepts, strand, mode, read, closing>>

WriteBlockingReturns(r) ==
    /\ stage[r] = "blocked" /\ write[r] = "answered"
    /\ Finish(r) /\ LeaveThread(r)
    /\ UNCHANGED <<main, stopped, accepts>>

(* The coroutine starts an async_write and is suspended. *)
WriteCoro(r) ==
    /\ stage[r] = "running" /\ WriteKind(r) = "coroutine"
    /\ Enter(r, "suspended") /\ LeaveThread(r)
    /\ write' = [write EXCEPT ![r] = "flight"]
    /\ UNCHANGED <<main, stopped, accepts, mode, read, headers, closing>>

(* It goes on behind its read, or what that throws ends it; behind its write,
   the last call, it ends either way. *)
CoroResume(t, r) ==
    /\ stage[r] = "suspended" /\ read[r] \in {"completed", "failed"} /\ EnterStrand(t, r)
    /\ read' = [read EXCEPT ![r] = "answered"]
    /\ UNCHANGED <<main, stopped, accepts, mode, headers, write, closing>>

CoroEnds(t, r) ==
    /\ StrandReady(t) /\ stage[r] = "suspended"
    /\ write[r] = "completed" \/ read[r] = "failed"
    /\ Finish(r)
    /\ UNCHANGED <<runner, main, stopped, accepts, strand>>

-----------------------------------------------------------------------------
(* The write path *)

Starts(r) == headers[r] \in {"none", "answered"}

(* A write is started if queue_write holds none before it. *)
ArrangeAsyncWrite(t, r) ==
    /\ StrandReady(t)
    /\ \/ /\ headers[r] = "posted" /\ headers' = [headers EXCEPT ![r] = "flight"]
          /\ UNCHANGED write
       \/ /\ headers[r] # "posted" /\ write[r] = "posted"
          /\ write' = [write EXCEPT ![r] = IF Starts(r) THEN "flight" ELSE "queued"]
          /\ UNCHANGED headers
    /\ UNCHANGED <<runner, main, stopped, accepts, strand, stage, mode, read, closing>>

WriteEnds(r, how) ==
    /\ \/ /\ headers[r] = "flight" /\ headers' = [headers EXCEPT ![r] = how]
          /\ UNCHANGED write
       \/ /\ write[r] = "flight" /\ write' = [write EXCEPT ![r] = "completed"]
          /\ UNCHANGED headers
    /\ UNCHANGED <<runner, main, stopped, accepts, strand, stage, mode, read, closing>>

(* The body of a response is answered with an error or without. *)
PeerReads(r) == closing[r] # "closed" /\ WriteEnds(r, "completed")
WriteFails(r) == WriteEnds(r, "failed")

(* The front is answered, and the next write started but after an error. *)
HeadersHandler(t, r) ==
    /\ StrandReady(t) /\ headers[r] \in {"completed", "failed"}
    /\ headers' = [headers EXCEPT ![r] = "answered"]
    /\ write' = IF headers[r] = "completed" /\ write[r] = "queued"
                THEN [write EXCEPT ![r] = "flight"] ELSE write
    /\ IF headers[r] = "failed" THEN CloseSocket(r) ELSE UNCHANGED closing
    /\ UNCHANGED <<runner, main, stopped, accepts, strand, stage, mode, read>>

WriteHandler(t, r) ==
    /\ StrandReady(t) /\ write[r] = "completed"
    /\ \/ /\ stage[r] = "blocked" /\ write' = [write EXCEPT ![r] = "answered"]
          /\ UNCHANGED <<stage, mode, read, headers, closing>>
       \/ stage[r] = "returned" /\ Finish(r)
    /\ UNCHANGED <<runner, main, stopped, accepts, strand>>

\* Mutant: setup_timeout_timer is not called for a write.
TimeoutHandlerOfReads(t, r) ==
    /\ Ready(t) /\ closing[r] = "no"
    /\ stage[r] \in {"reading", "arrived"} \/ read[r] = "flight"
    /\ closing' = [closing EXCEPT ![r] = "posted"]
    /\ UNCHANGED <<runner, main, stopped, accepts, strand, stage, mode, read, headers, write>>

(* The timer covers a read and a write; the wait for a coroutine's write is
   itself a coroutine on the strand. *)
TimeoutHandler(t, r) ==
    /\ Ready(t) /\ closing[r] = "no"
    /\ \/ stage[r] \in {"reading", "arrived"}
       \/ "flight" \in {read[r], headers[r], write[r]}
    /\ stage[r] = "suspended" /\ write[r] = "flight" => strand = Free
    /\ closing' = [closing EXCEPT ![r] = "posted"]
    /\ UNCHANGED <<runner, main, stopped, accepts, strand, stage, mode, read, headers, write>>

CloseSocketImpl(t, r) ==
    /\ StrandReady(t) /\ closing[r] = "posted"
    /\ closing' = [closing EXCEPT ![r] = "closed"]
    /\ UNCHANGED <<runner, main, stopped, accepts, strand, stage, mode, read, headers, write>>

-----------------------------------------------------------------------------
Handler(t, r) ==
    \/ AcceptHandler(t, r) \/ ReadHandler(t, r) \/ ReadHandlerError(t, r)
    \/ RunHandler(t, r) \/ CoroStart(t, r) \/ CoroResume(t, r) \/ CoroEnds(t, r)
    \/ ReadAsyncPromised(t, r) \/ ReadPromiseHandler(t, r)
    \/ ArrangeAsyncWrite(t, r) \/ HeadersHandler(t, r) \/ WriteHandler(t, r)
    \/ TimeoutHandler(t, r) \/ CloseSocketImpl(t, r)

Middleware(r) ==
    \/ ContainerThread(r)
    \/ ReadBlocking(r) \/ ReadCoro(r) \/ ReadBlockingReturns(r) \/ ReadBlockingThrows(r)
    \/ InlineAsyncWrite(r) \/ WriteBlocking(r) \/ WriteBlockingReturns(r) \/ WriteCoro(r)

Failure(r) == InlineReadFails(r) \/ ReadFails(r) \/ WriteFails(r)

Next ==
    \/ \E t \in Threads : RunnerStart(t) \/ RunnerExit(t)
    \/ RunReturns \/ Stop
    \/ \E r \in Requests :
          \/ ClientConnects(r) \/ ClientSends(r) \/ PeerSends(r) \/ PeerReads(r)
          \/ Failure(r)
          \/ Middleware(r)
          \/ \E t \in Threads : Handler(t, r)

Spec == Init /\ [][Next]_vars

(* The threads run, io_service runs every handler that is ready as long as a
   thread is free for it, middlewares go on, and an operation on a closed
   socket fails.  Clients and peers owe nothing. *)
FairSpec ==
    /\ Spec
    /\ \A t \in Threads : WF_vars(RunnerStart(t)) /\ WF_vars(RunnerExit(t))
    /\ WF_vars(RunReturns)
    /\ \A r \in Requests :
          /\ WF_vars(\E t \in Threads : Handler(t, r))
          /\ WF_vars(Middleware(r))
          /\ WF_vars(closing[r] = "closed" /\ Failure(r))
-----------------------------------------------------------------------------
Blocked(t) == runner[t] \in Requests /\ stage[runner[t]] = "blocked"

(* The write of the headers has failed while that of the body was behind it:
   nothing will start it or answer it. *)
Stranded(r) == headers[r] = "answered" /\ write[r] = "queued"

(* Not every io thread waits for a read or a write that only an io thread can
   bring to an end: else all connections of the Instance stop, and their
   timers too, since io_service runs those as well. *)
SomeThreadServes == \E t \in Threads : ~Blocked(t)

(* No thread waits for a write inside the strand: the task that would start
   that write can only run in the strand, so this is a deadlock whatever the
   number of threads. *)
StrandIsNotBlocked == \A t \in Threads : strand = t => ~Blocked(t)

(* A connection that waits is accepted, and a request that arrived is served to
   its end, whatever the other clients do, read or not, unless the server is
   stopped; or its headers could not be written and its body is stranded. *)
EveryConnectionIsServed ==
    \A r \in Requests :
        /\ stage[r] = "backlog" ~> stage[r] # "backlog" \/ stopped = "yes"
        /\ stage[r] = "arrived" ~> stage[r] = "finished" \/ Stranded(r) \/ stopped = "yes"

(* App::stop ends every io thread, except one that waits for a read or a
   write: that is never started, and App::run never returns. *)
StopEndsThreads ==
    stopped = "yes" ~>
        \/ main = "returned"
        \/ \E t \in Threads : Blocked(t)
=============================================================================
