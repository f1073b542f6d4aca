------------------------------- MODULE Session -------------------------------
(***************************************************************************)
(* The life of one Session with its contexts (SessionCommon.cpp,           *)
(* SessionTCP.cpp, and run_handler, container_thread and the outcomes of   *)
(* process_request_data in Context.cpp).  The threads of io_service run    *)
(* completion handlers; the one of an inline read is not wrapped by the    *)
(* strand.  A route runs its middlewares on the io thread (no_yield), in a *)
(* coroutine on the strand (async) or in a thread of its own (thread), and *)
(* reload_context then replaces app_ctx and starts the next inline read.   *)
(* The Session lives as long as a handler, a task or a thread holds a      *)
(* shared_ptr to it.  The order of the writes is WriteQueue's subject:     *)
(* here they are only counted.                                             *)
(***************************************************************************)
EXTENDS Naturals, FiniteSets

CONSTANTS IoThreads,   \* threads in io_service::run
          Modes,       \* modes of the routes requests are sent to
          KeepAlive,   \* may requests ask for Connection: keep-alive?
          PeerFails,   \* may the peer drop the connection?
          MaxCtx,      \* bound: contexts, that is kept-alive requests
          MaxReads,    \* bound: pieces of data the peer sends
          MaxWrites,   \* bound: writes of all middlewares
          MaxExpired   \* bound: expired timer handlers and closes pending

NoThread == "free"
ASSUME ConstantsAssumption ==
    /\ Modes \subseteq {"no_yield", "async", "thread"}
    /\ KeepAlive \in BOOLEAN /\ PeerFails \in BOOLEAN
    /\ MaxCtx \in Nat \ {0} /\ MaxReads \in Nat /\ MaxWrites \in Nat
    /\ MaxExpired \in Nat
    /\ NoThread \notin IoThreads

VARIABLES
    app_ctx,       \* the current context: contexts are numbered
    state,         \* the flags of each context
    freed,         \* contexts that reload_context has destroyed
    io,            \* what each io thread is doing
    app,           \* the container_thread of each context
    coro,          \* the coroutine of each context
    strand,        \* the io thread inside the strand
    inline_reads,  \* async_read_some operations outstanding on buffer_read
    arrived,       \* pieces of data received
    queued,        \* writes posted and not started
    sending,       \* is an async_write of queue_write outstanding?
    posted,        \* writes so far
    closes,        \* close_socket_impl tasks posted and not run
    sock,          \* "open", "gone" (dropped by the peer), "shutdown"
    timer,         \* io_timeout_timer
    expired        \* timer handlers that expired and have not run

ctxVars == <<app_ctx, state, freed>>
runVars == <<app, coro, strand>>
readVars == <<inline_reads, arrived>>
writeVars == <<queued, sending, posted>>
sockVars == <<closes, sock>>
timerVars == <<timer, expired>>
vars == <<ctxVars, io, runVars, readVars, writeVars, sockVars, timerVars>>

Contexts == 1..MaxCtx
Flags == {"WANT_READ", "THREAD_RUNNING", "KEEPALIVE"}
Pcs == {"idle", "decide", "process", "handler", "spawn", "coro", "detach",
        "reload", "reload_read", "recheck", "reread"}

TypeOK ==
    /\ app_ctx \in Contexts
    /\ state \in [Contexts -> SUBSET Flags]
    /\ freed \subseteq Contexts
    /\ io \in [IoThreads -> [pc : Pcs, ctx : Contexts, next : {"idle", "recheck"}]]
    /\ app \in [Contexts -> {"none", "running", "reload", "reload_read", "done"}]
    /\ coro \in [Contexts -> {"none", "spawned", "running", "waiting", "ready", "done"}]
    /\ strand \in IoThreads \cup {NoThread}
    /\ inline_reads \in Nat /\ arrived \in 0..MaxReads
    /\ queued \in 0..MaxWrites + 2 /\ sending \in BOOLEAN /\ posted \in 0..MaxWrites + 2
    /\ closes \in Nat /\ sock \in {"open", "gone", "shutdown"}
    /\ timer \in {"idle", "armed"} /\ expired \in 0..MaxExpired

(* start() has started the first inline read. *)
Init ==
    /\ app_ctx = 1 /\ freed = {}
    /\ state = [c \in Contexts |-> {}]
    /\ io = [t \in IoThreads |-> [pc |-> "idle", ctx |-> 1, next |-> "idle"]]
    /\ app = [c \in Contexts |-> "none"] /\ coro = [c \in Contexts |-> "none"]
    /\ strand = NoThread
    /\ inline_reads = 1 /\ arrived = 0
    /\ queued = 0 /\ sending = FALSE /\ posted = 0
    /\ closes = 0 /\ sock = "open"
    /\ timer = "armed" /\ expired = 0

(* The shared_ptrs to the Session: of the handler of an inline read, of a
   handler that runs, of a container_thread, of a coroutine, of a write and
   of a posted close.  The wait of the timer only captures this. *)
HasRefs ==
    \/ inline_reads > 0 \/ queued > 0 \/ sending \/ closes > 0
    \/ \E t \in IoThreads : io[t].pc # "idle"
    \/ \E c \in Contexts : app[c] \notin {"none", "done"} \/ coro[c] \notin {"none", "done"}

-----------------------------------------------------------------------------
(* Helpers *)

Go(t, pc) == io' = [io EXCEPT ![t].pc = pc]
At(t, pc) == io[t].pc = pc
StrandIdle(t) == At(t, "idle") /\ strand = NoThread

AddFlag(c, f) == state' = [state EXCEPT ![c] = @ \cup {f}]
DelFlag(c, f) == state' = [state EXCEPT ![c] = @ \ {f}]

StartInlineRead ==
    /\ inline_reads' = inline_reads + 1
    /\ timer' = "armed"

(* A middleware posts a write, the 404 page two. *)
Post(n) ==
    /\ queued' = queued + n
    /\ posted' = posted + n

(* FLAG_KEEPALIVE, if the headers ask for it.  The last context is not kept
   alive: the bound on the contexts. *)
Asks(c) == IF KeepAlive /\ c < MaxCtx THEN {{}, {"KEEPALIVE"}} ELSE {{}}
AddFlags(c, flags) ==
    \E asked \in Asks(c) : state' = [state EXCEPT ![c] = @ \cup flags \cup asked]

-----------------------------------------------------------------------------
(* The handler of the inline read. *)

InlineReadHandler(t) ==
    /\ At(t, "idle") /\ inline_reads > 0 /\ sock = "open" /\ arrived < MaxReads
    /\ inline_reads' = inline_reads - 1
    /\ arrived' = arrived + 1
    /\ Go(t, "decide")
    /\ UNCHANGED <<ctxVars, runVars, writeVars, sockVars, timerVars>>

InlineReadError(t) ==
    /\ At(t, "idle") /\ inline_reads > 0 /\ sock # "open"
    /\ inline_reads' = inline_reads - 1
    /\ timer' = "idle"
    /\ closes' = closes + 1
    /\ UNCHANGED <<ctxVars, io, runVars, arrived, writeVars, sock, expired>>

\* Mutant: STATE_WANT_READ is not cleared.
DecideKeepsWantRead(t) ==
    /\ At(t, "decide")
    /\ timer' = "idle"
    /\ io' = [io EXCEPT ![t].pc = "process", ![t].ctx = app_ctx, ![t].next = "recheck"]
    /\ UNCHANGED <<ctxVars, runVars, readVars, writeVars, sockVars, expired>>

(* decide_io_action_in_read up to the call of process_request_data. *)
DecideBegin(t) ==
    /\ At(t, "decide")
    /\ timer' = "idle"
    /\ DelFlag(app_ctx, "WANT_READ")
    /\ io' = [io EXCEPT ![t].pc = "process", ![t].ctx = app_ctx, ![t].next = "recheck"]
    /\ UNCHANGED <<app_ctx, freed, runVars, readVars, writeVars, sockVars, expired>>

(* process_request_data wants more of the header, or, when it has looked at
   the headers, of the body. *)
RequestIncomplete(t) ==
    /\ At(t, "process")
    /\ AddFlags(io[t].ctx, {"WANT_READ"})
    /\ Go(t, "recheck")
    /\ UNCHANGED <<app_ctx, freed, runVars, readVars, writeVars, sockVars, timerVars>>

(* It gives up at a parse error or a header too large, or, when it has looked
   at the headers, with 404 and its page. *)
RequestRefused(t) ==
    /\ At(t, "process")
    /\ \/ UNCHANGED <<state, writeVars>>
       \/ AddFlags(io[t].ctx, {}) /\ posted <= MaxWrites /\ Post(2) /\ UNCHANGED sending
    /\ Go(t, "recheck")
    /\ UNCHANGED <<app_ctx, freed, runVars, readVars, sockVars, timerVars>>

(* run_handler: next() here, a coroutine or a thread. *)
RunNoYield(t) ==
    /\ At(t, "process") /\ "no_yield" \in Modes
    /\ AddFlags(io[t].ctx, {})
    /\ Go(t, "handler")
    /\ UNCHANGED <<app_ctx, freed, runVars, readVars, writeVars, sockVars, timerVars>>

RunAsync(t) ==
    /\ At(t, "process") /\ "async" \in Modes /\ coro[io[t].ctx] = "none"
    /\ AddFlags(io[t].ctx, {})
    /\ coro' = [coro EXCEPT ![io[t].ctx] = "spawned"]
    /\ Go(t, "spawn")
    /\ UNCHANGED <<app_ctx, freed, app, strand, readVars, writeVars, sockVars, timerVars>>

RunThread(t) ==
    /\ At(t, "process") /\ "thread" \in Modes /\ app[io[t].ctx] = "none"
    /\ AddFlags(io[t].ctx, {"THREAD_RUNNING"})
    /\ app' = [app EXCEPT ![io[t].ctx] = "running"]
    /\ Go(t, "detach")
    /\ UNCHANGED <<app_ctx, freed, coro, strand, readVars, writeVars, sockVars, timerVars>>

(* container = ..., container.detach(): touches the context. *)
Detach(t) ==
    /\ At(t, "detach")
    /\ Go(t, "recheck")
    /\ UNCHANGED <<ctxVars, runVars, readVars, writeVars, sockVars, timerVars>>

(* After process_request_data: app_ctx is read again, then its state. *)
Recheck(t) ==
    /\ At(t, "recheck")
    /\ io' = [io EXCEPT ![t].pc = "reread", ![t].ctx = app_ctx, ![t].next = "idle"]
    /\ UNCHANGED <<ctxVars, runVars, readVars, writeVars, sockVars, timerVars>>

\* Mutant: the next read does not depend on STATE_WANT_READ.
RereadAlways(t) ==
    /\ At(t, "reread")
    /\ StartInlineRead
    /\ Go(t, "idle")
    /\ UNCHANGED <<ctxVars, runVars, arrived, writeVars, sockVars, expired>>

Reread(t) ==
    /\ At(t, "reread")
    /\ IF "WANT_READ" \in state[io[t].ctx] THEN StartInlineRead
                                          ELSE UNCHANGED <<inline_reads, timer>>
    /\ Go(t, "idle")
    /\ UNCHANGED <<ctxVars, runVars, arrived, writeVars, sockVars, expired>>

-----------------------------------------------------------------------------
(* Middlewares on an io thread: no_yield, or a coroutine on the strand. *)

HandlerWrite(t) ==
    /\ At(t, "handler") /\ posted < MaxWrites
    /\ Post(1)
    /\ UNCHANGED <<ctxVars, io, runVars, readVars, sending, sockVars, timerVars>>

HandlerEnd(t) ==
    /\ At(t, "handler")
    /\ Go(t, "reload")
    /\ UNCHANGED <<ctxVars, runVars, readVars, writeVars, sockVars, timerVars>>

(* spawn dispatches on the strand: run at once when it is free, or later. *)
SpawnQueued(t) ==
    /\ At(t, "spawn")
    /\ coro' = [coro EXCEPT ![io[t].ctx] = "ready"]
    /\ Go(t, "recheck")
    /\ UNCHANGED <<ctxVars, app, strand, readVars, writeVars, sockVars, timerVars>>

CoroEnter(t, c, next) ==
    /\ strand = NoThread /\ strand' = t
    /\ AddFlag(c, "THREAD_RUNNING")
    /\ coro' = [coro EXCEPT ![c] = "running"]
    /\ io' = [io EXCEPT ![t] = [pc |-> "coro", ctx |-> c, next |-> next]]
    /\ UNCHANGED <<app_ctx, freed, app, readVars, writeVars, sockVars, timerVars>>

SpawnInline(t) == At(t, "spawn") /\ CoroEnter(t, io[t].ctx, "recheck")

CoroResume(t) ==
    /\ At(t, "idle")
    /\ \E c \in Contexts : coro[c] = "ready" /\ CoroEnter(t, c, "idle")

Leave(t) ==
    /\ io' = [io EXCEPT ![t].pc = io[t].next]
    /\ strand' = NoThread

(* write_async with a yield_context starts an async_write and suspends. *)
CoroWrite(t) ==
    /\ At(t, "coro") /\ posted < MaxWrites
    /\ posted' = posted + 1
    /\ timer' = "armed"
    /\ coro' = [coro EXCEPT ![io[t].ctx] = "waiting"]
    /\ Leave(t)
    /\ UNCHANGED <<ctxVars, app, readVars, queued, sending, sockVars, expired>>

(* It completes, or throws into the middleware: neither closes the socket. *)
CoroWriteDone(c) ==
    /\ coro[c] = "waiting"
    /\ coro' = [coro EXCEPT ![c] = "ready"]
    /\ UNCHANGED <<ctxVars, io, app, strand, readVars, writeVars, sockVars, timerVars>>

CoroEnd(t) ==
    /\ At(t, "coro")
    /\ DelFlag(io[t].ctx, "THREAD_RUNNING")
    /\ coro' = [coro EXCEPT ![io[t].ctx] = "done"]
    /\ Go(t, "reload")
    /\ UNCHANGED <<app_ctx, freed, app, strand, readVars, writeVars, sockVars, timerVars>>

(* reload_context: the old context dies when app_ctx is assigned. *)
ReplaceContext ==
    /\ app_ctx' = app_ctx + 1
    /\ freed' = freed \cup {app_ctx}

IoReload(t) ==
    /\ At(t, "reload")
    /\ IF "KEEPALIVE" \in state[app_ctx]
       THEN ReplaceContext /\ Go(t, "reload_read") /\ UNCHANGED strand
       ELSE /\ io' = [io EXCEPT ![t].pc = io[t].next]
            /\ strand' = IF strand = t THEN NoThread ELSE strand
            /\ UNCHANGED <<app_ctx, freed>>
    /\ UNCHANGED <<state, app, coro, readVars, writeVars, sockVars, timerVars>>

\* Mutant: reload_context does not start a read.
IoReloadWithoutRead(t) ==
    /\ At(t, "reload_read")
    /\ io' = [io EXCEPT ![t].pc = io[t].next]
    /\ strand' = IF strand = t THEN NoThread ELSE strand
    /\ UNCHANGED <<ctxVars, app, coro, readVars, writeVars, sockVars, timerVars>>

IoReloadRead(t) ==
    /\ At(t, "reload_read")
    /\ StartInlineRead
    /\ io' = [io EXCEPT ![t].pc = io[t].next]
    /\ strand' = IF strand = t THEN NoThread ELSE strand
    /\ UNCHANGED <<ctxVars, app, coro, arrived, writeVars, sockVars, expired>>

-----------------------------------------------------------------------------
(* container_thread. *)

AppWrite(c) ==
    /\ app[c] = "running" /\ posted < MaxWrites
    /\ Post(1)
    /\ UNCHANGED <<ctxVars, io, runVars, readVars, sending, sockVars, timerVars>>

AppEnd(c) ==
    /\ app[c] = "running"
    /\ DelFlag(c, "THREAD_RUNNING")
    /\ app' = [app EXCEPT ![c] = "reload"]
    /\ UNCHANGED <<app_ctx, freed, io, coro, strand, readVars, writeVars, sockVars, timerVars>>

AppReload(c) ==
    /\ app[c] = "reload"
    /\ IF "KEEPALIVE" \in state[app_ctx]
       THEN ReplaceContext /\ app' = [app EXCEPT ![c] = "reload_read"]
       ELSE app' = [app EXCEPT ![c] = "done"] /\ UNCHANGED <<app_ctx, freed>>
    /\ UNCHANGED <<state, io, coro, strand, readVars, writeVars, sockVars, timerVars>>

AppReloadRead(c) ==
    /\ app[c] = "reload_read"
    /\ StartInlineRead
    /\ app' = [app EXCEPT ![c] = "done"]
    /\ UNCHANGED <<ctxVars, io, coro, strand, arrived, writeVars, sockVars, expired>>

-----------------------------------------------------------------------------
(* Writes, closes and timeouts, each run by an idle io thread. *)

WriteStarts(t) ==
    /\ StrandIdle(t) /\ queued > 0 /\ ~sending
    /\ queued' = queued - 1 /\ sending' = TRUE
    /\ timer' = "armed"
    /\ UNCHANGED <<ctxVars, io, runVars, readVars, posted, sockVars, expired>>

WriteHandler(t) ==
    /\ StrandIdle(t) /\ sending /\ sock = "open"
    /\ sending' = FALSE
    /\ UNCHANGED <<ctxVars, io, runVars, readVars, queued, posted, sockVars, timerVars>>

(* The packages behind the failed one stay in queue_write for ever. *)
WriteHandlerError(t) ==
    /\ StrandIdle(t) /\ sending /\ sock # "open"
    /\ sending' = FALSE /\ queued' = 0
    /\ timer' = "idle"
    /\ closes' = closes + 1
    /\ UNCHANGED <<ctxVars, io, runVars, readVars, posted, sock, expired>>

CloseSocketImpl(t) ==
    /\ StrandIdle(t) /\ closes > 0
    /\ closes' = closes - 1 /\ sock' = "shutdown"
    /\ UNCHANGED <<ctxVars, io, runVars, readVars, writeVars, timerVars>>

(* A destroyed timer has no wait left to expire. *)
TimerExpires ==
    /\ timer = "armed" /\ HasRefs /\ expired + closes < MaxExpired
    /\ timer' = "idle" /\ expired' = expired + 1
    /\ UNCHANGED <<ctxVars, io, runVars, readVars, writeVars, sockVars>>

\* Mutant: the socket is not closed.
TimeoutHandlerKeepsOpen(t) ==
    /\ At(t, "idle") /\ expired > 0
    /\ expired' = expired - 1
    /\ state' = [state EXCEPT ![app_ctx] = {}]
    /\ UNCHANGED <<app_ctx, freed, io, runVars, readVars, writeVars, sockVars, timer>>

(* app_ctx->state = 0, close_socket(): the guard on HasRefs leaves out what
   the handler does with a destroyed Session. *)
TimeoutHandler(t) ==
    /\ At(t, "idle") /\ expired > 0
    /\ expired' = expired - 1
    /\ IF HasRefs
       THEN closes' = closes + 1 /\ state' = [state EXCEPT ![app_ctx] = {}]
       ELSE UNCHANGED <<closes, state>>
    /\ UNCHANGED <<app_ctx, freed, io, runVars, readVars, writeVars, sock, timer>>

PeerDrops ==
    /\ PeerFails /\ sock = "open" /\ sock' = "gone"
    /\ UNCHANGED <<ctxVars, io, runVars, readVars, writeVars, closes, timerVars>>

-----------------------------------------------------------------------------
ReadStep(t) ==
    \/ InlineReadError(t) \/ DecideBegin(t)
    \/ RequestRefused(t) \/ RunNoYield(t) \/ RunAsync(t) \/ RunThread(t)
    \/ Detach(t) \/ Recheck(t) \/ Reread(t)
HandlerStep(t) ==
    \/ HandlerEnd(t) \/ SpawnQueued(t) \/ SpawnInline(t)
    \/ CoroEnd(t) \/ IoReload(t) \/ IoReloadRead(t)
StrandTask(t) ==
    WriteStarts(t) \/ WriteHandler(t) \/ WriteHandlerError(t) \/ CloseSocketImpl(t)
AppStep(c) == AppEnd(c) \/ AppReload(c) \/ AppReloadRead(c)

Next ==
    \/ \E t \in IoThreads :
          \/ InlineReadHandler(t) \/ ReadStep(t) \/ RequestIncomplete(t)
          \/ HandlerWrite(t) \/ CoroWrite(t) \/ HandlerStep(t) \/ CoroResume(t)
          \/ StrandTask(t) \/ TimeoutHandler(t)
    \/ \E c \in Contexts : AppWrite(c) \/ AppStep(c) \/ CoroWriteDone(c)
    \/ TimerExpires \/ PeerDrops

Spec == Init /\ [][Next]_vars

(* io_service keeps running what is ready, middlewares return, the timer
   expires, and the peer reads what it is sent; it need not send anything. *)
Fairness ==
    /\ \A t \in IoThreads :
          /\ WF_vars(ReadStep(t)) /\ WF_vars(HandlerStep(t)) /\ WF_vars(CoroResume(t))
          /\ WF_vars(WriteStarts(t)) /\ WF_vars(WriteHandler(t) \/ WriteHandlerError(t))
          /\ WF_vars(CloseSocketImpl(t)) /\ WF_vars(TimeoutHandler(t))
    /\ \A c \in Contexts : WF_vars(AppStep(c)) /\ WF_vars(CoroWriteDone(c))
    /\ WF_vars(TimerExpires)

FairSpec == Spec /\ Fairness
-----------------------------------------------------------------------------
(* buffer_read has one user at a time: an outstanding inline read, or the
   io thread that parses what the last one read. *)
BufferReadExclusive ==
    inline_reads + Cardinality({t \in IoThreads : io[t].pc \in {"decide", "process"}}) <= 1

(* Middlewares of one connection never run concurrently, pipelined requests
   included: the next request is not even read before the last one ends. *)
HandlersSequential ==
    Cardinality({t \in IoThreads : io[t].pc = "handler"})
      + Cardinality({c \in Contexts : app[c] = "running"})
      + Cardinality({c \in Contexts : coro[c] \notin {"none", "done"}}) <= 1

(* While a request is parsed or its middlewares run, its context lives: none
   of the paths to reload_context destroys the context under a middleware. *)
MiddlewareContextIsAlive ==
    /\ \A t \in IoThreads :
          io[t].pc \in {"process", "handler", "spawn", "coro"} => io[t].ctx \notin freed
    /\ \A c \in Contexts :
          app[c] = "running" \/ coro[c] \in {"spawned", "running", "waiting", "ready"} =>
             c \notin freed

(* Nobody uses a context that reload_context has destroyed: neither the
   middlewares, nor the io thread that started them and then detaches the
   thread or reads the state of app_ctx once more. *)
ContextsInUseAreAlive ==
    /\ MiddlewareContextIsAlive
    /\ \A t \in IoThreads : io[t].pc \in {"detach", "reread"} => io[t].ctx \notin freed

(* A peer that falls silent is got rid of: the Session is released. *)
SilentPeerIsReleased == <>[]~HasRefs

Begins(c) ==
    app[c] # "none" \/ coro[c] # "none" \/ \E t \in IoThreads : At(t, "handler") /\ io[t].ctx = c

(* After a kept-alive request that reached its middlewares the next one is
   read, unless the connection fails or times out.  One that is refused, with
   FLAG_KEEPALIVE set or not, is the last: nobody reads on. *)
KeptAliveIsReadAgain ==
    \A c \in 1..(MaxCtx - 1) :
        "KEEPALIVE" \in state[c] /\ app_ctx = c /\ Begins(c) ~>
            (app_ctx > c /\ inline_reads > 0) \/ sock # "open"
=============================================================================
