---------------------------- MODULE SessionProofs ----------------------------
(***************************************************************************)
(* Theorems about Session when one thread runs io_service, the default of  *)
(* App::run: for routes of every mode, any number of contexts, requests,   *)
(* writes and timeouts, and every interleaving with the threads and the    *)
(* coroutines of the middlewares; and, for any number of io threads, when  *)
(* no request asks to be kept alive.                                       *)
(*                                                                         *)
(* With one io thread the argument is that a session has one turn, and     *)
(* somebody at most holds it: an outstanding inline read, the io thread    *)
(* while it handles one, or the thread or the coroutine of the current     *)
(* context.  With several, that whoever reads, parses or runs middlewares  *)
(* does so while the others are idle, once.                                *)
(***************************************************************************)
EXTENDS Session, FiniteSetTheorems, TLAPS

IoState == [pc : Pcs, ctx : Contexts, next : {"idle", "recheck"}]

Types ==
    /\ app_ctx \in Contexts /\ state \in [Contexts -> SUBSET Flags]
    /\ freed \subseteq Contexts
    /\ io \in [IoThreads -> IoState]
    /\ app \in [Contexts -> {"none", "running", "reload", "reload_read", "done"}]
    /\ coro \in [Contexts -> {"none", "spawned", "running", "waiting", "ready", "done"}]
    /\ inline_reads \in Nat

AppBusy(c) == app[c] \notin {"none", "done"}
CoroBusy(c) == coro[c] \notin {"none", "done"}
Wanted(c) == "WANT_READ" \in state[c]

(* The io thread has the turn from the handler of a read to the next read or
   to the middlewares it has started, and while it will ask for more. *)
IoHolds(t) ==
    \/ io[t].pc \in {"decide", "process", "handler", "reload", "reload_read"}
    \/ io[t].pc = "recheck" /\ Wanted(app_ctx)
    \/ io[t].pc = "reread" /\ Wanted(io[t].ctx)

OneTurn(t) ==
    /\ inline_reads \in {0, 1}
    /\ IoHolds(t) => inline_reads = 0
    /\ \A c \in Contexts : AppBusy(c) \/ CoroBusy(c) => inline_reads = 0 /\ ~IoHolds(t)
    /\ \A c, d \in Contexts : ~(AppBusy(c) /\ CoroBusy(d))
    /\ \A c, d \in Contexts : AppBusy(c) /\ AppBusy(d) => c = d

(* Who works on a context works on the current one. *)
CurrentContext(t) ==
    /\ io[t].pc \in {"process", "handler"} => io[t].ctx = app_ctx
    /\ io[t].pc \in {"spawn", "coro"} => CoroBusy(io[t].ctx)
    /\ \A c \in Contexts : CoroBusy(c) \/ app[c] \in {"running", "reload"} => c = app_ctx
    /\ \A c \in freed : c < app_ctx

(* What was not reached yet is as it was made, and the bound on contexts. *)
LaterContexts ==
    /\ \A c \in Contexts :
          c > app_ctx => state[c] = {} /\ app[c] = "none" /\ coro[c] = "none"
    /\ \A c \in Contexts : "KEEPALIVE" \in state[c] => c < MaxCtx

(* More is wanted between the handling of a read and that of the next one. *)
WantedBetweenReads(t) ==
    Wanted(app_ctx) =>
        /\ io[t].pc \in {"idle", "decide", "recheck", "reread"}
        /\ \A c \in Contexts : ~AppBusy(c) /\ ~CoroBusy(c)

IInv(t) ==
    /\ Types /\ OneTurn(t) /\ CurrentContext(t) /\ LaterContexts /\ WantedBetweenReads(t)
-----------------------------------------------------------------------------
(* The steps of the io thread *)

LEMMA Placed ==
    ASSUME Types, NEW t \in IoThreads, NEW w \in IoState, io' = [io EXCEPT ![t] = w]
    PROVE  io' \in [IoThreads -> IoState] /\ io'[t] = w
BY DEF Types

LEMMA Moved ==
    ASSUME Types, NEW t \in IoThreads, NEW pc \in Pcs, Go(t, pc)
    PROVE  /\ io' \in [IoThreads -> IoState]
           /\ io'[t].pc = pc /\ io'[t].ctx = io[t].ctx /\ io'[t].next = io[t].next
<1>1. io[t] \in IoState
  BY DEF Types
<1> DEFINE w == [io[t] EXCEPT !.pc = pc]
<1>2. w \in IoState /\ w.pc = pc /\ w.ctx = io[t].ctx /\ w.next = io[t].next
  BY <1>1 DEF IoState
<1>3. io' = [io EXCEPT ![t] = w]
  BY DEF Go
<1> HIDE DEF w
<1>4. io' \in [IoThreads -> IoState] /\ io'[t] = w
  BY <1>2, <1>3, Placed
<1> QED BY <1>2, <1>4

LEMMA MovedTo ==
    ASSUME Types, NEW t \in IoThreads, NEW pc \in Pcs, NEW c \in Contexts,
           NEW next \in {"idle", "recheck"},
           io' = [io EXCEPT ![t].pc = pc, ![t].ctx = c, ![t].next = next]
    PROVE  /\ io' \in [IoThreads -> IoState]
           /\ io'[t].pc = pc /\ io'[t].ctx = c /\ io'[t].next = next
<1>1. io[t] \in IoState
  BY DEF Types
<1> DEFINE w == [io[t] EXCEPT !.pc = pc, !.ctx = c, !.next = next]
<1>2. w \in IoState /\ w.pc = pc /\ w.ctx = c /\ w.next = next
  BY <1>1 DEF IoState
<1>3. io' = [io EXCEPT ![t] = w]
  BY DEF Types
<1> HIDE DEF w
<1>4. io' \in [IoThreads -> IoState] /\ io'[t] = w
  BY <1>2, <1>3, Placed
<1> QED BY <1>2, <1>4

LEMMA StutterIInv ==
    ASSUME NEW t \in IoThreads, IInv(t),
           UNCHANGED <<ctxVars, io, app, coro, inline_reads>>
    PROVE  IInv(t)'
<1>1. UNCHANGED <<app_ctx, state, freed, io, app, coro, inline_reads>>
  BY DEF ctxVars
<1>2. Types' /\ LaterContexts'
  BY <1>1 DEF IInv, Types, LaterContexts
<1>3. OneTurn(t)'
  BY <1>1 DEF IInv, OneTurn, IoHolds, AppBusy, CoroBusy, Wanted
<1>4. CurrentContext(t)' /\ WantedBetweenReads(t)'
  BY <1>1 DEF IInv, CurrentContext, WantedBetweenReads, AppBusy, CoroBusy, Wanted
<1> QED BY <1>2, <1>3, <1>4 DEF IInv

LEMMA InlineReadHandlerIInv ==
    ASSUME NEW t \in IoThreads, IInv(t), InlineReadHandler(t)
    PROVE  IInv(t)'
<1>1. /\ io' \in [IoThreads -> IoState] /\ io'[t].pc = "decide"
      /\ io'[t].ctx = io[t].ctx /\ io'[t].next = io[t].next
  BY Moved DEF InlineReadHandler, IInv, Pcs
<1>2. /\ inline_reads' = inline_reads - 1 /\ inline_reads > 0
      /\ UNCHANGED <<app_ctx, state, freed, app, coro>>
  BY DEF InlineReadHandler, ctxVars, runVars
<1>3. inline_reads = 1 /\ inline_reads' = 0 /\ \A c \in Contexts : ~AppBusy(c) /\ ~CoroBusy(c)
  BY <1>2 DEF IInv, OneTurn
<1>4. Types' /\ LaterContexts'
  BY <1>1, <1>2, <1>3 DEF IInv, Types, LaterContexts
<1>5. OneTurn(t)'
  BY <1>2, <1>3 DEF OneTurn, AppBusy, CoroBusy
<1>6. CurrentContext(t)' /\ WantedBetweenReads(t)'
  BY <1>1, <1>2, <1>3
  DEF IInv, CurrentContext, WantedBetweenReads, AppBusy, CoroBusy, Wanted
<1> QED BY <1>4, <1>5, <1>6 DEF IInv

LEMMA InlineReadErrorIInv ==
    ASSUME NEW t \in IoThreads, IInv(t), InlineReadError(t)
    PROVE  IInv(t)'
<1>1. /\ inline_reads' = inline_reads - 1 /\ inline_reads > 0
      /\ UNCHANGED <<app_ctx, state, freed, io, app, coro>>
  BY DEF InlineReadError, ctxVars, runVars
<1>2. inline_reads = 1 /\ inline_reads' = 0
  BY <1>1 DEF IInv, OneTurn
<1>3. Types' /\ LaterContexts'
  BY <1>1, <1>2 DEF IInv, Types, LaterContexts
<1>4. OneTurn(t)'
  BY <1>1, <1>2 DEF IInv, OneTurn, IoHolds, AppBusy, CoroBusy, Wanted
<1>5. CurrentContext(t)' /\ WantedBetweenReads(t)'
  BY <1>1 DEF IInv, CurrentContext, WantedBetweenReads, AppBusy, CoroBusy, Wanted
<1> QED BY <1>3, <1>4, <1>5 DEF IInv

(* The flags of one context change, and nothing else of a context. *)
LEMMA Flagged ==
    ASSUME Types, NEW c \in Contexts, NEW flags \in SUBSET Flags,
           state' = [state EXCEPT ![c] = flags]
    PROVE  /\ state' \in [Contexts -> SUBSET Flags] /\ state'[c] = flags
           /\ \A d \in Contexts : d # c => state'[d] = state[d]
BY DEF Types

LEMMA DecideBeginIInv ==
    ASSUME NEW t \in IoThreads, IInv(t), DecideBegin(t)
    PROVE  IInv(t)'
<1>1. app_ctx \in Contexts /\ io[t].pc = "decide"
  BY DEF DecideBegin, At, IInv, Types
<1>2. /\ io' \in [IoThreads -> IoState] /\ io'[t].pc = "process"
      /\ io'[t].ctx = app_ctx /\ io'[t].next = "recheck"
  <2>1. io[t] \in IoState
    BY DEF IInv, Types
  <2> DEFINE w == [io[t] EXCEPT !.pc = "process", !.ctx = app_ctx, !.next = "recheck"]
  <2>2. w \in IoState /\ w.pc = "process" /\ w.ctx = app_ctx /\ w.next = "recheck"
    BY <1>1, <2>1 DEF IoState, Pcs
  <2>3. io' = [io EXCEPT ![t] = w]
    BY DEF DecideBegin, IInv, Types
  <2> HIDE DEF w
  <2>4. io' \in [IoThreads -> IoState] /\ io'[t] = w
    BY <2>2, <2>3, Placed DEF IInv
  <2> QED BY <2>2, <2>4
<1>3. /\ state' \in [Contexts -> SUBSET Flags]
      /\ state'[app_ctx] = state[app_ctx] \ {"WANT_READ"}
      /\ \A d \in Contexts : d # app_ctx => state'[d] = state[d]
  <2>1. state[app_ctx] \ {"WANT_READ"} \in SUBSET Flags
    BY <1>1 DEF IInv, Types
  <2> QED BY <1>1, <2>1, Flagged DEF DecideBegin, DelFlag, IInv
<1>4. UNCHANGED <<app_ctx, freed, app, coro, inline_reads>>
  BY DEF DecideBegin, runVars, readVars
<1>5. IoHolds(t) /\ inline_reads = 0 /\ \A c \in Contexts : ~AppBusy(c) /\ ~CoroBusy(c)
  BY <1>1 DEF IInv, OneTurn, IoHolds
<1>6. Types'
  BY <1>2, <1>3, <1>4 DEF IInv, Types
<1>7. LaterContexts'
  <2>1. ASSUME NEW c \in Contexts, c > app_ctx
        PROVE  state'[c] = {} /\ app[c] = "none" /\ coro[c] = "none"
    BY <1>1, <1>3, <2>1 DEF IInv, LaterContexts, Contexts
  <2>2. ASSUME NEW c \in Contexts, "KEEPALIVE" \in state'[c] PROVE c < MaxCtx
    BY <1>3, <2>2 DEF IInv, LaterContexts
  <2> QED BY <1>4, <2>1, <2>2 DEF LaterContexts
<1>8. OneTurn(t)'
  BY <1>4, <1>5 DEF OneTurn, AppBusy, CoroBusy
<1>9. CurrentContext(t)' /\ WantedBetweenReads(t)'
  BY <1>2, <1>3, <1>4, <1>5
  DEF IInv, CurrentContext, WantedBetweenReads, AppBusy, CoroBusy, Wanted
<1> QED BY <1>6, <1>7, <1>8, <1>9 DEF IInv

LEMMA LaterAsMade ==
    ASSUME Types, LaterContexts, UNCHANGED app_ctx,
           \A d \in Contexts : d > app_ctx =>
               state'[d] = state[d] /\ app'[d] = app[d] /\ coro'[d] = coro[d],
           \A d \in Contexts : "KEEPALIVE" \in state'[d] =>
               "KEEPALIVE" \in state[d] \/ d < MaxCtx
    PROVE  LaterContexts'
BY DEF LaterContexts

(* The io thread goes on and nobody else's turn changes. *)
LEMMA GoesOnIInv ==
    ASSUME NEW t \in IoThreads, IInv(t), NEW pc \in {"recheck", "reload"}, Go(t, pc),
           UNCHANGED <<ctxVars, app, coro, inline_reads>>,
           ~Wanted(app_ctx), pc = "reload" => IoHolds(t)
    PROVE  IInv(t)'
<1>1. /\ io' \in [IoThreads -> IoState] /\ io'[t].pc = pc
      /\ io'[t].ctx = io[t].ctx /\ io'[t].next = io[t].next
  BY Moved DEF IInv, Pcs
<1>2. UNCHANGED <<app_ctx, state, freed, app, coro, inline_reads>>
  BY DEF ctxVars
<1>3. Types' /\ LaterContexts'
  BY <1>1, <1>2 DEF IInv, Types, LaterContexts
<1>4. IoHolds(t)' => IoHolds(t)
  BY <1>1, <1>2 DEF IoHolds, Wanted
<1>5. OneTurn(t)'
  BY <1>2, <1>4 DEF IInv, OneTurn, AppBusy, CoroBusy
<1>6. CurrentContext(t)' /\ WantedBetweenReads(t)'
  BY <1>1, <1>2 DEF IInv, CurrentContext, WantedBetweenReads, AppBusy, CoroBusy, Wanted
<1> QED BY <1>3, <1>5, <1>6 DEF IInv

LEMMA IoMovesIInv ==
    ASSUME NEW t \in IoThreads, IInv(t),
           Detach(t) \/ HandlerEnd(t)
    PROVE  IInv(t)'
<1>1. ~Wanted(app_ctx)
  BY DEF Detach, HandlerEnd, At, IInv, WantedBetweenReads
<1>2. UNCHANGED <<ctxVars, app, coro, inline_reads>>
  BY DEF Detach, HandlerEnd, runVars, readVars
<1>3. Go(t, "recheck") \/ (Go(t, "reload") /\ IoHolds(t))
  BY DEF Detach, HandlerEnd, At, IoHolds
<1>4. CASE Go(t, "recheck")
  BY <1>1, <1>2, <1>4, GoesOnIInv
<1>5. CASE Go(t, "reload") /\ IoHolds(t)
  BY <1>1, <1>2, <1>5, GoesOnIInv
<1> QED BY <1>3, <1>4, <1>5

(* The headers of a request and its outcome add flags to its context. *)
LEMMA RequestFlags ==
    ASSUME NEW t \in IoThreads, IInv(t), io[t].pc = "process",
           NEW more \in SUBSET {"THREAD_RUNNING", "WANT_READ"}, AddFlags(io[t].ctx, more)
    PROVE  /\ state' \in [Contexts -> SUBSET Flags]
           /\ \A d \in Contexts : d # app_ctx => state'[d] = state[d]
           /\ \A d \in Contexts : "KEEPALIVE" \in state'[d] =>
                  "KEEPALIVE" \in state[d] \/ d < MaxCtx
           /\ "WANT_READ" \in state'[app_ctx] => "WANT_READ" \in more
<1>1. io[t].ctx = app_ctx /\ app_ctx \in Contexts
  BY DEF IInv, Types, CurrentContext
<1>2. "WANT_READ" \notin state[app_ctx] /\ state[app_ctx] \in SUBSET Flags
  BY <1>1 DEF IInv, Types, WantedBetweenReads, Wanted
<1>3. PICK asked \in Asks(app_ctx) : state' = [state EXCEPT ![app_ctx] = @ \cup more \cup asked]
  BY <1>1 DEF AddFlags
<1>4. asked \subseteq {"KEEPALIVE"} /\ ("KEEPALIVE" \in asked => app_ctx < MaxCtx)
  BY <1>3 DEF Asks
<1> DEFINE flags == state[app_ctx] \cup more \cup asked
<1>5. /\ flags \in SUBSET Flags /\ ("WANT_READ" \in flags => "WANT_READ" \in more)
      /\ "KEEPALIVE" \in flags => "KEEPALIVE" \in state[app_ctx] \/ app_ctx < MaxCtx
  BY <1>2, <1>4 DEF Flags
<1>6. state' = [state EXCEPT ![app_ctx] = flags]
  BY <1>3
<1> HIDE DEF flags
<1>7. /\ state' \in [Contexts -> SUBSET Flags] /\ state'[app_ctx] = flags
      /\ \A d \in Contexts : d # app_ctx => state'[d] = state[d]
  BY <1>1, <1>5, <1>6, Flagged DEF IInv
<1> QED BY <1>1, <1>5, <1>7

LEMMA RequestRefusedIInv ==
    ASSUME NEW t \in IoThreads, IInv(t), RequestRefused(t)
    PROVE  IInv(t)'
<1>1. io[t].pc = "process" /\ io[t].ctx = app_ctx /\ app_ctx \in Contexts
  BY DEF RequestRefused, At, IInv, Types, CurrentContext
<1>2. /\ io' \in [IoThreads -> IoState] /\ io'[t].pc = "recheck"
      /\ io'[t].ctx = io[t].ctx /\ io'[t].next = io[t].next
  BY Moved DEF RequestRefused, IInv, Pcs
<1>3. /\ state' \in [Contexts -> SUBSET Flags]
      /\ \A d \in Contexts : d # app_ctx => state'[d] = state[d]
      /\ \A d \in Contexts : "KEEPALIVE" \in state'[d] =>
             "KEEPALIVE" \in state[d] \/ d < MaxCtx
      /\ "WANT_READ" \notin state'[app_ctx]
  <2>1. CASE UNCHANGED state
    BY <1>1, <2>1 DEF IInv, Types, WantedBetweenReads, Wanted
  <2>2. CASE AddFlags(io[t].ctx, {})
    <3> DEFINE more == {}
    <3>1. AddFlags(io[t].ctx, more) /\ "WANT_READ" \notin more
          /\ more \in SUBSET {"THREAD_RUNNING", "WANT_READ"}
      BY <2>2
    <3> HIDE DEF more
    <3> QED BY <1>1, <3>1, RequestFlags
  <2> QED BY <2>1, <2>2 DEF RequestRefused
<1>4. UNCHANGED <<app_ctx, freed, app, coro, inline_reads>>
  BY DEF RequestRefused, runVars, readVars
<1>5. IoHolds(t) /\ inline_reads = 0 /\ \A c \in Contexts : ~AppBusy(c) /\ ~CoroBusy(c)
  BY <1>1 DEF IInv, OneTurn, IoHolds
<1>6. Types' /\ LaterContexts'
  BY <1>1, <1>2, <1>3, <1>4, LaterAsMade DEF IInv, Types, Contexts
<1>7. OneTurn(t)'
  BY <1>4, <1>5 DEF OneTurn, AppBusy, CoroBusy
<1>8. CurrentContext(t)' /\ WantedBetweenReads(t)'
  BY <1>1, <1>2, <1>3, <1>4, <1>5
  DEF IInv, CurrentContext, WantedBetweenReads, AppBusy, CoroBusy, Wanted
<1> QED BY <1>6, <1>7, <1>8 DEF IInv

LEMMA RequestIncompleteIInv ==
    ASSUME NEW t \in IoThreads, IInv(t), RequestIncomplete(t)
    PROVE  IInv(t)'
<1>1. io[t].pc = "process" /\ io[t].ctx = app_ctx /\ app_ctx \in Contexts
  BY DEF RequestIncomplete, At, IInv, Types, CurrentContext
<1>2. /\ io' \in [IoThreads -> IoState] /\ io'[t].pc = "recheck"
      /\ io'[t].ctx = io[t].ctx /\ io'[t].next = io[t].next
  BY Moved DEF RequestIncomplete, IInv, Pcs
<1>3. /\ state' \in [Contexts -> SUBSET Flags]
      /\ \A d \in Contexts : d # app_ctx => state'[d] = state[d]
      /\ \A d \in Contexts : "KEEPALIVE" \in state'[d] =>
             "KEEPALIVE" \in state[d] \/ d < MaxCtx
  <2> DEFINE more == {"WANT_READ"}
  <2>1. AddFlags(io[t].ctx, more) /\ more \in SUBSET {"THREAD_RUNNING", "WANT_READ"}
    BY DEF RequestIncomplete
  <2> HIDE DEF more
  <2> QED BY <1>1, <2>1, RequestFlags
<1>4. UNCHANGED <<app_ctx, freed, app, coro, inline_reads>>
  BY DEF RequestIncomplete, runVars, readVars
<1>5. IoHolds(t) /\ inline_reads = 0 /\ \A c \in Contexts : ~AppBusy(c) /\ ~CoroBusy(c)
  BY <1>1 DEF IInv, OneTurn, IoHolds
<1>6. Types'
  BY <1>2, <1>3, <1>4 DEF IInv, Types
<1>7. LaterContexts'
  BY <1>1, <1>3, <1>4, LaterAsMade DEF IInv, Contexts
<1>8. OneTurn(t)'
  BY <1>4, <1>5 DEF OneTurn, AppBusy, CoroBusy
<1>9. CurrentContext(t)' /\ WantedBetweenReads(t)'
  BY <1>2, <1>4, <1>5 DEF IInv, CurrentContext, WantedBetweenReads, AppBusy, CoroBusy
<1> QED BY <1>6, <1>7, <1>8, <1>9 DEF IInv

LEMMA RunNoYieldIInv ==
    ASSUME NEW t \in IoThreads, IInv(t), RunNoYield(t)
    PROVE  IInv(t)'
<1>1. io[t].pc = "process" /\ io[t].ctx = app_ctx /\ app_ctx \in Contexts
  BY DEF RunNoYield, At, IInv, Types, CurrentContext
<1>2. /\ io' \in [IoThreads -> IoState] /\ io'[t].pc = "handler"
      /\ io'[t].ctx = io[t].ctx /\ io'[t].next = io[t].next
  BY Moved DEF RunNoYield, IInv, Pcs
<1>3. /\ state' \in [Contexts -> SUBSET Flags]
      /\ \A d \in Contexts : d # app_ctx => state'[d] = state[d]
      /\ \A d \in Contexts : "KEEPALIVE" \in state'[d] =>
             "KEEPALIVE" \in state[d] \/ d < MaxCtx
      /\ "WANT_READ" \notin state'[app_ctx]
  <2> DEFINE more == {}
  <2>1. AddFlags(io[t].ctx, more)
    BY DEF RunNoYield
  <2>2. more \in SUBSET {"THREAD_RUNNING", "WANT_READ"} /\ "WANT_READ" \notin more
    OBVIOUS
  <2> HIDE DEF more
  <2> QED BY <1>1, <2>1, <2>2, RequestFlags
<1>4. UNCHANGED <<app_ctx, freed, app, coro, inline_reads>>
  BY DEF RunNoYield, runVars, readVars
<1>5. IoHolds(t) /\ inline_reads = 0 /\ \A c \in Contexts : ~AppBusy(c) /\ ~CoroBusy(c)
  BY <1>1 DEF IInv, OneTurn, IoHolds
<1>6. Types' /\ LaterContexts'
  BY <1>1, <1>2, <1>3, <1>4, LaterAsMade DEF IInv, Types, Contexts
<1>7. OneTurn(t)'
  BY <1>4, <1>5 DEF OneTurn, AppBusy, CoroBusy
<1>8. CurrentContext(t)' /\ WantedBetweenReads(t)'
  BY <1>1, <1>2, <1>3, <1>4, <1>5
  DEF IInv, CurrentContext, WantedBetweenReads, AppBusy, CoroBusy, Wanted
<1> QED BY <1>6, <1>7, <1>8 DEF IInv
(* The thread or the coroutine of one context moves. *)
AppStates == {"none", "running", "reload", "reload_read", "done"}
CoroStates == {"none", "spawned", "running", "waiting", "ready", "done"}

LEMMA AppMoved ==
    ASSUME Types, NEW c \in Contexts, NEW v \in AppStates, app' = [app EXCEPT ![c] = v]
    PROVE  /\ app' \in [Contexts -> AppStates] /\ app'[c] = v
           /\ \A d \in Contexts : d # c => app'[d] = app[d]
BY DEF Types, AppStates

LEMMA CoroMoved ==
    ASSUME Types, NEW c \in Contexts, NEW v \in CoroStates, coro' = [coro EXCEPT ![c] = v]
    PROVE  /\ coro' \in [Contexts -> CoroStates] /\ coro'[c] = v
           /\ \A d \in Contexts : d # c => coro'[d] = coro[d]
BY DEF Types, CoroStates

LEMMA RunAsyncIInv ==
    ASSUME NEW t \in IoThreads, IInv(t), RunAsync(t)
    PROVE  IInv(t)'
<1>1. io[t].pc = "process" /\ io[t].ctx = app_ctx /\ app_ctx \in Contexts
  BY DEF RunAsync, At, IInv, Types, CurrentContext
<1>2. /\ io' \in [IoThreads -> IoState] /\ io'[t].pc = "spawn"
      /\ io'[t].ctx = io[t].ctx /\ io'[t].next = io[t].next
  BY Moved DEF RunAsync, IInv, Pcs
<1>3. /\ state' \in [Contexts -> SUBSET Flags]
      /\ \A d \in Contexts : d # app_ctx => state'[d] = state[d]
      /\ \A d \in Contexts : "KEEPALIVE" \in state'[d] =>
             "KEEPALIVE" \in state[d] \/ d < MaxCtx
      /\ "WANT_READ" \notin state'[app_ctx]
  <2> DEFINE more == {}
  <2>1. AddFlags(io[t].ctx, more)
    BY DEF RunAsync
  <2>2. more \in SUBSET {"THREAD_RUNNING", "WANT_READ"} /\ "WANT_READ" \notin more
    OBVIOUS
  <2> HIDE DEF more
  <2> QED BY <1>1, <2>1, <2>2, RequestFlags
<1>4. /\ coro' \in [Contexts -> CoroStates] /\ coro'[app_ctx] = "spawned"
      /\ \A d \in Contexts : d # app_ctx => coro'[d] = coro[d]
  BY <1>1, CoroMoved DEF RunAsync, IInv, CoroStates
<1>5. UNCHANGED <<app_ctx, freed, app, inline_reads>>
  BY DEF RunAsync, readVars
<1>6. IoHolds(t) /\ inline_reads = 0 /\ \A c \in Contexts : ~AppBusy(c) /\ ~CoroBusy(c)
  BY <1>1 DEF IInv, OneTurn, IoHolds
<1>7. Types' /\ LaterContexts'
  BY <1>1, <1>2, <1>3, <1>4, <1>5, LaterAsMade DEF IInv, Types, Contexts, CoroStates
<1>8. OneTurn(t)'
  BY <1>2, <1>5, <1>6 DEF OneTurn, IoHolds, AppBusy, CoroBusy
<1>9. CurrentContext(t)' /\ WantedBetweenReads(t)'
  BY <1>1, <1>2, <1>3, <1>4, <1>5, <1>6
  DEF IInv, CurrentContext, WantedBetweenReads, AppBusy, CoroBusy, Wanted
<1> QED BY <1>7, <1>8, <1>9 DEF IInv

LEMMA RunThreadIInv ==
    ASSUME NEW t \in IoThreads, IInv(t), RunThread(t)
    PROVE  IInv(t)'
<1>1. io[t].pc = "process" /\ io[t].ctx = app_ctx /\ app_ctx \in Contexts
  BY DEF RunThread, At, IInv, Types, CurrentContext
<1>2. /\ io' \in [IoThreads -> IoState] /\ io'[t].pc = "detach"
      /\ io'[t].ctx = io[t].ctx /\ io'[t].next = io[t].next
  BY Moved DEF RunThread, IInv, Pcs
<1>3. /\ state' \in [Contexts -> SUBSET Flags]
      /\ \A d \in Contexts : d # app_ctx => state'[d] = state[d]
      /\ \A d \in Contexts : "KEEPALIVE" \in state'[d] =>
             "KEEPALIVE" \in state[d] \/ d < MaxCtx
      /\ "WANT_READ" \notin state'[app_ctx]
  <2> DEFINE more == {"THREAD_RUNNING"}
  <2>1. AddFlags(io[t].ctx, more)
    BY DEF RunThread
  <2>2. more \in SUBSET {"THREAD_RUNNING", "WANT_READ"} /\ "WANT_READ" \notin more
    OBVIOUS
  <2> HIDE DEF more
  <2> QED BY <1>1, <2>1, <2>2, RequestFlags
<1>4. /\ app' \in [Contexts -> AppStates] /\ app'[app_ctx] = "running"
      /\ \A d \in Contexts : d # app_ctx => app'[d] = app[d]
  BY <1>1, AppMoved DEF RunThread, IInv, AppStates
<1>5. UNCHANGED <<app_ctx, freed, coro, inline_reads>>
  BY DEF RunThread, readVars
<1>6. IoHolds(t) /\ inline_reads = 0 /\ \A c \in Contexts : ~AppBusy(c) /\ ~CoroBusy(c)
  BY <1>1 DEF IInv, OneTurn, IoHolds
<1>7. Types' /\ LaterContexts'
  BY <1>1, <1>2, <1>3, <1>4, <1>5, LaterAsMade DEF IInv, Types, Contexts, AppStates
<1>8. OneTurn(t)'
  BY <1>2, <1>4, <1>5, <1>6 DEF OneTurn, IoHolds, AppBusy, CoroBusy
<1>9. CurrentContext(t)' /\ WantedBetweenReads(t)'
  BY <1>1, <1>2, <1>3, <1>4, <1>5, <1>6
  DEF IInv, CurrentContext, WantedBetweenReads, AppBusy, CoroBusy, Wanted
<1> QED BY <1>7, <1>8, <1>9 DEF IInv

LEMMA RecheckIInv ==
    ASSUME NEW t \in IoThreads, IInv(t), Recheck(t)
    PROVE  IInv(t)'
<1>1. io[t].pc = "recheck" /\ app_ctx \in Contexts
  BY DEF Recheck, At, IInv, Types
<1>2. /\ io' \in [IoThreads -> IoState] /\ io'[t].pc = "reread"
      /\ io'[t].ctx = app_ctx /\ io'[t].next = "idle"
  BY <1>1, MovedTo DEF Recheck, IInv, Pcs
<1>3. UNCHANGED <<app_ctx, state, freed, app, coro, inline_reads>>
  BY DEF Recheck, ctxVars, runVars, readVars
<1>4. IoHolds(t)' => IoHolds(t)
  BY <1>1, <1>2, <1>3 DEF IoHolds, Wanted
<1>5. Types' /\ LaterContexts'
  BY <1>2, <1>3 DEF IInv, Types, LaterContexts
<1>6. OneTurn(t)'
  BY <1>3, <1>4 DEF IInv, OneTurn, AppBusy, CoroBusy
<1>7. CurrentContext(t)' /\ WantedBetweenReads(t)'
  BY <1>2, <1>3 DEF IInv, CurrentContext, WantedBetweenReads, AppBusy, CoroBusy, Wanted
<1> QED BY <1>5, <1>6, <1>7 DEF IInv

LEMMA RereadIInv ==
    ASSUME NEW t \in IoThreads, IInv(t), Reread(t)
    PROVE  IInv(t)'
<1>1. io[t].pc = "reread"
  BY DEF Reread, At
<1>2. /\ io' \in [IoThreads -> IoState] /\ io'[t].pc = "idle"
      /\ io'[t].ctx = io[t].ctx /\ io'[t].next = io[t].next
  BY Moved DEF Reread, IInv, Pcs
<1>3. UNCHANGED <<app_ctx, state, freed, app, coro>>
  BY DEF Reread, ctxVars, runVars
<1>4. \/ Wanted(io[t].ctx) /\ inline_reads' = inline_reads + 1
      \/ inline_reads' = inline_reads
  BY DEF Reread, StartInlineRead, Wanted
<1>5. ~IoHolds(t)'
  BY <1>2 DEF IoHolds
<1>6. OneTurn(t)'
  <2>1. CASE inline_reads' = inline_reads
    BY <1>3, <1>5, <2>1 DEF IInv, OneTurn, AppBusy, CoroBusy
  <2>2. CASE Wanted(io[t].ctx) /\ inline_reads' = inline_reads + 1
    <3>1. IoHolds(t)
      BY <1>1, <2>2 DEF IoHolds
    <3>2. inline_reads' = 1 /\ \A c \in Contexts : ~AppBusy(c) /\ ~CoroBusy(c)
      BY <2>2, <3>1 DEF IInv, OneTurn
    <3> QED BY <1>3, <1>5, <3>2 DEF OneTurn, AppBusy, CoroBusy
  <2> QED BY <1>4, <2>1, <2>2
<1>7. Types' /\ LaterContexts'
  BY <1>2, <1>3, <1>4 DEF IInv, Types, LaterContexts
<1>8. CurrentContext(t)' /\ WantedBetweenReads(t)'
  BY <1>2, <1>3 DEF IInv, CurrentContext, WantedBetweenReads, AppBusy, CoroBusy, Wanted
<1> QED BY <1>6, <1>7, <1>8 DEF IInv
-----------------------------------------------------------------------------
(* The steps of the coroutine *)

LEMMA CoroEnterIInv ==
    ASSUME NEW t \in IoThreads, IInv(t), NEW c \in Contexts, CoroBusy(c),
           NEW next \in {"idle", "recheck"}, io[t].pc \in {"idle", "spawn"},
           CoroEnter(t, c, next)
    PROVE  IInv(t)'
<1>1. c = app_ctx /\ app_ctx \in Contexts /\ ~Wanted(app_ctx)
  BY DEF IInv, Types, CurrentContext, WantedBetweenReads
<1>2. /\ io' \in [IoThreads -> IoState]
      /\ io'[t].pc = "coro" /\ io'[t].ctx = c /\ io'[t].next = next
  <2> DEFINE w == [pc |-> "coro", ctx |-> c, next |-> next]
  <2>1. w \in IoState /\ w.pc = "coro" /\ w.ctx = c /\ w.next = next
    BY DEF IoState, Pcs
  <2>2. io' = [io EXCEPT ![t] = w]
    BY DEF CoroEnter
  <2> HIDE DEF w
  <2>3. io' \in [IoThreads -> IoState] /\ io'[t] = w
    BY <2>1, <2>2, Placed DEF IInv
  <2> QED BY <2>1, <2>3
<1>3. /\ state' \in [Contexts -> SUBSET Flags]
      /\ state'[app_ctx] = state[app_ctx] \cup {"THREAD_RUNNING"}
      /\ \A d \in Contexts : d # app_ctx => state'[d] = state[d]
  <2>1. state[app_ctx] \cup {"THREAD_RUNNING"} \in SUBSET Flags
    BY <1>1 DEF IInv, Types, Flags
  <2>2. state' = [state EXCEPT ![app_ctx] = state[app_ctx] \cup {"THREAD_RUNNING"}]
    BY <1>1 DEF CoroEnter, AddFlag
  <2> QED BY <1>1, <2>1, <2>2, Flagged DEF IInv
<1>4. /\ coro' \in [Contexts -> CoroStates] /\ coro'[c] = "running"
      /\ \A d \in Contexts : d # c => coro'[d] = coro[d]
  BY CoroMoved DEF CoroEnter, IInv, CoroStates
<1>5. UNCHANGED <<app_ctx, freed, app, inline_reads>>
  BY DEF CoroEnter, readVars
<1>6. Types' /\ LaterContexts'
  BY <1>1, <1>2, <1>3, <1>4, <1>5, LaterAsMade DEF IInv, Types, Contexts, CoroStates
<1>7. ~IoHolds(t)' /\ ~Wanted(app_ctx)'
  BY <1>1, <1>2, <1>3, <1>5 DEF IoHolds, Wanted
<1>8. \A d \in Contexts : CoroBusy(d)' <=> CoroBusy(d)
  BY <1>4 DEF CoroBusy
<1>9. OneTurn(t)'
  BY <1>5, <1>7, <1>8 DEF IInv, OneTurn, AppBusy
<1>10. CurrentContext(t)'
  BY <1>2, <1>5, <1>8 DEF IInv, CurrentContext
<1>11. WantedBetweenReads(t)'
  BY <1>7 DEF WantedBetweenReads
<1> QED BY <1>6, <1>9, <1>10, <1>11 DEF IInv

LEMMA CoroRunsIInv ==
    ASSUME NEW t \in IoThreads, IInv(t), SpawnInline(t) \/ CoroResume(t)
    PROVE  IInv(t)'
<1>1. CASE SpawnInline(t)
  <2>1. io[t].pc = "spawn" /\ io[t].ctx \in Contexts /\ CoroBusy(io[t].ctx)
    BY <1>1 DEF SpawnInline, At, IInv, Types, IoState, CurrentContext
  <2> QED BY <1>1, <2>1, CoroEnterIInv DEF SpawnInline
<1>2. CASE CoroResume(t)
  <2>1. io[t].pc = "idle"
    BY <1>2 DEF CoroResume, At
  <2>2. PICK c \in Contexts : coro[c] = "ready" /\ CoroEnter(t, c, "idle")
    BY <1>2 DEF CoroResume
  <2> QED BY <2>1, <2>2, CoroEnterIInv DEF CoroBusy
<1> QED BY <1>1, <1>2

LEMMA CoroWriteIInv ==
    ASSUME NEW t \in IoThreads, IInv(t), CoroWrite(t)
    PROVE  IInv(t)'
<1>1. /\ io[t].pc = "coro" /\ io[t].ctx \in Contexts /\ CoroBusy(io[t].ctx)
      /\ io[t].next \in {"idle", "recheck"}
  BY DEF CoroWrite, At, IInv, Types, IoState, CurrentContext
<1>2. ~Wanted(app_ctx)
  BY <1>1 DEF IInv, WantedBetweenReads
<1>3. /\ io' \in [IoThreads -> IoState] /\ io'[t].pc \in {"idle", "recheck"}
      /\ io'[t].ctx = io[t].ctx /\ io'[t].next = io[t].next
  <2>1. io[t].next \in Pcs /\ Go(t, io[t].next)
    BY <1>1 DEF CoroWrite, Leave, Go, Pcs
  <2> QED BY <1>1, <2>1, Moved DEF IInv
<1>4. /\ coro' \in [Contexts -> CoroStates] /\ coro'[io[t].ctx] = "waiting"
      /\ \A d \in Contexts : d # io[t].ctx => coro'[d] = coro[d]
  BY <1>1, CoroMoved DEF CoroWrite, IInv, CoroStates
<1>5. UNCHANGED <<app_ctx, state, freed, app, inline_reads>>
  BY DEF CoroWrite, ctxVars, readVars
<1>6. \A d \in Contexts : CoroBusy(d)' <=> CoroBusy(d)
  BY <1>1, <1>4 DEF CoroBusy
<1>7. ~Wanted(app_ctx)' /\ (IoHolds(t)' => io'[t].pc = "reread")
  BY <1>2, <1>3, <1>5 DEF IoHolds, Wanted
<1>8. Types'
  BY <1>3, <1>4, <1>5 DEF IInv, Types, CoroStates
<1>9. \A d \in Contexts : d > app_ctx => coro'[d] = coro[d]
  BY <1>1, <1>4 DEF IInv, Types, CurrentContext, Contexts
<1>10. LaterContexts'
  BY <1>5, <1>9 DEF IInv, LaterContexts
<1>11. OneTurn(t)'
  BY <1>3, <1>5, <1>6, <1>7 DEF IInv, OneTurn, AppBusy
<1>12. CurrentContext(t)'
  BY <1>3, <1>5, <1>6 DEF IInv, CurrentContext
<1>13. WantedBetweenReads(t)'
  BY <1>7 DEF WantedBetweenReads
<1> QED BY <1>8, <1>10, <1>11, <1>12, <1>13 DEF IInv

LEMMA CoroWriteDoneIInv ==
    ASSUME NEW t \in IoThreads, IInv(t), NEW c \in Contexts, CoroWriteDone(c)
    PROVE  IInv(t)'
<1>1. /\ coro' \in [Contexts -> CoroStates] /\ coro'[c] = "ready"
      /\ \A d \in Contexts : d # c => coro'[d] = coro[d]
  BY CoroMoved DEF CoroWriteDone, IInv, CoroStates
<1>2. UNCHANGED <<app_ctx, state, freed, io, app, inline_reads>>
  BY DEF CoroWriteDone, ctxVars, readVars
<1>3. CoroBusy(c) /\ \A d \in Contexts : CoroBusy(d)' <=> CoroBusy(d)
  BY <1>1 DEF CoroBusy, CoroWriteDone
<1>4. Types'
  BY <1>1, <1>2 DEF IInv, Types, CoroStates
<1>5. \A d \in Contexts : d > app_ctx => coro'[d] = coro[d]
  BY <1>1, <1>3 DEF IInv, Types, CurrentContext, Contexts
<1>6. LaterContexts'
  BY <1>2, <1>5 DEF IInv, LaterContexts
<1>7. OneTurn(t)'
  BY <1>2, <1>3 DEF IInv, OneTurn, IoHolds, AppBusy, Wanted
<1>8. io[t].ctx \in Contexts
  BY DEF IInv, Types, IoState
<1>9. CurrentContext(t)' /\ WantedBetweenReads(t)'
  BY <1>2, <1>3, <1>8 DEF IInv, CurrentContext, WantedBetweenReads, AppBusy, Wanted
<1> QED BY <1>4, <1>6, <1>7, <1>9 DEF IInv

LEMMA SpawnQueuedIInv ==
    ASSUME NEW t \in IoThreads, IInv(t), SpawnQueued(t)
    PROVE  IInv(t)'
<1>1. io[t].pc = "spawn" /\ CoroBusy(io[t].ctx) /\ io[t].ctx \in Contexts
  BY DEF SpawnQueued, At, IInv, Types, IoState, CurrentContext
<1>2. io[t].ctx = app_ctx
  BY <1>1 DEF IInv, CurrentContext
<1>3. /\ io' \in [IoThreads -> IoState] /\ io'[t].pc = "recheck"
      /\ io'[t].ctx = io[t].ctx /\ io'[t].next = io[t].next
  BY Moved DEF SpawnQueued, IInv, Pcs
<1>4. /\ coro' \in [Contexts -> CoroStates] /\ coro'[app_ctx] = "ready"
      /\ \A d \in Contexts : d # app_ctx => coro'[d] = coro[d]
  BY <1>1, <1>2, CoroMoved DEF SpawnQueued, IInv, CoroStates
<1>5. UNCHANGED <<app_ctx, state, freed, app, inline_reads>>
  BY DEF SpawnQueued, ctxVars, readVars
<1>6. \A d \in Contexts : CoroBusy(d)' <=> CoroBusy(d)
  BY <1>1, <1>2, <1>4 DEF CoroBusy
<1>7. ~Wanted(app_ctx) /\ ~Wanted(app_ctx)'
  BY <1>1, <1>5 DEF IInv, WantedBetweenReads, Wanted
<1>8. ~IoHolds(t)'
  BY <1>3, <1>5, <1>7 DEF IoHolds
<1>9. Types' /\ LaterContexts'
  <2>1. \A d \in Contexts : d > app_ctx => coro'[d] = coro[d]
    BY <1>1, <1>2, <1>4 DEF Contexts
  <2>2. Types'
    BY <1>3, <1>4, <1>5 DEF IInv, Types, CoroStates
  <2> QED BY <1>5, <2>1, <2>2 DEF IInv, LaterContexts
<1>10. OneTurn(t)'
  BY <1>5, <1>6, <1>8 DEF IInv, OneTurn, AppBusy
<1>11. CurrentContext(t)' /\ WantedBetweenReads(t)'
  BY <1>3, <1>5, <1>6, <1>7 DEF IInv, CurrentContext, WantedBetweenReads, AppBusy
<1> QED BY <1>9, <1>10, <1>11 DEF IInv

LEMMA CoroEndIInv ==
    ASSUME NEW t \in IoThreads, IInv(t), CoroEnd(t)
    PROVE  IInv(t)'
<1>1. /\ io[t].pc = "coro" /\ io[t].ctx = app_ctx /\ app_ctx \in Contexts
      /\ CoroBusy(app_ctx)
  BY DEF CoroEnd, At, IInv, Types, IoState, CurrentContext
<1>2. /\ ~Wanted(app_ctx) /\ inline_reads = 0
      /\ \A d \in Contexts : ~AppBusy(d) /\ (CoroBusy(d) => d = app_ctx)
  BY <1>1 DEF IInv, OneTurn, CurrentContext, WantedBetweenReads
<1>3. /\ io' \in [IoThreads -> IoState] /\ io'[t].pc = "reload"
      /\ io'[t].ctx = io[t].ctx /\ io'[t].next = io[t].next
  BY Moved DEF CoroEnd, IInv, Pcs
<1>4. /\ state' \in [Contexts -> SUBSET Flags]
      /\ state'[app_ctx] = state[app_ctx] \ {"THREAD_RUNNING"}
      /\ \A d \in Contexts : d # app_ctx => state'[d] = state[d]
  <2>1. state[app_ctx] \ {"THREAD_RUNNING"} \in SUBSET Flags
    BY <1>1 DEF IInv, Types
  <2>2. state' = [state EXCEPT ![app_ctx] = state[app_ctx] \ {"THREAD_RUNNING"}]
    BY <1>1 DEF CoroEnd, DelFlag
  <2> QED BY <1>1, <2>1, <2>2, Flagged DEF IInv
<1>5. /\ coro' \in [Contexts -> CoroStates] /\ coro'[app_ctx] = "done"
      /\ \A d \in Contexts : d # app_ctx => coro'[d] = coro[d]
  BY <1>1, CoroMoved DEF CoroEnd, IInv, CoroStates
<1>6. UNCHANGED <<app_ctx, freed, app, inline_reads>>
  BY DEF CoroEnd, readVars
<1>7. ~Wanted(app_ctx)' /\ \A d \in Contexts : ~AppBusy(d)' /\ ~CoroBusy(d)'
  BY <1>2, <1>4, <1>5, <1>6 DEF AppBusy, CoroBusy, Wanted
<1>8. Types' /\ LaterContexts'
  BY <1>1, <1>3, <1>4, <1>5, <1>6, LaterAsMade DEF IInv, Types, Contexts, CoroStates
<1>9. OneTurn(t)'
  BY <1>2, <1>6, <1>7 DEF OneTurn
<1>10. CurrentContext(t)'
  <2>1. \A d \in Contexts : app'[d] \notin {"running", "reload"}
    BY <1>7 DEF AppBusy
  <2> QED BY <1>3, <1>6, <1>7, <2>1 DEF IInv, CurrentContext
<1>11. WantedBetweenReads(t)'
  BY <1>7 DEF WantedBetweenReads
<1> QED BY <1>8, <1>9, <1>10, <1>11 DEF IInv
-----------------------------------------------------------------------------
(* reload_context *)

(* The context that takes over is as it was made. *)
LEMMA Replaced ==
    ASSUME NEW t \in IoThreads, IInv(t), "KEEPALIVE" \in state[app_ctx], ReplaceContext,
           UNCHANGED state
    PROVE  /\ app_ctx \in Contexts /\ app_ctx' \in Contexts /\ app_ctx' = app_ctx + 1
           /\ ~Wanted(app_ctx)'
           /\ freed' \subseteq Contexts /\ \A c \in freed' : c < app_ctx'
           /\ \A c \in Contexts : c > app_ctx' =>
                 c > app_ctx /\ state[c] = {} /\ app[c] = "none" /\ coro[c] = "none"
<1>1. app_ctx \in Contexts /\ app_ctx < MaxCtx
  BY DEF IInv, Types, LaterContexts
<1>2. /\ app_ctx' \in Contexts /\ app_ctx' = app_ctx + 1 /\ app_ctx' > app_ctx
      /\ freed' = freed \cup {app_ctx}
  BY <1>1, ConstantsAssumption DEF Contexts, ReplaceContext
<1>3. state[app_ctx'] = {}
  BY <1>2 DEF IInv, LaterContexts
<1>4. ~Wanted(app_ctx)'
  BY <1>3 DEF Wanted
<1>5. \A c \in freed' : c < app_ctx'
  <2>1. ASSUME NEW c \in freed PROVE c < app_ctx'
    <3>1. c < app_ctx /\ c \in Contexts
      BY DEF IInv, Types, CurrentContext
    <3> QED BY <1>1, <1>2, <3>1 DEF Contexts
  <2> QED BY <1>1, <1>2, <2>1 DEF Contexts
<1>6. ASSUME NEW c \in Contexts, c > app_ctx' PROVE c > app_ctx
  BY <1>1, <1>2, <1>6 DEF Contexts
<1>7. freed' \subseteq Contexts
  BY <1>1, <1>2 DEF IInv, Types
<1> QED BY <1>1, <1>2, <1>4, <1>5, <1>6, <1>7 DEF IInv, LaterContexts

LEMMA IoReloadIInv ==
    ASSUME NEW t \in IoThreads, IInv(t), IoReload(t)
    PROVE  IInv(t)'
<1>1. io[t].pc = "reload" /\ IoHolds(t) /\ io[t].next \in {"idle", "recheck"}
  BY DEF IoReload, At, IInv, Types, IoState, IoHolds
<1>2. /\ ~Wanted(app_ctx) /\ inline_reads = 0
      /\ \A c \in Contexts : ~AppBusy(c) /\ ~CoroBusy(c)
  BY <1>1 DEF IInv, OneTurn, WantedBetweenReads
<1>3. UNCHANGED <<state, app, coro, inline_reads>>
  BY DEF IoReload, readVars
<1>4. \A c \in Contexts : ~AppBusy(c)' /\ ~CoroBusy(c)'
  BY <1>2, <1>3 DEF AppBusy, CoroBusy
<1>5. \A c \in Contexts : app'[c] \notin {"running", "reload"}
  BY <1>4 DEF AppBusy
<1>6. OneTurn(t)'
  BY <1>2, <1>3, <1>4 DEF OneTurn
<1>7. CASE "KEEPALIVE" \in state[app_ctx]
  <2>1. ReplaceContext /\ Go(t, "reload_read")
    BY <1>7 DEF IoReload
  <2>2. /\ app_ctx' \in Contexts /\ ~Wanted(app_ctx)'
        /\ freed' \subseteq Contexts /\ \A c \in freed' : c < app_ctx'
        /\ \A c \in Contexts : c > app_ctx' =>
              state[c] = {} /\ app[c] = "none" /\ coro[c] = "none"
    BY <1>3, <1>7, <2>1, Replaced
  <2>3. /\ io' \in [IoThreads -> IoState] /\ io'[t].pc = "reload_read"
    BY <2>1, Moved DEF IInv, Pcs
  <2>4. Types'
    BY <1>3, <2>2, <2>3 DEF IInv, Types
  <2>5. LaterContexts'
    BY <1>3, <2>2 DEF IInv, LaterContexts
  <2>6. CurrentContext(t)'
    BY <1>4, <1>5, <2>2, <2>3 DEF CurrentContext
  <2>7. WantedBetweenReads(t)'
    BY <2>2 DEF WantedBetweenReads
  <2> QED BY <1>6, <2>4, <2>5, <2>6, <2>7 DEF IInv
<1>8. CASE "KEEPALIVE" \notin state[app_ctx]
  <2>1. UNCHANGED <<app_ctx, freed>> /\ Go(t, io[t].next)
    BY <1>8 DEF IoReload, Go
  <2>2. /\ io' \in [IoThreads -> IoState] /\ io'[t].pc \in {"idle", "recheck"}
    <3>1. io[t].next \in Pcs
      BY <1>1 DEF Pcs
    <3> QED BY <1>1, <2>1, <3>1, Moved DEF IInv
  <2>3. Types' /\ LaterContexts'
    BY <1>3, <2>1, <2>2 DEF IInv, Types, LaterContexts
  <2>4. CurrentContext(t)'
    BY <1>4, <1>5, <2>1, <2>2 DEF IInv, CurrentContext
  <2>5. WantedBetweenReads(t)'
    BY <1>2, <1>3, <2>1 DEF WantedBetweenReads, Wanted
  <2> QED BY <1>6, <2>3, <2>4, <2>5 DEF IInv
<1> QED BY <1>7, <1>8

LEMMA IoReloadReadIInv ==
    ASSUME NEW t \in IoThreads, IInv(t), IoReloadRead(t)
    PROVE  IInv(t)'
<1>1. io[t].pc = "reload_read" /\ IoHolds(t) /\ io[t].next \in {"idle", "recheck"}
  BY DEF IoReloadRead, At, IInv, Types, IoState, IoHolds
<1>2. /\ ~Wanted(app_ctx) /\ inline_reads = 0
      /\ \A c \in Contexts : ~AppBusy(c) /\ ~CoroBusy(c)
  BY <1>1 DEF IInv, OneTurn, WantedBetweenReads
<1>3. UNCHANGED <<app_ctx, state, freed, app, coro>> /\ inline_reads' = 1
  BY <1>2 DEF IoReloadRead, StartInlineRead, ctxVars
<1>4. /\ io' \in [IoThreads -> IoState] /\ io'[t].pc \in {"idle", "recheck"}
  <2>1. io[t].next \in Pcs /\ Go(t, io[t].next)
    BY <1>1 DEF IoReloadRead, Go, Pcs
  <2> QED BY <1>1, <2>1, Moved DEF IInv
<1>5. ~Wanted(app_ctx)' /\ ~IoHolds(t)' /\ \A c \in Contexts : ~AppBusy(c)' /\ ~CoroBusy(c)'
  BY <1>2, <1>3, <1>4 DEF IoHolds, AppBusy, CoroBusy, Wanted
<1>6. Types' /\ LaterContexts'
  BY <1>3, <1>4 DEF IInv, Types, LaterContexts
<1>7. OneTurn(t)' /\ WantedBetweenReads(t)'
  BY <1>3, <1>5 DEF OneTurn, WantedBetweenReads
<1>8. \A c \in Contexts : app'[c] \notin {"running", "reload"}
  BY <1>5 DEF AppBusy
<1>9. CurrentContext(t)'
  BY <1>3, <1>4, <1>5, <1>8 DEF IInv, CurrentContext
<1> QED BY <1>6, <1>7, <1>9 DEF IInv
-----------------------------------------------------------------------------
(* The steps of container_thread *)

LEMMA AppHolds ==
    ASSUME NEW t \in IoThreads, IInv(t), NEW c \in Contexts, AppBusy(c)
    PROVE  /\ ~Wanted(app_ctx) /\ inline_reads = 0 /\ ~IoHolds(t)
           /\ \A d \in Contexts : ~CoroBusy(d) /\ (AppBusy(d) => d = c)
           /\ io[t].pc \notin {"process", "handler", "spawn", "coro"}
<1>1. /\ ~Wanted(app_ctx) /\ inline_reads = 0 /\ ~IoHolds(t)
      /\ \A d \in Contexts : ~CoroBusy(d) /\ (AppBusy(d) => d = c)
  BY DEF IInv, OneTurn, WantedBetweenReads
<1>2. io[t].ctx \in Contexts
  BY DEF IInv, Types, IoState
<1> QED BY <1>1, <1>2 DEF IInv, CurrentContext, IoHolds

LEMMA AppEndIInv ==
    ASSUME NEW t \in IoThreads, IInv(t), NEW c \in Contexts, AppEnd(c)
    PROVE  IInv(t)'
<1>1. app[c] = "running" /\ AppBusy(c) /\ c = app_ctx
  BY DEF AppEnd, AppBusy, IInv, CurrentContext
<1>2. /\ ~Wanted(app_ctx) /\ inline_reads = 0 /\ ~IoHolds(t)
      /\ \A d \in Contexts : ~CoroBusy(d) /\ (AppBusy(d) => d = c)
      /\ io[t].pc \notin {"process", "handler", "spawn", "coro"}
  BY <1>1, AppHolds
<1>3. /\ app' \in [Contexts -> AppStates] /\ app'[c] = "reload"
      /\ \A d \in Contexts : d # c => app'[d] = app[d]
  BY AppMoved DEF AppEnd, IInv, AppStates
<1>4. /\ state' \in [Contexts -> SUBSET Flags]
      /\ state'[c] = state[c] \ {"THREAD_RUNNING"}
      /\ \A d \in Contexts : d # c => state'[d] = state[d]
  <2>1. state[c] \ {"THREAD_RUNNING"} \in SUBSET Flags
    BY DEF IInv, Types
  <2>2. state' = [state EXCEPT ![c] = state[c] \ {"THREAD_RUNNING"}]
    BY DEF AppEnd, DelFlag
  <2> QED BY <2>1, <2>2, Flagged DEF IInv
<1>5. UNCHANGED <<app_ctx, freed, io, coro, inline_reads>>
  BY DEF AppEnd, readVars
<1>6. \A d \in Contexts : (AppBusy(d)' <=> AppBusy(d)) /\ ~CoroBusy(d)'
  BY <1>1, <1>2, <1>3, <1>5 DEF AppBusy, CoroBusy
<1>7. ~Wanted(app_ctx)' /\ ~IoHolds(t)'
  <2>1. \A d \in Contexts : Wanted(d)' => Wanted(d)
    BY <1>4 DEF Wanted
  <2>2. app_ctx \in Contexts /\ io[t].ctx \in Contexts
    BY DEF IInv, Types, IoState
  <2>3. /\ Wanted(app_ctx)' => Wanted(app_ctx)
        /\ Wanted(io[t].ctx)' => Wanted(io[t].ctx)
    BY <1>5, <2>1, <2>2 DEF Wanted
  <2> QED BY <1>2, <1>5, <2>3 DEF IoHolds
<1>8. Types' /\ LaterContexts'
  BY <1>1, <1>3, <1>4, <1>5, LaterAsMade DEF IInv, Types, Contexts, AppStates
<1>9. OneTurn(t)' /\ WantedBetweenReads(t)'
  BY <1>2, <1>5, <1>6, <1>7 DEF OneTurn, WantedBetweenReads
<1>10. CurrentContext(t)'
  BY <1>1, <1>2, <1>3, <1>5, <1>6 DEF IInv, CurrentContext
<1> QED BY <1>8, <1>9, <1>10 DEF IInv

LEMMA AppReloadIInv ==
    ASSUME NEW t \in IoThreads, IInv(t), NEW c \in Contexts, AppReload(c)
    PROVE  IInv(t)'
<1>1. app[c] = "reload" /\ AppBusy(c) /\ c = app_ctx
  BY DEF AppReload, AppBusy, IInv, CurrentContext
<1>2. /\ ~Wanted(app_ctx) /\ inline_reads = 0 /\ ~IoHolds(t)
      /\ \A d \in Contexts : ~CoroBusy(d) /\ (AppBusy(d) => d = c)
      /\ io[t].pc \notin {"process", "handler", "spawn", "coro"}
  BY <1>1, AppHolds
<1>3. UNCHANGED <<state, io, coro, inline_reads>>
  BY DEF AppReload, readVars
<1>4. PICK v \in {"reload_read", "done"} : app' = [app EXCEPT ![c] = v]
  BY DEF AppReload
<1>5. /\ app' \in [Contexts -> AppStates] /\ app'[c] = v
      /\ \A d \in Contexts : d # c => app'[d] = app[d]
  BY <1>4, AppMoved DEF IInv, AppStates
<1>6. \A d \in Contexts :
         /\ AppBusy(d)' => d = c
         /\ app'[d] \notin {"running", "reload"} /\ ~CoroBusy(d)'
  <2>1. ASSUME NEW d \in Contexts, d # c PROVE ~AppBusy(d)' /\ ~AppBusy(d)
    BY <1>2, <1>5, <2>1 DEF AppBusy
  <2>2. ASSUME NEW d \in Contexts PROVE app'[d] \notin {"running", "reload"}
    BY <1>5, <2>1 DEF AppBusy
  <2> QED BY <1>2, <1>3, <2>1, <2>2 DEF CoroBusy
<1>7. /\ app_ctx' \in Contexts /\ ~Wanted(app_ctx)'
      /\ freed' \subseteq Contexts /\ \A d \in freed' : d < app_ctx'
      /\ \A d \in Contexts : d > app_ctx' =>
            d > app_ctx /\ state[d] = {} /\ app[d] = "none" /\ coro[d] = "none"
  <2>1. CASE "KEEPALIVE" \in state[app_ctx]
    BY <1>3, <2>1, Replaced DEF AppReload
  <2>2. CASE "KEEPALIVE" \notin state[app_ctx]
    <3>1. UNCHANGED <<app_ctx, freed>>
      BY <2>2 DEF AppReload
    <3> QED BY <1>2, <1>3, <3>1 DEF IInv, Types, CurrentContext, LaterContexts, Wanted
  <2> QED BY <2>1, <2>2
<1>8. ~IoHolds(t)'
  BY <1>2, <1>3, <1>7 DEF IoHolds, Wanted
<1>9. Types'
  BY <1>3, <1>5, <1>7 DEF IInv, Types, AppStates
<1>10. LaterContexts'
  <2>1. ASSUME NEW d \in Contexts, d > app_ctx'
        PROVE  state'[d] = {} /\ app'[d] = "none" /\ coro'[d] = "none"
    <3>1. d # c
      BY <1>1, <1>7, <2>1
    <3> QED BY <1>3, <1>5, <1>7, <2>1, <3>1
  <2> QED BY <1>3, <2>1 DEF IInv, LaterContexts
<1>11. OneTurn(t)' /\ WantedBetweenReads(t)'
  BY <1>2, <1>3, <1>6, <1>7, <1>8 DEF OneTurn, WantedBetweenReads
<1>12. CurrentContext(t)'
  BY <1>2, <1>3, <1>6, <1>7 DEF CurrentContext
<1> QED BY <1>9, <1>10, <1>11, <1>12 DEF IInv

LEMMA AppReloadReadIInv ==
    ASSUME NEW t \in IoThreads, IInv(t), NEW c \in Contexts, AppReloadRead(c)
    PROVE  IInv(t)'
<1>1. app[c] = "reload_read" /\ AppBusy(c)
  BY DEF AppReloadRead, AppBusy
<1>2. /\ ~Wanted(app_ctx) /\ inline_reads = 0 /\ ~IoHolds(t)
      /\ \A d \in Contexts : ~CoroBusy(d) /\ (AppBusy(d) => d = c)
      /\ io[t].pc \notin {"process", "handler", "spawn", "coro"}
  BY <1>1, AppHolds
<1>3. UNCHANGED <<app_ctx, state, freed, io, coro>> /\ inline_reads' = 1
  BY <1>2 DEF AppReloadRead, StartInlineRead, ctxVars
<1>4. /\ app' \in [Contexts -> AppStates] /\ app'[c] = "done"
      /\ \A d \in Contexts : d # c => app'[d] = app[d]
  BY AppMoved DEF AppReloadRead, IInv, AppStates
<1>5. \A d \in Contexts :
         ~AppBusy(d)' /\ app'[d] \notin {"running", "reload"} /\ ~CoroBusy(d)'
  <2>1. ASSUME NEW d \in Contexts PROVE ~AppBusy(d)'
    BY <1>2, <1>4 DEF AppBusy
  <2> QED BY <1>2, <1>3, <2>1 DEF AppBusy, CoroBusy
<1>6. ~Wanted(app_ctx)' /\ ~IoHolds(t)'
  BY <1>2, <1>3 DEF IoHolds, Wanted
<1>7. Types'
  BY <1>3, <1>4 DEF IInv, Types, AppStates
<1>8. LaterContexts'
  <2>1. ASSUME NEW d \in Contexts, d > app_ctx PROVE d # c
    BY <1>1, <2>1 DEF IInv, LaterContexts
  <2> QED BY <1>3, <1>4, <2>1 DEF IInv, LaterContexts
<1>9. OneTurn(t)' /\ WantedBetweenReads(t)'
  BY <1>3, <1>5, <1>6 DEF OneTurn, WantedBetweenReads
<1>10. CurrentContext(t)'
  BY <1>2, <1>3, <1>5 DEF IInv, CurrentContext
<1> QED BY <1>7, <1>8, <1>9, <1>10 DEF IInv
-----------------------------------------------------------------------------
(* All the steps *)

LEMMA TimeoutHandlerIInv ==
    ASSUME NEW t \in IoThreads, IInv(t), TimeoutHandler(t)
    PROVE  IInv(t)'
<1>1. io[t].pc = "idle" /\ app_ctx \in Contexts
  BY DEF TimeoutHandler, At, IInv, Types
<1>2. UNCHANGED <<app_ctx, freed, io, app, coro, inline_reads>>
  BY DEF TimeoutHandler, runVars, readVars
<1>3. CASE UNCHANGED state
  BY <1>2, <1>3, StutterIInv DEF ctxVars
<1>4. CASE state' = [state EXCEPT ![app_ctx] = {}]
  <2>1. /\ state' \in [Contexts -> SUBSET Flags] /\ state'[app_ctx] = {}
        /\ \A d \in Contexts : d # app_ctx => state'[d] = state[d]
    BY <1>1, <1>4, Flagged DEF IInv
  <2>2. Types' /\ LaterContexts'
    BY <1>1, <1>2, <2>1, LaterAsMade DEF IInv, Types, Contexts
  <2>3. ~IoHolds(t)' /\ ~Wanted(app_ctx)'
    BY <1>1, <1>2, <2>1 DEF IoHolds, Wanted
  <2>4. OneTurn(t)'
    BY <1>2, <2>3 DEF IInv, OneTurn, AppBusy, CoroBusy
  <2>5. CurrentContext(t)' /\ WantedBetweenReads(t)'
    BY <1>2, <2>3 DEF IInv, CurrentContext, WantedBetweenReads, CoroBusy
  <2> QED BY <2>2, <2>4, <2>5 DEF IInv
<1> QED BY <1>3, <1>4 DEF TimeoutHandler

LEMMA InitIInv ==
    ASSUME NEW t \in IoThreads, Init
    PROVE  IInv(t)
<1>1. /\ app_ctx = 1 /\ 1 \in Contexts /\ freed = {} /\ inline_reads = 1
      /\ io[t].pc = "idle"
      /\ \A c \in Contexts : state[c] = {} /\ app[c] = "none" /\ coro[c] = "none"
  BY ConstantsAssumption DEF Init, Contexts
<1>2. Types
  <2>1. io \in [IoThreads -> IoState]
    BY <1>1 DEF Init, IoState, Pcs
  <2>2. /\ state \in [Contexts -> SUBSET Flags]
        /\ app \in [Contexts -> {"none", "running", "reload", "reload_read", "done"}]
        /\ coro \in [Contexts ->
                        {"none", "spawned", "running", "waiting", "ready", "done"}]
    BY DEF Init
  <2> QED BY <1>1, <2>1, <2>2 DEF Types
<1>3. \A c \in Contexts : ~AppBusy(c) /\ ~CoroBusy(c) /\ ~Wanted(c)
  BY <1>1 DEF AppBusy, CoroBusy, Wanted
<1>4. OneTurn(t) /\ WantedBetweenReads(t)
  BY <1>1, <1>3 DEF OneTurn, IoHolds, WantedBetweenReads
<1>5. CurrentContext(t) /\ LaterContexts
  BY <1>1, <1>3 DEF CurrentContext, LaterContexts
<1> QED BY <1>2, <1>4, <1>5 DEF IInv

LEMMA NextIInv ==
    ASSUME NEW t, IoThreads = {t}, IInv(t), [Next]_vars
    PROVE  IInv(t)'
<1>1. t \in IoThreads
  OBVIOUS
<1>2. CASE \/ InlineReadHandler(t) \/ ReadStep(t) \/ RequestIncomplete(t)
  BY <1>1, <1>2, InlineReadHandlerIInv, InlineReadErrorIInv, DecideBeginIInv, IoMovesIInv,
     RunNoYieldIInv, RunAsyncIInv, RunThreadIInv, RecheckIInv, RereadIInv,
     RequestIncompleteIInv, RequestRefusedIInv
  DEF ReadStep
<1>3. CASE CoroWrite(t) \/ HandlerStep(t) \/ CoroResume(t) \/ TimeoutHandler(t)
  BY <1>1, <1>3, CoroWriteIInv, IoMovesIInv, CoroRunsIInv, SpawnQueuedIInv, CoroEndIInv,
     IoReloadIInv, IoReloadReadIInv, TimeoutHandlerIInv
  DEF HandlerStep
<1>4. CASE HandlerWrite(t) \/ StrandTask(t) \/ TimerExpires \/ PeerDrops
  <2>1. UNCHANGED <<ctxVars, io, app, coro, inline_reads>>
    BY <1>4
    DEF HandlerWrite, StrandTask, WriteStarts, WriteHandler, WriteHandlerError,
        CloseSocketImpl, TimerExpires, PeerDrops, runVars, readVars
  <2> QED BY <1>1, <2>1, StutterIInv
<1>5. ASSUME NEW c \in Contexts, AppWrite(c) \/ AppStep(c) \/ CoroWriteDone(c)
      PROVE  IInv(t)'
  <2>1. CASE AppWrite(c)
    <3>1. UNCHANGED <<ctxVars, io, app, coro, inline_reads>>
      BY <2>1 DEF AppWrite, runVars, readVars
    <3> QED BY <1>1, <3>1, StutterIInv
  <2>2. CASE AppStep(c) \/ CoroWriteDone(c)
    BY <1>1, <2>2, AppEndIInv, AppReloadIInv, AppReloadReadIInv, CoroWriteDoneIInv
    DEF AppStep
  <2> QED BY <1>5, <2>1, <2>2
<1>6. CASE UNCHANGED vars
  <2>1. UNCHANGED <<ctxVars, io, app, coro, inline_reads>>
    BY <1>6 DEF vars, runVars, readVars
  <2> QED BY <1>1, <2>1, StutterIInv
<1> QED BY <1>1, <1>2, <1>3, <1>4, <1>5, <1>6 DEF Next

(* With one thread in io_service the invariant holds throughout. *)
LEMMA InvariantHolds ==
    ASSUME NEW t, IoThreads = {t}
    PROVE  Spec => []IInv(t)
<1>1. Init => IInv(t)
  BY InitIInv
<1>2. IInv(t) /\ [Next]_vars => IInv(t)'
  BY NextIInv
<1> QED BY <1>1, <1>2, PTL DEF Spec
-----------------------------------------------------------------------------
(* What the invariant says of the properties *)

LEMMA AtMostOne ==
    ASSUME NEW S, NEW x, S \subseteq {x}
    PROVE  /\ Cardinality(S) \in {0, 1}
           /\ (x \notin S => Cardinality(S) = 0)
<1>1. S = {} \/ S = {x}
  OBVIOUS
<1> QED BY <1>1, FS_EmptySet, FS_Singleton

(* buffer_read is used either by the outstanding read of the socket, or by
   the io thread that decides on what was read and parses it
   (decide_io_action_in_read, process_request_data), never by both. *)
THEOREM ReadBufferHasOneUser ==
    ASSUME NEW t, IoThreads = {t}
    PROVE  Spec => []BufferReadExclusive
<1>1. ASSUME IInv(t) PROVE BufferReadExclusive
  <2> DEFINE S == {u \in IoThreads : io[u].pc \in {"decide", "process"}}
  <2>1. S \subseteq {t}
    OBVIOUS
  <2>2. Cardinality(S) \in {0, 1} /\ (t \notin S => Cardinality(S) = 0)
    BY <2>1, AtMostOne
  <2>3. inline_reads \in {0, 1} /\ (t \in S => inline_reads = 0)
    BY <1>1 DEF IInv, OneTurn, IoHolds
  <2>4. inline_reads + Cardinality(S) <= 1
    <3> HIDE DEF S
    <3> QED BY <2>2, <2>3
  <2> QED BY <2>4 DEF BufferReadExclusive
<1>2. Spec => []IInv(t)
  BY InvariantHolds
<1> QED BY <1>1, <1>2, PTL

(* The middlewares of two requests of one connection never overlap, whether
   run_handler calls them, spawns their coroutine or starts their thread. *)
THEOREM MiddlewaresNeverOverlap ==
    ASSUME NEW t, IoThreads = {t}
    PROVE  Spec => []HandlersSequential
<1>1. ASSUME IInv(t) PROVE HandlersSequential
  <2> DEFINE H == {u \in IoThreads : io[u].pc = "handler"}
             A == {c \in Contexts : app[c] = "running"}
             C == {c \in Contexts : coro[c] \notin {"none", "done"}}
  <2>1. \A c \in Contexts : AppBusy(c) \/ CoroBusy(c) => ~IoHolds(t)
    BY <1>1 DEF IInv, OneTurn
  <2>2. \A c, d \in Contexts : ~(AppBusy(c) /\ CoroBusy(d))
    BY <1>1 DEF IInv, OneTurn
  <2>3. H \subseteq {t} /\ A \subseteq {app_ctx} /\ C \subseteq {app_ctx}
    BY <1>1 DEF IInv, CurrentContext, CoroBusy
  <2>4. /\ Cardinality(H) \in {0, 1} /\ (t \notin H => Cardinality(H) = 0)
        /\ Cardinality(A) \in {0, 1} /\ (app_ctx \notin A => Cardinality(A) = 0)
        /\ Cardinality(C) \in {0, 1} /\ (app_ctx \notin C => Cardinality(C) = 0)
    BY <2>3, AtMostOne
  <2>5. /\ ~(t \in H /\ app_ctx \in A) /\ ~(t \in H /\ app_ctx \in C)
        /\ ~(app_ctx \in A /\ app_ctx \in C)
    BY <2>1, <2>2 DEF IoHolds, AppBusy, CoroBusy
  <2>6. Cardinality(H) + Cardinality(A) + Cardinality(C) <= 1
    <3> HIDE DEF H, A, C
    <3> QED BY <2>4, <2>5
  <2> QED BY <2>6 DEF HandlersSequential
<1>2. Spec => []IInv(t)
  BY InvariantHolds
<1> QED BY <1>1, <1>2, PTL

(* reload_context never destroys the context of a request that is parsed or
   whose middlewares run, on the io thread, in a coroutine or in a thread. *)
THEOREM RunningContextsLive ==
    ASSUME NEW t, IoThreads = {t}
    PROVE  Spec => []MiddlewareContextIsAlive
<1>1. ASSUME IInv(t) PROVE MiddlewareContextIsAlive
  <2>1. app_ctx \notin freed
    BY <1>1 DEF IInv, Types, CurrentContext, Contexts
  <2>2. io[t].ctx \in Contexts
    BY <1>1 DEF IInv, Types, IoState
  <2>3. io[t].pc \in {"process", "handler", "spawn", "coro"} => io[t].ctx = app_ctx
    BY <1>1, <2>2 DEF IInv, CurrentContext
  <2>4. ASSUME NEW c \in Contexts,
               app[c] = "running" \/ coro[c] \in {"spawned", "running", "waiting", "ready"}
        PROVE  c = app_ctx
    BY <1>1, <2>4 DEF IInv, CurrentContext, CoroBusy
  <2> QED BY <2>1, <2>3, <2>4 DEF MiddlewareContextIsAlive
<1>2. Spec => []IInv(t)
  BY InvariantHolds
<1> QED BY <1>1, <1>2, PTL
-----------------------------------------------------------------------------
(* Any number of io threads, when no request asks to be kept alive: the first
   context is the only one, and once its middlewares begin nothing is read. *)

FirstOnly ==
    /\ app_ctx = 1
    /\ \A t \in IoThreads : io[t].ctx = 1 /\ io[t].pc # "reload_read"
    /\ \A c \in Contexts : "KEEPALIVE" \notin state[c] /\ app[c] # "reload_read"
    /\ \A c \in Contexts : c # 1 => app[c] = "none" /\ coro[c] = "none"

Begun == app[1] # "none" \/ coro[1] # "none"

(* Who may read, parse, run middlewares or read on. *)
Works(t) ==
    \/ io[t].pc \in {"decide", "process", "handler"}
    \/ io[t].pc \in {"recheck", "reread"} /\ Wanted(1)

OneWorks ==
    /\ inline_reads \in {0, 1}
    /\ inline_reads = 1 => ~Begun /\ \A t \in IoThreads : io[t].pc = "idle"
    /\ \A t \in IoThreads : Works(t) =>
          /\ inline_reads = 0 /\ ~Begun
          /\ \A u \in IoThreads : u # t => io[u].pc = "idle"
    /\ app[1] = "none" \/ coro[1] = "none"
    /\ \A t \in IoThreads : io[t].pc \in {"spawn", "coro"} => coro[1] # "none"
    /\ Wanted(1) =>
          ~Begun /\ \A t \in IoThreads : io[t].pc \in {"idle", "decide", "recheck", "reread"}

OneRequestInv == Types /\ FirstOnly /\ OneWorks

(* What one step may change, of the thread t and of context 1. *)
Stays(t) ==
    /\ io' \in [IoThreads -> IoState] /\ io'[t].ctx = 1 /\ io'[t].pc # "reload_read"
    /\ \A u \in IoThreads : u # t => io'[u] = io[u]
Same == UNCHANGED <<app_ctx, freed>>
SameState == state' \in [Contexts -> SUBSET Flags]
             /\ \A c \in Contexts : "KEEPALIVE" \notin state'[c]
SameApp ==
    /\ app' \in [Contexts -> AppStates] /\ app'[1] # "reload_read"
    /\ \A c \in Contexts : c # 1 => app'[c] = app[c]
SameCoro ==
    /\ coro' \in [Contexts -> CoroStates] /\ \A c \in Contexts : c # 1 => coro'[c] = coro[c]

LEMMA FirstIsContext == 1 \in Contexts
BY ConstantsAssumption DEF Contexts

LEMMA StepKeepsFirst ==
    ASSUME OneRequestInv, NEW t \in IoThreads, Stays(t), Same, SameState, SameApp, SameCoro,
           inline_reads' \in Nat
    PROVE  Types' /\ FirstOnly'
<1>1. Types'
  BY DEF OneRequestInv, Types, Stays, Same, SameState, SameApp, SameCoro, AppStates, CoroStates
<1>2. \A u \in IoThreads : io'[u].ctx = 1 /\ io'[u].pc # "reload_read"
  BY DEF OneRequestInv, FirstOnly, Stays
<1>3. \A c \in Contexts : app'[c] # "reload_read" /\ (c # 1 => app'[c] = "none" /\ coro'[c] = "none")
  BY DEF OneRequestInv, FirstOnly, SameApp, SameCoro
<1>4. app_ctx' = 1
  BY DEF OneRequestInv, FirstOnly, Same
<1> QED BY <1>1, <1>2, <1>3, <1>4 DEF FirstOnly, SameState

(* A thread goes on, with what it had begun. *)
LEMMA GoesOnAlone ==
    ASSUME OneRequestInv, NEW t \in IoThreads, Stays(t),
           inline_reads' = inline_reads,
           app'[1] = "none" <=> app[1] = "none", coro'[1] = "none" <=> coro[1] = "none",
           Wanted(1)' => Wanted(1),
           io[t].pc # "idle" \/ Begun,
           Works(t)' => Works(t),
           io'[t].pc \in {"spawn", "coro"} => coro[1] # "none",
           Wanted(1)' => io'[t].pc \in {"idle", "decide", "recheck", "reread"}
    PROVE  OneWorks'
<1>1. Begun' <=> Begun
  BY DEF Begun
<1>2. inline_reads' = 0
  BY DEF OneRequestInv, OneWorks
<1>3. \A u \in IoThreads : u # t => ~Works(u)'
  <2> SUFFICES ASSUME NEW u \in IoThreads, u # t, Works(u)' PROVE FALSE
    OBVIOUS
  <2>1. Works(u)
    BY DEF Works, Stays, Wanted
  <2> QED BY <2>1 DEF OneRequestInv, OneWorks
<1>4. Works(t)' => ~Begun' /\ \A u \in IoThreads : u # t => io'[u].pc = "idle"
  <2> SUFFICES ASSUME Works(t) PROVE ~Begun' /\ \A u \in IoThreads : u # t => io'[u].pc = "idle"
    OBVIOUS
  <2>1. ~Begun /\ \A u \in IoThreads : u # t => io[u].pc = "idle"
    BY DEF OneRequestInv, OneWorks
  <2> QED BY <1>1, <2>1 DEF Stays
<1>5. app'[1] = "none" \/ coro'[1] = "none"
  BY DEF OneRequestInv, OneWorks
<1>6. \A u \in IoThreads : io'[u].pc \in {"spawn", "coro"} => coro'[1] # "none"
  BY DEF OneRequestInv, OneWorks, Stays
<1>7. Wanted(1)' =>
          ~Begun' /\ \A u \in IoThreads : io'[u].pc \in {"idle", "decide", "recheck", "reread"}
  BY <1>1 DEF OneRequestInv, OneWorks, Stays
<1> QED BY <1>2, <1>3, <1>4, <1>5, <1>6, <1>7 DEF OneWorks

(* Nothing moves but what the property does not see. *)
LEMMA RestsAlone ==
    ASSUME OneRequestInv, UNCHANGED io, inline_reads' = inline_reads,
           app'[1] = "none" <=> app[1] = "none", coro'[1] = "none" <=> coro[1] = "none",
           Wanted(1)' => Wanted(1)
    PROVE  OneWorks'
<1>1. Begun' <=> Begun
  BY DEF Begun
<1>2. \A t \in IoThreads : Works(t)' => Works(t)
  BY DEF Works, Wanted
<1> QED BY <1>1, <1>2 DEF OneRequestInv, OneWorks

LEMMA GoStays ==
    ASSUME OneRequestInv, NEW t \in IoThreads, NEW pc \in Pcs \ {"reload_read"}, Go(t, pc)
    PROVE  Stays(t) /\ io'[t].pc = pc
<1>1. Types /\ io[t].ctx = 1
  BY DEF OneRequestInv, FirstOnly
<1>2. /\ io' \in [IoThreads -> IoState]
      /\ io'[t].pc = pc /\ io'[t].ctx = io[t].ctx
  BY <1>1, Moved
<1>3. \A u \in IoThreads : u # t => io'[u] = io[u]
  BY <1>1 DEF Go, Types
<1> QED BY <1>1, <1>2, <1>3 DEF Stays

LEMMA FlagsStay ==
    ASSUME OneRequestInv, NEW flags \in SUBSET Flags, "KEEPALIVE" \notin flags,
           state' = [state EXCEPT ![1] = flags]
    PROVE  SameState /\ state'[1] = flags
<1>1. Types /\ \A c \in Contexts : "KEEPALIVE" \notin state[c]
  BY DEF OneRequestInv, FirstOnly
<1>2. /\ state' \in [Contexts -> SUBSET Flags] /\ state'[1] = flags
      /\ \A d \in Contexts : d # 1 => state'[d] = state[d]
  BY <1>1, FirstIsContext, Flagged
<1> QED BY <1>1, <1>2 DEF SameState

LEMMA UnchangedStay ==
    ASSUME OneRequestInv
    PROVE  /\ UNCHANGED state => SameState
           /\ UNCHANGED app => SameApp
           /\ UNCHANGED coro => SameCoro
           /\ 1 \in Contexts /\ state[1] \in SUBSET Flags /\ "KEEPALIVE" \notin state[1]
           /\ app_ctx = 1 /\ \A t \in IoThreads : io[t] \in IoState /\ io[t].ctx = 1
           /\ inline_reads \in {0, 1} /\ inline_reads \in Nat
           /\ \A c \in Contexts : app[c] # "none" \/ coro[c] # "none" => c = 1
<1>1. Types /\ FirstOnly /\ 1 \in Contexts /\ inline_reads \in {0, 1}
  BY FirstIsContext DEF OneRequestInv, OneWorks
<1>2. UNCHANGED state => SameState
  BY <1>1 DEF Types, FirstOnly, SameState
<1>3. UNCHANGED app => SameApp
  BY <1>1 DEF Types, FirstOnly, SameApp, AppStates
<1>4. UNCHANGED coro => SameCoro
  BY <1>1 DEF Types, SameCoro, CoroStates
<1>5. state[1] \in SUBSET Flags /\ "KEEPALIVE" \notin state[1]
  BY <1>1 DEF Types, FirstOnly
<1> QED BY <1>1, <1>2, <1>3, <1>4, <1>5 DEF Types, FirstOnly

LEMMA AllStay ==
    ASSUME OneRequestInv, NEW t \in IoThreads, UNCHANGED io
    PROVE  Stays(t)
BY DEF OneRequestInv, Types, FirstOnly, Stays

LEMMA MovedToStays ==
    ASSUME OneRequestInv, NEW t \in IoThreads, NEW pc \in Pcs \ {"reload_read"},
           NEW next \in {"idle", "recheck"},
           io' = [io EXCEPT ![t].pc = pc, ![t].ctx = app_ctx, ![t].next = next]
    PROVE  Stays(t) /\ io'[t].pc = pc
<1>1. Types /\ app_ctx = 1 /\ app_ctx \in Contexts
  BY UnchangedStay DEF OneRequestInv
<1>2. /\ io' \in [IoThreads -> IoState]
      /\ io'[t].pc = pc /\ io'[t].ctx = app_ctx
  <2>1. Types /\ pc \in Pcs /\ app_ctx \in Contexts
    BY <1>1
  <2> QED BY ONLY <2>1, MovedTo, t \in IoThreads, next \in {"idle", "recheck"},
                  io' = [io EXCEPT ![t].pc = pc, ![t].ctx = app_ctx, ![t].next = next]
<1>3. \A u \in IoThreads : u # t => io'[u] = io[u]
  BY <1>1 DEF Types
<1> QED BY <1>1, <1>2, <1>3 DEF Stays

LEMMA DecideBeginOne ==
    ASSUME OneRequestInv, NEW t \in IoThreads, DecideBegin(t)
    PROVE  OneRequestInv'
<1>1. Stays(t) /\ io'[t].pc = "process" /\ io[t].pc = "decide"
  BY MovedToStays DEF DecideBegin, At, Pcs
<1>2. SameState /\ state'[1] = state[1] \ {"WANT_READ"}
  <2> DEFINE flags == state[1] \ {"WANT_READ"}
  <2>1. flags \in SUBSET Flags /\ "KEEPALIVE" \notin flags
    BY UnchangedStay
  <2>2. state' = [state EXCEPT ![1] = flags]
    BY UnchangedStay DEF DecideBegin, DelFlag
  <2> HIDE DEF flags
  <2>3. SameState /\ state'[1] = flags
    BY <2>1, <2>2, FlagsStay
  <2> QED BY <2>3 DEF flags
<1>3. UNCHANGED <<app_ctx, freed, app, coro, inline_reads>>
  BY DEF DecideBegin, runVars, readVars
<1>4. SameApp /\ SameCoro /\ inline_reads' \in Nat
  BY <1>3, UnchangedStay
<1>5. Types' /\ FirstOnly'
  BY <1>1, <1>2, <1>3, <1>4, StepKeepsFirst DEF Same
<1>6. OneWorks'
  BY <1>1, <1>2, <1>3, GoesOnAlone DEF Wanted, Works
<1> QED BY <1>5, <1>6 DEF OneRequestInv

(* The steps of the io thread that touch no flag, no thread, no coroutine. *)
LEMMA IoMovesOne ==
    ASSUME OneRequestInv, NEW t \in IoThreads,
           Detach(t) \/ HandlerEnd(t) \/ Recheck(t) \/ (Reread(t) /\ ~Wanted(1))
    PROVE  OneRequestInv'
<1>1. UNCHANGED <<app_ctx, state, freed, app, coro, inline_reads>>
  BY UnchangedStay
  DEF Detach, HandlerEnd, Recheck, Reread, Wanted, ctxVars, runVars, readVars
<1>2. SameState /\ SameApp /\ SameCoro /\ inline_reads' \in Nat
  BY <1>1, UnchangedStay
<1>3. /\ Stays(t) /\ io[t].pc # "idle" /\ io'[t].pc \notin {"spawn", "coro"}
      /\ Works(t)' => Works(t)
      /\ Wanted(1) => io'[t].pc \in {"idle", "decide", "recheck", "reread"}
  <2>1. CASE Detach(t)
    <3>1. ~Wanted(1)
      BY <2>1 DEF Detach, At, OneRequestInv, OneWorks
    <3>2. Stays(t) /\ io'[t].pc = "recheck" /\ io[t].pc = "detach"
      BY <2>1, GoStays DEF Detach, At, Pcs
    <3> QED BY <1>1, <3>1, <3>2 DEF Works, Wanted
  <2>2. CASE HandlerEnd(t)
    <3>1. ~Wanted(1)
      BY <2>2 DEF HandlerEnd, At, OneRequestInv, OneWorks
    <3>2. Stays(t) /\ io'[t].pc = "reload" /\ io[t].pc = "handler"
      BY <2>2, GoStays DEF HandlerEnd, At, Pcs
    <3> QED BY <3>1, <3>2 DEF Works
  <2>3. CASE Recheck(t)
    <3>1. Stays(t) /\ io'[t].pc = "reread" /\ io[t].pc = "recheck"
      BY <2>3, MovedToStays DEF Recheck, At, Pcs
    <3> QED BY <1>1, <3>1 DEF Works, Wanted
  <2>4. CASE Reread(t)
    <3>1. Stays(t) /\ io'[t].pc = "idle" /\ io[t].pc = "reread"
      BY <2>4, GoStays DEF Reread, At, Pcs
    <3> QED BY <3>1 DEF Works
  <2> QED BY <2>1, <2>2, <2>3, <2>4
<1>4. Types' /\ FirstOnly'
  BY <1>1, <1>2, <1>3, StepKeepsFirst DEF Same
<1>5. OneWorks'
  BY <1>1, <1>3, GoesOnAlone DEF Wanted
<1> QED BY <1>4, <1>5 DEF OneRequestInv

(* What run_handler does to the flags of the context. *)
LEMMA RunFlagsOne ==
    ASSUME KeepAlive = FALSE, OneRequestInv, NEW t \in IoThreads, io[t].pc = "process",
           NEW more \in SUBSET {"THREAD_RUNNING", "WANT_READ"}, AddFlags(io[t].ctx, more)
    PROVE  /\ SameState /\ ~Wanted(1) /\ (Wanted(1)' => "WANT_READ" \in more)
           /\ inline_reads = 0 /\ ~Begun
           /\ \A u \in IoThreads : u # t => io[u].pc = "idle"
<1>1. ~Wanted(1)
  BY DEF OneRequestInv, OneWorks
<1> DEFINE flags == state[1] \cup more
<1>2. /\ flags \in SUBSET Flags /\ "KEEPALIVE" \notin flags
      /\ "WANT_READ" \in flags => "WANT_READ" \in more
  BY <1>1, UnchangedStay DEF Flags, Wanted
<1>3. state' = [state EXCEPT ![1] = flags]
  <2>1. Asks(1) = {{}}
    BY DEF Asks
  <2>2. state' = [state EXCEPT ![1] = @ \cup more \cup {}]
    BY <2>1, UnchangedStay DEF AddFlags
  <2> QED BY <2>2
<1> HIDE DEF flags
<1>4. SameState /\ state'[1] = flags
  BY <1>2, <1>3, FlagsStay
<1> QED BY <1>1, <1>2, <1>4 DEF Wanted, OneRequestInv, OneWorks, Works

LEMMA RunNoYieldOne ==
    ASSUME KeepAlive = FALSE, OneRequestInv, NEW t \in IoThreads, RunNoYield(t)
    PROVE  OneRequestInv'
<1>1. Stays(t) /\ io'[t].pc = "handler" /\ io[t].pc = "process"
  BY GoStays DEF RunNoYield, At, Pcs
<1>2. SameState /\ ~Wanted(1)'
  <2> DEFINE more == {}
  <2>1. AddFlags(io[t].ctx, more)
    BY DEF RunNoYield
  <2>2. more \in SUBSET {"THREAD_RUNNING", "WANT_READ"} /\ "WANT_READ" \notin more
    OBVIOUS
  <2> HIDE DEF more
  <2> QED BY <1>1, <2>1, <2>2, RunFlagsOne
<1>3. UNCHANGED <<app_ctx, freed, app, coro, inline_reads>>
  BY DEF RunNoYield, runVars, readVars
<1>4. SameApp /\ SameCoro /\ inline_reads' \in Nat
  BY <1>3, UnchangedStay
<1>5. Types' /\ FirstOnly'
  BY <1>1, <1>2, <1>3, <1>4, StepKeepsFirst DEF Same
<1>6. OneWorks'
  BY <1>1, <1>2, <1>3, GoesOnAlone DEF Works
<1> QED BY <1>5, <1>6 DEF OneRequestInv

LEMMA RunAsyncOne ==
    ASSUME KeepAlive = FALSE, OneRequestInv, NEW t \in IoThreads, RunAsync(t)
    PROVE  OneRequestInv'
<1>1. Stays(t) /\ io'[t].pc = "spawn" /\ io[t].pc = "process"
  BY GoStays DEF RunAsync, At, Pcs
<1>2. /\ SameState /\ ~Wanted(1)' /\ inline_reads = 0 /\ ~Begun
      /\ \A u \in IoThreads : u # t => io[u].pc = "idle"
  <2> DEFINE more == {}
  <2>1. AddFlags(io[t].ctx, more)
    BY DEF RunAsync
  <2>2. more \in SUBSET {"THREAD_RUNNING", "WANT_READ"} /\ "WANT_READ" \notin more
    OBVIOUS
  <2> HIDE DEF more
  <2> QED BY <1>1, <2>1, <2>2, RunFlagsOne
<1>3. UNCHANGED <<app_ctx, freed, app, inline_reads>>
  BY DEF RunAsync, readVars
<1>4. SameCoro /\ coro'[1] = "spawned"
  <2>1. coro' = [coro EXCEPT ![1] = "spawned"]
    BY UnchangedStay DEF RunAsync
  <2> QED BY <2>1, CoroMoved, FirstIsContext DEF OneRequestInv, SameCoro, CoroStates
<1>5. Types' /\ FirstOnly'
  BY <1>1, <1>2, <1>3, <1>4, UnchangedStay, StepKeepsFirst DEF Same
<1>6. /\ ~(\E u \in IoThreads : Works(u)')
      /\ app'[1] = "none"
  BY <1>1, <1>2, <1>3 DEF Works, Stays, Begun
<1>7. OneWorks'
  BY <1>2, <1>3, <1>4, <1>6 DEF OneWorks
<1> QED BY <1>5, <1>7 DEF OneRequestInv

LEMMA RunThreadOne ==
    ASSUME KeepAlive = FALSE, OneRequestInv, NEW t \in IoThreads, RunThread(t)
    PROVE  OneRequestInv'
<1>1. Stays(t) /\ io'[t].pc = "detach" /\ io[t].pc = "process"
  BY GoStays DEF RunThread, At, Pcs
<1>2. /\ SameState /\ ~Wanted(1)' /\ inline_reads = 0 /\ ~Begun
      /\ \A u \in IoThreads : u # t => io[u].pc = "idle"
  <2> DEFINE more == {"THREAD_RUNNING"}
  <2>1. AddFlags(io[t].ctx, more)
    BY DEF RunThread
  <2>2. more \in SUBSET {"THREAD_RUNNING", "WANT_READ"} /\ "WANT_READ" \notin more
    OBVIOUS
  <2> HIDE DEF more
  <2> QED BY <1>1, <2>1, <2>2, RunFlagsOne
<1>3. UNCHANGED <<app_ctx, freed, coro, inline_reads>>
  BY DEF RunThread, readVars
<1>4. SameApp /\ app'[1] = "running"
  <2>1. app' = [app EXCEPT ![1] = "running"]
    BY UnchangedStay DEF RunThread
  <2> QED BY <2>1, AppMoved, FirstIsContext DEF OneRequestInv, SameApp, AppStates
<1>5. Types' /\ FirstOnly'
  BY <1>1, <1>2, <1>3, <1>4, UnchangedStay, StepKeepsFirst DEF Same
<1>6. /\ \A u \in IoThreads : ~Works(u)' /\ io'[u].pc \notin {"spawn", "coro"}
      /\ coro'[1] = "none"
  BY <1>1, <1>2, <1>3 DEF Works, Stays, Begun
<1>7. OneWorks'
  BY <1>2, <1>3, <1>4, <1>6 DEF OneWorks
<1> QED BY <1>5, <1>7 DEF OneRequestInv

LEMMA InlineReadOne ==
    ASSUME OneRequestInv, NEW t \in IoThreads, InlineReadHandler(t) \/ InlineReadError(t)
    PROVE  OneRequestInv'
<1>1. /\ inline_reads = 1 /\ inline_reads' = 0
      /\ UNCHANGED <<app_ctx, state, freed, app, coro>>
  BY UnchangedStay DEF InlineReadHandler, InlineReadError, ctxVars, runVars
<1>2. /\ ~Begun /\ ~Begun'
      /\ \A u \in IoThreads : io[u].pc = "idle"
  BY <1>1 DEF OneRequestInv, OneWorks, Begun
<1>3. Stays(t) /\ io'[t].pc \in {"idle", "decide"}
  <2>1. CASE InlineReadHandler(t)
    BY <2>1, GoStays DEF InlineReadHandler, Pcs
  <2>2. CASE InlineReadError(t)
    BY <1>2, <2>2, AllStay DEF InlineReadError
  <2> QED BY <2>1, <2>2
<1>4. Types' /\ FirstOnly'
  BY <1>1, <1>3, UnchangedStay, StepKeepsFirst DEF Same
<1>5. \A u \in IoThreads :
          io'[u].pc \in {"idle", "decide"} /\ (u # t => io'[u].pc = "idle" /\ ~Works(u)')
  BY <1>2, <1>3 DEF Stays, Works
<1>6. app'[1] = "none" \/ coro'[1] = "none"
  BY <1>2 DEF Begun
<1>7. OneWorks'
  BY <1>1, <1>2, <1>5, <1>6 DEF OneWorks
<1> QED BY <1>4, <1>7 DEF OneRequestInv

(* process_request_data returns and begins nothing. *)
LEMMA NoOutcomeOne ==
    ASSUME OneRequestInv, NEW t \in IoThreads, io[t].pc = "process",
           Stays(t), io'[t].pc = "recheck", SameState,
           UNCHANGED <<app_ctx, freed, app, coro, inline_reads>>
    PROVE  OneRequestInv'
<1>1. Types' /\ FirstOnly'
  BY UnchangedStay, StepKeepsFirst DEF Same
<1>2. /\ inline_reads = 0 /\ ~Begun /\ ~Begun'
      /\ \A u \in IoThreads : u # t => io[u].pc = "idle"
  BY DEF OneRequestInv, OneWorks, Works, Begun
<1>3. \A u \in IoThreads :
          /\ u # t => io'[u].pc = "idle" /\ ~Works(u)'
          /\ io'[u].pc \in {"idle", "recheck"}
  BY <1>2 DEF Stays, Works
<1>4. app'[1] = "none" \/ coro'[1] = "none"
  BY <1>2 DEF Begun
<1>5. OneWorks'
  BY <1>2, <1>3, <1>4 DEF OneWorks
<1> QED BY <1>1, <1>5 DEF OneRequestInv

LEMMA RequestIncompleteOne ==
    ASSUME KeepAlive = FALSE, OneRequestInv, NEW t \in IoThreads, RequestIncomplete(t)
    PROVE  OneRequestInv'
<1>1. Stays(t) /\ io'[t].pc = "recheck" /\ io[t].pc = "process"
  BY GoStays DEF RequestIncomplete, At, Pcs
<1>2. SameState
  <2> DEFINE more == {"WANT_READ"}
  <2>1. AddFlags(io[t].ctx, more) /\ more \in SUBSET {"THREAD_RUNNING", "WANT_READ"}
    BY DEF RequestIncomplete
  <2> HIDE DEF more
  <2> QED BY <1>1, <2>1, RunFlagsOne
<1>3. UNCHANGED <<app_ctx, freed, app, coro, inline_reads>>
  BY DEF RequestIncomplete, runVars, readVars
<1> QED BY <1>1, <1>2, <1>3, NoOutcomeOne

LEMMA RequestRefusedOne ==
    ASSUME KeepAlive = FALSE, OneRequestInv, NEW t \in IoThreads, RequestRefused(t)
    PROVE  OneRequestInv'
<1>1. Stays(t) /\ io'[t].pc = "recheck" /\ io[t].pc = "process"
  BY GoStays DEF RequestRefused, At, Pcs
<1>2. SameState
  <2>1. CASE UNCHANGED state
    BY <2>1, UnchangedStay
  <2>2. CASE AddFlags(io[t].ctx, {})
    <3> DEFINE more == {}
    <3>1. AddFlags(io[t].ctx, more) /\ more \in SUBSET {"THREAD_RUNNING", "WANT_READ"}
      BY <2>2
    <3> HIDE DEF more
    <3> QED BY <1>1, <3>1, RunFlagsOne
  <2> QED BY <2>1, <2>2 DEF RequestRefused
<1>3. UNCHANGED <<app_ctx, freed, app, coro, inline_reads>>
  BY DEF RequestRefused, runVars, readVars
<1> QED BY <1>1, <1>2, <1>3, NoOutcomeOne

LEMMA RereadOne ==
    ASSUME OneRequestInv, NEW t \in IoThreads, Reread(t), Wanted(1)
    PROVE  OneRequestInv'
<1>1. Stays(t) /\ io'[t].pc = "idle" /\ io[t].pc = "reread"
  BY GoStays DEF Reread, At, Pcs
<1>2. /\ inline_reads = 0 /\ ~Begun
      /\ \A u \in IoThreads : u # t => io[u].pc = "idle"
  BY <1>1 DEF OneRequestInv, OneWorks, Works
<1>3. UNCHANGED <<app_ctx, state, freed, app, coro>> /\ inline_reads' = 1
  BY <1>2, UnchangedStay DEF Reread, StartInlineRead, Wanted, ctxVars, runVars
<1>4. Types' /\ FirstOnly'
  BY <1>1, <1>3, UnchangedStay, StepKeepsFirst DEF Same
<1>5. ~Begun' /\ \A u \in IoThreads : io'[u].pc = "idle" /\ ~Works(u)'
  BY <1>1, <1>2, <1>3 DEF Stays, Works, Begun
<1>6. app'[1] = "none" \/ coro'[1] = "none"
  BY <1>5 DEF Begun
<1>7. OneWorks'
  BY <1>3, <1>5, <1>6 DEF OneWorks
<1> QED BY <1>4, <1>7 DEF OneRequestInv

LEMMA CoroEnterOne ==
    ASSUME OneRequestInv, NEW t \in IoThreads, io[t].pc \in {"idle", "spawn"},
           coro[1] # "none", NEW next \in {"idle", "recheck"}, CoroEnter(t, 1, next)
    PROVE  OneRequestInv'
<1>1. Stays(t) /\ io'[t].pc = "coro"
  <2> DEFINE w == [pc |-> "coro", ctx |-> 1, next |-> next]
  <2>1. w \in IoState /\ w.pc = "coro" /\ w.ctx = 1
    BY FirstIsContext DEF IoState, Pcs
  <2>2. io' = [io EXCEPT ![t] = w]
    BY DEF CoroEnter
  <2> HIDE DEF w
  <2>3. io' \in [IoThreads -> IoState] /\ io'[t] = w
    BY <2>1, <2>2, Placed DEF OneRequestInv
  <2>4. \A u \in IoThreads : u # t => io'[u] = io[u]
    BY <2>2 DEF OneRequestInv, Types
  <2> QED BY <2>1, <2>3, <2>4 DEF Stays
<1>2. SameState /\ state'[1] = state[1] \cup {"THREAD_RUNNING"}
  <2> DEFINE flags == state[1] \cup {"THREAD_RUNNING"}
  <2>1. flags \in SUBSET Flags /\ "KEEPALIVE" \notin flags
    BY UnchangedStay DEF Flags
  <2>2. state' = [state EXCEPT ![1] = flags]
    BY DEF CoroEnter, AddFlag
  <2> HIDE DEF flags
  <2>3. SameState /\ state'[1] = flags
    BY <2>1, <2>2, FlagsStay
  <2> QED BY <2>3 DEF flags
<1>3. SameCoro /\ coro'[1] = "running"
  BY CoroMoved, FirstIsContext DEF CoroEnter, OneRequestInv, SameCoro, CoroStates
<1>4. UNCHANGED <<app_ctx, freed, app, inline_reads>>
  BY DEF CoroEnter, readVars
<1>5. Types' /\ FirstOnly'
  BY <1>1, <1>2, <1>3, <1>4, UnchangedStay, StepKeepsFirst DEF Same
<1>6. ~Wanted(1) /\ Begun
  BY DEF OneRequestInv, OneWorks, Begun
<1>7. ~Wanted(1)' /\ ~Works(t)'
  BY <1>1, <1>2, <1>6 DEF Wanted, Works
<1>8. OneWorks'
  BY <1>1, <1>3, <1>4, <1>6, <1>7, GoesOnAlone
<1> QED BY <1>5, <1>8 DEF OneRequestInv

LEMMA CoroRunsOne ==
    ASSUME OneRequestInv, NEW t \in IoThreads, SpawnInline(t) \/ CoroResume(t)
    PROVE  OneRequestInv'
<1>1. CASE SpawnInline(t)
  <2>1. io[t].pc = "spawn" /\ io[t].ctx = 1 /\ coro[1] # "none"
    BY <1>1, UnchangedStay DEF SpawnInline, At, OneRequestInv, OneWorks
  <2> QED BY <1>1, <2>1, CoroEnterOne DEF SpawnInline
<1>2. CASE CoroResume(t)
  <2>1. PICK c \in Contexts : coro[c] = "ready" /\ CoroEnter(t, c, "idle")
    BY <1>2 DEF CoroResume
  <2>2. c = 1 /\ coro[1] # "none" /\ io[t].pc = "idle"
    BY <1>2, <2>1, UnchangedStay DEF CoroResume, At
  <2> QED BY <2>1, <2>2, CoroEnterOne
<1> QED BY <1>1, <1>2

LEMMA SpawnQueuedOne ==
    ASSUME OneRequestInv, NEW t \in IoThreads, SpawnQueued(t)
    PROVE  OneRequestInv'
<1>1. Stays(t) /\ io'[t].pc = "recheck" /\ io[t].pc = "spawn"
  BY GoStays DEF SpawnQueued, At, Pcs
<1>2. SameCoro /\ coro'[1] = "ready" /\ coro[1] # "none"
  <2>1. coro' = [coro EXCEPT ![1] = "ready"]
    BY UnchangedStay DEF SpawnQueued
  <2>2. coro[1] # "none"
    BY <1>1 DEF OneRequestInv, OneWorks
  <2> QED BY <2>1, <2>2, CoroMoved, FirstIsContext DEF OneRequestInv, SameCoro, CoroStates
<1>3. UNCHANGED <<app_ctx, state, freed, app, inline_reads>>
  BY DEF SpawnQueued, ctxVars, readVars
<1>4. Types' /\ FirstOnly'
  BY <1>1, <1>2, <1>3, UnchangedStay, StepKeepsFirst DEF Same
<1>5. ~Wanted(1) /\ ~Wanted(1)'
  BY <1>1, <1>3 DEF OneRequestInv, OneWorks, Wanted
<1>6. ~Works(t)'
  BY <1>1, <1>5 DEF Works
<1>7. OneWorks'
  BY <1>1, <1>2, <1>3, <1>5, <1>6, GoesOnAlone
<1> QED BY <1>4, <1>7 DEF OneRequestInv

LEMMA LeaveOne ==
    ASSUME OneRequestInv, NEW t \in IoThreads, io' = [io EXCEPT ![t].pc = io[t].next]
    PROVE  Stays(t) /\ io'[t].pc \in {"idle", "recheck"}
<1>1. io[t].next \in {"idle", "recheck"}
  BY UnchangedStay DEF IoState
<1>2. io[t].next \in Pcs \ {"reload_read"} /\ Go(t, io[t].next)
  BY <1>1 DEF Pcs, Go
<1> QED BY <1>1, <1>2, GoStays

LEMMA CoroWriteOne ==
    ASSUME OneRequestInv, NEW t \in IoThreads, CoroWrite(t)
    PROVE  OneRequestInv'
<1>1. Stays(t) /\ io'[t].pc \in {"idle", "recheck"} /\ io[t].pc = "coro"
  BY LeaveOne DEF CoroWrite, Leave, At
<1>2. SameCoro /\ coro'[1] = "waiting" /\ coro[1] # "none"
  <2>1. coro' = [coro EXCEPT ![1] = "waiting"]
    BY UnchangedStay DEF CoroWrite
  <2>2. coro[1] # "none"
    BY <1>1 DEF OneRequestInv, OneWorks
  <2> QED BY <2>1, <2>2, CoroMoved, FirstIsContext DEF OneRequestInv, SameCoro, CoroStates
<1>3. UNCHANGED <<app_ctx, state, freed, app, inline_reads>>
  BY DEF CoroWrite, ctxVars, readVars
<1>4. Types' /\ FirstOnly'
  BY <1>1, <1>2, <1>3, UnchangedStay, StepKeepsFirst DEF Same
<1>5. ~Wanted(1) /\ ~Wanted(1)'
  BY <1>1, <1>3 DEF OneRequestInv, OneWorks, Wanted
<1>6. ~Works(t)'
  BY <1>1, <1>5 DEF Works
<1>7. OneWorks'
  BY <1>1, <1>2, <1>3, <1>5, <1>6, GoesOnAlone
<1> QED BY <1>4, <1>7 DEF OneRequestInv

LEMMA CoroEndOne ==
    ASSUME OneRequestInv, NEW t \in IoThreads, CoroEnd(t)
    PROVE  OneRequestInv'
<1>1. Stays(t) /\ io'[t].pc = "reload" /\ io[t].pc = "coro"
  BY GoStays DEF CoroEnd, At, Pcs
<1>2. SameCoro /\ coro'[1] = "done" /\ coro[1] # "none"
  <2>1. coro' = [coro EXCEPT ![1] = "done"]
    BY UnchangedStay DEF CoroEnd
  <2>2. coro[1] # "none"
    BY <1>1 DEF OneRequestInv, OneWorks
  <2> QED BY <2>1, <2>2, CoroMoved, FirstIsContext DEF OneRequestInv, SameCoro, CoroStates
<1>3. ~Wanted(1)
  BY <1>1 DEF OneRequestInv, OneWorks
<1>4. SameState /\ ~Wanted(1)'
  <2> DEFINE flags == state[1] \ {"THREAD_RUNNING"}
  <2>1. flags \in SUBSET Flags /\ "KEEPALIVE" \notin flags /\ "WANT_READ" \notin flags
    BY <1>3, UnchangedStay DEF Wanted
  <2>2. state' = [state EXCEPT ![1] = flags]
    BY UnchangedStay DEF CoroEnd, DelFlag
  <2> HIDE DEF flags
  <2>3. SameState /\ state'[1] = flags
    BY <2>1, <2>2, FlagsStay
  <2> QED BY <2>1, <2>3 DEF Wanted
<1>5. UNCHANGED <<app_ctx, freed, app, inline_reads>>
  BY DEF CoroEnd, readVars
<1>6. Types' /\ FirstOnly'
  BY <1>1, <1>2, <1>4, <1>5, UnchangedStay, StepKeepsFirst DEF Same
<1>7. ~Works(t)'
  BY <1>1 DEF Works
<1>8. OneWorks'
  BY <1>1, <1>2, <1>4, <1>5, <1>7, GoesOnAlone
<1> QED BY <1>6, <1>8 DEF OneRequestInv

(* reload_context keeps the context of a request that is not kept alive. *)
LEMMA IoReloadOne ==
    ASSUME OneRequestInv, NEW t \in IoThreads, IoReload(t)
    PROVE  OneRequestInv'
<1>1. "KEEPALIVE" \notin state[app_ctx]
  BY UnchangedStay
<1>2. /\ UNCHANGED <<app_ctx, freed, state, app, coro, inline_reads>>
      /\ io[t].pc = "reload" /\ io' = [io EXCEPT ![t].pc = io[t].next]
  BY <1>1 DEF IoReload, At, readVars
<1>3. Stays(t) /\ io'[t].pc \in {"idle", "recheck"}
  BY <1>2, LeaveOne
<1>4. Types' /\ FirstOnly'
  BY <1>2, <1>3, UnchangedStay, StepKeepsFirst DEF Same
<1>5. ~Wanted(1) /\ ~Wanted(1)'
  BY <1>2 DEF OneRequestInv, OneWorks, Wanted
<1>6. ~Works(t)'
  BY <1>3, <1>5 DEF Works
<1>7. OneWorks'
  BY <1>2, <1>3, <1>5, <1>6, GoesOnAlone
<1> QED BY <1>4, <1>7 DEF OneRequestInv

LEMMA RestsOne ==
    ASSUME OneRequestInv, UNCHANGED <<app_ctx, freed, io, inline_reads>>,
           SameState, SameApp, SameCoro,
           app'[1] = "none" <=> app[1] = "none", coro'[1] = "none" <=> coro[1] = "none",
           Wanted(1)' => Wanted(1)
    PROVE  OneRequestInv'
<1>1. Types'
  BY DEF OneRequestInv, Types, SameState, SameApp, SameCoro, AppStates, CoroStates
<1>2. \A c \in Contexts : app'[c] # "reload_read" /\ (c # 1 => app'[c] = "none" /\ coro'[c] = "none")
  BY DEF OneRequestInv, FirstOnly, SameApp, SameCoro
<1>3. FirstOnly'
  BY <1>2 DEF OneRequestInv, FirstOnly, SameState
<1>4. OneWorks'
  BY RestsAlone
<1> QED BY <1>1, <1>3, <1>4 DEF OneRequestInv

LEMMA StutterOne ==
    ASSUME OneRequestInv, UNCHANGED <<ctxVars, io, app, coro, inline_reads>>
    PROVE  OneRequestInv'
<1>1. UNCHANGED <<app_ctx, state, freed, io, app, coro, inline_reads>>
  BY DEF ctxVars
<1>2. SameState /\ SameApp /\ SameCoro /\ (Wanted(1)' => Wanted(1))
  BY <1>1, UnchangedStay DEF Wanted
<1> QED BY <1>1, <1>2, RestsOne

LEMMA CoroWriteDoneOne ==
    ASSUME OneRequestInv, NEW c \in Contexts, CoroWriteDone(c)
    PROVE  OneRequestInv'
<1>1. c = 1 /\ coro[1] # "none"
  BY UnchangedStay DEF CoroWriteDone
<1>2. SameCoro /\ coro'[1] = "ready"
  <2>1. coro' = [coro EXCEPT ![1] = "ready"]
    BY <1>1 DEF CoroWriteDone
  <2> QED BY <2>1, CoroMoved, FirstIsContext DEF OneRequestInv, SameCoro, CoroStates
<1>3. UNCHANGED <<app_ctx, state, freed, io, app, inline_reads>>
  BY DEF CoroWriteDone, ctxVars, readVars
<1>4. SameState /\ SameApp /\ (Wanted(1)' => Wanted(1))
  BY <1>3, UnchangedStay DEF Wanted
<1> QED BY <1>1, <1>2, <1>3, <1>4, RestsOne

LEMMA AppStepOne ==
    ASSUME OneRequestInv, NEW c \in Contexts, AppStep(c)
    PROVE  OneRequestInv'
<1>1. c = 1 /\ app[1] # "none" /\ app[1] # "reload_read"
  BY UnchangedStay, FirstIsContext
  DEF AppStep, AppEnd, AppReload, AppReloadRead, OneRequestInv, FirstOnly
<1>2. CASE AppEnd(c)
  <2>1. SameApp /\ app'[1] = "reload"
    <3>1. app' = [app EXCEPT ![1] = "reload"]
      BY <1>1, <1>2 DEF AppEnd
    <3> QED BY <3>1, AppMoved, FirstIsContext DEF OneRequestInv, SameApp, AppStates
  <2>2. SameState /\ (Wanted(1)' => Wanted(1))
    <3> DEFINE flags == state[1] \ {"THREAD_RUNNING"}
    <3>1. flags \in SUBSET Flags /\ "KEEPALIVE" \notin flags /\ (("WANT_READ" \in flags) => Wanted(1))
      BY UnchangedStay DEF Wanted
    <3>2. state' = [state EXCEPT ![1] = flags]
      BY <1>1, <1>2 DEF AppEnd, DelFlag
    <3> HIDE DEF flags
    <3>3. SameState /\ state'[1] = flags
      BY <3>1, <3>2, FlagsStay
    <3> QED BY <3>1, <3>3 DEF Wanted
  <2>3. UNCHANGED <<app_ctx, freed, io, coro, inline_reads>>
    BY <1>2 DEF AppEnd, readVars
  <2> QED BY <1>1, <2>1, <2>2, <2>3, UnchangedStay, RestsOne
<1>3. CASE AppReload(c)
  <2>1. "KEEPALIVE" \notin state[app_ctx]
    BY UnchangedStay
  <2>2. SameApp /\ app'[1] = "done"
    <3>1. app' = [app EXCEPT ![1] = "done"]
      BY <1>1, <1>3, <2>1 DEF AppReload
    <3> QED BY <3>1, AppMoved, FirstIsContext DEF OneRequestInv, SameApp, AppStates
  <2>3. UNCHANGED <<app_ctx, freed, state, io, coro, inline_reads>>
    BY <1>3, <2>1 DEF AppReload, readVars
  <2>4. SameState /\ SameCoro /\ (Wanted(1)' => Wanted(1))
    BY <2>3, UnchangedStay DEF Wanted
  <2> QED BY <1>1, <2>2, <2>3, <2>4, RestsOne
<1>4. CASE AppReloadRead(c)
  BY <1>1, <1>4 DEF AppReloadRead
<1> QED BY <1>2, <1>3, <1>4 DEF AppStep

LEMMA TimeoutOne ==
    ASSUME OneRequestInv, NEW t \in IoThreads, TimeoutHandler(t)
    PROVE  OneRequestInv'
<1>1. UNCHANGED <<app_ctx, freed, io, app, coro, inline_reads>>
  BY DEF TimeoutHandler, runVars, readVars
<1>2. SameState /\ (Wanted(1)' => Wanted(1))
  <2>1. CASE HasRefs
    <3> DEFINE flags == {}
    <3>1. flags \in SUBSET Flags /\ "KEEPALIVE" \notin flags /\ "WANT_READ" \notin flags
      OBVIOUS
    <3>2. state' = [state EXCEPT ![1] = flags]
      BY <2>1, UnchangedStay DEF TimeoutHandler
    <3> HIDE DEF flags
    <3>3. SameState /\ state'[1] = flags
      BY <3>1, <3>2, FlagsStay
    <3> QED BY <3>1, <3>3 DEF Wanted
  <2>2. CASE ~HasRefs
    <3>1. UNCHANGED state
      BY <2>2 DEF TimeoutHandler
    <3> QED BY <3>1, UnchangedStay DEF Wanted
  <2> QED BY <2>1, <2>2
<1>3. SameApp /\ SameCoro
  BY <1>1, UnchangedStay
<1> QED BY <1>1, <1>2, <1>3, RestsOne

LEMMA NextOne ==
    ASSUME KeepAlive = FALSE, OneRequestInv, [Next]_vars
    PROVE  OneRequestInv'
<1>1. ASSUME NEW t \in IoThreads,
             InlineReadHandler(t) \/ ReadStep(t) \/ RequestIncomplete(t)
      PROVE  OneRequestInv'
  <2>1. CASE InlineReadHandler(t) \/ InlineReadError(t)
    BY <2>1, InlineReadOne
  <2>2. CASE Detach(t) \/ Recheck(t) \/ Reread(t)
    BY <2>2, IoMovesOne, RereadOne
  <2>3. CASE DecideBegin(t) \/ RequestIncomplete(t) \/ RequestRefused(t)
    BY <2>3, DecideBeginOne, RequestIncompleteOne, RequestRefusedOne
  <2>4. CASE RunNoYield(t) \/ RunAsync(t) \/ RunThread(t)
    BY <2>4, RunNoYieldOne, RunAsyncOne, RunThreadOne
  <2> QED BY <1>1, <2>1, <2>2, <2>3, <2>4 DEF ReadStep
<1>2. ASSUME NEW t \in IoThreads,
             CoroWrite(t) \/ HandlerStep(t) \/ CoroResume(t) \/ TimeoutHandler(t)
      PROVE  OneRequestInv'
  <2>1. ~IoReloadRead(t)
    BY DEF IoReloadRead, At, OneRequestInv, FirstOnly
  <2>2. CASE HandlerEnd(t) \/ IoReload(t) \/ TimeoutHandler(t)
    BY <2>2, IoMovesOne, IoReloadOne, TimeoutOne
  <2>3. CASE SpawnQueued(t) \/ SpawnInline(t) \/ CoroResume(t)
    BY <2>3, SpawnQueuedOne, CoroRunsOne
  <2>4. CASE CoroWrite(t) \/ CoroEnd(t)
    BY <2>4, CoroWriteOne, CoroEndOne
  <2> QED BY <1>2, <2>1, <2>2, <2>3, <2>4 DEF HandlerStep
<1>3. ASSUME \/ \E t \in IoThreads : HandlerWrite(t) \/ StrandTask(t)
             \/ \E c \in Contexts : AppWrite(c)
             \/ TimerExpires \/ PeerDrops \/ UNCHANGED vars
      PROVE  OneRequestInv'
  <2>1. UNCHANGED <<ctxVars, io, app, coro, inline_reads>>
    BY <1>3
    DEF HandlerWrite, StrandTask, WriteStarts, WriteHandler, WriteHandlerError,
        CloseSocketImpl, AppWrite, TimerExpires, PeerDrops, vars, runVars, readVars
  <2> QED BY <2>1, StutterOne
<1>4. ASSUME NEW c \in Contexts, AppStep(c) \/ CoroWriteDone(c)
      PROVE  OneRequestInv'
  BY <1>4, AppStepOne, CoroWriteDoneOne
<1> QED BY <1>1, <1>2, <1>3, <1>4 DEF Next

LEMMA InitOne == Init => OneRequestInv
<1> SUFFICES ASSUME Init PROVE OneRequestInv
  OBVIOUS
<1>1. Types
  BY FirstIsContext DEF Init, Types, IoState, Pcs, Flags
<1>2. \A t \in IoThreads : io[t].ctx = 1 /\ io[t].pc = "idle"
  BY DEF Init
<1>3. \A c \in Contexts : state[c] = {} /\ app[c] = "none" /\ coro[c] = "none"
  BY DEF Init
<1>4. app_ctx = 1 /\ freed = {} /\ inline_reads = 1
  BY DEF Init
<1>5. FirstOnly
  BY <1>2, <1>3, <1>4 DEF FirstOnly
<1>6. ~Begun /\ ~Wanted(1) /\ \A t \in IoThreads : ~Works(t)
  BY <1>2, <1>3, FirstIsContext DEF Begun, Wanted, Works
<1>7. OneWorks
  BY <1>2, <1>3, <1>4, <1>6, FirstIsContext DEF OneWorks
<1> QED BY <1>1, <1>5, <1>7 DEF OneRequestInv

LEMMA OneRequestHolds ==
    ASSUME KeepAlive = FALSE
    PROVE  Spec => []OneRequestInv
<1>1. OneRequestInv /\ [Next]_vars => OneRequestInv'
  BY NextOne
<1> QED BY <1>1, InitOne, PTL DEF Spec

(* Whatever the number of threads in io_service::run: buffer_read has one user
   at a time on a connection whose request does not ask to be kept alive. *)
THEOREM AloneReadBufferHasOneUser ==
    ASSUME KeepAlive = FALSE
    PROVE  Spec => []BufferReadExclusive
<1>1. ASSUME OneRequestInv PROVE BufferReadExclusive
  <2> DEFINE S == {u \in IoThreads : io[u].pc \in {"decide", "process"}}
  <2>1. CASE S = {}
    <3>1. inline_reads \in {0, 1}
      BY <1>1, UnchangedStay
    <3>2. Cardinality(S) = 0
      BY <2>1, FS_EmptySet
    <3>3. inline_reads + Cardinality(S) <= 1
      <4> HIDE DEF S
      <4> QED BY <3>1, <3>2
    <3> QED BY <3>3 DEF BufferReadExclusive
  <2>2. CASE S # {}
    <3>1. PICK t \in IoThreads : io[t].pc \in {"decide", "process"}
      BY <2>2
    <3>2. inline_reads = 0 /\ \A u \in IoThreads : u # t => io[u].pc = "idle"
      BY <1>1, <3>1 DEF OneRequestInv, OneWorks, Works
    <3>3. S \subseteq {t}
      BY <3>2
    <3>4. Cardinality(S) \in {0, 1}
      BY <3>3, AtMostOne
    <3>5. inline_reads + Cardinality(S) <= 1
      <4> HIDE DEF S
      <4> QED BY <3>2, <3>4
    <3> QED BY <3>5 DEF BufferReadExclusive
  <2> QED BY <2>1, <2>2
<1>2. Spec => []OneRequestInv
  BY OneRequestHolds
<1> QED BY <1>1, <1>2, PTL

(* Whatever the number of threads in io_service::run: without keep-alive the
   middlewares of a connection never overlap, in any mode. *)
THEOREM AloneMiddlewaresNeverOverlap ==
    ASSUME KeepAlive = FALSE
    PROVE  Spec => []HandlersSequential
<1>1. ASSUME OneRequestInv PROVE HandlersSequential
  <2> DEFINE H == {u \in IoThreads : io[u].pc = "handler"}
             A == {c \in Contexts : app[c] = "running"}
             C == {c \in Contexts : coro[c] \notin {"none", "done"}}
  <2>1. A \subseteq {1} /\ C \subseteq {1} /\ ~(1 \in A /\ 1 \in C)
    BY <1>1 DEF OneRequestInv, FirstOnly, OneWorks
  <2>2. /\ Cardinality(A) \in {0, 1} /\ (1 \notin A => Cardinality(A) = 0)
        /\ Cardinality(C) \in {0, 1} /\ (1 \notin C => Cardinality(C) = 0)
    BY <2>1, AtMostOne
  <2>3. Cardinality(H) = 0 \/ (Cardinality(H) = 1 /\ A = {} /\ C = {})
    <3>1. CASE H = {}
      BY <3>1, FS_EmptySet
    <3>2. CASE H # {}
      <4>1. PICK t \in IoThreads : io[t].pc = "handler"
        BY <3>2
      <4>2. ~Begun /\ \A u \in IoThreads : u # t => io[u].pc = "idle"
        BY <1>1, <4>1 DEF OneRequestInv, OneWorks, Works
      <4>3. H = {t}
        BY <4>1, <4>2
      <4>4. A = {} /\ C = {}
        BY <2>1, <4>2 DEF Begun
      <4>5. Cardinality(H) = 1
        BY <4>3, FS_Singleton
      <4> QED BY <4>4, <4>5
    <3> QED BY <3>1, <3>2
  <2>4. A = {} /\ C = {} => Cardinality(A) = 0 /\ Cardinality(C) = 0
    BY FS_EmptySet
  <2>5. Cardinality(H) + Cardinality(A) + Cardinality(C) <= 1
    <3>1. 1 \notin A \/ 1 \notin C
      BY <2>1
    <3> HIDE DEF H, A, C
    <3> QED BY <2>2, <2>3, <2>4, <3>1
  <2> QED BY <2>5 DEF HandlersSequential
<1>2. Spec => []OneRequestInv
  BY OneRequestHolds
<1> QED BY <1>1, <1>2, PTL

=============================================================================
