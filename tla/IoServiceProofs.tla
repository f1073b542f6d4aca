---------------------------- MODULE IoServiceProofs ----------------------------
(***************************************************************************)
(* Theorems about IoService, for any number of io threads and connections. *)
(***************************************************************************)
EXTENDS IoService, FiniteSetTheorems, TLAPS

Started == {t \in Threads : runner[t] # "new"}

(* One accept for each thread that has started; a thread runs a request of
   its own, and a thread in the strand a coroutine; only a read or a blocking
   write waits, not one of a coroutine; only an async route has coroutines. *)
OnThread == {"handling", "running", "blocked"}
AcceptShape == accepts = Cardinality(Started)
RunnerShape ==
    \A t \in Threads : runner[t] \in Requests =>
        /\ stage[runner[t]] \in OnThread
        /\ \A u \in Threads : runner[u] = runner[t] => u = t
MayWait(r) == r \in Files \cup Streamed /\ (mode[r] = "async" => Compressed)
StageShape ==
    \A r \in Requests :
        /\ stage[r] = "blocked" => MayWait(r)
        /\ stage[r] \in {"spawned", "suspended"} => mode[r] = "async"
StrandShape ==
    \A t \in Threads : strand = t =>
        /\ runner[t] \in Requests
        /\ mode[runner[t]] = "async" /\ stage[runner[t]] # "handling"

IInv == TypeOK /\ AcceptShape /\ RunnerShape /\ StageShape /\ StrandShape

SessionTypes ==
    /\ mode \in [Requests -> Modes \cup {"none"}]
    /\ read \in [Requests -> Operation]
    /\ headers \in [Requests -> Operation] /\ write \in [Requests -> Operation]
    /\ closing \in [Requests -> {"no", "posted", "closed"}]

(* The number of threads is a natural number, and so is that of any part. *)
LEMMA ThreadsFinite ==
    /\ Cardinality(Threads) \in Nat
    /\ IsFiniteSet(Started) /\ Cardinality(Started) \in Nat
    /\ Cardinality(Started) <= Cardinality(Threads)
<1>1. IsFiniteSet(Threads) /\ Started \in SUBSET Threads
  BY ConstantsAssumption DEF Started
<1>2. IsFiniteSet(Started) /\ Cardinality(Started) <= Cardinality(Threads)
  BY <1>1, FS_Subset
<1> QED BY <1>1, <1>2, FS_CardinalityType

(* A new Instance has no thread, no accept and no request. *)
LEMMA InitInv == Init => IInv
<1> SUFFICES ASSUME Init PROVE IInv
  OBVIOUS
<1>1. Started = {} BY DEF Init, Started
<1>2. accepts = 0 /\ Cardinality(Started) = 0
  BY <1>1, FS_EmptySet DEF Init
<1>3. TypeOK
  BY <1>2, ThreadsFinite, ConstantsAssumption DEF Init, TypeOK, Stages, Operation
<1>4. RunnerShape /\ StrandShape
  BY ConstantsAssumption DEF Init, RunnerShape, StrandShape
<1>5. StageShape
  BY DEF Init, StageShape
<1> QED BY <1>2, <1>3, <1>4, <1>5 DEF IInv, AcceptShape

(* RunnerStart adds a thread and an accept. *)
LEMMA StartInv ==
  ASSUME IInv, NEW t \in Threads, RunnerStart(t)
  PROVE  IInv'
<1> USE DEF RunnerStart, sessionVars
<1>1. t \notin Started /\ Started' = Started \cup {t}
  BY DEF Started, IInv, TypeOK
<1>2. IsFiniteSet(Started) /\ Cardinality(Started') = Cardinality(Started) + 1
  BY <1>1, ThreadsFinite, FS_AddElement
<1>3. Started' \in SUBSET Threads
  BY DEF Started
<1>4. Cardinality(Started') <= Cardinality(Threads)
  BY <1>3, ConstantsAssumption, FS_Subset
<1>5. AcceptShape'
  BY <1>2 DEF IInv, AcceptShape
<1>6. accepts' \in 0..Cardinality(Threads)
  BY <1>2, <1>4, <1>5, ThreadsFinite DEF IInv, AcceptShape
<1>7. TypeOK'
  BY <1>6 DEF IInv, TypeOK
<1>8. RunnerShape' /\ StrandShape'
  BY ConstantsAssumption DEF IInv, TypeOK, RunnerShape, StrandShape
<1>9. StageShape'
  BY DEF IInv, StageShape, MayWait, sessionVars
<1> QED BY <1>5, <1>7, <1>8, <1>9 DEF IInv

(* A step in which no thread starts keeps the accepts. *)
LEMMA AcceptsKept ==
  ASSUME IInv, UNCHANGED accepts,
         runner' \in [Threads -> {"new", "idle", "exited"} \cup Requests],
         \A t \in Threads : runner'[t] # "new" <=> runner[t] # "new"
  PROVE  AcceptShape'
<1>1. Started' = Started BY DEF Started
<1> QED BY <1>1 DEF IInv, AcceptShape

(* The middlewares of r give their thread back: nobody else's changes. *)
LEMMA LeaveInv ==
  ASSUME IInv, NEW r \in Requests, NEW s \in Stages \ {"blocked"},
         LeaveThread(r), Enter(r, s), SessionTypes',
         \A q \in Requests : q # r => mode'[q] = mode[q],
         s \in {"spawned", "suspended"} => mode'[r] = "async",
         UNCHANGED <<main, stopped, accepts>>
  PROVE  IInv'
<1> USE DEF LeaveThread, Enter
<1>1. /\ runner' \in [Threads -> {"new", "idle", "exited"} \cup Requests]
      /\ \A t \in Threads : runner'[t] = IF runner[t] = r THEN "idle" ELSE runner[t]
      /\ r \notin {"new", "idle", "exited"}
  BY ConstantsAssumption DEF IInv, TypeOK
<1>2. AcceptShape'
  BY <1>1, AcceptsKept
<1>3. /\ stage' \in [Requests -> Stages] /\ stage'[r] = s
      /\ \A q \in Requests : q # r => stage'[q] = stage[q]
  BY DEF IInv, TypeOK
<1>4. TypeOK'
  <2>1. strand' \in Threads \cup {Free}
    BY DEF IInv, TypeOK
  <2> QED BY <1>1, <1>3, <2>1 DEF IInv, TypeOK, SessionTypes
<1>5. RunnerShape'
  <2> SUFFICES ASSUME NEW t \in Threads, runner'[t] \in Requests
               PROVE  /\ stage'[runner'[t]] \in OnThread
                      /\ \A u \in Threads : runner'[u] = runner'[t] => u = t
    BY DEF RunnerShape
  <2>1. runner'[t] = runner[t] /\ runner[t] # r /\ runner[t] \in Requests
    BY <1>1, ConstantsAssumption
  <2>2. stage'[runner'[t]] = stage[runner[t]]
    BY <1>3, <2>1
  <2>3. ASSUME NEW u \in Threads, runner'[u] = runner'[t] PROVE u = t
    <3>1. runner[u] = runner[t]
      BY <1>1, <2>1, <2>3, ConstantsAssumption
    <3> QED BY <2>1, <3>1 DEF IInv, RunnerShape
  <2> QED BY <2>1, <2>2, <2>3 DEF IInv, RunnerShape
<1>6. StrandShape'
  <2> SUFFICES ASSUME NEW t \in Threads, strand' = t
               PROVE  /\ runner'[t] \in Requests
                      /\ mode'[runner'[t]] = "async" /\ stage'[runner'[t]] # "handling"
    BY DEF StrandShape
  <2>1. strand = t /\ runner[t] # r
    BY ConstantsAssumption DEF IInv, TypeOK
  <2>2. runner[t] \in Requests /\ runner'[t] = runner[t]
    BY <1>1, <2>1 DEF IInv, StrandShape
  <2> QED BY <1>3, <2>1, <2>2 DEF IInv, StrandShape
<1>7. StageShape'
  <2> SUFFICES ASSUME NEW q \in Requests
               PROVE  /\ stage'[q] = "blocked" => MayWait(q)'
                      /\ stage'[q] \in {"spawned", "suspended"} => mode'[q] = "async"
    BY DEF StageShape
  <2>1. CASE q = r
    BY <1>3, <2>1
  <2>2. CASE q # r
    BY <1>3, <2>2 DEF IInv, StageShape, MayWait
  <2> QED BY <2>1, <2>2
<1> QED BY <1>2, <1>4, <1>5, <1>6, <1>7 DEF IInv

(* A step in which no thread takes or leaves a request, what runs in the
   strand stays there, and who begins to wait may. *)
LEMMA QuietInv ==
  ASSUME IInv, TypeOK', UNCHANGED <<runner, accepts, strand>>,
         \A t \in Threads : runner[t] \in Requests =>
             /\ mode'[runner[t]] = mode[runner[t]]
             /\ stage'[runner[t]] \in OnThread
             /\ stage'[runner[t]] = "handling" => stage[runner[t]] = "handling",
         \A r \in Requests :
             /\ stage'[r] = "blocked" => MayWait(r)'
             /\ stage'[r] \in {"spawned", "suspended"} => mode'[r] = "async"
  PROVE  IInv'
<1>1. AcceptShape'
  BY AcceptsKept DEF TypeOK
<1>2. RunnerShape' /\ StrandShape'
  BY DEF IInv, RunnerShape, StrandShape
<1>3. StageShape'
  BY DEF StageShape
<1> QED BY <1>1, <1>2, <1>3 DEF IInv

(* The same, when r changes from one stage to another off the threads. *)
LEMMA OffThreadInv ==
  ASSUME IInv, NEW r \in Requests, NEW s \in Stages \ {"blocked", "spawned", "suspended"},
         stage[r] \notin OnThread, Enter(r, s), SessionTypes',
         \A q \in Requests : q # r => mode'[q] = mode[q],
         UNCHANGED <<runner, main, stopped, accepts, strand>>
  PROVE  IInv'
<1>1. /\ stage' \in [Requests -> Stages] /\ stage'[r] = s
      /\ \A q \in Requests : q # r => stage'[q] = stage[q]
  BY DEF Enter, IInv, TypeOK
<1>2. TypeOK'
  BY <1>1 DEF IInv, TypeOK, SessionTypes
<1>3. ASSUME NEW t \in Threads, runner[t] \in Requests
      PROVE  /\ mode'[runner[t]] = mode[runner[t]]
             /\ stage'[runner[t]] \in OnThread
             /\ stage'[runner[t]] = "handling" => stage[runner[t]] = "handling"
  <2>1. stage[runner[t]] \in OnThread
    BY <1>3 DEF IInv, RunnerShape
  <2> QED BY <1>1, <1>3, <2>1
<1>4. ASSUME NEW q \in Requests
      PROVE  /\ stage'[q] = "blocked" => MayWait(q)'
             /\ stage'[q] \in {"spawned", "suspended"} => mode'[q] = "async"
  <2>1. CASE q = r
    BY <1>1, <2>1
  <2>2. CASE q # r
    BY <1>1, <2>2 DEF IInv, StageShape, MayWait
  <2> QED BY <2>1, <2>2
<1> QED BY <1>2, <1>3, <1>4, QuietInv

(* The same, when r goes on where it is. *)
LEMMA OnThreadInv ==
  ASSUME IInv, NEW r \in Requests, NEW s \in {"running", "blocked"},
         stage[r] \in {"running", "blocked", "starting"}, Enter(r, s),
         s = "blocked" => MayWait(r), SessionTypes',
         UNCHANGED <<runner, main, stopped, accepts, strand, mode>>
  PROVE  IInv'
<1>1. /\ stage' \in [Requests -> Stages] /\ stage'[r] = s
      /\ \A q \in Requests : q # r => stage'[q] = stage[q]
  BY DEF Enter, IInv, TypeOK, Stages
<1>2. TypeOK'
  BY <1>1 DEF IInv, TypeOK, SessionTypes
<1>3. ASSUME NEW t \in Threads, runner[t] \in Requests
      PROVE  /\ stage'[runner[t]] \in OnThread
             /\ stage'[runner[t]] = "handling" => stage[runner[t]] = "handling"
  <2>1. stage[runner[t]] \in OnThread
    BY <1>3 DEF IInv, RunnerShape
  <2> QED BY <1>1, <1>3, <2>1 DEF OnThread
<1>4. ASSUME NEW q \in Requests
      PROVE  /\ stage'[q] = "blocked" => MayWait(q)'
             /\ stage'[q] \in {"spawned", "suspended"} => mode'[q] = "async"
  <2>1. CASE q = r
    BY <1>1, <2>1 DEF MayWait
  <2>2. CASE q # r
    BY <1>1, <2>2 DEF IInv, StageShape, MayWait
  <2> QED BY <2>1, <2>2
<1> QED BY <1>2, <1>3, <1>4, QuietInv

(* A step of the operations of a session only. *)
LEMMA OperationInv ==
  ASSUME IInv, SessionTypes',
         UNCHANGED <<runner, main, stopped, accepts, strand, stage, mode>>
  PROVE  IInv'
<1>1. TypeOK'
  BY DEF IInv, TypeOK, SessionTypes
<1>2. \A t \in Threads : runner[t] \in Requests => stage[runner[t]] \in OnThread
  BY DEF IInv, RunnerShape
<1>3. \A q \in Requests :
         /\ stage[q] = "blocked" => MayWait(q)'
         /\ stage[q] \in {"spawned", "suspended"} => mode[q] = "async"
  BY DEF IInv, StageShape, MayWait
<1> QED BY <1>1, <1>2, <1>3, QuietInv

(* An idle thread takes the request r, which no other thread runs. *)
LEMMA TakeInv ==
  ASSUME IInv, NEW t \in Threads, NEW r \in Requests, NEW s \in {"handling", "running"},
         runner[t] = "idle", runner' = [runner EXCEPT ![t] = r],
         stage[r] \notin OnThread, Enter(r, s), SessionTypes',
         \/ UNCHANGED strand
         \/ s = "running" /\ strand' = t /\ mode[r] = "async",
         UNCHANGED <<main, stopped, accepts, mode>>
  PROVE  IInv'
<1> USE DEF Enter
<1>1. /\ runner' \in [Threads -> {"new", "idle", "exited"} \cup Requests]
      /\ runner'[t] = r /\ r \notin {"new", "idle", "exited"}
      /\ \A u \in Threads : u # t => runner'[u] = runner[u]
  BY ConstantsAssumption DEF IInv, TypeOK
<1>2. AcceptShape'
  <2>1. \A u \in Threads : runner'[u] # "new" <=> runner[u] # "new"
    BY <1>1
  <2> QED BY <1>1, <2>1, AcceptsKept
<1>3. \A u \in Threads : runner[u] # r
  BY DEF IInv, RunnerShape
<1>4. stage' \in [Requests -> Stages] /\ stage'[r] = s
      /\ \A q \in Requests : q # r => stage'[q] = stage[q]
  BY DEF IInv, TypeOK, Stages
<1>5. TypeOK'
  <2>1. strand' \in Threads \cup {Free}
    BY DEF IInv, TypeOK
  <2> QED BY <1>1, <1>4, <2>1 DEF IInv, TypeOK, SessionTypes
<1>6. RunnerShape'
  BY <1>1, <1>3, <1>4 DEF IInv, RunnerShape, OnThread
<1>7. StrandShape'
  <2> SUFFICES ASSUME NEW u \in Threads, strand' = u
               PROVE  /\ runner'[u] \in Requests
                      /\ mode[runner'[u]] = "async" /\ stage'[runner'[u]] # "handling"
    BY DEF StrandShape
  <2>1. CASE strand' = strand
    <3>1. /\ runner[u] \in Requests /\ u # t
          /\ mode[runner[u]] = "async" /\ stage[runner[u]] # "handling"
      BY <2>1, ConstantsAssumption DEF IInv, StrandShape
    <3> QED BY <1>1, <1>3, <1>4, <3>1
  <2>2. CASE strand' # strand
    BY <1>1, <1>4, <2>2
  <2> QED BY <2>1, <2>2
<1>8. StageShape'
  BY <1>4 DEF IInv, StageShape, MayWait
<1> QED BY <1>2, <1>5, <1>6, <1>7, <1>8 DEF IInv

(* The types of what a session keeps hold again after a step on it. *)
LEMMA FinishTypes ==
  ASSUME IInv, NEW r \in Requests, Finish(r)
  PROVE  SessionTypes' /\ \A q \in Requests : q # r => mode'[q] = mode[q]
BY DEF IInv, TypeOK, SessionTypes, Operation, Finish

(* run_handler chooses what runs the middlewares. *)
LEMMA RunHandlerInv ==
  ASSUME IInv, NEW t \in Threads, NEW r \in Requests, RunHandler(t, r)
  PROVE  IInv'
<1>1. /\ runner[t] = r /\ stage[r] = "handling"
      /\ UNCHANGED <<main, stopped, accepts, read, headers, write, closing>>
  BY DEF RunHandler
<1>2. ASSUME NEW m \in Modes, mode' = [mode EXCEPT ![r] = m]
      PROVE  /\ SessionTypes' /\ mode'[r] = m
             /\ \A q \in Requests : q # r => mode'[q] = mode[q]
  BY <1>1, <1>2 DEF IInv, TypeOK, SessionTypes
<1>3. CASE "async" \in Modes /\ SpawnPosted(r)
  <2> DEFINE m == "async"
  <2>1. "spawned" \in Stages \ {"blocked"}
    BY DEF Stages
  <2> QED BY <1>1, <1>2, <1>3, <2>1, LeaveInv DEF SpawnPosted
<1>4. CASE "thread" \in Modes /\ StartThread(r)
  <2>1. "starting" \in Stages \ {"blocked"}
    BY DEF Stages
  <2> QED BY <1>1, <1>2, <1>4, <2>1, LeaveInv DEF StartThread
<1>5. ASSUME NEW m \in Modes, mode' = [mode EXCEPT ![r] = m], Enter(r, "running"),
             UNCHANGED runner,
             \/ UNCHANGED strand
             \/ m = "async" /\ strand' = t
      PROVE  IInv'
  <2>1. /\ stage' \in [Requests -> Stages] /\ stage'[r] = "running"
        /\ \A q \in Requests : q # r => stage'[q] = stage[q]
    BY <1>5 DEF Enter, IInv, TypeOK, Stages
  <2>2. TypeOK'
    <3>1. strand' \in Threads \cup {Free}
      BY <1>5 DEF IInv, TypeOK
    <3>2. SessionTypes'
      BY <1>2, <1>5
    <3> QED BY <1>1, <1>5, <2>1, <3>1, <3>2 DEF IInv, TypeOK, SessionTypes
  <2>3. AcceptShape'
    BY <1>1, <1>5, <2>2, AcceptsKept DEF TypeOK
  <2>4. RunnerShape'
    BY <1>5, <2>1 DEF IInv, RunnerShape, OnThread
  <2>5. mode'[r] = m /\ \A q \in Requests : q # r => mode'[q] = mode[q]
    BY <1>2, <1>5
  <2>6. StrandShape'
    <3> SUFFICES ASSUME NEW u \in Threads, strand' = u
                 PROVE  /\ runner[u] \in Requests
                        /\ mode'[runner[u]] = "async" /\ stage'[runner[u]] # "handling"
      BY <1>5 DEF StrandShape
    <3>1. CASE strand' = strand
      <4>1. /\ runner[u] \in Requests /\ runner[u] # r
            /\ mode[runner[u]] = "async" /\ stage[runner[u]] # "handling"
        BY <1>1, <3>1 DEF IInv, StrandShape
      <4> QED BY <2>1, <2>5, <4>1
    <3>2. CASE strand' # strand
      BY <1>1, <1>5, <2>1, <2>5, <3>2
    <3> QED BY <3>1, <3>2
  <2>7. StageShape'
    <3> SUFFICES ASSUME NEW q \in Requests
                 PROVE  /\ stage'[q] = "blocked" => MayWait(q)'
                        /\ stage'[q] \in {"spawned", "suspended"} => mode'[q] = "async"
      BY DEF StageShape
    <3>1. CASE q = r
      BY <2>1, <3>1
    <3>2. CASE q # r
      BY <2>1, <2>5, <3>2 DEF IInv, StageShape, MayWait
    <3> QED BY <3>1, <3>2
  <2> QED BY <2>2, <2>3, <2>4, <2>6, <2>7 DEF IInv
<1>6. CASE "no_yield" \in Modes /\ RunInline(r)
  BY <1>5, <1>6 DEF RunInline
<1>7. CASE "async" \in Modes /\ SpawnHere(t, r)
  BY <1>5, <1>7 DEF SpawnHere
<1> QED BY <1>3, <1>4, <1>6, <1>7 DEF RunHandler

(* The other handlers an idle thread takes. *)
LEMMA HandlerInv ==
  ASSUME IInv, NEW t \in Threads, NEW r \in Requests, Handler(t, r)
  PROVE  IInv'
<1> USE DEF Ready, StrandReady
<1>1. CASE AcceptHandler(t, r)
  <2>1. SessionTypes' /\ "reading" \in Stages \ {"blocked", "spawned", "suspended"}
    BY <1>1 DEF AcceptHandler, sessionVars, IInv, TypeOK, SessionTypes, Stages
  <2> QED BY <1>1, <2>1, OffThreadInv DEF AcceptHandler, sessionVars, OnThread
<1>2. CASE ReadHandler(t, r)
  <2>1. SessionTypes'
    BY <1>2 DEF ReadHandler, sessionVars, IInv, TypeOK, SessionTypes
  <2> QED BY <1>2, <2>1, TakeInv DEF ReadHandler, sessionVars, OnThread
<1>3. CASE ReadHandlerError(t, r)
  <2>1. Finish(r) /\ stage[r] \notin OnThread
    BY <1>3 DEF ReadHandlerError, OnThread
  <2>2. Enter(r, "finished") /\ "finished" \in Stages \ {"blocked", "spawned", "suspended"}
    BY <2>1 DEF Finish, Stages
  <2> QED BY <1>3, <2>1, <2>2, FinishTypes, OffThreadInv DEF ReadHandlerError
<1>4. CASE CoroStart(t, r)
  <2>1. SessionTypes'
    BY <1>4 DEF CoroStart, sessionVars, IInv, TypeOK, SessionTypes
  <2>2. mode[r] = "async" /\ stage[r] \notin OnThread
    BY <1>4 DEF CoroStart, IInv, StageShape, OnThread
  <2> QED BY <1>4, <2>1, <2>2, TakeInv DEF CoroStart, EnterStrand, sessionVars
<1>5. CASE CoroResume(t, r)
  <2>1. SessionTypes'
    BY <1>5 DEF CoroResume, IInv, TypeOK, SessionTypes, Operation
  <2>2. mode[r] = "async" /\ stage[r] \notin OnThread
    BY <1>5 DEF CoroResume, IInv, StageShape, OnThread
  <2> QED BY <1>5, <2>1, <2>2, TakeInv DEF CoroResume, EnterStrand
<1>6. CASE CoroEnds(t, r)
  <2>1. Finish(r) /\ stage[r] \notin OnThread
    BY <1>6 DEF CoroEnds, OnThread
  <2>2. Enter(r, "finished") /\ "finished" \in Stages \ {"blocked", "spawned", "suspended"}
    BY <2>1 DEF Finish, Stages
  <2> QED BY <1>6, <2>1, <2>2, FinishTypes, OffThreadInv DEF CoroEnds
<1>7. CASE ReadAsyncPromised(t, r) \/ ArrangeAsyncWrite(t, r)
  <2>1. SessionTypes'
    BY <1>7 DEF ReadAsyncPromised, ArrangeAsyncWrite, IInv, TypeOK, SessionTypes, Operation
  <2> QED BY <1>7, <2>1, OperationInv DEF ReadAsyncPromised, ArrangeAsyncWrite
<1>8. CASE ReadPromiseHandler(t, r) \/ HeadersHandler(t, r)
  <2>1. closing' \in [Requests -> {"no", "posted", "closed"}]
    BY <1>8 DEF ReadPromiseHandler, HeadersHandler, CloseSocket, IInv, TypeOK
  <2>2. SessionTypes'
    BY <1>8, <2>1 DEF ReadPromiseHandler, HeadersHandler, IInv, TypeOK, SessionTypes, Operation
  <2> QED BY <1>8, <2>2, OperationInv DEF ReadPromiseHandler, HeadersHandler
<1>9. CASE WriteHandler(t, r)
  <2>1. CASE stage[r] = "blocked"
    <3>1. SessionTypes'
      BY <1>9, <2>1 DEF WriteHandler, IInv, TypeOK, SessionTypes, Operation
    <3> QED BY <1>9, <2>1, <3>1, OperationInv DEF WriteHandler
  <2>2. CASE stage[r] # "blocked"
    <3>1. Finish(r) /\ stage[r] \notin OnThread
      BY <1>9, <2>2 DEF WriteHandler, OnThread
    <3>2. Enter(r, "finished") /\ "finished" \in Stages \ {"blocked", "spawned", "suspended"}
      BY <3>1 DEF Finish, Stages
    <3> QED BY <1>9, <3>1, <3>2, FinishTypes, OffThreadInv DEF WriteHandler
  <2> QED BY <2>1, <2>2
<1>10. CASE TimeoutHandler(t, r) \/ CloseSocketImpl(t, r)
  <2>1. SessionTypes'
    BY <1>10 DEF TimeoutHandler, CloseSocketImpl, IInv, TypeOK, SessionTypes
  <2> QED BY <1>10, <2>1, OperationInv DEF TimeoutHandler, CloseSocketImpl
<1> QED
  BY <1>1, <1>2, <1>3, <1>4, <1>5, <1>6, <1>7, <1>8, <1>9, <1>10, RunHandlerInv DEF Handler

(* What the middlewares of r do. *)
LEMMA MiddlewareInv ==
  ASSUME IInv, NEW r \in Requests, Middleware(r)
  PROVE  IInv'
<1>1. CASE ContainerThread(r)
  <2>1. SessionTypes'
    BY <1>1 DEF ContainerThread, sessionVars, IInv, TypeOK, SessionTypes
  <2> QED BY <1>1, <2>1, OnThreadInv DEF ContainerThread, sessionVars
<1>2. CASE ReadBlocking(r)
  <2>1. SessionTypes'
    BY <1>2 DEF ReadBlocking, IInv, TypeOK, SessionTypes, Operation
  <2>2. MayWait(r) /\ stage[r] = "running"
    BY <1>2 DEF ReadBlocking, Reads, MayWait
  <2> QED BY <1>2, <2>1, <2>2, OnThreadInv DEF ReadBlocking
<1>3. CASE WriteBlocking(r)
  <2>1. SessionTypes'
    BY <1>3 DEF WriteBlocking, IInv, TypeOK, SessionTypes, Operation
  <2>2. MayWait(r) /\ stage[r] = "running"
    BY <1>3 DEF WriteBlocking, WriteKind, MayWait
  <2> QED BY <1>3, <2>1, <2>2, OnThreadInv DEF WriteBlocking
<1>4. CASE ReadBlockingReturns(r)
  <2>1. SessionTypes'
    BY <1>4 DEF ReadBlockingReturns, sessionVars, IInv, TypeOK, SessionTypes
  <2> QED BY <1>4, <2>1, OnThreadInv DEF ReadBlockingReturns, sessionVars
<1>5. CASE ReadBlockingThrows(r) \/ WriteBlockingReturns(r)
  <2>1. Finish(r) /\ LeaveThread(r) /\ UNCHANGED <<main, stopped, accepts>>
    BY <1>5 DEF ReadBlockingThrows, WriteBlockingReturns
  <2>2. Enter(r, "finished") /\ "finished" \in Stages \ {"blocked"}
    BY <2>1 DEF Finish, Stages
  <2> QED BY <2>1, <2>2, FinishTypes, LeaveInv
<1>6. CASE ReadCoro(r)
  <2>1. SessionTypes' /\ "suspended" \in Stages \ {"blocked"}
    BY <1>6 DEF ReadCoro, IInv, TypeOK, SessionTypes, Operation, Stages
  <2> QED BY <1>6, <2>1, LeaveInv DEF ReadCoro
<1>7. CASE WriteCoro(r)
  <2>1. SessionTypes' /\ "suspended" \in Stages \ {"blocked"}
    BY <1>7 DEF WriteCoro, IInv, TypeOK, SessionTypes, Operation, Stages
  <2>2. mode[r] = "async"
    BY <1>7 DEF WriteCoro, WriteKind
  <2> QED BY <1>7, <2>1, <2>2, LeaveInv DEF WriteCoro
<1>8. CASE InlineAsyncWrite(r)
  <2>1. SessionTypes' /\ "returned" \in Stages \ {"blocked"}
    BY <1>8 DEF InlineAsyncWrite, IInv, TypeOK, SessionTypes, Operation, Stages
  <2> QED BY <1>8, <2>1, LeaveInv DEF InlineAsyncWrite
<1> QED BY <1>1, <1>2, <1>3, <1>4, <1>5, <1>6, <1>7, <1>8 DEF Middleware

(* What clients and peers do, and the socket. *)
LEMMA PeerInv ==
  ASSUME IInv, NEW r \in Requests,
         \/ ClientConnects(r) \/ ClientSends(r) \/ PeerSends(r) \/ PeerReads(r)
         \/ Failure(r)
  PROVE  IInv'
<1>1. CASE ClientConnects(r) \/ ClientSends(r) \/ InlineReadFails(r)
  <2>1. SessionTypes' /\ UNCHANGED <<runner, main, stopped, accepts, strand, mode>>
    BY <1>1 DEF ClientConnects, ClientSends, InlineReadFails, sessionVars, IInv, TypeOK,
                SessionTypes
  <2>2. PICK s \in {"backlog", "arrived", "dropped"} : Enter(r, s)
    BY <1>1 DEF ClientConnects, ClientSends, InlineReadFails
  <2>3. s \in Stages \ {"blocked", "spawned", "suspended"} /\ stage[r] \notin OnThread
    BY <1>1 DEF ClientConnects, ClientSends, InlineReadFails, Stages, OnThread
  <2> QED BY <2>1, <2>2, <2>3, OffThreadInv
<1>2. CASE PeerSends(r) \/ ReadFails(r)
  <2>1. SessionTypes'
    BY <1>2 DEF PeerSends, ReadFails, ReadEnds, IInv, TypeOK, SessionTypes, Operation
  <2> QED BY <1>2, <2>1, OperationInv DEF PeerSends, ReadFails, ReadEnds
<1>3. CASE PeerReads(r) \/ WriteFails(r)
  <2>1. SessionTypes'
    BY <1>3 DEF PeerReads, WriteFails, WriteEnds, IInv, TypeOK, SessionTypes, Operation
  <2> QED BY <1>3, <2>1, OperationInv DEF PeerReads, WriteFails, WriteEnds
<1> QED BY <1>1, <1>2, <1>3 DEF Failure

(* A thread that leaves io_service::run runs nothing. *)
LEMMA ExitInv ==
  ASSUME IInv, NEW t \in Threads, RunnerExit(t)
  PROVE  IInv'
<1> USE DEF RunnerExit, sessionVars
<1>1. /\ runner' \in [Threads -> {"new", "idle", "exited"} \cup Requests]
      /\ \A u \in Threads :
            /\ runner[u] \in Requests \/ runner'[u] \in Requests => runner'[u] = runner[u]
            /\ runner'[u] # "new" <=> runner[u] # "new"
  BY ConstantsAssumption DEF IInv, TypeOK
<1>2. AcceptShape' /\ TypeOK'
  BY <1>1, AcceptsKept DEF IInv, TypeOK
<1>3. RunnerShape' /\ StrandShape'
  BY <1>1 DEF IInv, RunnerShape, StrandShape
<1>4. StageShape'
  BY DEF IInv, StageShape, MayWait
<1> QED BY <1>2, <1>3, <1>4 DEF IInv

(* Every step keeps the invariant. *)
LEMMA StepInv == IInv /\ [Next]_vars => IInv'
<1> SUFFICES ASSUME IInv, [Next]_vars PROVE IInv'
  OBVIOUS
<1>1. CASE RunReturns \/ Stop \/ UNCHANGED vars
  <2>1. UNCHANGED <<runner, accepts, strand, stage, sessionVars>> /\ TypeOK'
    BY <1>1 DEF RunReturns, Stop, vars, sessionVars, IInv, TypeOK
  <2>2. AcceptShape'
    BY <2>1, AcceptsKept DEF TypeOK
  <2> QED
    BY <2>1, <2>2 DEF sessionVars, IInv, RunnerShape, StrandShape, StageShape, MayWait
<1> QED BY <1>1, StartInv, ExitInv, PeerInv, HandlerInv, MiddlewareInv DEF Next

(* What the proofs rest on holds always: a request that runs or waits on an io
   thread is the only one there, a thread inside the strand runs the coroutine
   of a route in async mode, and as many accepts are outstanding as threads
   have entered Instance::run. *)
THEOREM InductiveInvariant == Spec => []IInv
<1> QED BY InitInv, StepInv, PTL DEF Spec

(* The types hold, and with them: no more async_accepts are ever outstanding
   than there are threads, since a completed one starts exactly one. *)
THEOREM TypeInvariant == Spec => []TypeOK
<1>1. IInv => TypeOK BY DEF IInv
<1> QED BY <1>1, InductiveInvariant, PTL

(* With fewer requests that read on or write blocking than io threads, some
   io thread always serves: a thread that waits has such a request of its own. *)
THEOREM EnoughThreadsServe ==
  ASSUME IsFiniteSet(Files \cup Streamed),
         Cardinality(Files \cup Streamed) < Cardinality(Threads)
  PROVE  Spec => []SomeThreadServes
<1>1. IInv => SomeThreadServes
  <2> DEFINE W == Files \cup Streamed
  <2> SUFFICES ASSUME IInv, \A t \in Threads : Blocked(t) PROVE FALSE
    BY DEF SomeThreadServes
  <2>1. \A t \in Threads : runner[t] \in W
    BY DEF Blocked, IInv, StageShape, MayWait
  <2>2. runner \in [Threads -> W]
    BY <2>1 DEF IInv, TypeOK
  <2>3. IsFiniteSet(W) /\ Cardinality(W) < Cardinality(Threads)
    OBVIOUS
  <2>4. W \subseteq Requests
    BY ConstantsAssumption
  <2> HIDE DEF W
  <2>5. \E t, u \in Threads : t # u /\ runner[t] = runner[u]
    BY <2>2, <2>3, ConstantsAssumption, FS_PigeonHole
  <2> QED BY <2>1, <2>4, <2>5 DEF IInv, RunnerShape
<1> QED BY <1>1, InductiveInvariant, PTL

(* Without Compression, whose response forgets the yield_context, no thread
   ever waits for a read or a write inside the strand. *)
THEOREM StrandKeepsRunning ==
  ASSUME ~Compressed
  PROVE  Spec => []StrandIsNotBlocked
<1>1. IInv => StrandIsNotBlocked
  BY DEF IInv, StrandIsNotBlocked, Blocked, StrandShape, StageShape, MayWait
<1> QED BY <1>1, InductiveInvariant, PTL
=============================================================================
