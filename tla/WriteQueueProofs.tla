-------------------------- MODULE WriteQueueProofs --------------------------
(***************************************************************************)
(* Theorems about WriteQueue, for any threads, any number of writes and    *)
(* any number of timeouts and reads.                                       *)
(***************************************************************************)
EXTENDS WriteQueue, TLAPS

(* A new Session has empty queues and nothing on its way. *)
LEMMA TypeInit == Init => TypeOK
  BY ConstantsAssumption DEF Init, TypeOK, Writes, Results

(* What is posted to the strand is a write, a completion or a close, and all
   but a close name the write they are about. *)
LEMMA TaskTypes ==
    /\ CloseTask \in Task
    /\ \A k \in Writes : WriteTask(k) \in Task
    /\ \A k \in Writes : [op |-> "ok", id |-> k] \in Task
    /\ \A k \in Writes : [op |-> "error", id |-> k] \in Task
    /\ \A t \in Task : t.op # "close" => t.id \in Writes
  BY ConstantsAssumption DEF Task, Writes, Results, CloseTask, WriteTask

(* Every step, of a thread, of the strand, of the socket or of the timer,
   moves packages and tasks and makes up none. *)
LEMMA TypeStep == TypeOK /\ [Next]_vars => TypeOK'
<1> SUFFICES ASSUME TypeOK, [Next]_vars PROVE TypeOK'
  OBVIOUS
<1> USE ConstantsAssumption, TaskTypes DEF TypeOK
<1>1. CASE InlineAsyncWrite
  BY <1>1 DEF InlineAsyncWrite, PostWrite, Writes, ioVars
<1>2. ASSUME NEW w \in Blocking, WriteBlocking(w) PROVE TypeOK'
  BY <1>2 DEF WriteBlocking, PostWrite, Writes, ioVars
<1>3. ASSUME NEW w \in Blocking, WriteReturns(w) PROVE TypeOK'
  BY <1>3 DEF WriteReturns, ioVars
<1>4. CASE ArrangeAsyncWrite
  <2>1. Head(strand) \in Task /\ Head(strand).id \in Writes /\ Tail(strand) \in Seq(Task)
    BY <1>4 DEF ArrangeAsyncWrite, NextTask
  <2>2. queue_write' \in Seq(Writes) /\ Head(queue_write') \in Writes
    BY <1>4, <2>1 DEF ArrangeAsyncWrite
  <2>3. timer' \in {"idle", "armed"} /\ sending' \in [Writes -> Nat]
    BY <1>4, <2>2 DEF ArrangeAsyncWrite, StartFront
  <2> QED
    BY <1>4, <2>1, <2>2, <2>3 DEF ArrangeAsyncWrite
<1>5. CASE WriteHandlerOk
  <2>1. queue_write # << >> /\ strand' \in Seq(Task) /\ queue_write' \in Seq(Writes)
    BY <1>5 DEF WriteHandlerOk, NextTask, AnswerFront
  <2>2. promise' \in [Writes -> {"none"} \cup Results]
    BY <1>5, <2>1 DEF WriteHandlerOk, AnswerFront, Results
  <2>3. timer' \in {"idle", "armed"} /\ sending' \in [Writes -> Nat]
    BY <1>5, <2>1 DEF WriteHandlerOk, StartFront
  <2> QED
    BY <1>5, <2>1, <2>2, <2>3 DEF WriteHandlerOk
<1>6. CASE WriteHandlerError
  BY <1>6 DEF WriteHandlerError, NextTask, AnswerFront, Results
<1>7. CASE CloseSocketImpl
  BY <1>7 DEF CloseSocketImpl, NextTask, ioVars
<1>8. CASE PeerDrops
  BY <1>8 DEF PeerDrops, ioVars
<1>9. ASSUME NEW k \in Writes, AsyncWriteSucceeds(k) PROVE TypeOK'
  BY <1>9 DEF AsyncWriteSucceeds, AsyncWriteCompletes, ioVars
<1>10. ASSUME NEW k \in Writes, AsyncWriteFails(k) PROVE TypeOK'
  BY <1>10 DEF AsyncWriteFails, AsyncWriteCompletes, ioVars
<1>11. CASE TimerExpires
  BY <1>11 DEF TimerExpires
<1>12. CASE TimeoutHandler
  BY <1>12 DEF TimeoutHandler
<1>13. CASE InlineAsyncRead
  BY <1>13 DEF InlineAsyncRead
<1>14. CASE ReadHandlerOk
  BY <1>14 DEF ReadHandlerOk
<1>15. CASE ReadHandlerError
  BY <1>15 DEF ReadHandlerError
<1>16. CASE UNCHANGED vars
  BY <1>16 DEF vars
<1> QED
  BY <1>1, <1>2, <1>3, <1>4, <1>5, <1>6, <1>7, <1>8, <1>9, <1>10, <1>11,
     <1>12, <1>13, <1>14, <1>15, <1>16 DEF Next, StrandStep

(* The values of every variable stay in their types: whatever the order in
   which posts, completions and timeouts reach the strand, only packages
   and tasks of this session move through queue_write and the strand. *)
THEOREM TypeInvariant == Spec => []TypeOK
<1>1. Init => TypeOK BY TypeInit
<1>2. TypeOK /\ [Next]_vars => TypeOK' BY TypeStep
<1> QED BY <1>1, <1>2, PTL DEF Spec

-----------------------------------------------------------------------------
(* What Append does, index by index. *)
LEMMA AppendIndex ==
  ASSUME NEW S, NEW s \in Seq(S), NEW e \in S
  PROVE  /\ Append(s, e) \in Seq(S) /\ Len(Append(s, e)) = Len(s) + 1
         /\ \A i \in 1..Len(s) : Append(s, e)[i] = s[i]
         /\ Append(s, e)[Len(s) + 1] = e
  OBVIOUS

(* What Tail does, index by index. *)
LEMMA TailIndex ==
  ASSUME NEW S, NEW s \in Seq(S), s # << >>
  PROVE  /\ Tail(s) \in Seq(S) /\ Len(Tail(s)) = Len(s) - 1 /\ Len(s) \in Nat \ {0}
         /\ \A i \in 1..(Len(s) - 1) : Tail(s)[i] = s[i + 1]
         /\ Head(s) = s[1]
  OBVIOUS

(* A task that is not a write and not a completion changes no shape, when it
   is posted and when it runs. *)
LEMMA CloseKeepsShape ==
  ASSUME TypeOK, NEW p \in 0..MaxWrites, NEW a \in 0..MaxWrites, Shape(p, a),
         \/ strand' = Append(strand, CloseTask)
         \/ NextTask("close") /\ strand' = Tail(strand),
         sock' = sock \/ sock' # "open",
         UNCHANGED <<posted, queue_write, sending, promise, wire>>
  PROVE  Shape(p, a)'
<1> DEFINE Shift == IF strand' = Append(strand, CloseTask) THEN 0 ELSE 1
<1>1. strand \in Seq(Task) /\ CloseTask \in Task
  BY TaskTypes DEF TypeOK
<1>2. \A i \in 1..Len(strand') : strand'[i].op # "close" =>
        i + Shift \in 1..Len(strand) /\ strand'[i] = strand[i + Shift]
  <2>1. CASE strand' = Append(strand, CloseTask)
    BY <1>1, <2>1, AppendIndex DEF CloseTask
  <2>2. CASE strand' # Append(strand, CloseTask)
    BY SMTT(30), <1>1, <2>2, TailIndex DEF NextTask
  <2> QED BY <2>1, <2>2
<1>3. \A i \in 1..Len(strand) : strand[i].op # "close" =>
        i - Shift \in 1..Len(strand') /\ strand'[i - Shift] = strand[i]
  <2>1. CASE strand' = Append(strand, CloseTask)
    BY <1>1, <2>1, AppendIndex DEF CloseTask
  <2>2. CASE strand' # Append(strand, CloseTask)
    <3>1. strand # << >> /\ strand[1].op = "close" /\ strand' = Tail(strand)
      BY <1>1, <2>2, TailIndex DEF NextTask
    <3> QED BY <1>1, <2>2, <3>1, TailIndex
  <2> QED BY <2>1, <2>2
<1>4. Shift \in 0..1 /\ Len(strand) \in Nat /\ Len(strand') \in Nat
  BY <1>1, AppendIndex, TailIndex DEF NextTask
<1> HIDE DEF Shift
<1>5. HandlerPending' <=> HandlerPending
  BY <1>2, <1>3, <1>4 DEF HandlerPending, Results
<1>6. QueueShape(p, a)'
  BY DEF Shape, QueueShape
<1>7. StrandShape(a)'
  <2>1. \A i \in 1..Len(strand') : strand'[i].op = "write" =>
          a < strand'[i].id /\ strand'[i].id <= posted'
    BY <1>2, <1>4 DEF Shape, StrandShape
  <2>2. ASSUME NEW i \in 1..Len(strand'), NEW j \in 1..Len(strand'), i < j,
               strand'[i].op = "write", strand'[j].op = "write"
        PROVE  strand'[i].id < strand'[j].id
    <3>1. /\ i + Shift \in 1..Len(strand) /\ strand'[i] = strand[i + Shift]
          /\ j + Shift \in 1..Len(strand) /\ strand'[j] = strand[j + Shift]
          /\ i + Shift < j + Shift
      BY <1>2, <1>4, <2>2
    <3> QED BY <2>2, <3>1 DEF Shape, StrandShape
  <2>3. ASSUME NEW k \in (a + 1)..posted' 
        PROVE \E i \in 1..Len(strand') : strand'[i] = WriteTask(k)
    <3>1. PICK i \in 1..Len(strand) : strand[i] = WriteTask(k)
      BY DEF Shape, StrandShape
    <3>2. strand'[i - Shift] = WriteTask(k) /\ i - Shift \in 1..Len(strand')
      BY <1>3, <3>1 DEF WriteTask
    <3> QED BY <3>2
  <2> QED BY <2>1, <2>2, <2>3 DEF StrandShape, WriteTask
<1>8. FlightShape(p, a)'
  <2>1. \A i \in 1..Len(strand') : strand'[i].op \in Results =>
          strand'[i].id = p + 1 /\ p < a
    BY <1>2, <1>4 DEF Shape, FlightShape, Results
  <2>2. ASSUME NEW i \in 1..Len(strand'), NEW j \in 1..Len(strand'),
               strand'[i].op \in Results, strand'[j].op \in Results
        PROVE  i = j
    <3>1. /\ i + Shift \in 1..Len(strand) /\ strand'[i] = strand[i + Shift]
          /\ j + Shift \in 1..Len(strand) /\ strand'[j] = strand[j + Shift]
      BY <1>2, <1>4, <2>2 DEF Results
    <3>2. i + Shift = j + Shift
      BY <2>2, <3>1 DEF Shape, FlightShape
    <3> QED BY <1>4, <3>2
  <2> QED BY <1>5, <2>1, <2>2 DEF Shape, FlightShape
<1>9. WireShape(p)'
  BY <1>2, <1>4, <1>5 DEF Shape, WireShape
<1> QED
  BY <1>6, <1>7, <1>8, <1>9 DEF Shape

(* Posting a write appends it behind every other write of the strand. *)
LEMMA PostKeepsShape ==
  ASSUME TypeOK, NEW p \in 0..MaxWrites, NEW a \in 0..MaxWrites, Shape(p, a),
         PostWrite, UNCHANGED <<queue_write, sending, promise, wire, sock>>
  PROVE  Shape(p, a)'
<1>1. strand \in Seq(Task) /\ posted \in Nat /\ WriteTask(posted + 1) \in Task
  BY TaskTypes, ConstantsAssumption DEF TypeOK, PostWrite, Writes
<1>2. /\ Len(strand) \in Nat /\ Len(strand') = Len(strand) + 1
      /\ \A i \in 1..Len(strand) : strand'[i] = strand[i]
      /\ strand'[Len(strand')] = WriteTask(posted + 1)
      /\ posted' = posted + 1
  BY <1>1, AppendIndex DEF PostWrite
<1>3. /\ strand'[Len(strand')].op = "write" /\ strand'[Len(strand')].id = posted + 1
      /\ strand'[Len(strand')].op \notin Results
  BY <1>2 DEF WriteTask, Results
<1>4. HandlerPending' <=> HandlerPending
  BY <1>2, <1>3 DEF HandlerPending
<1>5. QueueShape(p, a)'
  BY <1>1, <1>2 DEF Shape, QueueShape
<1>6. StrandShape(a)'
  <2>1. \A i \in 1..Len(strand') : strand'[i].op = "write" =>
          a < strand'[i].id /\ strand'[i].id <= posted'
    <3> SUFFICES ASSUME NEW i \in 1..Len(strand'), strand'[i].op = "write"
                 PROVE  a < strand'[i].id /\ strand'[i].id <= posted'
      OBVIOUS
    <3>1. CASE i = Len(strand')
      BY <1>1, <1>2, <1>3, <3>1 DEF Shape, QueueShape
    <3>2. CASE i # Len(strand')
      <4>1. i \in 1..Len(strand) /\ strand'[i] = strand[i] /\ strand[i] \in Task
        BY <1>1, <1>2, <3>2
      <4>2. strand[i].id \in Nat
        BY <4>1, TaskTypes DEF Writes
      <4> QED BY <1>1, <1>2, <4>1, <4>2 DEF Shape, StrandShape
    <3> QED BY <3>1, <3>2
  <2>2. ASSUME NEW i \in 1..Len(strand'), NEW j \in 1..Len(strand'), i < j,
               strand'[i].op = "write", strand'[j].op = "write"
        PROVE  strand'[i].id < strand'[j].id
    <3>1. i \in 1..Len(strand) /\ strand'[i] = strand[i] /\ strand[i].id <= posted
      BY <1>2, <2>2 DEF Shape, StrandShape
    <3>2. strand[i].id \in Nat
      BY <3>1, <2>2, <1>1, TaskTypes DEF Writes
    <3>3. CASE j = Len(strand')
      BY <1>1, <1>3, <3>1, <3>2, <3>3
    <3>4. CASE j # Len(strand')
      <4>1. j \in 1..Len(strand) /\ strand'[j] = strand[j]
        BY <1>2, <3>4
      <4> QED BY <2>2, <3>1, <4>1 DEF Shape, StrandShape
    <3> QED BY <3>3, <3>4
  <2>3. ASSUME NEW k \in (a + 1)..posted'
        PROVE  \E i \in 1..Len(strand') : strand'[i] = WriteTask(k)
    <3>1. CASE k = posted + 1
      BY <1>2, <3>1
    <3>2. CASE k # posted + 1
      <4>1. k \in (a + 1)..posted
        BY <1>1, <1>2, <3>2
      <4> QED BY <1>2, <4>1 DEF Shape, StrandShape
    <3> QED BY <3>1, <3>2
  <2> QED BY <2>1, <2>2, <2>3 DEF StrandShape, WriteTask
<1>7. FlightShape(p, a)'
  <2>1. \A i \in 1..Len(strand') : strand'[i].op \in Results =>
          i \in 1..Len(strand) /\ strand'[i] = strand[i]
    BY <1>2, <1>3
  <2> QED BY <1>4, <2>1 DEF Shape, FlightShape
<1>8. WireShape(p)'
  <2>1. \A i \in 1..Len(strand') : strand'[i].op \in Results =>
          i \in 1..Len(strand) /\ strand'[i] = strand[i]
    BY <1>2, <1>3
  <2>2. \A i \in 1..Len(strand') : strand'[i].op = "ok" => Len(wire) = p + 1
    BY <2>1 DEF Shape, WireShape, Results
  <2>3. \A i \in 1..Len(strand') :
          strand'[i].op = "error" => Len(wire) <= p /\ sock # "open"
    BY <2>1 DEF Shape, WireShape, Results
  <2> QED BY <1>4, <2>2, <2>3 DEF Shape, WireShape
<1> QED
  BY <1>5, <1>6, <1>7, <1>8 DEF Shape

(* The completion of an async_write: it carries write p + 1. *)
LEMMA CompletionKeepsShape ==
  ASSUME TypeOK, NEW p \in 0..MaxWrites, NEW a \in 0..MaxWrites, Shape(p, a),
         NEW k \in Writes, AsyncWriteSucceeds(k) \/ AsyncWriteFails(k)
  PROVE  Shape(p, a)'
<1> DEFINE result == IF sock = "open" THEN "ok" ELSE "error"
<1>1. /\ AsyncWriteCompletes(k, result)
      /\ UNCHANGED <<posted, queue_write, promise, sock>>
      /\ wire' = IF sock = "open" THEN Append(wire, k) ELSE wire
  BY DEF AsyncWriteSucceeds, AsyncWriteFails
<1>2. strand \in Seq(Task) /\ [op |-> result, id |-> k] \in Task
  BY TaskTypes DEF TypeOK
<1> HIDE DEF result
<1>3. /\ Len(strand) \in Nat /\ Len(strand') = Len(strand) + 1
      /\ \A i \in 1..Len(strand) : strand'[i] = strand[i]
      /\ strand'[Len(strand')] = [op |-> result, id |-> k]
  BY <1>1, <1>2, AppendIndex DEF AsyncWriteCompletes
<1>4. k = p + 1 /\ p < a /\ ~HandlerPending /\ sending[k] = 1
  <2>1. sending[k] > 0
    BY <1>1 DEF AsyncWriteCompletes
  <2>2. \A j \in Writes : sending[j] > 0 =>
          sending[j] = 1 /\ j = p + 1 /\ p < a /\ ~HandlerPending
    BY DEF Shape, FlightShape
  <2> QED BY <2>1, <2>2
<1>5. \A j \in Writes : sending'[j] = 0
  <2>1. \A j \in Writes : sending[j] \in Nat /\ (sending[j] > 0 => j = k)
    BY <1>4 DEF Shape, FlightShape, TypeOK
  <2> QED BY <1>1, <1>4, <2>1 DEF AsyncWriteCompletes, TypeOK
<1>6. \A i \in 1..Len(strand') : strand'[i].op \in Results => i = Len(strand')
  BY <1>3, <1>4 DEF HandlerPending
<1>7. /\ strand'[Len(strand')].op = result /\ strand'[Len(strand')].id = k
      /\ result \in Results /\ HandlerPending'
  BY <1>3 DEF HandlerPending, Results, result
<1>8. QueueShape(p, a)'
  BY <1>1 DEF Shape, QueueShape
<1>9. StrandShape(a)'
  <2>1. \A i \in 1..Len(strand') : strand'[i].op = "write" =>
          i \in 1..Len(strand) /\ strand'[i] = strand[i]
    BY <1>3, <1>7 DEF Results
  <2>2. \A i, j \in 1..Len(strand') :
          i < j /\ strand'[i].op = "write" /\ strand'[j].op = "write" =>
             strand'[i].id < strand'[j].id
    BY <2>1 DEF Shape, StrandShape
  <2>3. \A j \in (a + 1)..posted : \E i \in 1..Len(strand') : strand'[i] = WriteTask(j)
    BY <1>3 DEF Shape, StrandShape
  <2> QED BY <1>1, <2>1, <2>2, <2>3 DEF Shape, StrandShape, WriteTask
<1>10. FlightShape(p, a)'
  <2>1. \A i \in 1..Len(strand') : strand'[i].op \in Results =>
          strand'[i].id = p + 1 /\ p < a
    BY <1>4, <1>6, <1>7
  <2>2. \A i, j \in 1..Len(strand') :
          strand'[i].op \in Results /\ strand'[j].op \in Results => i = j
    BY <1>6
  <2> QED BY <1>5, <1>7, <2>1, <2>2 DEF FlightShape
<1>11. WireShape(p)'
  <2>1. wire \in Seq(Writes) /\ Len(wire) \in Nat
    BY DEF TypeOK
  <2>2. CASE sock = "open"
    <3>1. Len(wire) = p /\ Len(wire') = p + 1 /\ wire'[p + 1] = p + 1
          /\ \A i \in 1..p : wire'[i] = i
      <4>1. Len(wire) = p /\ \A i \in 1..Len(wire) : wire[i] = i
        BY <1>4, <2>2 DEF Shape, WireShape
      <4>2. wire' = Append(wire, p + 1) /\ p + 1 \in Writes
        BY <1>1, <1>4, <2>2
      <4> QED BY <2>1, <4>1, <4>2, AppendIndex
    <3>2. \A i \in 1..Len(strand') : strand'[i].op # "error"
      BY <1>6, <1>7, <2>2 DEF Results, result
    <3>3. \A j \in Writes : (promise[j] = "ok" => j <= Len(wire)) /\ promise[j] # "error"
      BY <2>2 DEF Shape, WireShape
    <3>4. \A i \in 1..Len(wire') : wire'[i] = i
      BY <3>1
    <3>5. \A j \in Writes : (promise[j] = "ok" => j <= Len(wire')) /\ promise[j] # "error"
      BY <2>1, <3>1, <3>3 DEF Writes
    <3> QED BY <1>1, <1>7, <3>1, <3>2, <3>4, <3>5 DEF WireShape
  <2>3. CASE sock # "open"
    <3>1. \A i \in 1..Len(strand') : strand'[i].op # "ok"
      BY <1>6, <1>7, <2>3 DEF Results, result
    <3>2. Len(wire) <= p
      BY <1>4 DEF Shape, WireShape
    <3> QED BY <1>1, <1>7, <2>3, <3>1, <3>2 DEF Shape, WireShape
  <2> QED BY <2>2, <2>3
<1> QED
  BY <1>8, <1>9, <1>10, <1>11 DEF Shape

(* A write task runs: it joins queue_write, and starts when it is alone. *)
LEMMA ArrangeKeepsShape ==
  ASSUME TypeOK, NEW p \in 0..MaxWrites, NEW a \in 0..MaxWrites, Shape(p, a),
         ArrangeAsyncWrite
  PROVE  a + 1 \in 0..MaxWrites /\ Shape(p, a + 1)'
<1> USE ConstantsAssumption
<1>1. /\ Len(strand) \in Nat \ {0} /\ Len(strand') = Len(strand) - 1
      /\ \A i \in 1..Len(strand') : strand'[i] = strand[i + 1]
      /\ strand[1] \in Task /\ strand[1].op = "write" /\ Head(strand) = strand[1]
  BY TailIndex DEF TypeOK, ArrangeAsyncWrite, NextTask
<1>2. UNCHANGED <<posted, promise, wire, sock>>
  BY DEF ArrangeAsyncWrite
<1>3. strand[1].id = a + 1 /\ a + 1 <= posted
  <2>1. strand[1].id \in Nat /\ a < strand[1].id /\ strand[1].id <= posted
    BY <1>1, TaskTypes DEF Shape, StrandShape, Writes
  <2>2. a + 1 \in (a + 1)..posted
    BY <2>1 DEF TypeOK
  <2>3. PICK i \in 1..Len(strand) : strand[i] = WriteTask(a + 1)
    BY <2>2 DEF Shape, StrandShape
  <2>4. strand[i].op = "write" /\ strand[i].id = a + 1
    BY <2>3 DEF WriteTask
  <2>5. CASE i = 1
    BY <2>1, <2>4, <2>5
  <2>6. CASE i # 1
    <3>1. 1 \in 1..Len(strand) /\ 1 < i
      BY <1>1, <2>6
    <3>2. strand[1].id < strand[i].id
      BY <1>1, <2>4, <3>1 DEF Shape, StrandShape
    <3> QED BY <2>1, <2>4, <3>2
  <2> QED BY <2>5, <2>6
<1>4. a + 1 \in Writes
  BY <1>3 DEF TypeOK, Writes
<1>5. /\ queue_write' = Append(queue_write, a + 1) /\ Len(queue_write) = a - p
      /\ Len(queue_write') = (a + 1) - p
      /\ \A i \in 1..Len(queue_write') : queue_write'[i] = p + i
  <2>1. /\ queue_write' = Append(queue_write, a + 1) /\ Len(queue_write) = a - p
        /\ \A i \in 1..Len(queue_write) : queue_write[i] = p + i
    BY <1>1, <1>3 DEF ArrangeAsyncWrite, Shape, QueueShape
  <2>2. queue_write \in Seq(Writes) /\ p <= a
    BY DEF TypeOK, Shape, QueueShape
  <2> QED BY <1>4, <2>1, <2>2, AppendIndex
<1>6. HandlerPending' <=> HandlerPending
  <2>1. HandlerPending => \E i \in 2..Len(strand) : strand[i].op \in Results
    BY <1>1 DEF HandlerPending, Results
  <2>2. ASSUME NEW i \in 2..Len(strand), strand[i].op \in Results PROVE HandlerPending'
    <3>1. i - 1 \in 1..Len(strand') /\ strand'[i - 1] = strand[i]
      BY <1>1
    <3> QED BY <2>2, <3>1 DEF HandlerPending
  <2>3. HandlerPending' => HandlerPending
    BY SMTT(30), <1>1 DEF HandlerPending
  <2> QED BY <2>1, <2>2, <2>3
<1>7. QueueShape(p, a + 1)'
  BY <1>2, <1>3, <1>5 DEF Shape, QueueShape
<1>8. StrandShape(a + 1)'
  <2>1. \A i \in 1..Len(strand') : i + 1 \in 1..Len(strand) /\ 1 < i + 1
    BY <1>1
  <2>2. ASSUME NEW i \in 1..Len(strand'), strand'[i].op = "write"
        PROVE  a + 1 < strand'[i].id /\ strand'[i].id <= posted
    <3>1. 1 \in 1..Len(strand) /\ i + 1 \in 1..Len(strand) /\ 1 < i + 1
      BY <1>1
    <3>2. strand[1].id < strand[i + 1].id /\ strand[i + 1].id <= posted
      BY <1>1, <2>2, <3>1 DEF Shape, StrandShape
    <3> QED BY <1>1, <1>3, <3>2
  <2>3. ASSUME NEW i \in 1..Len(strand'), NEW j \in 1..Len(strand'), i < j,
               strand'[i].op = "write", strand'[j].op = "write"
        PROVE  strand'[i].id < strand'[j].id
    <3>1. i + 1 \in 1..Len(strand) /\ j + 1 \in 1..Len(strand) /\ i + 1 < j + 1
      BY <1>1, <2>3
    <3> QED BY <1>1, <2>3, <3>1 DEF Shape, StrandShape
  <2>4. ASSUME NEW k \in (a + 1 + 1)..posted
        PROVE  \E i \in 1..Len(strand') : strand'[i] = WriteTask(k)
    <3>1. PICK i \in 1..Len(strand) : strand[i] = WriteTask(k)
      BY DEF Shape, StrandShape
    <3>2. i # 1
      BY <1>3, <3>1 DEF WriteTask
    <3>3. i - 1 \in 1..Len(strand') /\ strand'[i - 1] = strand[i]
      BY <1>1, <3>2
    <3> QED BY <3>1, <3>3
  <2> QED BY <1>2, <2>2, <2>3, <2>4 DEF StrandShape, WriteTask
<1>9. FlightShape(p, a + 1)'
  <2>1. ASSUME NEW i \in 1..Len(strand'), strand'[i].op \in Results
        PROVE  i + 1 \in 1..Len(strand) /\ strand'[i].id = p + 1 /\ p < a
    BY SMTT(30), <1>1, <2>1 DEF Shape, FlightShape
  <2>2. ASSUME NEW i \in 1..Len(strand'), NEW j \in 1..Len(strand'),
               strand'[i].op \in Results, strand'[j].op \in Results
        PROVE  i = j
    <3>1. i + 1 \in 1..Len(strand) /\ j + 1 \in 1..Len(strand)
      BY <1>1
    <3>2. i + 1 = j + 1
      BY <1>1, <2>2, <3>1 DEF Shape, FlightShape
    <3> QED BY <3>2
  <2>3. CASE a = p
    <3>1. \A k \in Writes : sending[k] = 0
      BY <2>3 DEF Shape, FlightShape, TypeOK
    <3>2. ~HandlerPending
      BY <2>3 DEF Shape, FlightShape, HandlerPending
    <3>3. Len(queue_write') = 1 /\ Head(queue_write') = p + 1 /\ p + 1 \in Writes
      BY <1>4, <1>5, <2>3
    <3>4. sending' = [sending EXCEPT ![p + 1] = 0 + 1]
      BY <3>1, <3>3 DEF ArrangeAsyncWrite, StartFront
    <3>5. sending'[p + 1] = 1 /\ \A k \in Writes : sending'[k] > 0 => k = p + 1
      BY <3>1, <3>3, <3>4 DEF TypeOK
    <3> QED BY <1>6, <2>1, <2>2, <2>3, <3>2, <3>3, <3>5 DEF FlightShape
  <2>4. CASE a # p
    <3>1. p < a /\ Len(queue_write') > 1
      BY <1>5, <2>4 DEF Shape, QueueShape
    <3>2. sending' = sending
      BY <3>1 DEF ArrangeAsyncWrite
    <3> QED BY <1>2, <1>6, <2>1, <2>2, <3>1, <3>2 DEF Shape, FlightShape
  <2> QED BY <2>3, <2>4
<1>10. WireShape(p)'
  <2>1. \A i \in 1..Len(strand') : i + 1 \in 1..Len(strand)
    BY <1>1
  <2> QED BY <1>1, <1>2, <1>6, <2>1 DEF Shape, WireShape
<1> QED
  BY <1>4, <1>7, <1>8, <1>9, <1>10 DEF Shape, Writes

(* The completion handler runs: it answers and pops write p + 1; the next
   write starts only when it succeeded. *)
LEMMA HandlerKeepsShape ==
  ASSUME TypeOK, NEW p \in 0..MaxWrites, NEW a \in 0..MaxWrites, Shape(p, a),
         WriteHandlerOk \/ WriteHandlerError
  PROVE  p + 1 \in 0..MaxWrites /\ Shape(p + 1, a)'
<1> USE ConstantsAssumption
<1> DEFINE result == Head(strand).op
<1>1. /\ strand # << >> /\ result \in Results /\ AnswerFront(result)
      /\ UNCHANGED <<posted, wire, sock>>
  BY DEF WriteHandlerOk, WriteHandlerError, NextTask, Results
<1>2. /\ strand' = IF result = "ok" THEN Tail(strand)
                                     ELSE Append(Tail(strand), CloseTask)
      /\ result = "ok" /\ queue_write' # << >> => StartFront(queue_write')
      /\ result # "ok" \/ queue_write' = << >> => sending' = sending
  BY DEF WriteHandlerOk, WriteHandlerError, NextTask
<1>3. /\ Len(strand) \in Nat \ {0} /\ Tail(strand) \in Seq(Task)
      /\ Len(Tail(strand)) = Len(strand) - 1 /\ strand[1].op = result
      /\ \A i \in 1..(Len(strand) - 1) : Tail(strand)[i] = strand[i + 1]
  BY <1>1, TailIndex DEF TypeOK
<1> HIDE DEF result
<1>4. /\ Len(strand') \in Nat
      /\ \A i \in 1..(Len(strand) - 1) : i \in 1..Len(strand') /\ strand'[i] = strand[i + 1]
      /\ \A i \in 1..Len(strand') : strand'[i].op # "close" =>
            i + 1 \in 1..Len(strand) /\ strand'[i] = strand[i + 1]
  <2>1. CASE result = "ok"
    BY <1>2, <1>3, <2>1
  <2>2. CASE result # "ok"
    <3>1. /\ strand' = Append(Tail(strand), CloseTask)
          /\ CloseTask \in Task /\ CloseTask.op = "close"
      BY <1>2, <2>2, TaskTypes DEF CloseTask
    <3>2. /\ Len(strand') = Len(Tail(strand)) + 1
          /\ \A i \in 1..Len(Tail(strand)) : strand'[i] = Tail(strand)[i]
          /\ strand'[Len(Tail(strand)) + 1] = CloseTask
      BY <1>3, <3>1, AppendIndex
    <3>3. Len(Tail(strand)) + 1 = Len(strand)
      BY <1>3
    <3>4. /\ Len(strand') = Len(strand) /\ strand'[Len(strand)].op = "close"
          /\ \A i \in 1..(Len(strand) - 1) : strand'[i] = strand[i + 1]
      BY <1>3, <3>1, <3>2, <3>3
    <3> QED BY <1>3, <3>4
  <2> QED BY <2>1, <2>2
<1>5. 1 \in 1..Len(strand) /\ HandlerPending /\ p < a
  BY <1>1, <1>3 DEF HandlerPending, Shape, FlightShape
<1>6. \A k \in Writes : sending[k] = 0
  BY <1>5 DEF Shape, FlightShape, TypeOK
<1>7. ~HandlerPending'
  <2> SUFFICES ASSUME NEW i \in 1..Len(strand'), strand'[i].op \in Results
               PROVE  FALSE
    BY DEF HandlerPending
  <2>1. i + 1 \in 1..Len(strand) /\ strand[i + 1].op \in Results
    BY <1>4 DEF Results
  <2>2. i + 1 = 1
    BY <1>1, <1>3, <1>5, <2>1 DEF Shape, FlightShape
  <2> QED BY <2>2
<1>8. p + 1 \in Writes /\ Head(queue_write) = p + 1
  BY <1>5 DEF Shape, QueueShape, TypeOK, Writes
<1>9. /\ Len(queue_write') = a - (p + 1)
      /\ \A i \in 1..Len(queue_write') : queue_write'[i] = p + 1 + i
  <2>1. queue_write \in Seq(Writes) /\ queue_write # << >> /\ queue_write' = Tail(queue_write)
    BY <1>1 DEF TypeOK, AnswerFront
  <2>2. /\ Len(queue_write) = a - p
        /\ \A i \in 1..Len(queue_write) : queue_write[i] = p + i
    BY DEF Shape, QueueShape
  <2>3. /\ Len(queue_write') = Len(queue_write) - 1
        /\ \A i \in 1..(Len(queue_write) - 1) : queue_write'[i] = queue_write[i + 1]
    BY <2>1, TailIndex
  <2> QED BY <2>2, <2>3
<1>10. /\ promise' = [promise EXCEPT ![p + 1] = result]
       /\ promise'[p + 1] = result
       /\ \A k \in Writes : k # p + 1 => promise'[k] = promise[k]
  BY <1>1, <1>8 DEF AnswerFront, TypeOK
<1>11. QueueShape(p + 1, a)'
  <2>1. \A k \in Writes : (promise'[k] # "none") <=> k <= p + 1
    BY <1>1, <1>8, <1>10 DEF Shape, QueueShape, Results, Writes
  <2>2. p + 1 <= a /\ a <= posted'
    BY <1>1, <1>5 DEF Shape, QueueShape
  <2> QED BY <1>9, <2>1, <2>2 DEF QueueShape
<1>12. StrandShape(a)'
  <2>1. \A i \in 1..Len(strand') : strand'[i].op = "write" =>
          a < strand'[i].id /\ strand'[i].id <= posted
    BY <1>4 DEF Shape, StrandShape
  <2>2. ASSUME NEW i \in 1..Len(strand'), NEW j \in 1..Len(strand'), i < j,
               strand'[i].op = "write", strand'[j].op = "write"
        PROVE  strand'[i].id < strand'[j].id
    <3>1. /\ i + 1 \in 1..Len(strand) /\ strand'[i] = strand[i + 1]
          /\ j + 1 \in 1..Len(strand) /\ strand'[j] = strand[j + 1]
          /\ i + 1 < j + 1
      BY <1>4, <2>2
    <3> QED BY <2>2, <3>1 DEF Shape, StrandShape
  <2>3. ASSUME NEW k \in (a + 1)..posted
        PROVE  \E i \in 1..Len(strand') : strand'[i] = WriteTask(k)
    <3>1. PICK i \in 1..Len(strand) : strand[i] = WriteTask(k)
      BY DEF Shape, StrandShape
    <3>2. i # 1
      BY <1>1, <1>3, <3>1 DEF WriteTask, Results
    <3>3. i - 1 \in 1..(Len(strand) - 1) /\ i = (i - 1) + 1
      BY <1>3, <3>2
    <3>4. i - 1 \in 1..Len(strand') /\ strand'[i - 1] = strand[i]
      BY <1>4, <3>3
    <3> QED BY <3>1, <3>4
  <2> QED BY <1>1, <2>1, <2>2, <2>3 DEF StrandShape, WriteTask
<1>13. FlightShape(p + 1, a)'
  <2>1. \A i \in 1..Len(strand') : strand'[i].op \notin Results
    BY <1>7 DEF HandlerPending
  <2>2. CASE result = "ok" /\ p + 1 < a
    <3>1. queue_write' # << >> /\ Head(queue_write') = p + 2
      BY <1>9, <2>2
    <3>2. sending' = [sending EXCEPT ![p + 2] = sending[p + 2] + 1]
      BY <1>2, <2>2, <3>1 DEF StartFront
    <3>3. p + 2 \in Writes
      BY <2>2 DEF Writes
    <3>4. sending'[p + 2] = 1 /\ \A k \in Writes : sending'[k] > 0 => k = p + 1 + 1
      BY <1>6, <3>2, <3>3 DEF TypeOK
    <3> QED BY <1>7, <2>1, <2>2, <3>3, <3>4 DEF FlightShape
  <2>3. CASE result = "ok" /\ ~(p + 1 < a)
    <3>1. Len(queue_write') = 0
      BY <1>5, <1>9, <2>3
    <3>2. queue_write' \in Seq(Writes)
      BY <1>1, TailIndex DEF TypeOK, AnswerFront
    <3>3. sending' = sending
      BY <1>2, <2>3, <3>1, <3>2 DEF StartFront
    <3> QED BY <1>6, <2>1, <2>3, <3>3 DEF FlightShape
  <2>4. CASE result # "ok"
    <3>1. sending' = sending /\ promise'[p + 1] = "error"
      BY <1>1, <1>2, <1>10, <2>4 DEF Results
    <3> QED BY <1>6, <1>8, <2>1, <3>1 DEF FlightShape
  <2> QED BY <2>2, <2>3, <2>4
<1>14. WireShape(p + 1)'
  <2>1. \A i \in 1..Len(strand') : strand'[i].op # "ok" /\ strand'[i].op # "error"
    BY <1>7 DEF HandlerPending, Results
  <2>2. Len(wire) \in Nat
    BY DEF TypeOK
  <2>3. CASE result = "ok"
    <3>1. Len(wire) = p + 1
      BY <1>3, <1>5, <2>3 DEF Shape, WireShape
    <3>2. \A k \in Writes : promise'[k] = "ok" => k <= Len(wire)
      BY <1>8, <1>10, <3>1 DEF Shape, WireShape, Writes
    <3>3. \A k \in Writes : promise'[k] = "error" => promise[k] = "error"
      BY <1>10, <2>3
    <3> QED BY <1>1, <1>7, <2>1, <3>1, <3>2, <3>3 DEF Shape, WireShape
  <2>4. CASE result # "ok"
    <3>1. result = "error" /\ Len(wire) <= p /\ sock # "open"
      BY <1>1, <1>3, <1>5, <2>4 DEF Shape, WireShape, Results
    <3>2. \A k \in Writes : promise'[k] = "ok" => promise[k] = "ok"
      BY <1>10, <3>1
    <3>3. \A k \in Writes : promise'[k] = "error" => k > Len(wire)
      BY <1>8, <1>10, <2>2, <3>1 DEF Shape, WireShape, Writes
    <3> QED BY <1>1, <1>7, <2>1, <2>2, <3>1, <3>2, <3>3 DEF Shape, WireShape
  <2> QED BY <2>3, <2>4
<1> QED
  BY <1>8, <1>11, <1>12, <1>13, <1>14 DEF Shape, Writes

-----------------------------------------------------------------------------
(* At first nothing is posted, arranged or answered: p = a = 0. *)
LEMMA IInvInit == Init => IInv
<1> SUFFICES ASSUME Init PROVE IInv
  OBVIOUS
<1>1. TypeOK
  BY TypeInit
<1>2. Len(strand) = 0 /\ Len(queue_write) = 0 /\ Len(wire) = 0 /\ posted = 0
  BY DEF Init
<1>3. \A k \in Writes : sending[k] = 0 /\ promise[k] = "none"
  BY DEF Init
<1>4. Shape(0, 0)
  BY <1>2, <1>3 DEF Shape, QueueShape, StrandShape, FlightShape, WireShape,
                    HandlerPending, Writes
<1> QED
  BY <1>1, <1>4, ConstantsAssumption DEF IInv

(* Every step leaves a shape behind: a handler moves p on by one, the
   arrangement of a write moves a, and no other step moves either. *)
LEMMA IInvStep == IInv /\ [Next]_vars => IInv'
<1> SUFFICES ASSUME IInv, [Next]_vars PROVE IInv'
  OBVIOUS
<1>1. TypeOK /\ TypeOK'
  BY TypeStep DEF IInv
<1>2. PICK p \in 0..MaxWrites, a \in 0..MaxWrites : Shape(p, a)
  BY DEF IInv
<1> SUFFICES \E q, b \in 0..MaxWrites : Shape(q, b)'
  BY <1>1 DEF IInv
<1>3. CASE InlineAsyncWrite
  BY <1>1, <1>2, <1>3, PostKeepsShape DEF InlineAsyncWrite
<1>4. ASSUME NEW w \in Blocking, WriteBlocking(w) PROVE Shape(p, a)'
  BY <1>1, <1>2, <1>4, PostKeepsShape DEF WriteBlocking
<1>5. CASE ArrangeAsyncWrite
  BY <1>1, <1>2, <1>5, ArrangeKeepsShape
<1>6. CASE WriteHandlerOk \/ WriteHandlerError
  BY <1>1, <1>2, <1>6, HandlerKeepsShape
<1>7. CASE CloseSocketImpl
  BY <1>1, <1>2, <1>7, CloseKeepsShape DEF CloseSocketImpl
<1>8. ASSUME NEW k \in Writes, AsyncWriteSucceeds(k) \/ AsyncWriteFails(k)
      PROVE  Shape(p, a)'
  BY <1>1, <1>2, <1>8, CompletionKeepsShape
<1>9. CASE TimeoutHandler \/ ReadHandlerError
  BY <1>1, <1>2, <1>9, CloseKeepsShape DEF TimeoutHandler, ReadHandlerError
<1>10. CASE UNCHANGED <<posted, strand, queue_write, sending, promise, wire>>
            /\ (sock' = sock \/ sock' # "open")
  BY <1>2, <1>10 DEF Shape, QueueShape, StrandShape, FlightShape, WireShape,
                     HandlerPending
<1>11. ASSUME PeerDrops \/ TimerExpires \/ InlineAsyncRead \/ ReadHandlerOk
              \/ (\E w \in Blocking : WriteReturns(w)) \/ UNCHANGED vars
       PROVE  UNCHANGED <<posted, strand, queue_write, sending, promise, wire>>
              /\ (sock' = sock \/ sock' # "open")
  BY <1>11 DEF PeerDrops, TimerExpires, InlineAsyncRead, ReadHandlerOk,
               WriteReturns, vars
<1> QED
  BY <1>2, <1>3, <1>4, <1>5, <1>6, <1>7, <1>8, <1>9, <1>10, <1>11
     DEF Next, StrandStep

(* In every reachable state the promises up to p are answered, queue_write
   holds the packages p + 1 .. a, the strand the posts behind a, and only
   write p + 1 can be on its way: posts of many threads, completions, errors
   and timeouts never bring the strand and queue_write out of step. *)
THEOREM InductiveInvariant == Spec => []IInv
<1>1. Init => IInv BY IInvInit
<1>2. IInv /\ [Next]_vars => IInv' BY IInvStep
<1> QED BY <1>1, <1>2, PTL DEF Spec

-----------------------------------------------------------------------------
(* The socket carries at most one async_write, of the front package, and a
   completion handler always finds the package it completes at the front. *)
THEOREM OneWriteAtATime == Spec => []OneWriteOfTheFront
<1>1. IInv => OneWriteOfTheFront
  <2> SUFFICES ASSUME TypeOK, NEW p \in 0..MaxWrites, NEW a \in 0..MaxWrites, Shape(p, a)
               PROVE  OneWriteOfTheFront
    BY DEF IInv
  <2>1. p < a => queue_write # << >> /\ Head(queue_write) = p + 1
    BY DEF Shape, QueueShape, TypeOK
  <2>2. \A j, k \in Writes :
          sending[j] > 0 /\ sending[k] > 0 => j = k /\ sending[k] = 1
    BY DEF Shape, FlightShape
  <2>3. \A k \in Writes : sending[k] > 0 =>
          ~HandlerPending /\ queue_write # << >> /\ Head(queue_write) = k
    BY <2>1 DEF Shape, FlightShape
  <2>4. \A i, j \in 1..Len(strand) :
          strand[i].op \in Results /\ strand[j].op \in Results =>
             i = j /\ queue_write # << >> /\ Head(queue_write) = strand[i].id
    BY <2>1 DEF Shape, FlightShape
  <2> QED BY <2>2, <2>3, <2>4 DEF OneWriteOfTheFront
<1> QED BY <1>1, InductiveInvariant, PTL

(* The peer gets the writes in the order of the posts, without gaps. *)
THEOREM WireOrder == Spec => []WireInPostOrder
<1>1. IInv => WireInPostOrder
  <2> SUFFICES ASSUME TypeOK, NEW p \in 0..MaxWrites, NEW a \in 0..MaxWrites, Shape(p, a)
               PROVE  WireInPostOrder
    BY DEF IInv
  <2>1. wire \in Seq(Writes) /\ \A i \in 1..Len(wire) : wire[i] = i
    BY DEF TypeOK, Shape, WireShape
  <2> QED BY <2>1 DEF WireInPostOrder
<1> QED BY <1>1, InductiveInvariant, PTL

(* The answer a blocked thread gets is what happened to its data. *)
THEOREM PromisesAreTrue == Spec => []PromiseTellsWhatWasSent
<1>1. IInv => PromiseTellsWhatWasSent
  <2> SUFFICES ASSUME TypeOK, NEW p \in 0..MaxWrites, NEW a \in 0..MaxWrites, Shape(p, a),
                      NEW k \in Writes
               PROVE  /\ promise[k] = "ok" => \E i \in 1..Len(wire) : wire[i] = k
                      /\ promise[k] = "error" => \A i \in 1..Len(wire) : wire[i] # k
    BY DEF IInv, PromiseTellsWhatWasSent
  <2>1. /\ Len(wire) \in Nat /\ \A i \in 1..Len(wire) : wire[i] = i
    BY DEF TypeOK, Shape, WireShape
  <2>2. CASE promise[k] = "ok"
    <3>1. k \in 1..Len(wire) /\ wire[k] = k
      BY <2>1, <2>2 DEF Shape, WireShape, Writes
    <3> QED BY <2>2, <3>1
  <2>3. CASE promise[k] = "error"
    BY <2>1, <2>3 DEF Shape, WireShape, Writes
  <2> QED BY <2>2, <2>3
<1> QED BY <1>1, InductiveInvariant, PTL

(* The two places that start a write never both leave queue_write idle. *)
THEOREM QueueKeepsMoving == Spec => []QueueNeverIdleBeforeError
<1>1. IInv => QueueNeverIdleBeforeError
  BY DEF IInv, Shape, QueueShape, FlightShape, QueueNeverIdleBeforeError, TypeOK
<1> QED BY <1>1, InductiveInvariant, PTL

-----------------------------------------------------------------------------
(* A new Session is an OrderedStream to which nothing has been posted. *)
LEMMA StreamInit == Init => Stream!Init
  BY DEF Init, Stream!Init, Writes

(* Every step of the write path is a step of OrderedStream or changes nothing
   of it: a post is Post, a successful async_write is Transmit, the loss or
   the shutdown of the socket is Break, a completion handler is Answer. *)
LEMMA StreamStep == IInv /\ [Next]_vars => [Stream!Next]_Stream!vars
<1> SUFFICES ASSUME IInv, [Next]_vars PROVE [Stream!Next]_Stream!vars
  OBVIOUS
<1> USE DEF Stream!vars
<1>1. PICK p \in 0..MaxWrites, a \in 0..MaxWrites : Shape(p, a)
  BY DEF IInv
<1>2. CASE InlineAsyncWrite \/ \E w \in Blocking : WriteBlocking(w)
  <2>1. Stream!Post
    BY <1>2 DEF InlineAsyncWrite, WriteBlocking, PostWrite, Stream!Post
  <2> QED BY <2>1 DEF Stream!Next
<1>3. ASSUME NEW k \in Writes, AsyncWriteSucceeds(k)
      PROVE  Stream!Next
  <2>1. sock = "open" /\ sending[k] > 0 /\ wire' = Append(wire, k)
        /\ UNCHANGED <<posted, promise, sock>>
    BY <1>3 DEF AsyncWriteSucceeds, AsyncWriteCompletes
  <2>2. k = p + 1 /\ p < a /\ ~HandlerPending /\ a <= posted
    BY <1>1, <2>1 DEF Shape, FlightShape, QueueShape
  <2>3. Len(wire) = p
    BY <1>1, <2>1, <2>2 DEF Shape, WireShape
  <2>4. Stream!Transmit
    BY <2>1, <2>2, <2>3 DEF Stream!Transmit, IInv, TypeOK
  <2> QED BY <2>4 DEF Stream!Next
<1>4. CASE WriteHandlerOk \/ WriteHandlerError
  <2> DEFINE result == Head(strand).op
  <2>1. /\ strand # << >> /\ result \in Results /\ AnswerFront(result)
        /\ UNCHANGED <<posted, wire, sock>>
    BY <1>4 DEF WriteHandlerOk, WriteHandlerError, NextTask, Results
  <2>2. 1 \in 1..Len(strand) /\ strand[1].op = result
    BY <2>1 DEF IInv, TypeOK
  <2> HIDE DEF result
  <2>3. p < a /\ p + 1 <= posted /\ p + 1 \in 1..MaxWrites /\ Head(queue_write) = p + 1
    <3>1. p < a
      BY <1>1, <2>1, <2>2 DEF Shape, FlightShape
    <3>2. queue_write \in Seq(Writes) /\ posted \in 0..MaxWrites
      BY DEF IInv, TypeOK
    <3>3. p <= a /\ a <= posted /\ Len(queue_write) = a - p
          /\ \A i \in 1..Len(queue_write) : queue_write[i] = p + i
      BY <1>1 DEF Shape, QueueShape
    <3>4. p + 1 \in 1..MaxWrites /\ 1 \in 1..Len(queue_write)
      BY <3>1, <3>2, <3>3, ConstantsAssumption
    <3> QED BY <3>1, <3>2, <3>3, <3>4
  <2>4. promise' = [promise EXCEPT ![p + 1] = result]
    BY <2>1, <2>3 DEF AnswerFront
  <2>5. promise[p + 1] = "none" /\ \A j \in 1..p : promise[j] # "none"
    <3>1. \A k \in Writes : (promise[k] # "none") <=> k <= p
      BY <1>1 DEF Shape, QueueShape
    <3> QED BY <2>3, <3>1, ConstantsAssumption DEF Writes
  <2>6. CASE result = "ok"
    <3>1. p + 1 <= Len(wire)
      BY <1>1, <2>2, <2>6 DEF Shape, WireShape, IInv, TypeOK
    <3>2. Stream!Answer(p + 1)
      <4>1. \A j \in 1..((p + 1 - 1)) : promise[j] # "none"
        BY <2>5
      <4> QED BY <2>1, <2>3, <2>4, <2>5, <2>6, <3>1, <4>1 DEF Stream!Answer
    <3> QED BY <2>3, <3>2 DEF Stream!Next
  <2>7. CASE result # "ok"
    <3>1. result = "error"
      BY <2>1, <2>7 DEF Results
    <3>2. p + 1 > Len(wire) /\ sock # "open"
      BY <1>1, <2>2, <3>1 DEF Shape, WireShape, IInv, TypeOK
    <3>3. Stream!Answer(p + 1)
      <4>1. \A j \in 1..((p + 1 - 1)) : promise[j] # "none"
        BY <2>5
      <4> QED BY <2>1, <2>3, <2>4, <2>5, <3>1, <3>2, <4>1 DEF Stream!Answer
    <3> QED BY <2>3, <3>3 DEF Stream!Next
  <2> QED BY <2>6, <2>7
<1>5. CASE PeerDrops \/ CloseSocketImpl
  <2>1. UNCHANGED <<posted, wire, promise>> /\ sock' # "open"
    BY <1>5 DEF PeerDrops, CloseSocketImpl
  <2>2. sock = "open" => Stream!Break
    BY <2>1 DEF Stream!Break
  <2> QED BY <2>1, <2>2 DEF Stream!Next
<1>6. ASSUME \/ \E w \in Blocking : WriteReturns(w)
             \/ ArrangeAsyncWrite
             \/ \E k \in Writes : AsyncWriteFails(k)
             \/ TimerExpires \/ TimeoutHandler
             \/ InlineAsyncRead \/ ReadHandlerOk \/ ReadHandlerError
             \/ UNCHANGED vars
      PROVE  UNCHANGED <<posted, wire, promise, sock>>
  BY <1>6 DEF WriteReturns, ArrangeAsyncWrite, AsyncWriteFails, TimerExpires,
              TimeoutHandler, InlineAsyncRead, ReadHandlerOk, ReadHandlerError, vars
<1> QED
  BY <1>2, <1>3, <1>4, <1>5, <1>6 DEF Next, StrandStep

(* No promise is set twice, which would throw future_error in the completion
   handler, and none is set before those of the earlier writes.  The abstract
   stream says so of each answer, and every step of WriteQueue that touches a
   promise is one. *)
THEOREM PromisesInOrder == Spec => PromisesAnsweredInOrder
<1> DEFINE InOrder == \A k \in Writes : promise'[k] # promise[k] =>
                        /\ promise[k] = "none"
                        /\ \A j \in 1..(k - 1) : promise[j] # "none"
<1>1. TypeOK /\ [Stream!Next]_Stream!vars => InOrder
  <2> SUFFICES ASSUME TypeOK, [Stream!Next]_Stream!vars PROVE InOrder
    OBVIOUS
  <2>1. CASE UNCHANGED promise
    BY <2>1
  <2>2. ASSUME NEW i \in Writes, Stream!Answer(i) PROVE InOrder
    BY <2>2 DEF Stream!Answer, TypeOK
  <2>3. (\E i \in Writes : Stream!Answer(i)) \/ UNCHANGED promise
    BY DEF Stream!Next, Stream!vars, Stream!Post, Stream!Transmit, Stream!Break, Writes
  <2> QED BY <2>1, <2>2, <2>3
<1>2. IInv /\ [Next]_vars => [InOrder]_vars
  BY <1>1, StreamStep DEF IInv
<1> QED BY <1>2, InductiveInvariant, PTL DEF Spec, PromisesAnsweredInOrder

(* The write path implements OrderedStream: whoever posts, it sends the data
   in order and answers every write truly and in order, or breaks. *)
THEOREM WriteQueueImplementsOrderedStream == Spec => ImplementsOrderedStream
<1>1. Init => Stream!Init BY StreamInit
<1>2. IInv /\ [Next]_vars => [Stream!Next]_Stream!vars BY StreamStep
<1> QED BY <1>1, <1>2, InductiveInvariant, PTL DEF Spec, ImplementsOrderedStream, Stream!Spec
=============================================================================
