---------------------------- MODULE UserIOProofs ----------------------------
(***************************************************************************)
(* Theorems about UserIO, for any number of reads, writes, bytes, pieces   *)
(* and sizes of buffers: what a raw handler is given is what its peer has  *)
(* sent, and the peer gets each of its writes in one piece when none that  *)
(* goes straight to the socket overlaps another one.                       *)
(***************************************************************************)
EXTENDS UserIO, FiniteSetTheorems, SequenceTheorems, TLAPS

(* What the reads depend on, in the order of the variables of an action. *)
readState == <<kindVars, read, taken, delivered, peerVars, sock>>

Types ==
    /\ transport \in {"TCP", "SSL", "Unix"} /\ mode \in {"coro", "thread"}
    /\ read \in {NoRead} \cup [form : Forms, stage : {"posted", "pending"},
                               want : Nat \ {0}, got : Nat]
    /\ taken \in Nat /\ arrived \in Nat /\ taken <= arrived
    /\ delivered \in Seq(Nat)
    /\ peer \in {"open", "shut", "gone"} /\ sock \in {"open", Close[transport]}

(* Only a blocking read over SSL or a Unix socket keeps bytes in its buffer. *)
PartsAreOfBlockingReads ==
    /\ read.form = "promised" => mode = "thread"
    /\ read.got > 0 => read.form = "promised" /\ transport # "TCP"

InOrder == \A i \in 1..Len(delivered) : delivered[i] = i

(* No byte can come any more. *)
Drained ==
    \/ sock = "closed" \/ peer = "gone"
    \/ arrived = taken /\ (sock # "open" \/ peer # "open")

(* Bytes are lost by a blocking read that fails, and then there are no more:
   a later read would give bytes that do not follow those delivered. *)
LostOnlyAtTheEnd ==
    /\ Len(delivered) + read.got <= taken
    /\ Len(delivered) + read.got < taken =>
          mode = "thread" /\ transport # "TCP" /\ Drained

IInv == Types /\ PartsAreOfBlockingReads /\ InOrder /\ LostOnlyAtTheEnd

LEMMA InitIInv == Init => IInv
  BY ConstantsAssumption
  DEF Init, IInv, Types, PartsAreOfBlockingReads, InOrder, LostOnlyAtTheEnd,
      NoRead, Close, SSLClose, UnixClose

LEMMA StutterIInv == ASSUME IInv, UNCHANGED readState PROVE IInv'
  BY DEF IInv, Types, PartsAreOfBlockingReads, InOrder, LostOnlyAtTheEnd, Drained,
      readState, kindVars, peerVars

(* A read begins, with nothing in its buffer. *)
LEMMA NewReadIInv ==
    ASSUME IInv, read = NoRead, NEW form \in Forms, NEW stage \in {"posted", "pending"},
           NEW n \in BufSizes, read' = NewRead(form, stage, n),
           form = "promised" => mode = "thread",
           UNCHANGED <<kindVars, taken, delivered, peerVars, sock>>
    PROVE  IInv'
  <1>1. n \in Nat \ {0}
    BY ConstantsAssumption
  <1>2. read.got = 0 /\ read'.got = 0 /\ read'.form = form
    BY DEF NoRead, NewRead
  <1>3. Types'
    BY <1>1 DEF IInv, Types, NewRead, kindVars, peerVars
  <1>4. (PartsAreOfBlockingReads /\ InOrder /\ LostOnlyAtTheEnd)'
    BY <1>2 DEF IInv, PartsAreOfBlockingReads, InOrder, LostOnlyAtTheEnd, Drained,
       kindVars, peerVars
  <1> QED
    BY <1>3, <1>4 DEF IInv

(* The read outstanding ends, and nothing is in a buffer any more. *)
LEMMA NoneInBuffer ==
    ASSUME IInv, read # NoRead
    PROVE  /\ read.got \in Nat /\ read.want \in Nat \ {0} /\ read.form \in Forms
           /\ read \in [form : Forms, stage : {"posted", "pending"}, want : Nat \ {0}, got : Nat]
  BY DEF IInv, Types

(* What a read can take is there to be taken, and follows what was delivered. *)
LEMMA TakingIsNext ==
    ASSUME IInv, read # NoRead, Taking > 0
    PROVE  /\ Taking \in Nat /\ taken + Taking <= arrived
           /\ taken = Len(delivered) + read.got
  <1>1. read.got \in Nat /\ read.want \in Nat
    BY NoneInBuffer
  <1>2. taken \in Nat /\ arrived \in Nat /\ taken <= arrived /\ Len(delivered) \in Nat
    BY DEF IInv, Types
  <1>3. Available > 0 /\ Available = arrived - taken /\ ~(sock = "closed" \/ peer = "gone")
    BY <1>1, <1>2 DEF Taking, Least, Available
  <1>4. Taking \in Nat /\ taken + Taking <= arrived
    BY <1>1, <1>2, <1>3 DEF Taking, Least
  <1>5. ~Drained
    BY <1>2, <1>3 DEF Drained
  <1> QED
    BY <1>1, <1>2, <1>4, <1>5 DEF IInv, LostOnlyAtTheEnd

LEMMA ReadPartIInv == ASSUME IInv, ReadPart PROVE IInv'
  <1>1. read # NoRead /\ Taking > 0
    BY DEF ReadPart, Fills
  <1>2. read.got \in Nat
    BY <1>1, NoneInBuffer
  <1>3. /\ Taking \in Nat /\ taken + Taking <= arrived
        /\ taken = Len(delivered) + read.got
    BY <1>1, TakingIsNext
  <1>4. /\ read' = [read EXCEPT !.got = @ + Taking] /\ taken' = taken + Taking
        /\ UNCHANGED <<transport, mode, delivered, arrived, peer, sock>>
    BY DEF ReadPart, kindVars, peerVars
  <1>5. read'.got = read.got + Taking /\ read'.form = read.form
    BY <1>1, <1>4, NoneInBuffer
  <1>6. read.form = "promised" /\ transport # "TCP"
    BY <1>1, NoneInBuffer
    DEF ReadPart, Fills, Reads, TCPReads, SSLReads, UnixReads, Forms, IInv, Types
  <1> HIDE DEF Taking
  <1>7. Types'
    BY <1>1, <1>2, <1>3, <1>4, NoneInBuffer DEF IInv, Types
  <1>8. (PartsAreOfBlockingReads /\ InOrder)'
    BY <1>4, <1>5, <1>6 DEF IInv, PartsAreOfBlockingReads, InOrder
  <1>9. LostOnlyAtTheEnd'
    BY <1>2, <1>3, <1>4, <1>5 DEF IInv, Types, LostOnlyAtTheEnd
  <1> QED
    BY <1>7, <1>8, <1>9 DEF IInv

(* The bytes that follow those delivered keep them in order. *)
LEMMA ExtendInOrder ==
    ASSUME delivered \in Seq(Nat), InOrder, NEW m \in Nat,
           delivered' = delivered \o [i \in 1..m |-> Len(delivered) + i]
    PROVE  /\ delivered' \in Seq(Nat) /\ Len(delivered') = Len(delivered) + m
           /\ InOrder'
  <1> DEFINE more == [i \in 1..m |-> Len(delivered) + i]
  <1>1. more \in Seq(Nat) /\ Len(more) = m /\ \A i \in 1..m : more[i] = Len(delivered) + i
    OBVIOUS
  <1> HIDE DEF more
  <1>2. delivered' \in Seq(Nat) /\ Len(delivered') = Len(delivered) + m
    BY <1>1 DEF more
  <1>3. ASSUME NEW i \in 1..Len(delivered')
        PROVE  delivered'[i] = i
    <2>1. CASE i <= Len(delivered)
      BY <1>1, <1>2, <2>1 DEF InOrder, more
    <2>2. CASE i > Len(delivered)
      <3>1. delivered'[i] = more[i - Len(delivered)] /\ i - Len(delivered) \in 1..m
        BY <1>1, <1>2, <2>2 DEF more
      <3> QED
        BY <1>1, <3>1
    <2> QED
      BY <1>2, <2>1, <2>2
  <1> QED
    BY <1>2, <1>3 DEF InOrder

LEMMA ReadOkIInv == ASSUME IInv, ReadOk PROVE IInv'
  <1>1. read # NoRead /\ Taking > 0
    BY DEF ReadOk, NoRead
  <1>2. read.got \in Nat /\ read.want \in Nat \ {0} /\ read.form \in Forms
    BY <1>1, NoneInBuffer
  <1>3. /\ Taking \in Nat /\ taken + Taking <= arrived
        /\ taken = Len(delivered) + read.got
    BY <1>1, TakingIsNext
  <1>4. /\ delivered' = delivered \o Data(read.got + Taking)
        /\ taken' = taken + Taking
        /\ \/ read' = NoRead
           \/ read.form = "callback" /\ read' = NewRead("callback", "pending", read.want)
        /\ UNCHANGED <<transport, mode, arrived, peer, sock>>
    BY DEF ReadOk, kindVars, peerVars
  <1> DEFINE m == read.got + Taking
  <1>5. delivered \in Seq(Nat) /\ InOrder /\ Len(delivered) \in Nat
    BY DEF IInv, Types
  <1>6. m \in Nat
    BY <1>2, <1>3
  <1>7. Data(m) = [i \in 1..m |-> Len(delivered) + i]
    BY <1>2, <1>3, <1>5 DEF Data
  <1>8. delivered' \in Seq(Nat) /\ Len(delivered') = Len(delivered) + m /\ InOrder'
    BY <1>4, <1>5, <1>6, <1>7, ExtendInOrder
  <1>9. read'.got = 0 /\ read'.form \in {"none", "callback"}
    BY <1>4 DEF NoRead, NewRead
  <1>10. taken' = Len(delivered') + read'.got /\ taken' \in Nat /\ taken' <= arrived
    BY <1>2, <1>3, <1>4, <1>5, <1>8, <1>9
  <1>11. Types'
    <2>1. read' = NoRead \/ read' \in [form : Forms, stage : {"posted", "pending"},
                                       want : Nat \ {0}, got : Nat]
      BY <1>2, <1>4 DEF NewRead, Forms
    <2> QED
      BY <1>4, <1>8, <1>10, <2>1 DEF IInv, Types
  <1>12. PartsAreOfBlockingReads'
    BY <1>9 DEF PartsAreOfBlockingReads
  <1>13. LostOnlyAtTheEnd'
    BY <1>4, <1>8, <1>9, <1>10 DEF LostOnlyAtTheEnd
  <1> QED
    BY <1>8, <1>11, <1>12, <1>13 DEF IInv

(* A read fails when nothing can come any more; what it has taken is lost. *)
LEMMA ReadFailsIInv == ASSUME IInv, ReadFails PROVE IInv'
  <1>1. read # NoRead
    BY DEF ReadFails, NoRead
  <1>2. read.got \in Nat /\ Len(delivered) \in Nat /\ taken \in Nat /\ arrived \in Nat
    BY <1>1, NoneInBuffer DEF IInv, Types
  <1>3. /\ read' = NoRead /\ Available = 0 /\ (sock # "open" \/ peer # "open")
        /\ UNCHANGED <<transport, mode, taken, delivered, arrived, peer, sock>>
    BY DEF ReadFails, kindVars, peerVars
  <1>4. Drained
    BY <1>2, <1>3 DEF Available, Drained
  <1>5. read'.got = 0 /\ read'.form = "none"
    BY <1>3 DEF NoRead
  <1>6. Types'
    BY <1>3 DEF IInv, Types
  <1>7. (PartsAreOfBlockingReads /\ InOrder)'
    BY <1>3, <1>5 DEF IInv, PartsAreOfBlockingReads, InOrder
  <1>8. Drained'
    BY <1>3, <1>4 DEF Drained
  <1>9. LostOnlyAtTheEnd'
    <2>1. CASE read.got = 0
      BY <1>2, <1>3, <1>5, <1>8, <2>1 DEF IInv, LostOnlyAtTheEnd
    <2>2. CASE read.got > 0
      <3>1. mode = "thread" /\ transport # "TCP"
        BY <2>2 DEF IInv, PartsAreOfBlockingReads
      <3> QED
        BY <1>2, <1>3, <1>5, <1>8, <3>1 DEF IInv, LostOnlyAtTheEnd
    <2> QED
      BY <1>2, <2>1, <2>2
  <1> QED
    BY <1>6, <1>7, <1>9 DEF IInv

(* close_socket_impl shuts the socket, or closes it. *)
LEMMA CloseSocketIInv == ASSUME IInv, CloseSocketImpl PROVE IInv'
  <1>1. /\ sock' = Close[transport]
        /\ UNCHANGED <<transport, mode, read, taken, delivered, arrived, peer>>
    BY DEF CloseSocketImpl, kindVars, readVars, peerVars
  <1>2. sock = "closed" => sock' = "closed"
    BY <1>1 DEF IInv, Types, Close, SSLClose, UnixClose
  <1>3. sock # "open" => sock' # "open"
    BY <1>1 DEF IInv, Types, Close, SSLClose, UnixClose
  <1>4. Drained => Drained'
    BY <1>1, <1>2, <1>3 DEF Drained
  <1> QED
    BY <1>1, <1>4 DEF IInv, Types, PartsAreOfBlockingReads, InOrder, LostOnlyAtTheEnd

LEMMA PeerIInv == ASSUME IInv, PeerSends \/ PeerStops PROVE IInv'
  <1>1. UNCHANGED <<transport, mode, read, taken, delivered, sock>>
    BY DEF PeerSends, PeerStops, kindVars, readVars
  <1>2. /\ arrived' \in Nat /\ taken <= arrived'
        /\ peer' \in {"open", "shut", "gone"}
    BY DEF PeerSends, PeerStops, IInv, Types
  <1>3. Drained => Drained'
    BY <1>1 DEF Drained, PeerSends, PeerStops, IInv, Types
  <1> QED
    BY <1>1, <1>2, <1>3
    DEF IInv, Types, PartsAreOfBlockingReads, InOrder, LostOnlyAtTheEnd

LEMMA PostedReadIInv == ASSUME IInv, PostedReadStarts PROVE IInv'
  <1>1. read # NoRead
    BY DEF PostedReadStarts, NoRead
  <1>2. /\ read' = [read EXCEPT !.stage = "pending"]
        /\ UNCHANGED <<transport, mode, taken, delivered, arrived, peer, sock>>
    BY DEF PostedReadStarts, kindVars, peerVars
  <1>3. /\ read' \in [form : Forms, stage : {"posted", "pending"}, want : Nat \ {0}, got : Nat]
        /\ read'.got = read.got /\ read'.form = read.form
    BY <1>1, <1>2, NoneInBuffer
  <1> QED
    BY <1>2, <1>3
    DEF IInv, Types, PartsAreOfBlockingReads, InOrder, LostOnlyAtTheEnd, Drained

(* What the handler does: it starts a read, or none of this changes. *)
LEMMA HandlerIInv == ASSUME IInv, HandlerStep PROVE IInv'
  <1>1. CASE HandlerEnds \/ WriteCoro \/ WriteCallback \/ WritePosted
    <2>1. UNCHANGED readState
      BY <1>1 DEF HandlerEnds, WriteCoro, WriteCallback, WritePosted, readState, readVars
    <2> QED
      BY <2>1, StutterIInv
  <1>2. ASSUME NEW n \in BufSizes, ReadCoro(n) PROVE IInv'
    BY <1>2, NewReadIInv DEF ReadCoro, Forms
  <1>3. ASSUME NEW n \in BufSizes, ReadCallback(n) PROVE IInv'
    BY <1>3, NewReadIInv DEF ReadCallback, Forms
  <1>4. ASSUME NEW n \in BufSizes, ReadBlocking(n) PROVE IInv'
    BY <1>4, NewReadIInv DEF ReadBlocking, Forms
  <1> QED
    BY <1>1, <1>2, <1>3, <1>4 DEF HandlerStep

LEMMA StrandIInv == ASSUME IInv, StrandStep PROVE IInv'
  <1>1. CASE CoroBegins
    BY <1>1, StutterIInv DEF CoroBegins, readState, readVars
  <1>2. ASSUME NEW id \in Ids, ArrangeAsyncWrite(id) \/ WriteOk(id) \/ WriteFails(id)
        PROVE  IInv'
    <2>1. UNCHANGED readState
      BY <1>2 DEF ArrangeAsyncWrite, WriteOk, WriteFails, readState, readVars
    <2> QED
      BY <2>1, StutterIInv
  <1> QED
    BY <1>1, <1>2, PostedReadIInv, ReadFailsIInv, CloseSocketIInv DEF StrandStep

LEMMA NextIInv == ASSUME IInv, [Next]_vars PROVE IInv'
  <1>1. CASE UNCHANGED vars
    BY <1>1, StutterIInv DEF vars, readState, readVars
  <1>2. CASE HandshakeDone \/ HandshakeFails \/ TimerExpires \/ TimeoutHandler
    <2>1. UNCHANGED readState
      BY <1>2 DEF HandshakeDone, HandshakeFails, TimerExpires, TimeoutHandler,
                  readState, readVars
    <2> QED
      BY <2>1, StutterIInv
  <1>3. ASSUME NEW id \in Ids, WritePart(id) PROVE IInv'
    BY <1>3, StutterIInv DEF WritePart, readState, readVars
  <1> QED
    BY <1>1, <1>2, <1>3, HandlerIInv, StrandIInv, ReadPartIInv, ReadOkIInv, PeerIInv DEF Next

LEMMA IInvReadsAreInOrder == ASSUME IInv PROVE ReadsAreInOrder
  BY DEF IInv, Types, InOrder, LostOnlyAtTheEnd, ReadsAreInOrder

(* The bytes a raw handler is given are those its peer has sent, in order and
   without a gap, whichever of the three Sessions it has and however it reads;
   only a blocking read of an SSL or a Unix session can lose any. *)
THEOREM ReadsInOrder == Spec => []ReadsAreInOrder
  <1>1. Init => IInv
    BY InitIInv
  <1>2. IInv /\ [Next]_vars => IInv'
    BY NextIInv
  <1>3. IInv => ReadsAreInOrder
    BY IInvReadsAreInOrder
  <1> QED
    BY <1>1, <1>2, <1>3, PTL DEF Spec
-----------------------------------------------------------------------------
(* The writes *)

(* What the writes depend on. *)
writeState == <<transport, writeVars>>

WriteType == [form : Forms \cup {"none"},
              stage : {"none", "posted", "queued", "sending", "answered"}, sent : Nat]

WriteTypes ==
    /\ transport \in {"TCP", "SSL", "Unix"} /\ reads \in Nat
    /\ writes \in [Ids -> WriteType]
    /\ queue_write \in Seq(Ids) /\ wire \in Seq(Ids)

(* The ids are taken in order, so that the next one is of no write. *)
IdsInOrder == \E n \in Nat : n <= MaxOps /\ Started = 1..n

Direct(id) == writes[id].form # "promised"

(* Only promised writes wait, and they have sent nothing then. *)
Stages ==
    \A id \in Ids :
        /\ writes[id].stage \in {"posted", "queued"} => ~Direct(id) /\ writes[id].sent = 0
        /\ Outstanding(id) => writes[id].form \in Forms

(* queue_write holds the promised writes; only its front is being sent. *)
Queued ==
    /\ \A i, j \in 1..Len(queue_write) : queue_write[i] = queue_write[j] => i = j
    /\ \A i \in 1..Len(queue_write) :
          /\ ~Direct(queue_write[i])
          /\ \/ writes[queue_write[i]].stage = "queued"
             \/ i = 1 /\ Sending(queue_write[i])
    /\ \A id \in Ids : Sending(id) /\ ~Direct(id) =>
          queue_write # << >> /\ queue_write[1] = id

(* A write that goes straight to the socket is the only one outstanding. *)
DirectAlone ==
    \A i, j \in Ids : Outstanding(i) /\ Direct(i) /\ Outstanding(j) => i = j

(* The pieces on the wire are of writes answered, or of the one being sent,
   and those are at the end. *)
PiecesOfSent ==
    /\ \A i \in 1..Len(wire) :
          \/ writes[wire[i]].stage = "answered"
          \/ Sending(wire[i]) /\ writes[wire[i]].sent > 0
    /\ \A id \in Ids : Sending(id) /\ writes[id].sent > 0 =>
          wire # << >> /\ wire[Len(wire)] = id

WInv ==
    /\ WriteTypes /\ IdsInOrder /\ Stages /\ Queued /\ DirectAlone
    /\ PiecesOfSent /\ WritesAreWhole

LEMMA InitWInv == ASSUME Init PROVE WInv
  <1>1. WriteTypes
    BY ConstantsAssumption, EmptySeq DEF Init, WriteTypes, WriteType, NoWrite
  <1>2. IdsInOrder
    <2>1. Started = 1..0
      BY DEF Init, Started, NoWrite
    <2>2. 0 \in Nat /\ 0 <= MaxOps
      BY ConstantsAssumption
    <2> QED
      BY <2>1, <2>2 DEF IdsInOrder
  <1>3. \A id \in Ids : writes[id].stage = "none" /\ ~Sending(id) /\ ~Outstanding(id)
    BY DEF Init, NoWrite, Sending, Outstanding
  <1>4. Len(queue_write) = 0 /\ Len(wire) = 0
    BY DEF Init
  <1>5. Stages /\ DirectAlone
    BY <1>3 DEF Stages, DirectAlone
  <1>6. Queued /\ PiecesOfSent /\ WritesAreWhole
    BY <1>3, <1>4 DEF Queued, PiecesOfSent, WritesAreWhole
  <1> QED
    BY <1>1, <1>2, <1>5, <1>6 DEF WInv

LEMMA StutterWInv == ASSUME WInv, UNCHANGED writeState, reads' \in Nat PROVE WInv'
  <1>1. UNCHANGED <<transport, writes, queue_write, wire>>
    BY DEF writeState, writeVars
  <1>2. WriteTypes' /\ IdsInOrder' /\ Stages'
    BY <1>1 DEF WInv, WriteTypes, IdsInOrder, Started, Stages, Direct, Outstanding
  <1>3. Queued'
    BY <1>1 DEF WInv, Queued, Direct, Sending
  <1>4. DirectAlone' /\ PiecesOfSent' /\ WritesAreWhole'
    BY <1>1 DEF WInv, DirectAlone, Outstanding, Direct, PiecesOfSent, Sending, WritesAreWhole
  <1> QED
    BY <1>2, <1>3, <1>4 DEF WInv

LEMMA OneSending ==
    ASSUME WInv, NEW i \in Ids, NEW j \in Ids, Sending(i), Sending(j)
    PROVE  i = j
  <1>1. Outstanding(i) /\ Outstanding(j)
    BY DEF Sending, Outstanding
  <1>2. CASE Direct(i) \/ Direct(j)
    BY <1>1, <1>2 DEF WInv, DirectAlone
  <1>3. CASE ~Direct(i) /\ ~Direct(j)
    BY <1>3 DEF WInv, Queued
  <1> QED
    BY <1>2, <1>3

(* The id of the next write is of no other. *)
LEMMA FreshId ==
    ASSUME WInv, MayStart
    PROVE  /\ NextId \in Ids /\ writes[NextId].stage = "none"
           /\ Started = 1..(NextId - 1)
  <1>1. PICK n \in Nat : n <= MaxOps /\ Started = 1..n
    BY DEF WInv, IdsInOrder
  <1>2. Cardinality(1..n) = n
    BY <1>1, FS_Interval
  <1>3. NextId = n + 1
    BY <1>1, <1>2 DEF NextId
  <1>4. reads + n < MaxOps /\ reads \in Nat
    BY <1>1, <1>2 DEF MayStart, WInv, WriteTypes
  <1>5. NextId \in Ids /\ NextId \notin 1..n
    BY <1>3, <1>4, ConstantsAssumption DEF Ids
  <1> QED
    BY <1>1, <1>3, <1>5 DEF Started

(* A write starts: a promised one while none goes straight to the socket, or
   one that does while none is outstanding. *)
LEMMA StartWInv ==
    ASSUME WInv, MayStart, UNCHANGED <<transport, reads, queue_write, wire>>,
           NEW form \in Forms, NEW stage \in {"posted", "sending"}, Put(NextId, form, stage),
           \/ /\ form = "promised" /\ stage = "posted"
              /\ \A k \in Ids : Outstanding(k) => ~Direct(k)
           \/ /\ form # "promised" /\ stage = "sending"
              /\ \A k \in Ids : ~Outstanding(k)
    PROVE  WInv'
  <1>0. PICK id : id = NextId
    OBVIOUS
  <1>1. id \in Ids /\ writes[id].stage = "none" /\ Started = 1..(id - 1)
    BY <1>0, FreshId
  <1>2. writes \in [Ids -> WriteType]
    BY DEF WInv, WriteTypes
  <1>3. /\ writes' = [writes EXCEPT ![id] = [form |-> form, stage |-> stage, sent |-> 0]]
        /\ [form |-> form, stage |-> stage, sent |-> 0] \in WriteType
    BY <1>0 DEF Put, WriteType
  <1>4. /\ writes' \in [Ids -> WriteType]
        /\ \A k \in Ids : k # id => writes'[k] = writes[k]
        /\ writes'[id].form = form /\ writes'[id].stage = stage /\ writes'[id].sent = 0
    BY <1>1, <1>2, <1>3
  <1>5. WriteTypes'
    BY <1>4 DEF WInv, WriteTypes
  <1>6. IdsInOrder'
    <2>1. id \in Nat /\ id <= MaxOps /\ id \in 1..MaxOps
      BY <1>1, ConstantsAssumption DEF Ids
    <2>2. Started' = Started \cup {id}
      BY <1>1, <1>4 DEF Started
    <2>3. Started' = 1..id
      BY <1>1, <2>1, <2>2
    <2> QED
      BY <2>1, <2>3 DEF IdsInOrder
  <1>7. Stages'
    BY <1>4 DEF WInv, Stages, Direct, Outstanding, Forms
  <1>8. \A i \in 1..Len(queue_write) : queue_write[i] \in Ids /\ queue_write[i] # id
    <2> TAKE i \in 1..Len(queue_write)
    <2>1. queue_write[i] \in Ids
      BY ElementOfSeq DEF WInv, WriteTypes
    <2> QED
      BY <1>1, <2>1 DEF WInv, Queued, Sending
  <1>9. Queued'
    <2>1. \A k \in Ids : Sending(k)' /\ ~Direct(k)' => k # id /\ Sending(k) /\ ~Direct(k)
      BY <1>4 DEF Sending, Direct
    <2> QED
      BY <1>4, <1>8, <2>1 DEF WInv, Queued, Direct, Sending
  <1>10. DirectAlone'
    <2>1. \A k \in Ids : k # id => (Outstanding(k)' <=> Outstanding(k)) /\ (Direct(k)' <=> Direct(k))
      BY <1>4 DEF Outstanding, Direct
    <2>2. Direct(id)' <=> form # "promised"
      BY <1>4 DEF Direct
    <2> QED
      BY <2>1, <2>2 DEF WInv, DirectAlone
  <1>11. \A i \in 1..Len(wire) : wire[i] \in Ids /\ wire[i] # id
    <2> TAKE i \in 1..Len(wire)
    <2>1. wire[i] \in Ids
      BY ElementOfSeq DEF WInv, WriteTypes
    <2> QED
      BY <1>1, <2>1 DEF WInv, PiecesOfSent, Sending
  <1>12. PiecesOfSent'
    BY <1>4, <1>11 DEF WInv, PiecesOfSent, Sending
  <1>13. WritesAreWhole'
    BY DEF WInv, WritesAreWhole
  <1> QED
    BY <1>5, <1>6, <1>7, <1>9, <1>10, <1>12, <1>13 DEF WInv
(* A change of one write that stays outstanding, or not. *)
LEMMA StartedStay ==
    ASSUME IdsInOrder, \A k \in Ids : writes'[k].stage = "none" <=> writes[k].stage = "none"
    PROVE  IdsInOrder'
  <1>1. Started' = Started
    BY DEF Started
  <1> QED
    BY <1>1 DEF IdsInOrder

(* arrange_async_write: the front of an empty queue is started. *)
LEMMA ArrangeWInv == ASSUME WInv, NEW id \in Ids, ArrangeAsyncWrite(id) PROVE WInv'
  <1>1. PICK stage \in {"queued", "sending"} :
          /\ writes' = [writes EXCEPT ![id].stage = stage]
          /\ stage = "sending" <=> queue_write = << >>
    BY DEF ArrangeAsyncWrite
  <1>2. /\ writes \in [Ids -> WriteType] /\ writes[id].stage = "posted"
        /\ queue_write' = Append(queue_write, id)
        /\ UNCHANGED <<transport, reads, wire>>
    BY DEF ArrangeAsyncWrite, kindVars, readVars, WInv, WriteTypes
  <1>3. ~Direct(id) /\ writes[id].sent = 0 /\ writes[id] \in WriteType
    BY <1>2 DEF WInv, Stages
  <1>4. /\ writes' \in [Ids -> WriteType]
        /\ \A k \in Ids : k # id => writes'[k] = writes[k]
        /\ writes'[id].form = writes[id].form /\ writes'[id].stage = stage
        /\ writes'[id].sent = 0
    BY <1>1, <1>2, <1>3 DEF WriteType
  <1>5. /\ queue_write \in Seq(Ids) /\ queue_write' \in Seq(Ids) /\ Len(queue_write) \in Nat
        /\ Len(queue_write') = Len(queue_write) + 1
        /\ \A i \in 1..Len(queue_write) : queue_write'[i] = queue_write[i]
        /\ queue_write'[Len(queue_write) + 1] = id
    BY <1>2, AppendProperties, LenProperties DEF WInv, WriteTypes
  <1>6. WriteTypes'
    BY <1>2, <1>4, <1>5 DEF WInv, WriteTypes
  <1>7. IdsInOrder'
    BY <1>1, <1>2, <1>4, StartedStay DEF WInv
  <1>8. Stages'
    BY <1>3, <1>4 DEF WInv, Stages, Direct, Outstanding, Forms
  <1>9. \A i \in 1..Len(queue_write) : queue_write[i] \in Ids /\ queue_write[i] # id
    <2> TAKE i \in 1..Len(queue_write)
    <2>1. queue_write[i] \in Ids
      BY <1>5, ElementOfSeq
    <2> QED
      BY <1>2, <2>1 DEF WInv, Queued, Sending
  <1>10. queue_write = << >> <=> Len(queue_write) = 0
    BY <1>5, EmptySeq
  <1>11. Queued'
    <2>1. \A i, j \in 1..Len(queue_write') : queue_write'[i] = queue_write'[j] => i = j
      BY <1>5, <1>9 DEF WInv, Queued
    <2>2. ASSUME NEW i \in 1..Len(queue_write')
          PROVE  /\ writes'[queue_write'[i]].form = "promised"
                 /\ \/ writes'[queue_write'[i]].stage = "queued"
                    \/ i = 1 /\ writes'[queue_write'[i]].stage = "sending"
      <3>1. CASE i \in 1..Len(queue_write)
        BY <1>4, <1>5, <1>9, <3>1 DEF WInv, Queued, Direct, Sending
      <3>2. CASE i = Len(queue_write) + 1
        BY <1>1, <1>3, <1>4, <1>5, <1>10, <3>2 DEF Direct
      <3> QED
        BY <1>5, <3>1, <3>2
    <2>3. ASSUME NEW k \in Ids, Sending(k)', ~Direct(k)'
          PROVE  queue_write' # << >> /\ queue_write'[1] = k
      <3>1. queue_write' # << >>
        BY <1>5, EmptySeq
      <3>2. CASE k = id
        <4>1. stage = "sending"
          BY <1>4, <2>3, <3>2 DEF Sending
        <4>2. Len(queue_write) = 0
          BY <1>1, <1>10, <4>1
        <4> QED
          BY <1>5, <3>1, <3>2, <4>2
      <3>3. CASE k # id
        <4>1. queue_write # << >> /\ queue_write[1] = k
          BY <1>4, <2>3, <3>3 DEF WInv, Queued, Sending, Direct
        <4>2. 1 \in 1..Len(queue_write)
          BY <1>5, <1>10, <4>1
        <4> QED
          BY <1>5, <3>1, <4>1, <4>2
      <3> QED
        BY <3>1, <3>2, <3>3
    <2> QED
      BY <2>1, <2>2, <2>3 DEF Queued, Direct, Sending
  <1>12. DirectAlone'
    <2>1. \A k \in Ids : (Outstanding(k)' <=> Outstanding(k)) /\ (Direct(k)' <=> Direct(k))
      BY <1>1, <1>2, <1>4 DEF Outstanding, Direct
    <2> QED
      BY <2>1 DEF WInv, DirectAlone
  <1>13. \A i \in 1..Len(wire) : wire[i] \in Ids /\ wire[i] # id
    <2> TAKE i \in 1..Len(wire)
    <2>1. wire[i] \in Ids
      BY ElementOfSeq DEF WInv, WriteTypes
    <2> QED
      BY <1>2, <2>1 DEF WInv, PiecesOfSent, Sending
  <1>14. PiecesOfSent'
    BY <1>2, <1>4, <1>13 DEF WInv, PiecesOfSent, Sending
  <1>15. WritesAreWhole'
    BY <1>2 DEF WInv, WritesAreWhole
  <1> QED
    BY <1>6, <1>7, <1>8, <1>11, <1>12, <1>14, <1>15 DEF WInv

(* A piece follows those of the same write. *)
LEMMA WritePartWInv == ASSUME WInv, NEW id \in Ids, WritePart(id) PROVE WInv'
  <1>1. /\ writes \in [Ids -> WriteType] /\ Sending(id)
        /\ writes' = [writes EXCEPT ![id].sent = @ + 1] /\ wire' = Append(wire, id)
        /\ UNCHANGED <<transport, reads, queue_write>>
    BY DEF WritePart, kindVars, readVars, WInv, WriteTypes
  <1>2. writes[id] \in WriteType /\ writes[id].sent \in Nat
    BY <1>1 DEF WriteType
  <1>3. /\ writes' \in [Ids -> WriteType]
        /\ \A k \in Ids : k # id => writes'[k] = writes[k]
        /\ writes'[id].form = writes[id].form /\ writes'[id].stage = writes[id].stage
        /\ writes'[id].sent > 0
    <2> DEFINE w == [writes[id] EXCEPT !.sent = writes[id].sent + 1]
    <2>1. /\ w \in WriteType /\ w.form = writes[id].form /\ w.stage = writes[id].stage
          /\ w.sent > 0
      BY <1>2 DEF WriteType
    <2>2. writes' = [writes EXCEPT ![id] = w]
      BY <1>1
    <2> HIDE DEF w
    <2> QED
      BY <1>1, <2>1, <2>2
  <1>4. /\ wire \in Seq(Ids) /\ wire' \in Seq(Ids) /\ Len(wire) \in Nat
        /\ Len(wire') = Len(wire) + 1
        /\ \A i \in 1..Len(wire) : wire'[i] = wire[i]
        /\ wire'[Len(wire) + 1] = id
    BY <1>1, AppendProperties, LenProperties DEF WInv, WriteTypes
  <1>5. \A k \in Ids : /\ Sending(k)' <=> Sending(k)
                       /\ Outstanding(k)' <=> Outstanding(k)
                       /\ Direct(k)' <=> Direct(k)
                       /\ writes'[k].stage = writes[k].stage
    BY <1>3 DEF Sending, Outstanding, Direct
  <1>6. WriteTypes' /\ IdsInOrder'
    BY <1>1, <1>3, <1>4, <1>5, StartedStay DEF WInv, WriteTypes
  <1>7. Stages'
    <2>1. ASSUME NEW k \in Ids PROVE writes'[k].form = writes[k].form
      BY <1>3
    <2> QED
      BY <1>1, <1>3, <1>5, <2>1 DEF WInv, Stages, Sending
  <1>8. \A i \in 1..Len(queue_write) : queue_write[i] \in Ids
    BY ElementOfSeq DEF WInv, WriteTypes
  <1>9. Queued'
    <2>1. ASSUME NEW i \in 1..Len(queue_write)
          PROVE  /\ writes'[queue_write[i]].form = "promised"
                 /\ \/ writes'[queue_write[i]].stage = "queued"
                    \/ i = 1 /\ writes'[queue_write[i]].stage = "sending"
      <3>1. queue_write[i] \in Ids
        BY <1>8
      <3>2. /\ writes'[queue_write[i]].form = writes[queue_write[i]].form
            /\ writes'[queue_write[i]].stage = writes[queue_write[i]].stage
        BY <1>3, <3>1
      <3> QED
        BY <3>2 DEF WInv, Queued, Sending, Direct
    <2> QED
      BY <1>1, <1>5, <2>1 DEF WInv, Queued, Sending, Direct
  <1>10. DirectAlone'
    BY <1>5 DEF WInv, DirectAlone
  <1>11. \A i \in 1..Len(wire) :
           /\ wire[i] \in Ids
           /\ writes[wire[i]].stage = "answered" \/ wire[i] = id
    <2> TAKE i \in 1..Len(wire)
    <2>1. wire[i] \in Ids
      BY ElementOfSeq DEF WInv, WriteTypes
    <2>2. Sending(wire[i]) => wire[i] = id
      BY <1>1, <2>1, OneSending
    <2> QED
      BY <2>1, <2>2 DEF WInv, PiecesOfSent
  <1>12. PiecesOfSent'
    <2>1. ASSUME NEW i \in 1..Len(wire')
          PROVE  \/ writes'[wire'[i]].stage = "answered"
                 \/ writes'[wire'[i]].stage = "sending" /\ writes'[wire'[i]].sent > 0
      <3>1. CASE wire'[i] = id
        BY <1>1, <1>3, <3>1 DEF Sending
      <3>2. CASE wire'[i] # id
        BY <1>4, <1>5, <1>11, <3>2
      <3> QED
        BY <3>1, <3>2
    <2>2. ASSUME NEW k \in Ids, Sending(k)'
          PROVE  wire' # << >> /\ wire'[Len(wire')] = k
      <3>1. Sending(k)
        BY <1>5, <2>2
      <3>2. k = id
        BY <1>1, <3>1, OneSending
      <3>3. wire' # << >>
        BY <1>4, EmptySeq
      <3> QED
        BY <1>4, <3>2, <3>3
    <2> QED
      BY <2>1, <2>2 DEF PiecesOfSent, Sending
  <1>13. WritesAreWhole'
    <2> SUFFICES ASSUME NEW i \in 1..Len(wire'), NEW j \in 1..Len(wire'), NEW k \in 1..Len(wire'),
                        i < j, j < k, wire'[i] = wire'[k]
                 PROVE  wire'[j] = wire'[i]
      BY DEF WritesAreWhole
    <2>1. i \in 1..Len(wire) /\ j \in 1..Len(wire)
      BY <1>4
    <2>2. CASE k \in 1..Len(wire)
      BY <1>4, <2>1, <2>2 DEF WInv, WritesAreWhole
    <2>3. CASE k = Len(wire) + 1
      <3>1. wire[i] = id
        BY <1>4, <2>1, <2>3
      <3>2. writes[id].sent > 0
        BY <1>1, <2>1, <3>1 DEF WInv, PiecesOfSent, Sending
      <3>3. wire[Len(wire)] = id
        BY <1>1, <3>2 DEF WInv, PiecesOfSent
      <3>4. wire[j] = id
        <4>1. CASE j = Len(wire)
          BY <3>3, <4>1
        <4>2. CASE j # Len(wire)
          <5>1. j < Len(wire) /\ Len(wire) \in 1..Len(wire)
            BY <1>4, <2>1, <4>2
          <5> QED
            BY <2>1, <3>1, <3>3, <5>1 DEF WInv, WritesAreWhole
        <4> QED
          BY <4>1, <4>2
      <3> QED
        BY <1>4, <2>1, <3>1, <3>4
    <2> QED
      BY <1>4, <2>2, <2>3
  <1> QED
    BY <1>6, <1>7, <1>9, <1>10, <1>12, <1>13 DEF WInv
(* A write is answered.  A promised one leaves queue_write, whose next one may
   be started with it. *)
LEMMA EndWInv ==
    ASSUME WInv, NEW id \in Ids, Sending(id), UNCHANGED <<transport, reads, wire>>,
           queue_write' = IF Direct(id) THEN queue_write ELSE Tail(queue_write),
           NEW next \in Ids \cup {0},
           next # 0 => ~Direct(id) /\ queue_write' # << >> /\ next = Head(queue_write'),
           writes' = [k \in Ids |-> IF k = id THEN Answered
                                    ELSE IF k = next THEN [writes[k] EXCEPT !.stage = "sending"]
                                    ELSE writes[k]]
    PROVE  WInv'
  <1>1. writes \in [Ids -> WriteType] /\ queue_write \in Seq(Ids) /\ 0 \notin Ids
    BY DEF WInv, WriteTypes, Ids
  <1>2. \A i \in 1..Len(queue_write) :
          /\ queue_write[i] \in Ids /\ writes[queue_write[i]].form = "promised"
          /\ \/ writes[queue_write[i]].stage = "queued"
             \/ i = 1 /\ writes[queue_write[i]].stage = "sending"
    BY <1>1, ElementOfSeq DEF WInv, Queued, Direct, Sending
  <1>3. \A i, j \in 1..Len(queue_write) : queue_write[i] = queue_write[j] => i = j
    BY DEF WInv, Queued
  <1>4. \A k \in Ids : Sending(k) => k = id
    BY OneSending
  (* What remains in queue_write waits, behind id if that was in it. *)
  <1>5. /\ queue_write' \in Seq(Ids)
        /\ \A i \in 1..Len(queue_write') :
              /\ queue_write'[i] \in Ids /\ queue_write'[i] # id
              /\ writes[queue_write'[i]].form = "promised"
              /\ writes[queue_write'[i]].stage = "queued"
        /\ \A i, j \in 1..Len(queue_write') : queue_write'[i] = queue_write'[j] => i = j
    <2>1. CASE Direct(id)
      <3>1. queue_write' = queue_write
        BY <2>1
      <3>2. ASSUME NEW i \in 1..Len(queue_write)
            PROVE  queue_write[i] # id /\ writes[queue_write[i]].stage = "queued"
        <4>1. queue_write[i] # id
          BY <1>2, <2>1 DEF Direct
        <4>2. ~Sending(queue_write[i])
          BY <1>2, <1>4, <4>1
        <4> QED
          BY <1>2, <4>1, <4>2 DEF Sending
      <3> QED
        <4>1. queue_write' \in Seq(Ids)
          BY <1>1, <3>1
        <4>2. ASSUME NEW i \in 1..Len(queue_write')
              PROVE  /\ queue_write'[i] \in Ids /\ queue_write'[i] # id
                     /\ writes[queue_write'[i]].form = "promised"
                     /\ writes[queue_write'[i]].stage = "queued"
          BY <1>2, <3>1, <3>2
        <4>3. \A i, j \in 1..Len(queue_write') : queue_write'[i] = queue_write'[j] => i = j
          BY <1>3, <3>1
        <4> QED
          BY <4>1, <4>2, <4>3
    <2>2. CASE ~Direct(id)
      <3>1. queue_write # << >> /\ queue_write[1] = id /\ queue_write' = Tail(queue_write)
        BY <2>2 DEF WInv, Queued
      <3>2. Len(queue_write) \in Nat \ {0}
        BY <1>1, <3>1, EmptySeq
      <3>3. /\ queue_write' \in Seq(Ids) /\ Len(queue_write') = Len(queue_write) - 1
            /\ \A i \in 1..Len(queue_write') : queue_write'[i] = queue_write[i + 1]
        BY <1>1, <3>1, HeadTailProperties
      <3>4. ASSUME NEW i \in 1..Len(queue_write')
            PROVE  /\ i + 1 \in 1..Len(queue_write) /\ queue_write[i + 1] # id
                   /\ queue_write[i + 1] \in Ids
                   /\ writes[queue_write[i + 1]].form = "promised"
                   /\ writes[queue_write[i + 1]].stage = "queued"
        <4>1. i + 1 \in 1..Len(queue_write) /\ i + 1 # 1 /\ 1 \in 1..Len(queue_write)
          BY <3>2, <3>3
        <4> QED
          BY <1>2, <1>3, <3>1, <4>1
      <3>5. \A i \in 1..Len(queue_write') :
              /\ queue_write'[i] \in Ids /\ queue_write'[i] # id
              /\ writes[queue_write'[i]].form = "promised"
              /\ writes[queue_write'[i]].stage = "queued"
        BY <3>3, <3>4
      <3>6. ASSUME NEW i \in 1..Len(queue_write'), NEW j \in 1..Len(queue_write'),
                   queue_write'[i] = queue_write'[j]
            PROVE  i = j
        <4>1. queue_write[i + 1] = queue_write[j + 1]
          BY <3>3, <3>6
        <4>2. i + 1 = j + 1
          BY <1>3, <3>4, <4>1
        <4> QED
          BY <3>2, <3>3, <4>2
      <3> QED
        BY <3>3, <3>5, <3>6
    <2> QED
      BY <2>1, <2>2
  <1>6. Len(queue_write') \in Nat /\ (queue_write' # << >> => 1 \in 1..Len(queue_write'))
    <2>1. Len(queue_write') \in Nat
      BY <1>5, LenProperties
    <2>2. queue_write' # << >> => Len(queue_write') # 0
      BY <1>5, EmptySeq
    <2> QED
      BY <2>1, <2>2
  <1>7. next # 0 =>
          /\ ~Direct(id) /\ queue_write' # << >> /\ queue_write'[1] = next /\ next # id
          /\ writes[next].form = "promised" /\ writes[next].stage = "queued"
    <2> SUFFICES ASSUME next # 0
                 PROVE  /\ ~Direct(id) /\ queue_write' # << >> /\ queue_write'[1] = next
                        /\ next # id /\ writes[next].form = "promised"
                        /\ writes[next].stage = "queued"
      OBVIOUS
    <2>1. ~Direct(id) /\ queue_write' # << >> /\ next = queue_write'[1]
      BY <1>5, HeadTailProperties
    <2> QED
      BY <1>5, <1>6, <2>1
  <1>8. /\ writes'[id] = Answered
        /\ \A k \in Ids : k # id /\ k # next => writes'[k] = writes[k]
        /\ next # 0 => writes'[next] = [writes[next] EXCEPT !.stage = "sending"]
    BY <1>7
  <1>9. /\ Answered \in WriteType /\ Answered.stage = "answered"
        /\ next # 0 => /\ writes'[next] \in WriteType /\ writes'[next].stage = "sending"
                       /\ writes'[next].form = "promised" /\ writes'[next].sent = 0
    <2>1. Answered \in WriteType /\ Answered.stage = "answered"
      BY DEF Answered, NoWrite, WriteType
    <2>2. ASSUME next # 0
          PROVE  /\ writes'[next] \in WriteType /\ writes'[next].stage = "sending"
                 /\ writes'[next].form = "promised" /\ writes'[next].sent = 0
      <3>1. next \in Ids /\ writes[next] \in WriteType /\ writes[next].sent = 0
        BY <1>1, <1>7, <2>2 DEF WInv, Stages
      <3> QED
        BY <1>7, <1>8, <2>2, <3>1 DEF WriteType
    <2> QED
      BY <2>1, <2>2
  <1>10. writes' \in [Ids -> WriteType]
    <2>1. ASSUME NEW k \in Ids PROVE writes'[k] \in WriteType
      BY <1>1, <1>8, <1>9
    <2> QED
      BY <2>1
  <1>11. WriteTypes'
    BY <1>5, <1>10 DEF WInv, WriteTypes
  <1>12. IdsInOrder'
    <2>1. ASSUME NEW k \in Ids
          PROVE  writes'[k].stage = "none" <=> writes[k].stage = "none"
      <3>1. CASE k = id
        BY <1>8, <1>9, <3>1 DEF Sending
      <3>2. CASE k = next
        BY <1>1, <1>7, <1>9, <3>2
      <3>3. CASE k # id /\ k # next
        BY <1>8, <3>3
      <3> QED
        BY <3>1, <3>2, <3>3
    <2>2. Started' = Started
      BY <2>1 DEF Started
    <2> QED
      BY <2>2 DEF WInv, IdsInOrder
  <1>13. ASSUME NEW k \in Ids, writes'[k].stage # "answered"
         PROVE  \/ k = next /\ next # 0
                \/ k # id /\ k # next /\ writes'[k] = writes[k]
    BY <1>1, <1>8, <1>9, <1>13
  <1>14. Stages'
    <2>1. ASSUME NEW k \in Ids, writes'[k].stage \in {"posted", "queued"}
          PROVE  writes'[k].form = "promised" /\ writes'[k].sent = 0
      <3>1. writes'[k] = writes[k]
        BY <1>9, <1>13, <2>1
      <3> QED
        BY <2>1, <3>1 DEF WInv, Stages, Direct
    <2>2. ASSUME NEW k \in Ids, Outstanding(k)'
          PROVE  writes'[k].form \in Forms
      <3>1. CASE writes'[k] = writes[k]
        BY <2>2, <3>1 DEF WInv, Stages, Outstanding
      <3>2. CASE writes'[k] # writes[k]
        BY <1>9, <1>13, <2>2, <3>2 DEF Outstanding, Forms
      <3> QED
        BY <3>1, <3>2
    <2> QED
      BY <2>1, <2>2 DEF Stages, Direct
  <1>15. Queued'
    <2>1. ASSUME NEW i \in 1..Len(queue_write')
          PROVE  /\ writes'[queue_write'[i]].form = "promised"
                 /\ \/ writes'[queue_write'[i]].stage = "queued"
                    \/ i = 1 /\ writes'[queue_write'[i]].stage = "sending"
      <3>1. CASE queue_write'[i] = next
        <4>1. next # 0 /\ i = 1
          BY <1>1, <1>5, <1>6, <1>7, <3>1
        <4> QED
          BY <1>9, <3>1, <4>1
      <3>2. CASE queue_write'[i] # next
        <4>1. writes'[queue_write'[i]] = writes[queue_write'[i]]
          BY <1>5, <1>8, <3>2
        <4> QED
          BY <1>5, <4>1
      <3> QED
        BY <3>1, <3>2
    <2>2. ASSUME NEW k \in Ids, writes'[k].stage = "sending"
          PROVE  queue_write' # << >> /\ queue_write'[1] = k
      <3>1. CASE k = next /\ next # 0
        BY <1>7, <3>1
      <3>2. CASE k # id /\ k # next /\ writes'[k] = writes[k]
        BY <1>4, <2>2, <3>2 DEF Sending
      <3> QED
        BY <1>13, <2>2, <3>1, <3>2
    <2> QED
      BY <1>5, <2>1, <2>2 DEF Queued, Direct, Sending
  <1>16. DirectAlone'
    <2>1. ASSUME NEW k \in Ids, Outstanding(k)', Direct(k)'
          PROVE  FALSE
      <3>1. k # id /\ writes'[k] = writes[k]
        BY <1>9, <1>13, <2>1 DEF Outstanding, Direct
      <3>2. Outstanding(k) /\ Direct(k) /\ Outstanding(id)
        BY <2>1, <3>1 DEF Outstanding, Direct, Sending
      <3> QED
        BY <3>1, <3>2 DEF WInv, DirectAlone
    <2> QED
      BY <2>1 DEF DirectAlone
  <1>17. PiecesOfSent'
    <2>1. ASSUME NEW i \in 1..Len(wire)
          PROVE  writes'[wire[i]].stage = "answered"
      <3>1. wire[i] \in Ids
        BY ElementOfSeq DEF WInv, WriteTypes
      <3>2. CASE wire[i] = id
        BY <1>8, <1>9, <3>2
      <3>3. CASE wire[i] # id
        <4>1. writes[wire[i]].stage = "answered"
          BY <1>4, <3>1, <3>3 DEF WInv, PiecesOfSent
        <4>2. wire[i] # next
          BY <1>1, <1>7, <3>1, <4>1
        <4> QED
          BY <1>8, <3>1, <3>3, <4>1, <4>2
      <3> QED
        BY <3>2, <3>3
    <2>2. ASSUME NEW k \in Ids, writes'[k].stage = "sending", writes'[k].sent > 0
          PROVE  FALSE
      <3>1. k # id /\ writes'[k] = writes[k]
        BY <1>9, <1>13, <2>2
      <3> QED
        BY <1>4, <2>2, <3>1 DEF Sending
    <2> QED
      BY <2>1, <2>2 DEF PiecesOfSent, Sending
  <1>18. WritesAreWhole'
    BY DEF WInv, WritesAreWhole
  <1> QED
    BY <1>11, <1>12, <1>14, <1>15, <1>16, <1>17, <1>18 DEF WInv

LEMMA WriteOkWInv == ASSUME WInv, NEW id \in Ids, WriteOk(id) PROVE WInv'
  <1>1. /\ Sending(id) /\ UNCHANGED <<transport, reads, wire>>
        /\ writes \in [Ids -> WriteType] /\ 0 \notin Ids
    BY DEF WriteOk, kindVars, readVars, WInv, WriteTypes, Ids
  <1>2. CASE Direct(id)
    <2>1. writes' = [writes EXCEPT ![id] = Answered] /\ queue_write' = queue_write
      BY <1>2 DEF WriteOk, Direct
    <2> DEFINE next == 0
    <2>2. writes' = [k \in Ids |-> IF k = id THEN Answered
                                   ELSE IF k = next THEN [writes[k] EXCEPT !.stage = "sending"]
                                   ELSE writes[k]]
      BY <1>1, <2>1
    <2> QED
      <3>1. /\ next \in Ids \cup {0} /\ ~(next # 0)
            /\ queue_write' = IF Direct(id) THEN queue_write ELSE Tail(queue_write)
        BY <1>2, <2>1
      <3> HIDE DEF next
      <3> QED
        BY <1>1, <2>2, <3>1, EndWInv
  <1>3. CASE ~Direct(id)
    <2>1. /\ queue_write' = Tail(queue_write)
          /\ IF queue_write' = << >>
             THEN writes' = [writes EXCEPT ![id] = Answered]
             ELSE writes' = [[writes EXCEPT ![id] = Answered]
                               EXCEPT ![Head(queue_write')].stage = "sending"]
      BY <1>3 DEF WriteOk, Direct
    <2>2. CASE queue_write' = << >>
      <3> DEFINE next == 0
      <3>1. writes' = [k \in Ids |-> IF k = id THEN Answered
                                     ELSE IF k = next THEN [writes[k] EXCEPT !.stage = "sending"]
                                     ELSE writes[k]]
        BY <1>1, <2>1, <2>2
      <3> QED
        BY <1>1, <1>3, <2>1, <3>1, EndWInv
    <2>3. CASE queue_write' # << >>
      <3>1. PICK next : next = Head(queue_write')
        OBVIOUS
      <3>2. queue_write \in Seq(Ids) /\ queue_write # << >> /\ queue_write[1] = id
        BY <1>1, <1>3 DEF WInv, WriteTypes, Queued
      <3>3. Len(queue_write) \in Nat \ {0}
        BY <3>2, EmptySeq
      <3>4. /\ queue_write' \in Seq(Ids) /\ Len(queue_write') = Len(queue_write) - 1
            /\ \A i \in 1..Len(queue_write') : queue_write'[i] = queue_write[i + 1]
        BY <2>1, <3>2, HeadTailProperties
      <3>5. Len(queue_write') # 0
        BY <2>3, <3>4, EmptySeq
      <3>6. 1 \in 1..Len(queue_write') /\ 2 \in 1..Len(queue_write) /\ 1 \in 1..Len(queue_write)
        BY <3>3, <3>4, <3>5
      <3>7. next = queue_write[2] /\ next \in Ids
        <4>1. next = queue_write'[1] /\ next \in Ids
          BY <2>3, <3>1, <3>4, HeadTailProperties
        <4> QED
          BY <3>4, <3>6, <4>1
      <3>8. next # id
        BY <3>2, <3>6, <3>7 DEF WInv, Queued
      <3>9. writes' = [[writes EXCEPT ![id] = Answered] EXCEPT ![next].stage = "sending"]
        BY <2>1, <2>3, <3>1
      <3>10. writes' = [k \in Ids |-> IF k = id THEN Answered
                                      ELSE IF k = next THEN [writes[k] EXCEPT !.stage = "sending"]
                                      ELSE writes[k]]
        BY <1>1, <3>7, <3>8, <3>9
      <3> QED
        BY <1>1, <1>3, <2>1, <2>3, <3>1, <3>7, <3>10, EndWInv
    <2> QED
      BY <2>2, <2>3
  <1> QED
    BY <1>2, <1>3

LEMMA WriteFailsWInv == ASSUME WInv, NEW id \in Ids, WriteFails(id) PROVE WInv'
  <1>1. /\ Sending(id) /\ UNCHANGED <<transport, reads, wire>>
        /\ writes \in [Ids -> WriteType] /\ 0 \notin Ids
        /\ writes' = [writes EXCEPT ![id] = Answered]
        /\ queue_write' = IF Direct(id) THEN queue_write ELSE Tail(queue_write)
    BY DEF WriteFails, kindVars, readVars, WInv, WriteTypes, Ids, Direct
  <1> DEFINE next == 0
  <1>2. writes' = [k \in Ids |-> IF k = id THEN Answered
                                 ELSE IF k = next THEN [writes[k] EXCEPT !.stage = "sending"]
                                 ELSE writes[k]]
    BY <1>1
  <1> QED
    <2>1. next \in Ids \cup {0} /\ ~(next # 0)
      OBVIOUS
    <2> HIDE DEF next
    <2> QED
      BY <1>1, <1>2, <2>1, EndWInv

LEMMA HandlerWInv == ASSUME WInv, Disciplined, HandlerStep PROVE WInv'
  <1>1. CASE HandlerEnds
    BY <1>1, StutterWInv DEF HandlerEnds, readVars, kindVars, writeState, WInv, WriteTypes
  <1>2. CASE WriteCoro
    BY <1>2, StartWInv DEF WriteCoro, Alone, Forms, readVars, kindVars
  <1>3. CASE WriteCallback
    BY <1>3, StartWInv DEF WriteCallback, Alone, Forms, readVars, kindVars
  <1>4. CASE WritePosted
    <2>1. \A k \in Ids : Outstanding(k) => ~Direct(k)
      <3> SUFFICES ASSUME NEW k \in Ids, Outstanding(k) PROVE ~Direct(k)
        OBVIOUS
      <3>1. Writes[transport][writes[k].form] = "queued"
        BY <1>4 DEF WritePosted, NoDirectOne
      <3>2. /\ transport \in {"TCP", "SSL", "Unix"}
            /\ writes[k].form \in {"promised", "coro", "callback"}
        BY DEF WInv, WriteTypes, Stages, Forms
      <3> QED
        BY <3>1, <3>2 DEF Writes, TCPWrites, SSLWrites, UnixWrites, Direct
    <2> QED
      BY <1>4, <2>1, StartWInv DEF WritePosted, Forms, readVars, kindVars
  <1>5. ASSUME NEW n \in BufSizes, ReadCoro(n) \/ ReadCallback(n) \/ ReadBlocking(n)
        PROVE  WInv'
    BY <1>5, StutterWInv
    DEF ReadCoro, ReadCallback, ReadBlocking, kindVars, writeState, WInv, WriteTypes
  <1> QED
    BY <1>1, <1>2, <1>3, <1>4, <1>5 DEF HandlerStep

LEMMA NextWInv == ASSUME WInv, Disciplined, [Next]_vars PROVE WInv'
  <1>1. reads \in Nat
    BY DEF WInv, WriteTypes
  <1>2. CASE UNCHANGED vars
    BY <1>1, <1>2, StutterWInv DEF vars, kindVars, readVars, writeState
  <1>3. CASE HandshakeDone \/ HandshakeFails \/ TimerExpires \/ TimeoutHandler
             \/ PeerSends \/ PeerStops
    BY <1>1, <1>3, StutterWInv
    DEF HandshakeDone, HandshakeFails, TimerExpires, TimeoutHandler, PeerSends, PeerStops,
        kindVars, readVars, writeState
  <1>4. CASE ReadPart \/ ReadOk
    BY <1>1, <1>4, StutterWInv DEF ReadPart, ReadOk, kindVars, writeState
  <1>5. CASE CoroBegins \/ PostedReadStarts \/ ReadFails \/ CloseSocketImpl
    BY <1>1, <1>5, StutterWInv
    DEF CoroBegins, PostedReadStarts, ReadFails, CloseSocketImpl, kindVars, readVars, writeState
  <1> QED
    BY <1>2, <1>3, <1>4, <1>5, HandlerWInv, ArrangeWInv, WriteOkWInv, WriteFailsWInv,
       WritePartWInv DEF Next, StrandStep

(* A peer gets each write of a raw handler in one piece, however the promised
   ones and those that go straight to the socket follow each other and
   whichever of them fail, when no direct one overlaps another write. *)
THEOREM WholeWrites ==
    ASSUME Disciplined
    PROVE  Spec => []WritesAreWhole
  <1>1. Init => WInv
    BY InitWInv
  <1>2. WInv /\ [Next]_vars => WInv'
    BY NextWInv
  <1>3. WInv => WritesAreWhole
    BY DEF WInv
  <1> QED
    BY <1>1, <1>2, <1>3, PTL DEF Spec
=============================================================================
