------------------------- MODULE ResponsePathProofs -------------------------
(***************************************************************************)
(* Theorems about ResponsePath, for chains and bodies of any length, any   *)
(* number of requests, and every way in which deflate may hold data back.  *)
(*                                                                         *)
(* Two invariants are inductive by themselves: ChainInv, of the calls of   *)
(* handlers and the response they hold, and, with it, WireInv, of what the *)
(* peer has decoded against what the middlewares have passed.              *)
(***************************************************************************)
EXTENDS ResponsePath, SequenceTheorems, TLAPS

FrameType == [mw : 1..Chain, response : 1..2]
PeerType == [phase : {"status", "body", "chunks", "done", "garbled"}, left : Nat,
             encoding : {"identity", "deflate"}, body : Seq(Units)]

(* The response a middleware is loaded with: behind Compression, its own. *)
ResponseOf(mw) == IF CompressionAt > 0 /\ mw > CompressionAt THEN 2 ELSE 1

(* Each call is of the next middleware; Compression replaces the response when
   it is on the stack's top and has called nobody. *)
ChainInv ==
    /\ run = "running" <=> stack # << >>
    /\ called = From(0, Len(called))
    /\ \A i, j \in 1..Len(stack) : i < j => stack[i].mw < stack[j].mw
    /\ run = "running" =>
          /\ Len(called) = pos_cur_handler
          /\ \A i \in 1..Len(stack) :
                stack[i].mw <= pos_cur_handler /\ stack[i].response = ResponseOf(stack[i].mw)
          /\ response.id \in {1, 2}
          /\ response.id = 1 =>
                \/ CompressionAt = 0 \/ pos_cur_handler < CompressionAt
                \/ pos_cur_handler = CompressionAt /\ Top.mw = CompressionAt
          /\ response.id = 2 => CompressionAt > 0 /\ pos_cur_handler >= CompressionAt

(* A response that nothing was passed to yet announces what it will do. *)
FreshResponse ==
    /\ ~response.headers_sent /\ response.pending = << >>
    /\ response.encoding = IF response.zlib THEN "deflate" ELSE "identity"

(* No call has cut the body. *)
Whole == "cut" \notin mishaps

(* What has been written is at the peer, or held back by deflate. *)
StreamResponse ==
    IF response.zlib
    THEN /\ response.encoding = "deflate"
         /\ response.headers_sent <=> peer.phase = "chunks"
         /\ peer.phase = "chunks" => peer.encoding = "deflate"
         /\ peer.body \o response.pending = From(0, given)
    ELSE /\ response.headers_sent /\ peer.phase = "chunks" /\ peer.encoding = "identity"
         /\ Whole => peer.body = From(0, given)

FreshWire == peer = NewPeer /\ given = 0 /\ (run = "running" => FreshResponse)
StreamWire ==
    peer.phase \in {"status", "chunks"} /\ (run = "running" => StreamResponse)
FileWire ==
    /\ peer.phase = "body" /\ peer.left = file /\ file > 0
    /\ peer.encoding = "identity" /\ peer.body = From(0, given) /\ given + file <= MaxBody
CompleteWire == peer.phase = "done" /\ (Whole => Decoded)

Wire ==
    \/ use = "fresh" /\ FreshWire
    \/ use = "stream" /\ StreamWire
    \/ use = "file" /\ FileWire
    \/ use = "complete" /\ CompleteWire

(* What is left of the body that use promises fits. *)
Sizes ==
    /\ use = "fresh" => given = 0
    /\ use = "file" => file > 0 /\ given + file <= MaxBody

(* Nobody but Compression has run before the first of a chain replaces the
   response. *)
FirstUse == run = "running" /\ CompressionAt = 1 /\ response.id = 1 => use = "fresh"

(* While no chunk without data has ended the body, the peer is ahead of the
   middlewares at no time, and on a connection that lives it is where they
   are. *)
WireInv ==
    /\ responses = 0 => run = "idle" /\ use = "fresh" /\ peer.phase = "done"
    /\ sock = "open" /\ responses > 0 /\ "ended" \notin mishaps => Wire
    /\ peer.phase = "garbled" => "ended" \in mishaps
    /\ peer.phase = "done" /\ responses > 0 /\ "ended" \notin mishaps =>
          use = "complete" /\ (Whole => Decoded)
-----------------------------------------------------------------------------
(* The pieces of a body *)

LEMMA FromIsSeq ==
    ASSUME NEW n \in Nat, NEW m \in Nat, n + m <= MaxBody
    PROVE  From(n, m) \in Seq(Units) /\ Len(From(n, m)) = m
<1>1. \A i \in 1..m : n + i \in Units
  BY ConstantsAssumption DEF Units
<1>2. From(n, m) \in [1..m -> Units]
  BY <1>1 DEF From
<1>3. DOMAIN From(n, m) = 1..m
  BY DEF From
<1> QED BY <1>2, <1>3, SeqDef, LenProperties

-----------------------------------------------------------------------------
(* The peer stays a peer *)

LEMMA HeadersKeepType ==
    ASSUME NEW p \in PeerType, NEW r, NEW chunked \in BOOLEAN,
           r.length \in Nat, r.encoding \in {"identity", "deflate"}
    PROVE  GetsHeaders(p, r, chunked) \in PeerType /\ SendHeaders(p, r, chunked) \in PeerType
<1>1. GetsHeaders(p, r, chunked) \in PeerType
  BY DEF GetsHeaders, PeerType
<1> QED BY <1>1 DEF SendHeaders

LEMMA ChunkKeepsType ==
    ASSUME NEW p \in PeerType, NEW units \in Seq(Units)
    PROVE  GetsChunk(p, units) \in PeerType
<1>1. p.body \o units \in Seq(Units)
  BY ConcatProperties DEF PeerType
<1> QED BY <1>1 DEF GetsChunk, PeerType

LEMMA RawKeepsType ==
    ASSUME NEW p \in PeerType, NEW units \in Seq(Units)
    PROVE  GetsRaw(p, units) \in PeerType
<1>1. p.body \o units \in Seq(Units) /\ Len(units) \in Nat
  BY ConcatProperties, LenProperties DEF PeerType
<1>2. Len(units) <= p.left => p.left - Len(units) \in Nat
  BY <1>1 DEF PeerType
<1>3. CASE units = << >> \/ p.phase # "body" \/ Len(units) > p.left
  BY <1>3 DEF GetsRaw, PeerType
<1>4. CASE units # << >> /\ p.phase = "body" /\ Len(units) <= p.left
  <2>1. GetsRaw(p, units) =
           [p EXCEPT !.body = p.body \o units, !.left = p.left - Len(units),
                     !.phase = IF Len(units) = p.left THEN "done" ELSE "body"]
    BY <1>1, <1>4 DEF GetsRaw, PeerType
  <2> QED BY <1>1, <1>2, <1>4, <2>1 DEF PeerType
<1> QED BY <1>1, <1>3, <1>4 DEF PeerType

LEMMA BaseKeepsType ==
    ASSUME NEW p \in PeerType, NEW r \in Response, NEW units \in Seq(Units)
    PROVE  /\ BaseWrite(p, r, units) \in PeerType
           /\ BaseSend(p, r, units) \in PeerType
           /\ BaseEnd(p) \in PeerType
<1>1. r.length \in Nat /\ r.encoding \in {"identity", "deflate"} /\ Len(units) \in Nat
  BY ConstantsAssumption, LenProperties DEF Response, NoLength
<1>2. SendHeaders(p, r, TRUE) \in PeerType
  BY <1>1, HeadersKeepType
<1> DEFINE rl == [r EXCEPT !.length = Len(units)]
<1>3. rl.length \in Nat /\ rl.encoding \in {"identity", "deflate"}
  BY <1>1 DEF Response
<1> HIDE DEF rl
<1>4. SendHeaders(p, rl, FALSE) \in PeerType
  BY <1>3, HeadersKeepType
<1>5. GetsRaw(SendHeaders(p, rl, FALSE), units) \in PeerType
  BY <1>4, RawKeepsType
<1>6. << >> \in Seq(Units)
  BY EmptySeq
<1> QED BY <1>2, <1>5, <1>6, ChunkKeepsType DEF BaseWrite, BaseSend, BaseEnd, DoWrite, rl

LEMMA CompressionKeepsType ==
    ASSUME NEW p \in PeerType, NEW r \in Response, NEW units \in Seq(Units)
    PROVE  /\ CompressStream(p, r, units) \in PeerType
           /\ CompressOnce(units) \in Seq(Units)
           /\ CompressEnd(p, r) \in PeerType
<1>1. \A s \in Seq(Units) : CompressOnce(s) \in Seq(Units)
  <2> TAKE s \in Seq(Units)
  <2>1. <<EndOfStream>> \in Seq(Units)
    BY ConstantsAssumption DEF EndOfStream, Units
  <2> QED BY <2>1, ConcatProperties DEF CompressOnce
<1>2. r.pending \in Seq(Units)
  BY DEF Response
<1>3. BaseWrite(p, r, CompressOnce(r.pending)) \in PeerType
  BY <1>1, <1>2, BaseKeepsType
<1> QED BY <1>1, <1>3, BaseKeepsType DEF CompressStream, CompressEnd

LEMMA SentIsSeq ==
    ASSUME NEW form, NEW passed \in Seq(Units)
    PROVE  Sent(form, passed) \in Seq(Units)
<1>1. << >> \in Seq(Units)
  BY EmptySeq
<1>2. <<Stray>> \in Seq(Units)
  BY ConstantsAssumption DEF Stray, Units
<1>3. ASSUME passed # << >> PROVE <<Head(passed)>> \in Seq(Units)
  <2>1. Head(passed) \in Units
    BY <1>3, HeadTailProperties
  <2> QED BY <2>1
<1> QED BY <1>1, <1>2, <1>3 DEF Sent
-----------------------------------------------------------------------------
(* The types *)

Types == TypeOK /\ Sizes

LEMMA TransmitKeepsType ==
    ASSUME Types, NEW p \in PeerType, Transmit(p)
    PROVE  peer' \in PeerType
BY DEF Types, TypeOK, PeerType, Transmit

LEMMA PassedIsSeq ==
    ASSUME Types, NEW n \in 0..(MaxBody - given)
    PROVE  /\ n \in Nat /\ given \in Nat /\ given + n <= MaxBody /\ given + n \in 0..MaxBody
           /\ From(given, n) \in Seq(Units)
<1>1. n \in Nat /\ given \in Nat /\ given + n <= MaxBody /\ given + n \in 0..MaxBody
  BY ConstantsAssumption DEF Types, TypeOK
<1> QED BY <1>1, FromIsSeq

LEMMA WriteKeepsTypes ==
    ASSUME Types, NEW mw \in 1..Chain, Write(mw)
    PROVE  Types'
<1>1. PICK n \in 0..(MaxBody - given), form \in Forms :
          /\ given' = given + n
          /\ IF response.zlib
             THEN WriteCompressed(n) /\ UNCHANGED mishaps
             ELSE WritePlain(From(given, n), Sent(form, From(given, n)))
  BY DEF Write
<1>2. given + n \in 0..MaxBody /\ From(given, n) \in Seq(Units)
  BY <1>1, PassedIsSeq
<1>3. Sent(form, From(given, n)) \in Seq(Units)
  BY <1>2, SentIsSeq
<1>4. /\ response \in Response /\ peer \in PeerType /\ response.pending \in Seq(Units)
      /\ mishaps \subseteq {"cut", "ended"}
  BY DEF Types, TypeOK, PeerType, Response
<1>5. response' \in Response /\ peer' \in PeerType /\ mishaps' \subseteq {"cut", "ended"}
  <2>1. CASE response.zlib
    <3> DEFINE all == response.pending \o From(given, n)
    <3>1. all \in Seq(Units) /\ Len(all) \in Nat
      BY <1>2, <1>4, ConcatProperties, LenProperties
    <3>2. PICK k \in 0..(IF n = 0 THEN 0 ELSE Len(all)) :
             /\ Transmit(CompressStream(peer, response, SubSeq(all, 1, k)))
             /\ response' = [response EXCEPT !.pending = SubSeq(all, k + 1, Len(all)),
                                             !.headers_sent = @ \/ k > 0]
      BY <1>1, <2>1 DEF WriteCompressed
    <3>3. k \in 0..Len(all)
      BY <3>1, <3>2
    <3> HIDE DEF all
    <3>4. SubSeq(all, 1, k) \in Seq(Units) /\ SubSeq(all, k + 1, Len(all)) \in Seq(Units)
      BY <3>1, <3>3
    <3>5. CompressStream(peer, response, SubSeq(all, 1, k)) \in PeerType
      BY <1>4, <3>4, CompressionKeepsType
    <3>6. peer' \in PeerType
      BY <3>2, <3>5, TransmitKeepsType
    <3>7. response' \in Response
      BY <1>4, <3>2, <3>4 DEF Response
    <3>8. mishaps' = mishaps
      BY <1>1, <2>1
    <3> QED BY <1>4, <3>6, <3>7, <3>8
  <2>2. CASE ~response.zlib
    <3> DEFINE sent == Sent(form, From(given, n))
    <3>1. WritePlain(From(given, n), sent) /\ sent \in Seq(Units)
      BY <1>1, <1>3, <2>2
    <3> HIDE DEF sent
    <3>2. peer' \in PeerType
      BY <1>4, <3>1, BaseKeepsType, TransmitKeepsType DEF WritePlain
    <3>3. response' \in Response
      BY <1>4, <3>1 DEF Response, WritePlain
    <3>4. mishaps' \subseteq {"cut", "ended"}
      BY <1>4, <3>1 DEF WritePlain, Mishaps
    <3> QED BY <3>2, <3>3, <3>4
  <2> QED BY <2>1, <2>2
<1>6. UNCHANGED <<run, pos_cur_handler, stack, called, file, sock, responses>> /\ use' = "stream"
  BY DEF Write, ctxVars
<1> QED BY <1>1, <1>2, <1>5, <1>6 DEF Types, TypeOK, Sizes, PeerType

LEMMA EndKeepsTypes ==
    ASSUME Types, NEW mw \in 1..Chain, End(mw)
    PROVE  Types'
<1>1. response \in Response /\ peer \in PeerType /\ response.pending \in Seq(Units)
  BY DEF Types, TypeOK, PeerType, Response
<1>2. CompressEnd(peer, response) \in PeerType /\ BaseEnd(peer) \in PeerType
  BY <1>1, CompressionKeepsType, BaseKeepsType
<1>3. peer' \in PeerType
  BY <1>2, TransmitKeepsType DEF End
<1>4. response' \in Response
  <2>1. << >> \in Seq(Units)
    BY EmptySeq
  <2> QED BY <1>1, <2>1 DEF End, Response
<1>5. /\ UNCHANGED <<run, pos_cur_handler, stack, called, given, mishaps, file, sock, responses>>
      /\ use' = "complete"
  BY DEF End, ctxVars
<1> QED BY <1>3, <1>4, <1>5 DEF Types, TypeOK, Sizes, PeerType

LEMMA SendKeepsTypes ==
    ASSUME Types, NEW mw \in 1..Chain, Send(mw)
    PROVE  Types'
<1>1. PICK n \in 0..MaxBody, form \in Forms :
         /\ given' = n
         /\ IF response.zlib THEN SendCompressed(From(0, n))
                             ELSE SendPlain(From(0, n), Sent(form, From(0, n)))
  BY DEF Send
<1>2. From(0, n) \in Seq(Units)
  BY FromIsSeq, ConstantsAssumption
<1>3. response \in Response /\ peer \in PeerType /\ mishaps \subseteq {"cut", "ended"}
  BY DEF Types, TypeOK, PeerType
<1>4. peer' \in PeerType /\ mishaps' \subseteq {"cut", "ended"}
  <2>1. CASE response.zlib
    <3>1. CompressOnce(From(0, n)) \in Seq(Units)
      BY <1>2, <1>3, CompressionKeepsType
    <3>2. BaseSend(peer, response, CompressOnce(From(0, n))) \in PeerType
      BY <1>3, <3>1, BaseKeepsType
    <3> QED BY <1>1, <1>3, <2>1, <3>2, TransmitKeepsType DEF SendCompressed
  <2>2. CASE ~response.zlib
    <3> DEFINE sent == Sent(form, From(0, n))
    <3>1. SendPlain(From(0, n), sent) /\ sent \in Seq(Units)
      BY <1>1, <1>2, <2>2, SentIsSeq
    <3> HIDE DEF sent
    <3>2. BaseSend(peer, response, sent) \in PeerType
      BY <1>3, <3>1, BaseKeepsType
    <3>3. peer' \in PeerType
      BY <3>1, <3>2, TransmitKeepsType DEF SendPlain
    <3>4. mishaps' \subseteq {"cut", "ended"}
      BY <1>3, <3>1 DEF SendPlain, Mishaps
    <3> QED BY <3>3, <3>4
  <2> QED BY <2>1, <2>2
<1>5. response' \in Response
  BY <1>3 DEF Send, Response
<1>6. /\ UNCHANGED <<run, pos_cur_handler, stack, called, file, sock, responses>>
      /\ use' = "complete"
  BY DEF Send, ctxVars
<1> QED BY <1>1, <1>4, <1>5, <1>6 DEF Types, TypeOK, Sizes, PeerType

LEMMA SendFileKeepsTypes ==
    ASSUME Types, NEW mw \in 1..Chain, SendFile(mw)
    PROVE  Types'
<1>1. PICK n \in 1..MaxBody :
         /\ file' = n
         /\ Transmit(SendHeaders(peer, [response EXCEPT !.length = n,
                                            !.encoding = "identity"], FALSE))
         /\ use' = "file"
  BY DEF SendFile
<1>2. response \in Response /\ peer \in PeerType
  BY DEF Types, TypeOK, PeerType
<1> DEFINE announced == [response EXCEPT !.length = n, !.encoding = "identity"]
<1>3. announced.length \in Nat /\ announced.encoding \in {"identity", "deflate"}
  BY <1>2 DEF Response
<1> HIDE DEF announced
<1>4. SendHeaders(peer, announced, FALSE) \in PeerType
  BY <1>2, <1>3, HeadersKeepType
<1>5. peer' \in PeerType
  BY <1>1, <1>4, TransmitKeepsType DEF announced
<1>6. response' \in Response
  BY <1>2 DEF SendFile, Response
<1>7. use = "fresh" /\ UNCHANGED <<run, pos_cur_handler, stack, called, given, mishaps, sock, responses>>
  BY DEF SendFile, Uses, ctxVars
<1> QED BY <1>1, <1>5, <1>6, <1>7, ConstantsAssumption DEF Types, TypeOK, Sizes, PeerType

LEMMA SendFilePieceKeepsTypes ==
    ASSUME Types, NEW mw \in 1..Chain, SendFilePiece(mw)
    PROVE  Types'
<1>1. PICK n \in 1..file :
         /\ Transmit(GetsRaw(peer, From(given, n)))
         /\ given' = given + n /\ file' = file - n
         /\ use' = IF n = file THEN "complete" ELSE "file"
  BY DEF SendFilePiece
<1>2. /\ n \in Nat /\ given \in Nat /\ given + n <= MaxBody /\ given' \in 0..MaxBody
      /\ file' \in 0..MaxBody /\ (n # file => file' > 0) /\ given' + file' <= MaxBody
  BY <1>1, ConstantsAssumption DEF SendFilePiece, Uses, Types, TypeOK, Sizes
<1>3. From(given, n) \in Seq(Units) /\ peer \in PeerType
  BY <1>2, FromIsSeq DEF Types, TypeOK, PeerType
<1>4. peer' \in PeerType
  BY <1>1, <1>3, RawKeepsType, TransmitKeepsType
<1>5. UNCHANGED <<run, pos_cur_handler, stack, called, response, mishaps, sock, responses>>
  BY DEF SendFilePiece, ctxVars
<1> QED BY <1>1, <1>2, <1>4, <1>5 DEF Types, TypeOK, Sizes, PeerType
LEMMA PushKeepsTypes ==
    ASSUME TypeOK, NEW rsp \in 1..2, pos_cur_handler < Chain, Push(rsp)
    PROVE  /\ pos_cur_handler' \in 0..Chain
           /\ stack' \in Seq([mw : 1..Chain, response : 1..2])
           /\ called' \in Seq(1..Chain)
<1>1. pos_cur_handler + 1 \in 1..Chain
  BY ConstantsAssumption DEF TypeOK
<1>2. Frame(pos_cur_handler + 1, rsp) \in [mw : 1..Chain, response : 1..2]
  BY <1>1 DEF Frame
<1> QED BY <1>1, <1>2, AppendProperties DEF Push, TypeOK

LEMMA CallNextKeepsTypes ==
    ASSUME Types, ChainInv, NEW mw \in 1..Chain, CallNext(mw)
    PROVE  Types'
<1>1. response.id \in 1..2
  BY DEF CallNext, MayUse, ChainInv
<1>2. /\ pos_cur_handler' \in 0..Chain
      /\ stack' \in Seq([mw : 1..Chain, response : 1..2])
      /\ called' \in Seq(1..Chain)
  BY <1>1, PushKeepsTypes DEF CallNext, Types
<1> QED BY <1>2 DEF CallNext, bodyVars, Types, TypeOK, Sizes

LEMMA CompressionKeepsTypes ==
    ASSUME Types, CompressionHandler
    PROVE  Types'
<1>1. response' \in Response
  <2>1. PICK agreed \in BOOLEAN : response' = DecideEncoding(agreed)
    BY DEF CompressionHandler
  <2>2. << >> \in Seq(Units) /\ NoLength \in 0..NoLength
    BY EmptySeq, ConstantsAssumption DEF NoLength
  <2>3. NewResponse(2) \in Response
    BY <2>2 DEF NewResponse, Response
  <2> QED BY <2>1, <2>3 DEF DecideEncoding, Response
<1>2. /\ pos_cur_handler' \in 0..Chain
      /\ stack' \in Seq([mw : 1..Chain, response : 1..2])
      /\ called' \in Seq(1..Chain)
  <2>1. CASE pos_cur_handler < Chain
    BY <2>1, PushKeepsTypes DEF CompressionHandler, Types
  <2>2. CASE ~(pos_cur_handler < Chain)
    BY <2>2 DEF CompressionHandler, Types, TypeOK
  <2> QED BY <2>1, <2>2
<1> QED BY <1>1, <1>2 DEF CompressionHandler, Types, TypeOK, Sizes

LEMMA ReturnedStack ==
    ASSUME Types, NEW mw \in 1..Chain, Return(mw)
    PROVE  /\ stack' \in Seq([mw : 1..Chain, response : 1..2])
           /\ Len(stack) \in Nat \ {0} /\ Len(stack') = Len(stack) - 1
           /\ \A i \in 1..Len(stack') : stack'[i] = stack[i]
<1> DEFINE S == [mw : 1..Chain, response : 1..2]
<1>1. stack \in Seq(S) /\ stack # << >>
  BY DEF Return, MayUse, Types, TypeOK
<1> HIDE DEF S
<1>2. Len(stack) \in Nat \ {0}
  BY <1>1, EmptySeq
<1>3. \A i \in 1..(Len(stack) - 1) : stack[i] \in S
  BY <1>1, <1>2, ElementOfSeq
<1> DEFINE cut == SubSeq(stack, 1, Len(stack) - 1)
<1>4. /\ cut \in Seq(S)
      /\ Len(cut) = IF 1 <= Len(stack) - 1 THEN Len(stack) - 1 - 1 + 1 ELSE 0
      /\ \A i \in 1..(Len(stack) - 1 - 1 + 1) : cut[i] = stack[1 + i - 1]
  BY <1>2, <1>3, SubSeqProperties
<1>5. stack' = cut
  BY DEF Return
<1> HIDE DEF cut
<1>6. \A i \in 1..(Len(stack) - 1) : stack'[i] = stack[i]
  BY <1>2, <1>4, <1>5
<1>7. Len(stack') = Len(stack) - 1
  BY <1>2, <1>4, <1>5
<1> QED BY <1>2, <1>4, <1>5, <1>6, <1>7 DEF S

LEMMA ReturnKeepsTypes ==
    ASSUME Types, NEW mw \in 1..Chain, Return(mw)
    PROVE  Types'
BY ReturnedStack DEF Return, bodyVars, Types, TypeOK, Sizes

LEMMA ThrowKeepsTypes ==
    ASSUME Types, NEW mw \in 1..Chain, Throw(mw)
    PROVE  Types'
BY EmptySeq DEF Throw, bodyVars, Types, TypeOK, Sizes

LEMMA NewResponseType ==
    ASSUME NEW id \in 0..2
    PROVE  NewResponse(id) \in Response
<1>1. << >> \in Seq(Units) /\ NoLength \in 0..NoLength
  BY EmptySeq, ConstantsAssumption DEF NoLength
<1> QED BY <1>1 DEF NewResponse, Response

LEMMA NewPeerType == NewPeer \in PeerType
<1>1. << >> \in Seq(Units)
  BY EmptySeq
<1> QED BY <1>1 DEF NewPeer, PeerType

LEMMA RunHandlerKeepsTypes ==
    ASSUME Types, RunHandler
    PROVE  Types'
<1>1. 1 \in 1..Chain
  BY ConstantsAssumption
<1>2. Frame(1, 1) \in [mw : 1..Chain, response : 1..2]
  BY <1>1 DEF Frame
<1>3. /\ <<Frame(1, 1)>> \in Seq([mw : 1..Chain, response : 1..2])
      /\ <<1>> \in Seq(1..Chain)
  BY <1>1, <1>2
<1>4. response' \in Response /\ peer' \in PeerType
  BY NewResponseType, NewPeerType DEF RunHandler
<1>5. responses' \in 0..MaxResponses
  BY ConstantsAssumption DEF RunHandler, Types, TypeOK
<1>6. given' \in 0..MaxBody /\ file' \in 0..MaxBody /\ pos_cur_handler' \in 0..Chain
  BY <1>1, ConstantsAssumption DEF RunHandler
<1> QED BY <1>3, <1>4, <1>5, <1>6 DEF RunHandler, Types, TypeOK, Sizes, PeerType

LEMMA DefaultPageKeepsTypes ==
    ASSUME Types, UseDefaultStatusPage
    PROVE  Types'
<1>1. PICK n \in 1..MaxBody :
         given' = n /\ Transmit(BaseSend(NewPeer, NewResponse(1), From(0, n)))
  BY DEF UseDefaultStatusPage
<1>2. From(0, n) \in Seq(Units)
  BY FromIsSeq, ConstantsAssumption
<1>3. NewResponse(1) \in Response
  BY NewResponseType
<1>4. BaseSend(NewPeer, NewResponse(1), From(0, n)) \in PeerType
  BY <1>2, <1>3, NewPeerType, BaseKeepsType
<1>5. peer' \in PeerType
  BY <1>1, <1>4, TransmitKeepsType
<1>6. responses' \in 0..MaxResponses /\ given' \in 0..MaxBody
  BY <1>1, ConstantsAssumption DEF UseDefaultStatusPage, Types, TypeOK
<1> QED BY <1>5, <1>6 DEF UseDefaultStatusPage, ctxVars, Types, TypeOK, Sizes, PeerType

LEMMA ReloadKeepsTypes ==
    ASSUME Types, ReloadContext
    PROVE  Types'
BY NewResponseType DEF ReloadContext, ctxVars, Types, TypeOK, Sizes

LEMMA BreakKeepsTypes ==
    ASSUME Types, ConnectionBreaks
    PROVE  Types'
BY DEF ConnectionBreaks, ctxVars, bodyVars, Types, TypeOK, Sizes

LEMMA StutterKeepsTypes ==
    ASSUME Types, UNCHANGED vars
    PROVE  Types'
BY DEF vars, ctxVars, bodyVars, Types, TypeOK, Sizes
-----------------------------------------------------------------------------
(* The calls of handlers *)

LEMMA CallsUndisturbed ==
    ASSUME ChainInv, UNCHANGED <<run, ctxVars>>, response'.id = response.id
    PROVE  ChainInv'
BY DEF ChainInv, ctxVars, Top

LEMMA NextOfChain ==
    ASSUME Types, ChainInv, NEW rsp, run = "running", stack # << >>,
           pos_cur_handler < Chain, Push(rsp), run' = "running",
           rsp = ResponseOf(pos_cur_handler + 1), response'.id = rsp
    PROVE  ChainInv'
<1> DEFINE f == Frame(pos_cur_handler + 1, rsp)
<1>1. pos_cur_handler \in Nat /\ pos_cur_handler + 1 \in 1..Chain
  BY ConstantsAssumption DEF Types, TypeOK
<1>2. rsp \in 1..2 /\ f \in [mw : 1..Chain, response : 1..2]
  BY <1>1 DEF Frame, ResponseOf
<1>3. stack \in Seq([mw : 1..Chain, response : 1..2]) /\ called \in Seq(1..Chain)
  BY DEF Types, TypeOK
<1>4. f.mw = pos_cur_handler + 1 /\ f.response = rsp
  BY DEF Frame
<1>5. /\ stack' = Append(stack, f) /\ called' = Append(called, pos_cur_handler + 1)
      /\ pos_cur_handler' = pos_cur_handler + 1
  BY DEF Push
<1> HIDE DEF f
<1>6. /\ Len(stack) \in Nat /\ Len(stack') = Len(stack) + 1
      /\ \A i \in 1..Len(stack) : stack'[i] = stack[i]
      /\ stack'[Len(stack) + 1] = f
  BY <1>2, <1>3, <1>5, AppendProperties, LenProperties
<1>7. /\ Len(called) = pos_cur_handler /\ called = From(0, Len(called))
      /\ \A i \in 1..Len(stack) :
            stack[i].mw <= pos_cur_handler /\ stack[i].response = ResponseOf(stack[i].mw)
      /\ \A i, j \in 1..Len(stack) : i < j => stack[i].mw < stack[j].mw
  BY DEF ChainInv
<1>8. \A i \in 1..Len(stack) : stack[i].mw \in 1..Chain
  <2> TAKE i \in 1..Len(stack)
  <2>1. stack[i] \in [mw : 1..Chain, response : 1..2]
    BY <1>3, ElementOfSeq
  <2> QED BY <2>1
<1>9. \A i \in 1..Len(stack') :
        /\ stack'[i].mw <= pos_cur_handler + 1
        /\ stack'[i].response = ResponseOf(stack'[i].mw)
  <2> TAKE i \in 1..Len(stack')
  <2>1. CASE i \in 1..Len(stack)
    BY <1>1, <1>6, <1>7, <1>8, <2>1
  <2>2. CASE i = Len(stack) + 1
    BY <1>1, <1>4, <1>6, <2>2
  <2> QED BY <1>6, <2>1, <2>2
<1>10. \A i, j \in 1..Len(stack') : i < j => stack'[i].mw < stack'[j].mw
  <2> TAKE i, j \in 1..Len(stack')
  <2> HAVE i < j
  <2>1. i \in 1..Len(stack)
    BY <1>6
  <2>2. CASE j \in 1..Len(stack)
    BY <1>6, <1>7, <2>1, <2>2
  <2>3. CASE j = Len(stack) + 1
    BY <1>1, <1>4, <1>6, <1>7, <1>8, <2>1, <2>3
  <2> QED BY <1>6, <2>2, <2>3
<1>11. called' = From(0, Len(called')) /\ Len(called') = pos_cur_handler + 1
  <2>1. called' \in Seq(1..Chain) /\ Len(called') = pos_cur_handler + 1
    BY <1>1, <1>3, <1>5, <1>7, AppendProperties
  <2>2. \A i \in 1..(pos_cur_handler + 1) : called'[i] = i
    BY <1>1, <1>3, <1>5, <1>7, AppendProperties DEF From
  <2>3. called' = [i \in 1..(pos_cur_handler + 1) |-> called'[i]]
    BY <2>1, LenProperties
  <2> QED BY <2>1, <2>2, <2>3 DEF From
<1>12. Top' = f
  BY <1>6 DEF Top
<1>13. stack' # << >>
  BY <1>6, EmptySeq
<1>14. response'.id = 1 =>
         \/ CompressionAt = 0 \/ pos_cur_handler' < CompressionAt
         \/ pos_cur_handler' = CompressionAt /\ Top'.mw = CompressionAt
  BY <1>1, <1>4, <1>5, <1>12, ConstantsAssumption DEF ResponseOf
<1>15. response'.id = 2 => CompressionAt > 0 /\ pos_cur_handler' >= CompressionAt
  BY <1>1, <1>5, ConstantsAssumption DEF ResponseOf
<1>16. response'.id \in {1, 2} /\ Len(called') = pos_cur_handler'
  BY <1>1, <1>2, <1>5, <1>11
<1>17. \A i \in 1..Len(stack') :
         stack'[i].mw <= pos_cur_handler' /\ stack'[i].response = ResponseOf(stack'[i].mw)
  BY <1>5, <1>9
<1>18. called' = From(0, Len(called'))
  BY <1>11
<1> QED BY ONLY run' = "running", <1>10, <1>13, <1>14, <1>15, <1>16, <1>17, <1>18 DEF ChainInv, ResponseOf

LEMMA CallNextKeepsChain ==
    ASSUME Types, ChainInv, NEW mw \in 1..Chain, CallNext(mw)
    PROVE  ChainInv'
<1>1. /\ run = "running" /\ stack # << >> /\ Top.mw = mw /\ mw # CompressionAt
      /\ pos_cur_handler < Chain /\ Push(response.id) /\ run' = "running"
      /\ response' = response
  BY DEF CallNext, MayUse, bodyVars
<1>2. response.id = ResponseOf(pos_cur_handler + 1)
  BY <1>1, ConstantsAssumption DEF ChainInv, ResponseOf, Types, TypeOK
<1> QED BY <1>1, <1>2, NextOfChain
LEMMA ReturnKeepsChain ==
    ASSUME Types, ChainInv, NEW mw \in 1..Chain, Return(mw)
    PROVE  ChainInv'
<1>1. /\ stack' \in Seq([mw : 1..Chain, response : 1..2])
      /\ Len(stack) \in Nat \ {0} /\ Len(stack') = Len(stack) - 1
      /\ \A i \in 1..Len(stack') : stack'[i] = stack[i]
  BY ReturnedStack
<1>2. /\ run = "running" /\ stack # << >> /\ Top.mw = mw
      /\ mw = CompressionAt => response.id # Top.response
      /\ run' = IF Len(stack) = 1 THEN "returned" ELSE "running"
      /\ UNCHANGED <<pos_cur_handler, called, response>>
  BY DEF Return, MayUse, bodyVars
<1>3. run' = "running" <=> stack' # << >>
  BY <1>1, <1>2, EmptySeq
<1>4. 1..Len(stack') \subseteq 1..Len(stack) /\ Len(stack) \in 1..Len(stack)
  BY <1>1
<1>5. \A i, j \in 1..Len(stack') : i < j => stack'[i].mw < stack'[j].mw
  BY <1>1, <1>4 DEF ChainInv
<1>6. \A i \in 1..Len(stack') :
        stack'[i].mw <= pos_cur_handler' /\ stack'[i].response = ResponseOf(stack'[i].mw)
  BY <1>1, <1>2, <1>4 DEF ChainInv
<1>7. response.id = 1 => CompressionAt = 0 \/ pos_cur_handler < CompressionAt
  <2>1. Top.response = ResponseOf(Top.mw)
    BY <1>2, <1>4 DEF ChainInv, Top
  <2>2. Top.mw = CompressionAt => Top.response = 1
    BY <2>1, ConstantsAssumption DEF ResponseOf
  <2> QED BY <1>2, <2>2 DEF ChainInv
<1> QED BY <1>2, <1>3, <1>5, <1>6, <1>7 DEF ChainInv

LEMMA CompressionKeepsChain ==
    ASSUME Types, ChainInv, CompressionHandler
    PROVE  ChainInv'
<1>1. run = "running" /\ stack # << >> /\ Top.mw = CompressionAt /\ run' = "running"
  BY DEF CompressionHandler, MayUse
<1>2. response'.id = 2
  BY DEF CompressionHandler, DecideEncoding, NewResponse
<1>3. Len(stack) \in 1..Len(stack)
  <2>1. stack \in Seq([mw : 1..Chain, response : 1..2])
    BY DEF Types, TypeOK
  <2>2. Len(stack) \in Nat \ {0}
    BY <1>1, <2>1, EmptySeq
  <2> QED BY <2>2
<1>4. stack[Len(stack)].mw \in 1..Chain /\ stack[Len(stack)].mw <= pos_cur_handler
  <2>1. stack[Len(stack)] \in [mw : 1..Chain, response : 1..2]
    BY <1>3, ElementOfSeq DEF Types, TypeOK
  <2> QED BY <1>1, <1>3, <2>1 DEF ChainInv
<1>5. CompressionAt > 0 /\ CompressionAt <= pos_cur_handler
  BY <1>1, <1>4 DEF Top
<1>6. CASE pos_cur_handler < Chain
  <2>1. Push(2)
    BY <1>6 DEF CompressionHandler
  <2>2. ResponseOf(pos_cur_handler + 1) = 2
    BY <1>5, <1>6, ConstantsAssumption DEF ResponseOf, Types, TypeOK
  <2> QED BY <1>1, <1>2, <1>6, <2>1, <2>2, NextOfChain
<1>7. CASE ~(pos_cur_handler < Chain)
  <2>1. UNCHANGED <<stack, called, pos_cur_handler>>
    BY <1>7 DEF CompressionHandler
  <2> QED BY <1>1, <1>2, <1>5, <2>1 DEF ChainInv
<1> QED BY <1>6, <1>7

LEMMA StartKeepsChain ==
    ASSUME Types, RunHandler
    PROVE  ChainInv'
<1>1. /\ run' = "running" /\ stack' = <<Frame(1, 1)>> /\ called' = <<1>>
      /\ pos_cur_handler' = 1 /\ response'.id = 1
  BY DEF RunHandler, NewResponse
<1>2. Len(stack') = 1 /\ stack'[1] = Frame(1, 1) /\ Len(called') = 1 /\ stack' # << >>
  BY <1>1
<1>3. Top'.mw = 1 /\ Frame(1, 1).mw = 1 /\ Frame(1, 1).response = 1
  BY <1>2 DEF Top, Frame
<1>4. ResponseOf(1) = 1
  BY ConstantsAssumption DEF ResponseOf
<1>5. called' = From(0, 1)
  BY <1>1 DEF From
<1>6. CompressionAt = 0 \/ 1 < CompressionAt \/ CompressionAt = 1
  BY ConstantsAssumption
<1> QED BY <1>1, <1>2, <1>3, <1>4, <1>5, <1>6 DEF ChainInv

LEMMA InitChain == Init => ChainInv
<1> SUFFICES ASSUME Init PROVE ChainInv
  OBVIOUS
<1>1. called = << >> /\ Len(called) = 0 /\ Len(stack) = 0
  BY DEF Init
<1>2. called = From(0, Len(called))
  BY <1>1 DEF From
<1> QED BY <1>1, <1>2 DEF Init, ChainInv

LEMMA ThrowKeepsChain ==
    ASSUME ChainInv, NEW mw \in 1..Chain, Throw(mw)
    PROVE  ChainInv'
<1>1. run' = "thrown" /\ stack' = << >> /\ Len(stack') = 0 /\ UNCHANGED called
  BY DEF Throw
<1> QED BY <1>1 DEF ChainInv

LEMMA IdleKeepsChain ==
    ASSUME ChainInv, UseDefaultStatusPage \/ ReloadContext
    PROVE  ChainInv'
<1>1. run # "running" /\ run' # "running" /\ UNCHANGED <<stack, called>>
  BY DEF UseDefaultStatusPage, ReloadContext, ctxVars
<1> QED BY <1>1 DEF ChainInv

LEMMA UseKeepsChain ==
    ASSUME Types, ChainInv, NEW mw \in 1..Chain,
           Write(mw) \/ End(mw) \/ Send(mw) \/ SendFile(mw) \/ SendFilePiece(mw)
    PROVE  ChainInv'
<1>1. UNCHANGED <<run, ctxVars>>
  BY DEF Write, End, Send, SendFile, SendFilePiece
<1>2. response \in Response
  BY DEF Types, TypeOK
<1>3. response'.id = response.id
  BY <1>2 DEF Write, WriteCompressed, WritePlain, End, Send, SendFile, SendFilePiece, Response
<1> QED BY <1>1, <1>3, CallsUndisturbed

LEMMA NextKeepsTypesAndChain ==
    ASSUME Types, ChainInv, [Next]_vars
    PROVE  Types' /\ ChainInv'
<1>1. ASSUME NEW mw \in 1..Chain, CallNext(mw) PROVE Types' /\ ChainInv'
  BY <1>1, CallNextKeepsTypes, CallNextKeepsChain
<1>2. ASSUME NEW mw \in 1..Chain, Return(mw) PROVE Types' /\ ChainInv'
  BY <1>2, ReturnKeepsTypes, ReturnKeepsChain
<1>3. ASSUME NEW mw \in 1..Chain, Throw(mw) PROVE Types' /\ ChainInv'
  BY <1>3, ThrowKeepsTypes, ThrowKeepsChain
<1>4. ASSUME NEW mw \in 1..Chain,
             Write(mw) \/ End(mw) \/ Send(mw) \/ SendFile(mw) \/ SendFilePiece(mw)
      PROVE  Types' /\ ChainInv'
  BY <1>4, WriteKeepsTypes, EndKeepsTypes, SendKeepsTypes, SendFileKeepsTypes,
     SendFilePieceKeepsTypes, UseKeepsChain
<1>5. CASE CompressionHandler
  BY <1>5, CompressionKeepsTypes, CompressionKeepsChain
<1>6. CASE RunHandler
  BY <1>6, RunHandlerKeepsTypes, StartKeepsChain
<1>7. CASE UseDefaultStatusPage
  BY <1>7, DefaultPageKeepsTypes, IdleKeepsChain
<1>8. CASE ReloadContext
  BY <1>8, ReloadKeepsTypes, IdleKeepsChain
<1>9. CASE ConnectionBreaks
  BY <1>9, BreakKeepsTypes, CallsUndisturbed DEF ConnectionBreaks, bodyVars
<1>10. CASE UNCHANGED vars
  BY <1>10, StutterKeepsTypes, CallsUndisturbed DEF vars, bodyVars
<1> QED BY <1>1, <1>2, <1>3, <1>4, <1>5, <1>6, <1>7, <1>8, <1>9, <1>10 DEF Next

LEMMA InitTypes == Init => Types
<1> SUFFICES ASSUME Init PROVE Types
  OBVIOUS
<1>1. response \in Response
  BY NewResponseType DEF Init
<1>2. peer \in PeerType
  BY NewPeerType DEF Init, PeerType
<1>3. stack \in Seq([mw : 1..Chain, response : 1..2]) /\ called \in Seq(1..Chain)
  BY EmptySeq DEF Init
<1> QED BY <1>1, <1>2, <1>3, ConstantsAssumption DEF Init, Types, TypeOK, Sizes, PeerType

LEMMA ChainInvariant == Spec => [](Types /\ ChainInv)
<1>1. Init => Types /\ ChainInv
  BY InitTypes, InitChain
<1>2. (Types /\ ChainInv) /\ [Next]_vars => (Types /\ ChainInv)'
  BY NextKeepsTypesAndChain
<1> QED BY <1>1, <1>2, PTL DEF Spec

(* The values of every variable stay in their types, whatever middlewares the
   route has and however they write.  Code: Context.cpp, Response.cpp and
   Compression.cpp. *)
THEOREM TypeCorrect == Spec => []TypeOK
<1>1. Types /\ ChainInv => TypeOK
  BY DEF Types
<1> QED BY <1>1, ChainInvariant, PTL

(* Context::next and __load_context, for a chain of any length with Compression
   anywhere in it or not at all: the middlewares run in the order of use(),
   each at most once. *)
THEOREM MiddlewaresRunInTheirOrder == Spec => []MiddlewaresRunInOrder
<1>1. Types /\ ChainInv => MiddlewaresRunInOrder
  BY DEF ChainInv, MiddlewaresRunInOrder
<1> QED BY <1>1, ChainInvariant, PTL

(* With Compression in front of the others, or without it, a middleware that
   runs holds the response that is alive. *)
THEOREM RunningMiddlewaresHaveLiveResponses ==
    ASSUME CompressionAt \in {0, 1}
    PROVE  Spec => []RunningMiddlewareHasLiveResponse
<1>1. Types /\ ChainInv => RunningMiddlewareHasLiveResponse
  <2> SUFFICES ASSUME Types, ChainInv, run = "running", Top.mw # CompressionAt
               PROVE  Top.response = response.id
    BY DEF RunningMiddlewareHasLiveResponse
  <2>1. stack \in Seq([mw : 1..Chain, response : 1..2]) /\ stack # << >>
    BY DEF Types, TypeOK, ChainInv
  <2>2. Len(stack) \in 1..Len(stack)
    <3>1. Len(stack) \in Nat \ {0}
      BY <2>1, EmptySeq
    <3> QED BY <3>1
  <2>3. Top \in [mw : 1..Chain, response : 1..2]
    BY <2>1, <2>2, ElementOfSeq DEF Top
  <2>4. /\ Top.mw \in 1..Chain /\ Top.mw <= pos_cur_handler
        /\ Top.response = ResponseOf(Top.mw)
    BY <2>2, <2>3 DEF ChainInv, Top
  <2>5. pos_cur_handler \in Nat
    BY DEF Types, TypeOK
  <2> QED BY <2>4, <2>5, ConstantsAssumption DEF ChainInv, ResponseOf
<1> QED BY <1>1, ChainInvariant, PTL
-----------------------------------------------------------------------------
(* What the peer has decoded *)

Front(s, k) == SubSeq(s, 1, k)
Rest(s, k) == SubSeq(s, k + 1, Len(s))

LEMMA Split ==
    ASSUME NEW s \in Seq(Units), NEW k \in 0..Len(s)
    PROVE  /\ Front(s, k) \in Seq(Units) /\ Rest(s, k) \in Seq(Units)
           /\ Front(s, k) \o Rest(s, k) = s
           /\ k = 0 => Front(s, k) = << >> /\ Rest(s, k) = s
           /\ k > 0 => Front(s, k) # << >>
<1>1. Len(s) \in Nat /\ k \in Nat /\ \A i \in 1..Len(s) : s[i] \in Units
  BY LenProperties, ElementOfSeq
<1>2. /\ Front(s, k) \in Seq(Units)
      /\ Len(Front(s, k)) = k
      /\ \A i \in 1..k : Front(s, k)[i] = s[i]
  <2>1. \A i \in 1..k : s[i] \in Units
    BY <1>1
  <2>2. /\ SubSeq(s, 1, k) \in Seq(Units)
        /\ Len(SubSeq(s, 1, k)) = IF 1 <= k THEN k - 1 + 1 ELSE 0
        /\ \A i \in 1..(k - 1 + 1) : SubSeq(s, 1, k)[i] = s[1 + i - 1]
    BY <1>1, <2>1, SubSeqProperties
  <2>3. \A i \in 1..k : SubSeq(s, 1, k)[i] = s[i]
    BY <1>1, <2>2
  <2>4. Len(SubSeq(s, 1, k)) = k
    BY <1>1, <2>2
  <2> QED BY <2>2, <2>3, <2>4 DEF Front
<1>3. /\ Rest(s, k) \in Seq(Units)
      /\ Len(Rest(s, k)) = Len(s) - k
      /\ \A i \in 1..(Len(s) - k) : Rest(s, k)[i] = s[k + i]
  <2>1. \A i \in (k + 1)..Len(s) : s[i] \in Units
    BY <1>1
  <2>2. /\ SubSeq(s, k + 1, Len(s)) \in Seq(Units)
        /\ Len(SubSeq(s, k + 1, Len(s))) = IF k + 1 <= Len(s) THEN Len(s) - (k + 1) + 1 ELSE 0
        /\ \A i \in 1..(Len(s) - (k + 1) + 1) : SubSeq(s, k + 1, Len(s))[i] = s[k + 1 + i - 1]
    BY <1>1, <2>1, SubSeqProperties
  <2>3. \A i \in 1..(Len(s) - k) : SubSeq(s, k + 1, Len(s))[i] = s[k + i]
    BY <1>1, <2>2
  <2>4. Len(SubSeq(s, k + 1, Len(s))) = Len(s) - k
    BY <1>1, <2>2
  <2> QED BY <2>2, <2>3, <2>4 DEF Rest
<1>4. Front(s, k) \o Rest(s, k) = s
  <2>1. /\ 1 \in 1..(Len(s) + 1) /\ k \in (1 - 1)..Len(s)
        /\ Len(s) \in k..Len(s)
    BY <1>1
  <2>2. SubSeq(s, 1, k) \o SubSeq(s, k + 1, Len(s)) = SubSeq(s, 1, Len(s))
    BY <2>1, ConcatAdjacentSubSeq
  <2> QED BY <2>2, SubSeqFull DEF Front, Rest
<1>5. k = 0 => Front(s, k) = << >> /\ Rest(s, k) = s
  <2> SUFFICES ASSUME k = 0 PROVE Front(s, k) = << >> /\ Rest(s, k) = s
    OBVIOUS
  <2>1. Front(s, k) = << >>
    BY <1>2, EmptySeq
  <2> QED BY <1>3, <1>4, <2>1, ConcatEmptySeq
<1>6. k > 0 => Front(s, k) # << >>
  BY <1>1, <1>2, EmptySeq
<1> QED BY <1>2, <1>3, <1>4, <1>5, <1>6

LEMMA BodyGrows ==
    ASSUME NEW n \in Nat, NEW m \in Nat, n + m <= MaxBody
    PROVE  From(0, n) \o From(n, m) = From(0, n + m)
<1>1. 0 \in Nat /\ 0 + n <= MaxBody /\ n + m \in Nat /\ 0 + (n + m) <= MaxBody
  BY ConstantsAssumption
<1>2. /\ From(0, n) \in Seq(Units) /\ Len(From(0, n)) = n
      /\ From(n, m) \in Seq(Units) /\ Len(From(n, m)) = m
      /\ From(0, n + m) \in Seq(Units) /\ Len(From(0, n + m)) = n + m
  BY <1>1, FromIsSeq
<1>3. /\ \A i \in 1..n : From(0, n)[i] = i
      /\ \A i \in 1..m : From(n, m)[i] = n + i
      /\ \A i \in 1..(n + m) : From(0, n + m)[i] = i
  BY DEF From
<1> DEFINE f == From(0, n)
           g == From(n, m)
           h == From(0, n + m)
<1> HIDE DEF f, g, h
<1>4. /\ f \o g \in Seq(Units) /\ Len(f \o g) = n + m
      /\ \A i \in 1..(n + m) :
            /\ i <= n => (f \o g)[i] = f[i]
            /\ i > n => (f \o g)[i] = g[i - n]
  <2>1. f \in Seq(Units) /\ Len(f) = n /\ g \in Seq(Units) /\ Len(g) = m
    BY <1>2 DEF f, g
  <2>2. /\ f \o g \in Seq(Units) /\ Len(f \o g) = Len(f) + Len(g)
        /\ \A i \in 1..(Len(f) + Len(g)) :
              (f \o g)[i] = IF i <= Len(f) THEN f[i] ELSE g[i - Len(f)]
    BY <2>1, ConcatProperties
  <2> QED BY <2>1, <2>2
<1>5. \A i \in 1..(n + m) : (f \o g)[i] = i
  <2> TAKE i \in 1..(n + m)
  <2>1. CASE i <= n
    <3>1. i \in 1..n
      BY <2>1
    <3>2. f[i] = i
      BY <1>3, <3>1 DEF f
    <3> QED BY <1>4, <2>1, <3>2
  <2>2. CASE i > n
    <3>1. i - n \in 1..m /\ n + (i - n) = i
      BY <2>2
    <3>2. g[i - n] = i
      BY <1>3, <3>1 DEF g
    <3>3. (f \o g)[i] = g[i - n]
      BY <1>4, <2>2
    <3> QED BY <3>2, <3>3
  <2>3. i <= n \/ i > n
    OBVIOUS
  <2> QED BY <2>1, <2>2, <2>3
<1>6. \A i \in 1..Len(f \o g) : (f \o g)[i] = h[i]
  BY <1>3, <1>4, <1>5 DEF h
<1>7. f \o g = h
  BY <1>2, <1>4, <1>6, SeqEqual DEF h
<1> QED BY <1>7 DEF f, g, h

LEMMA Associates ==
    ASSUME NEW s \in Seq(Units), NEW t \in Seq(Units), NEW u \in Seq(Units)
    PROVE  s \o (t \o u) = (s \o t) \o u
BY ONLY ConcatAssociative, s \in Seq(Units), t \in Seq(Units), u \in Seq(Units)

LEMMA NoBody == From(0, 0) = << >>
<1>1. 0 \in Nat /\ 0 + 0 <= MaxBody
  BY ConstantsAssumption
<1> QED BY <1>1, FromIsSeq, EmptySeq

(* A response to which nothing was passed before, sent in one piece. *)
LEMMA SentWhole ==
    ASSUME NEW r \in Response, ~r.headers_sent, NEW units \in Seq(Units)
    PROVE  BaseSend(NewPeer, r, units) =
             [phase |-> "done", left |-> 0, encoding |-> r.encoding, body |-> units]
<1> DEFINE rl == [r EXCEPT !.length = Len(units)]
<1>1. rl.length = Len(units) /\ rl.encoding = r.encoding /\ rl.headers_sent = r.headers_sent
  BY DEF Response
<1> HIDE DEF rl
<1> DEFINE p == SendHeaders(NewPeer, rl, FALSE)
<1>2. p = [phase |-> IF Len(units) = 0 THEN "done" ELSE "body", left |-> Len(units),
           encoding |-> r.encoding, body |-> << >>]
  <2>1. p = GetsHeaders(NewPeer, rl, FALSE) /\ NewPeer.phase = "status"
    BY <1>1 DEF SendHeaders, NewPeer
  <2>2. p = [NewPeer EXCEPT !.encoding = r.encoding, !.left = Len(units),
                            !.phase = IF Len(units) = 0 THEN "done" ELSE "body"]
    BY <1>1, <2>1 DEF GetsHeaders
  <2> QED BY <2>2 DEF NewPeer
<1> HIDE DEF p
<1>3. Len(units) \in Nat /\ (units = << >> <=> Len(units) = 0) /\ << >> \o units = units
  BY LenProperties, EmptySeq, ConcatEmptySeq
<1>4. GetsRaw(p, units) =
        [phase |-> "done", left |-> 0, encoding |-> r.encoding, body |-> units]
  <2>1. CASE units = << >>
    BY <1>2, <1>3, <2>1 DEF GetsRaw
  <2>2. CASE units # << >>
    <3>1. p.phase = "body" /\ p.left = Len(units) /\ ~(Len(units) > p.left)
      BY <1>2, <1>3, <2>2
    <3>2. GetsRaw(p, units) = [p EXCEPT !.body = p.body \o units, !.left = p.left - Len(units),
                                 !.phase = IF Len(units) = p.left THEN "done" ELSE "body"]
      BY <2>2, <3>1 DEF GetsRaw
    <3>3. p.left - Len(units) = 0 /\ p.encoding = r.encoding /\ p.body \o units = units
      BY <1>2, <1>3, <3>1
    <3>4. GetsRaw(p, units) = [p EXCEPT !.body = units, !.left = 0, !.phase = "done"]
      BY <3>1, <3>2, <3>3
    <3> QED BY <1>2, <3>4
  <2> QED BY <2>1, <2>2
<1> QED BY <1>4 DEF BaseSend, p, rl
-----------------------------------------------------------------------------
(* One step of the peer and of the middlewares *)

(* A connection that is open gets what the response writes. *)
LEMMA OpenTransmits ==
    ASSUME NEW p, Transmit(p), sock = "open"
    PROVE  peer' = p
BY DEF Transmit

LEMMA WireUndisturbed ==
    ASSUME WireInv, UNCHANGED <<given, mishaps, use, file, peer, responses>>,
           run' = "running" => run = "running" /\ response' = response,
           sock' = "open" => sock = "open",
           run = "idle" => run' = "idle"
    PROVE  WireInv'
<1>1. Wire => Wire'
  BY DEF Wire, FreshWire, FreshResponse, StreamWire, StreamResponse, FileWire,
         CompleteWire, Decoded, Whole
<1>2. (Decoded => Decoded') /\ (Whole' => Whole)
  BY DEF Decoded, Whole
<1> QED BY <1>1, <1>2 DEF WireInv

(* A use of the response: it is enough to follow it over an open connection. *)
LEMMA WireUsed ==
    ASSUME Types, WireInv, run = "running", use # "complete",
           UNCHANGED <<sock, responses>>, mishaps \subseteq mishaps', NEW p, Transmit(p),
           sock = "open" /\ Wire /\ "ended" \notin mishaps' => Wire'
    PROVE  WireInv'
<1>1. responses > 0 /\ responses' > 0 /\ responses' # 0
  BY DEF WireInv, Types, TypeOK
<1>2. CASE "ended" \in mishaps'
  BY <1>1, <1>2 DEF WireInv
<1>3. CASE "ended" \notin mishaps' /\ sock = "open"
  <2>1. Wire'
    BY <1>1, <1>3 DEF WireInv
  <2>2. /\ peer'.phase # "garbled"
        /\ peer'.phase = "done" => use' = "complete" /\ (Whole' => Decoded')
    BY <2>1 DEF Wire, FreshWire, StreamWire, FileWire, CompleteWire, NewPeer
  <2> QED BY <1>1, <2>1, <2>2 DEF WireInv
<1>4. CASE "ended" \notin mishaps' /\ sock # "open"
  <2>1. peer' = peer /\ peer.phase # "garbled" /\ peer.phase # "done"
    BY <1>1, <1>4 DEF WireInv, Transmit
  <2> QED BY <1>1, <1>4, <2>1 DEF WireInv
<1> QED BY <1>2, <1>3, <1>4

(* What write does to a peer that is at the header or at a chunk. *)
LEMMA WrittenChunk ==
    ASSUME NEW p \in PeerType, NEW r \in Response, NEW units \in Seq(Units), units # << >>,
           p.phase = IF r.headers_sent THEN "chunks" ELSE "status",
           r.headers_sent => p.encoding = r.encoding
    PROVE  /\ BaseWrite(p, r, units).phase = "chunks"
           /\ BaseWrite(p, r, units).encoding = r.encoding
           /\ BaseWrite(p, r, units).body = p.body \o units
<1> DEFINE q == SendHeaders(p, r, TRUE)
<1>1. q \in PeerType /\ q.phase = "chunks" /\ q.encoding = r.encoding /\ q.body = p.body
  <2>1. CASE r.headers_sent
    BY <2>1 DEF SendHeaders
  <2>2. CASE ~r.headers_sent
    <3>1. q = [p EXCEPT !.encoding = r.encoding, !.left = r.length, !.phase = "chunks"]
      BY <2>2 DEF SendHeaders, GetsHeaders
    <3>2. r.length \in Nat /\ r.encoding \in {"identity", "deflate"}
      BY ConstantsAssumption DEF Response, NoLength
    <3> QED BY <3>1, <3>2 DEF PeerType
  <2> QED BY <2>1, <2>2
<1> HIDE DEF q
<1>2. GetsChunk(q, units) = [q EXCEPT !.body = q.body \o units]
  BY <1>1 DEF GetsChunk
<1>3. BaseWrite(p, r, units) = [q EXCEPT !.body = q.body \o units]
  BY <1>2 DEF BaseWrite, DoWrite, q
<1> QED BY <1>1, <1>3 DEF PeerType

LEMMA EndedChunks ==
    ASSUME NEW p \in PeerType, p.phase = "chunks"
    PROVE  BaseEnd(p) = [p EXCEPT !.phase = "done"]
BY DEF BaseEnd, GetsChunk

(* A fresh response with a zlib stream is one that holds everything back. *)
LEMMA FreshStreams ==
    ASSUME Types, Wire, run = "running", response.zlib, use \in {"fresh", "stream"}
    PROVE  /\ response.encoding = "deflate"
           /\ peer.phase = IF response.headers_sent THEN "chunks" ELSE "status"
           /\ response.headers_sent => peer.encoding = "deflate"
           /\ peer.body \o response.pending = From(0, given)
<1>1. CASE use = "fresh"
  <2>1. FreshWire /\ FreshResponse
    BY <1>1 DEF Wire, FreshWire
  <2>2. << >> \o << >> = From(0, 0)
    <3>1. << >> \in Seq(Units)
      BY EmptySeq
    <3> QED BY <3>1, NoBody, ConcatEmptySeq
  <2>3. /\ peer.phase = "status" /\ peer.body = << >> /\ response.pending = << >> /\ given = 0
        /\ ~response.headers_sent /\ response.encoding = "deflate"
    BY <2>1 DEF FreshWire, FreshResponse, NewPeer
  <2> QED BY <2>2, <2>3
<1>2. CASE use = "stream"
  BY <1>2 DEF Wire, StreamWire, StreamResponse
<1> QED BY <1>1, <1>2
-----------------------------------------------------------------------------
(* The uses of a response over an open connection *)

LEMMA WriteKeepsWire ==
    ASSUME Types, NEW mw \in 1..Chain, Write(mw), sock = "open", Wire, "ended" \notin mishaps'
    PROVE  Wire'
<1>1. PICK n \in 0..(MaxBody - given), form \in Forms :
          /\ given' = given + n
          /\ IF response.zlib
             THEN WriteCompressed(n) /\ UNCHANGED mishaps
             ELSE WritePlain(From(given, n), Sent(form, From(given, n)))
  BY DEF Write
<1>2. n \in Nat /\ given \in Nat /\ given + n <= MaxBody
  BY <1>1, PassedIsSeq
<1>3. From(given, n) \in Seq(Units)
  BY <1>1, PassedIsSeq
<1>4. /\ response \in Response /\ peer \in PeerType /\ peer.body \in Seq(Units)
      /\ response.pending \in Seq(Units) /\ response.headers_sent \in BOOLEAN
  BY DEF Types, TypeOK, PeerType, Response
<1>5. From(0, given) \in Seq(Units) /\ From(0, given) \o From(given, n) = From(0, given + n)
  <2>1. 0 \in Nat /\ 0 + given <= MaxBody
    BY <1>2, ConstantsAssumption
  <2> QED BY <1>2, <2>1, FromIsSeq, BodyGrows
<1>6. run = "running" /\ run' = "running" /\ use \in {"fresh", "stream"} /\ use' = "stream"
  BY DEF Write, Uses, MayUse
<1>7. CASE response.zlib
  <2> DEFINE all == response.pending \o From(given, n)
  <2>1. all \in Seq(Units) /\ peer.body \o all = From(0, given')
    <3>1. /\ response.encoding = "deflate"
          /\ peer.body \o response.pending = From(0, given)
      BY <1>6, <1>7, FreshStreams
    <3>2. peer.body \o all = (peer.body \o response.pending) \o From(given, n)
      BY <1>3, <1>4, Associates
    <3> QED BY <1>1, <1>3, <1>4, <1>5, <3>1, <3>2, ConcatProperties
  <2>2. PICK k \in 0..Len(all) :
           /\ Transmit(CompressStream(peer, response, Front(all, k)))
           /\ response' = [response EXCEPT !.pending = Rest(all, k),
                                           !.headers_sent = @ \/ k > 0]
    <3>1. PICK k \in 0..(IF n = 0 THEN 0 ELSE Len(all)) :
             /\ Transmit(CompressStream(peer, response, SubSeq(all, 1, k)))
             /\ response' = [response EXCEPT !.pending = SubSeq(all, k + 1, Len(all)),
                                             !.headers_sent = @ \/ k > 0]
      BY <1>1, <1>7 DEF WriteCompressed
    <3>2. k \in 0..Len(all)
      <4>1. Len(all) \in Nat
        BY <2>1, LenProperties
      <4> HIDE DEF all
      <4> QED BY <3>1, <4>1
    <3> QED BY <3>1, <3>2 DEF Front, Rest
  <2> HIDE DEF all
  <2>3. /\ response'.zlib /\ response'.encoding = response.encoding
        /\ response'.pending = Rest(all, k)
        /\ response'.headers_sent = (response.headers_sent \/ k > 0)
    BY <1>4, <1>7, <2>2 DEF Response
  <2>4. /\ response.encoding = "deflate"
        /\ peer.phase = IF response.headers_sent THEN "chunks" ELSE "status"
        /\ response.headers_sent => peer.encoding = "deflate"
    BY <1>6, <1>7, FreshStreams
  <2>5. Len(all) \in Nat
    BY <2>1, LenProperties
  <2>6. peer' = CompressStream(peer, response, Front(all, k))
    BY <2>2, OpenTransmits
  <2>7. CASE k = 0
    <3>1. peer' = peer /\ response'.pending = all
      BY <2>1, <2>3, <2>6, <2>7, Split DEF CompressStream
    <3>2. response'.headers_sent = response.headers_sent
      BY <1>4, <2>3, <2>7
    <3> QED BY <1>4, <1>6, <2>1, <2>3, <2>4, <3>1, <3>2 DEF Wire, StreamWire, StreamResponse
  <2>8. CASE k > 0
    <3>1. /\ Front(all, k) \in Seq(Units) /\ Rest(all, k) \in Seq(Units)
          /\ Front(all, k) \o Rest(all, k) = all /\ Front(all, k) # << >>
      BY <2>1, <2>8, Split
    <3>2. peer' = BaseWrite(peer, response, Front(all, k))
      BY <2>6, <3>1 DEF CompressStream
    <3>3. /\ peer'.phase = "chunks" /\ peer'.encoding = "deflate"
          /\ peer'.body = peer.body \o Front(all, k)
      <4> DEFINE units == Front(all, k)
                 q == BaseWrite(peer, response, units)
      <4>1. units \in Seq(Units) /\ units # << >>
        BY <3>1
      <4> HIDE DEF units
      <4>2. q.phase = "chunks" /\ q.encoding = response.encoding /\ q.body = peer.body \o units
        BY <1>4, <2>4, <4>1, WrittenChunk
      <4> HIDE DEF q
      <4>3. peer' = q
        BY <3>2 DEF q, units
      <4> QED BY <2>4, <4>2, <4>3 DEF units
    <3>4. peer'.body \o response'.pending = From(0, given')
      <4>1. peer.body \o (Front(all, k) \o Rest(all, k))
              = (peer.body \o Front(all, k)) \o Rest(all, k)
        BY <1>4, <3>1, Associates
      <4> QED BY <2>1, <2>3, <3>1, <3>3, <4>1
    <3>5. response'.headers_sent
      BY <2>3, <2>8
    <3> QED BY <1>6, <2>3, <2>4, <3>3, <3>4, <3>5 DEF Wire, StreamWire, StreamResponse
  <2> QED BY <2>5, <2>7, <2>8
<1>8. CASE ~response.zlib
  <2> DEFINE passed == From(given, n)
             sent == Sent(form, passed)
             q == BaseWrite(peer, response, sent)
  <2>1. /\ response.encoding = "identity" \/ response.headers_sent
        /\ peer.phase = IF response.headers_sent THEN "chunks" ELSE "status"
        /\ response.headers_sent => peer.encoding = "identity"
        /\ Whole => peer.body = From(0, given)
    BY <1>6, <1>8, NoBody DEF Wire, FreshWire, FreshResponse, StreamWire, StreamResponse, NewPeer
  <2>2. WritePlain(passed, sent) /\ sent \in Seq(Units)
    BY <1>1, <1>3, <1>8, SentIsSeq
  <2> HIDE DEF passed, sent
  <2>3. sent # << >> /\ (Whole' => Whole /\ sent = passed)
    BY <2>2 DEF WritePlain, Mishaps, Whole
  <2>4. peer' = q
    BY <2>2, OpenTransmits DEF WritePlain
  <2>5. q.phase = "chunks" /\ q.encoding = "identity" /\ q.body = peer.body \o sent
    <3>1. CASE response.headers_sent
      <4>1. q = GetsChunk(peer, sent)
        BY <3>1 DEF BaseWrite, DoWrite, SendHeaders
      <4>2. q = [peer EXCEPT !.body = peer.body \o sent]
        BY <2>1, <2>3, <3>1, <4>1 DEF GetsChunk
      <4> QED BY <1>4, <2>1, <3>1, <4>2 DEF PeerType
    <3>2. CASE ~response.headers_sent
      <4>1. /\ peer.phase = IF response.headers_sent THEN "chunks" ELSE "status"
            /\ response.headers_sent => peer.encoding = response.encoding
        BY <2>1, <3>2
      <4>2. /\ q.phase = "chunks" /\ q.encoding = response.encoding
            /\ q.body = peer.body \o sent
        BY <1>4, <2>2, <2>3, <4>1, WrittenChunk
      <4> QED BY <2>1, <3>2, <4>2
    <3> QED BY <3>1, <3>2
  <2>6. response'.headers_sent /\ ~response'.zlib
    BY <1>4, <1>8, <2>2 DEF Response, WritePlain
  <2> HIDE DEF q
  <2>7. Whole' => peer'.body = From(0, given')
    BY <1>1, <1>5, <2>1, <2>3, <2>4, <2>5 DEF passed
  <2> QED BY <1>6, <2>4, <2>5, <2>6, <2>7 DEF Wire, StreamWire, StreamResponse
<1> QED BY <1>7, <1>8

LEMMA EndKeepsWire ==
    ASSUME Types, NEW mw \in 1..Chain, End(mw), sock = "open", Wire
    PROVE  Wire'
<1>1. /\ run = "running" /\ use = "stream" /\ use' = "complete" /\ UNCHANGED <<given, mishaps>>
      /\ Transmit(IF response.zlib THEN CompressEnd(peer, response) ELSE BaseEnd(peer))
  BY DEF End, Uses, MayUse
<1>2. /\ response \in Response /\ peer \in PeerType /\ peer.body \in Seq(Units)
      /\ response.pending \in Seq(Units)
  BY DEF Types, TypeOK, PeerType, Response
<1>3. CASE response.zlib
  <2>1. /\ response.encoding = "deflate"
        /\ peer.phase = IF response.headers_sent THEN "chunks" ELSE "status"
        /\ response.headers_sent => peer.encoding = "deflate"
        /\ peer.body \o response.pending = From(0, given)
    BY <1>1, <1>3, FreshStreams
  <2> DEFINE last == CompressOnce(response.pending)
             q == BaseWrite(peer, response, last)
  <2>2. <<EndOfStream>> \in Seq(Units) /\ <<EndOfStream>> # << >>
    BY ConstantsAssumption DEF EndOfStream, Units
  <2>3. last \in Seq(Units) /\ last # << >>
    BY <1>2, <2>2, ConcatProperties, ConcatEqualIffEmpty DEF CompressOnce
  <2>4. peer.body \o last = From(0, given) \o <<EndOfStream>>
    <3>1. peer.body \o last = (peer.body \o response.pending) \o <<EndOfStream>>
      BY <1>2, <2>2, Associates DEF CompressOnce
    <3> QED BY <2>1, <3>1
  <2> HIDE DEF last
  <2>5. q.phase = "chunks" /\ q.encoding = "deflate" /\ q.body = peer.body \o last
    BY <1>2, <2>1, <2>3, WrittenChunk
  <2>6. q \in PeerType
    BY <1>2, <2>3, BaseKeepsType
  <2> HIDE DEF q
  <2>7. peer' = BaseEnd(q)
    BY <1>1, <1>3, OpenTransmits DEF CompressEnd, q, last
  <2>8. peer' = [q EXCEPT !.phase = "done"]
    BY <2>5, <2>6, <2>7, EndedChunks
  <2>9. peer'.phase = "done" /\ peer'.encoding = "deflate" /\ peer'.body = peer.body \o last
    BY <2>5, <2>6, <2>8 DEF PeerType
  <2> QED BY <1>1, <2>4, <2>9 DEF Wire, CompleteWire, Decoded
<1>4. CASE ~response.zlib
  <2>1. /\ peer.phase = "chunks" /\ peer.encoding = "identity"
        /\ Whole => peer.body = From(0, given)
    BY <1>1, <1>4 DEF Wire, StreamWire, StreamResponse
  <2>2. peer' = [peer EXCEPT !.phase = "done"]
    BY <1>1, <1>2, <1>4, <2>1, OpenTransmits, EndedChunks
  <2>3. /\ peer'.phase = "done" /\ peer'.encoding = "identity"
        /\ Whole => peer'.body = From(0, given)
    BY <1>2, <2>1, <2>2 DEF PeerType
  <2> QED BY <1>1, <2>3 DEF Wire, CompleteWire, Decoded, Whole
<1> QED BY <1>3, <1>4

LEMMA SendKeepsWire ==
    ASSUME Types, NEW mw \in 1..Chain, Send(mw), sock = "open", Wire
    PROVE  Wire'
<1>1. PICK n \in 0..MaxBody, form \in Forms :
         /\ given' = n
         /\ IF response.zlib THEN SendCompressed(From(0, n))
                             ELSE SendPlain(From(0, n), Sent(form, From(0, n)))
  BY DEF Send
<1>2. use = "fresh" /\ run = "running" /\ use' = "complete"
  BY DEF Send, Uses, MayUse
<1>3. /\ peer = NewPeer /\ ~response.headers_sent
      /\ response.encoding = IF response.zlib THEN "deflate" ELSE "identity"
  BY <1>2 DEF Wire, FreshWire, FreshResponse
<1>4. From(0, n) \in Seq(Units) /\ response \in Response
  BY FromIsSeq, ConstantsAssumption DEF Types, TypeOK
<1>5. CASE response.zlib
  <2> DEFINE units == CompressOnce(From(0, n))
  <2>1. units \in Seq(Units)
    BY <1>4, NewPeerType, CompressionKeepsType
  <2>2. Transmit(BaseSend(peer, response, units))
    BY <1>1, <1>5 DEF SendCompressed
  <2> HIDE DEF units
  <2>3. peer' = BaseSend(NewPeer, response, units)
    BY <1>3, <2>2, OpenTransmits
  <2>4. peer' = [phase |-> "done", left |-> 0, encoding |-> response.encoding, body |-> units]
    BY <1>3, <1>4, <2>1, <2>3, SentWhole
  <2>5. peer'.phase = "done" /\ peer'.encoding = "deflate" /\ peer'.body = units
    BY <1>3, <1>5, <2>4
  <2>6. Decoded'
    BY <1>1, <2>5 DEF Decoded, units, CompressOnce
  <2> QED BY <1>2, <2>5, <2>6 DEF Wire, CompleteWire
<1>6. CASE ~response.zlib
  <2> DEFINE passed == From(0, n)
             sent == Sent(form, passed)
  <2>1. SendPlain(passed, sent) /\ sent \in Seq(Units)
    BY <1>1, <1>4, <1>6, SentIsSeq
  <2> HIDE DEF passed, sent
  <2>2. Whole' => sent = passed
    BY <2>1 DEF SendPlain, Mishaps, Whole
  <2>3. peer' = BaseSend(NewPeer, response, sent)
    BY <1>3, <2>1, OpenTransmits DEF SendPlain
  <2>4. peer' = [phase |-> "done", left |-> 0, encoding |-> response.encoding, body |-> sent]
    BY <1>3, <1>4, <2>1, <2>3, SentWhole
  <2>5. peer'.phase = "done" /\ peer'.encoding = "identity" /\ peer'.body = sent
    BY <1>3, <1>6, <2>4
  <2>6. Whole' => Decoded'
    BY <1>1, <2>2, <2>5 DEF Decoded, passed
  <2> QED BY <1>2, <2>5, <2>6 DEF Wire, CompleteWire
<1> QED BY <1>5, <1>6

LEMMA SendFileKeepsWire ==
    ASSUME Types, NEW mw \in 1..Chain, SendFile(mw), sock = "open", Wire
    PROVE  Wire'
<1>1. PICK n \in 1..MaxBody :
         /\ file' = n
         /\ Transmit(SendHeaders(peer, [response EXCEPT !.length = n,
                                            !.encoding = "identity"], FALSE))
         /\ use' = "file"
  BY DEF SendFile
<1>2. use = "fresh" /\ run = "running" /\ given' = given
  BY DEF SendFile, Uses, MayUse
<1>3. peer = NewPeer /\ given = 0 /\ ~response.headers_sent /\ response \in Response
  BY <1>2 DEF Wire, FreshWire, FreshResponse, Types, TypeOK
<1> DEFINE announced == [response EXCEPT !.length = n, !.encoding = "identity"]
<1>4. announced.length = n /\ announced.encoding = "identity" /\ ~announced.headers_sent
  BY <1>3 DEF Response
<1> HIDE DEF announced
<1>5. peer' = SendHeaders(NewPeer, announced, FALSE)
  BY <1>1, <1>3, OpenTransmits DEF announced
<1>6. NewPeer.phase = "status" /\ n # 0
  BY DEF NewPeer
<1>7. peer' = [NewPeer EXCEPT !.encoding = "identity", !.left = n, !.phase = "body"]
  BY <1>4, <1>5, <1>6 DEF SendHeaders, GetsHeaders
<1>8. /\ peer'.phase = "body" /\ peer'.left = n /\ peer'.encoding = "identity"
      /\ peer'.body = From(0, 0)
  BY <1>7, NoBody DEF NewPeer
<1>9. n > 0 /\ 0 + n <= MaxBody
  BY ConstantsAssumption
<1> QED BY <1>1, <1>2, <1>3, <1>8, <1>9 DEF Wire, FileWire

LEMMA SendFilePieceKeepsWire ==
    ASSUME Types, NEW mw \in 1..Chain, SendFilePiece(mw), sock = "open", Wire
    PROVE  Wire'
<1>1. PICK n \in 1..file :
         /\ Transmit(GetsRaw(peer, From(given, n)))
         /\ given' = given + n /\ file' = file - n
         /\ use' = IF n = file THEN "complete" ELSE "file"
  BY DEF SendFilePiece
<1>2. FileWire
  BY DEF SendFilePiece, Uses, Wire
<1>3. /\ n \in Nat \ {0} /\ given \in Nat /\ file \in Nat /\ given + n <= MaxBody
      /\ n <= file /\ given + file <= MaxBody /\ peer \in PeerType
  BY <1>2, ConstantsAssumption DEF FileWire, Types, TypeOK, PeerType
<1>4. /\ From(given, n) \in Seq(Units) /\ Len(From(given, n)) = n /\ From(given, n) # << >>
      /\ From(0, given) \o From(given, n) = From(0, given + n)
  BY <1>3, FromIsSeq, EmptySeq, BodyGrows
<1>5. peer' = [peer EXCEPT !.body = peer.body \o From(given, n), !.left = peer.left - n,
                           !.phase = IF n = peer.left THEN "done" ELSE "body"]
  <2>1. peer' = GetsRaw(peer, From(given, n))
    BY <1>1, OpenTransmits
  <2>2. peer.phase = "body" /\ ~(n > peer.left)
    BY <1>2, <1>3 DEF FileWire
  <2> QED BY <1>4, <2>1, <2>2 DEF GetsRaw
<1>6. /\ peer'.encoding = "identity" /\ peer'.body = From(0, given')
      /\ peer'.left = file' /\ peer'.phase = IF n = file THEN "done" ELSE "body"
  BY <1>1, <1>2, <1>3, <1>4, <1>5 DEF FileWire, PeerType
<1>7. n # file => file' > 0 /\ given' + file' <= MaxBody
  BY <1>1, <1>3
<1> QED BY <1>1, <1>6, <1>7 DEF Wire, FileWire, CompleteWire, Decoded
-----------------------------------------------------------------------------
(* Every step *)

IInv == Types /\ ChainInv /\ FirstUse /\ WireInv

(* Compression uses the response in no way but by replacing it. *)
LEMMA UsersAreBehindCompression ==
    ASSUME Types, ChainInv, NEW mw \in 1..Chain, MayUse(mw), mw # CompressionAt,
           CompressionAt = 1
    PROVE  response.id # 1
<1>1. stack \in Seq([mw : 1..Chain, response : 1..2]) /\ stack # << >> /\ Top.mw = mw
      /\ run = "running"
  BY DEF MayUse, Types, TypeOK
<1>2. Len(stack) \in 1..Len(stack)
  <2>1. Len(stack) \in Nat \ {0}
    BY <1>1, EmptySeq
  <2> QED BY <2>1
<1>3. mw <= pos_cur_handler /\ pos_cur_handler \in Nat
  <2>1. \A i \in 1..Len(stack) : stack[i].mw <= pos_cur_handler
    BY <1>1 DEF ChainInv
  <2>2. stack[Len(stack)].mw = mw
    BY <1>1 DEF Top
  <2>3. pos_cur_handler \in Nat
    BY ConstantsAssumption DEF Types, TypeOK
  <2> QED BY ONLY <1>2, <2>1, <2>2, <2>3
<1>4. response.id = 1 => \/ CompressionAt = 0 \/ pos_cur_handler < CompressionAt
                        \/ (pos_cur_handler = CompressionAt /\ Top.mw = CompressionAt)
  BY <1>1 DEF ChainInv
<1>5. mw \in Nat \ {0}
  OBVIOUS
<1> QED BY ONLY <1>1, <1>3, <1>4, <1>5, mw # CompressionAt, CompressionAt = 1

LEMMA UseKeepsInv ==
    ASSUME IInv, NEW mw \in 1..Chain,
           Write(mw) \/ End(mw) \/ Send(mw) \/ SendFile(mw) \/ SendFilePiece(mw)
    PROVE  FirstUse' /\ WireInv'
<1>1. /\ MayUse(mw) /\ mw # CompressionAt /\ run = "running" /\ use # "complete"
      /\ UNCHANGED <<run, ctxVars, sock, responses>>
  BY DEF Write, End, Send, SendFile, SendFilePiece, Uses, MayUse
<1>2. response'.id = response.id
  <2>1. response \in Response
    BY DEF IInv, Types, TypeOK
  <2> QED BY <2>1 DEF Write, WriteCompressed, WritePlain, End, Send, SendFile, SendFilePiece, Response
<1>3. FirstUse'
  <2>1. CompressionAt = 1 => response.id # 1
    BY <1>1, UsersAreBehindCompression DEF IInv
  <2> QED BY <1>2, <2>1 DEF FirstUse
<1>4. \E p : Transmit(p)
  <2>1. CASE Write(mw)
    <3>1. CASE response.zlib
      BY <2>1, <3>1 DEF Write, WriteCompressed
    <3>2. CASE ~response.zlib
      BY <2>1, <3>2 DEF Write, WritePlain
    <3> QED BY <3>1, <3>2
  <2>2. CASE Send(mw)
    <3>1. CASE response.zlib
      BY <2>2, <3>1 DEF Send, SendCompressed
    <3>2. CASE ~response.zlib
      BY <2>2, <3>2 DEF Send, SendPlain
    <3> QED BY <3>1, <3>2
  <2> QED BY <2>1, <2>2 DEF End, SendFile, SendFilePiece
<1>5. mishaps \subseteq mishaps'
  <2>1. CASE Write(mw)
    <3>1. CASE response.zlib
      BY <2>1, <3>1 DEF Write
    <3>2. CASE ~response.zlib
      BY <2>1, <3>2 DEF Write, WritePlain
    <3> QED BY <3>1, <3>2
  <2>2. CASE Send(mw)
    <3>1. CASE response.zlib
      BY <2>2, <3>1 DEF Send, SendCompressed
    <3>2. CASE ~response.zlib
      BY <2>2, <3>2 DEF Send, SendPlain
    <3> QED BY <3>1, <3>2
  <2> QED BY <2>1, <2>2 DEF End, SendFile, SendFilePiece
<1>6. sock = "open" /\ Wire /\ "ended" \notin mishaps' => Wire'
  BY WriteKeepsWire, EndKeepsWire, SendKeepsWire, SendFileKeepsWire,
     SendFilePieceKeepsWire DEF IInv
<1>7. WireInv'
  BY <1>1, <1>4, <1>5, <1>6, WireUsed DEF IInv
<1> QED BY <1>3, <1>7

LEMMA CompressionKeepsInv ==
    ASSUME IInv, CompressionAt \in {0, 1}, CompressionHandler
    PROVE  FirstUse' /\ WireInv'
<1>1. /\ run = "running" /\ run' = "running" /\ stack # << >> /\ Top.mw = CompressionAt
      /\ response.id = Top.response /\ UNCHANGED <<given, mishaps, use, file, sock, peer, responses>>
  BY DEF CompressionHandler, MayUse
<1>2. PICK agreed \in BOOLEAN : response' = DecideEncoding(agreed)
  BY DEF CompressionHandler
<1>3. FirstUse'
  BY <1>2 DEF FirstUse, DecideEncoding, NewResponse
<1>4. use = "fresh"
  <2>1. Len(stack) \in 1..Len(stack)
    <3>1. stack \in Seq([mw : 1..Chain, response : 1..2])
      BY DEF IInv, Types, TypeOK
    <3>2. Len(stack) \in Nat \ {0}
      BY <1>1, <3>1, EmptySeq
    <3> QED BY <3>2
  <2>2. Top \in [mw : 1..Chain, response : 1..2]
    BY <2>1, ElementOfSeq DEF IInv, Types, TypeOK, Top
  <2>3. CompressionAt = 1
    BY <1>1, <2>2
  <2>4. Top.response = ResponseOf(1)
    BY <1>1, <2>1, <2>3 DEF IInv, ChainInv, Top
  <2>5. response.id = 1
    BY <1>1, <2>3, <2>4 DEF ResponseOf
  <2> QED BY <1>1, <2>3, <2>5 DEF IInv, FirstUse
<1>5. FreshResponse'
  BY <1>2 DEF FreshResponse, DecideEncoding, NewResponse
<1>6. Wire => Wire'
  BY <1>1, <1>4, <1>5 DEF Wire, FreshWire
<1>7. (Decoded => Decoded') /\ (Whole' => Whole)
  BY <1>1 DEF Decoded, Whole
<1>8. responses # 0
  BY <1>1 DEF IInv, WireInv
<1> QED BY <1>1, <1>3, <1>6, <1>7, <1>8 DEF IInv, WireInv

LEMMA RunHandlerKeepsInv ==
    ASSUME IInv, RunHandler
    PROVE  FirstUse' /\ WireInv'
<1>1. FirstUse'
  BY DEF FirstUse, RunHandler
<1>2. responses' # 0
  BY DEF RunHandler, IInv, Types, TypeOK
<1>3. Wire' /\ peer'.phase = "status"
  BY DEF RunHandler, Wire, FreshWire, FreshResponse, NewResponse, NewPeer
<1> QED BY <1>1, <1>2, <1>3 DEF WireInv

LEMMA DefaultPageKeepsInv ==
    ASSUME IInv, UseDefaultStatusPage
    PROVE  FirstUse' /\ WireInv'
<1>1. FirstUse'
  BY DEF FirstUse, UseDefaultStatusPage
<1>2. responses' # 0 /\ sock = "open" /\ use' = "complete"
  BY DEF UseDefaultStatusPage, IInv, Types, TypeOK
<1>3. PICK n \in 1..MaxBody :
         given' = n /\ Transmit(BaseSend(NewPeer, NewResponse(1), From(0, n)))
  BY DEF UseDefaultStatusPage
<1>4. From(0, n) \in Seq(Units) /\ NewResponse(1) \in Response
  BY FromIsSeq, NewResponseType, ConstantsAssumption
<1>5. ~NewResponse(1).headers_sent /\ NewResponse(1).encoding = "identity"
  BY DEF NewResponse
<1>6. peer' = [phase |-> "done", left |-> 0, encoding |-> "identity", body |-> From(0, n)]
  BY <1>2, <1>3, <1>4, <1>5, OpenTransmits, SentWhole
<1>7. peer'.phase = "done" /\ Decoded'
  BY <1>3, <1>6 DEF Decoded
<1> QED BY <1>1, <1>2, <1>7 DEF WireInv, Wire, CompleteWire

LEMMA OtherKeepsInv ==
    ASSUME IInv, UNCHANGED <<given, mishaps, use, file, peer, responses>>,
           run' = "running" => run = "running" /\ response' = response,
           sock' = "open" => sock = "open",
           run = "idle" => run' = "idle"
    PROVE  FirstUse' /\ WireInv'
<1>1. FirstUse'
  BY DEF IInv, FirstUse
<1> QED BY <1>1, WireUndisturbed DEF IInv

LEMMA NextKeepsInv ==
    ASSUME IInv, [Next]_vars, CompressionAt \in {0, 1}
    PROVE  IInv'
<1>1. Types' /\ ChainInv'
  BY NextKeepsTypesAndChain DEF IInv
<1>2. FirstUse' /\ WireInv'
  <2>1. ASSUME NEW mw \in 1..Chain, CallNext(mw) \/ Return(mw) \/ Throw(mw)
        PROVE  FirstUse' /\ WireInv'
    BY <2>1, OtherKeepsInv DEF CallNext, Return, Throw, MayUse, bodyVars
  <2>2. ASSUME NEW mw \in 1..Chain,
               Write(mw) \/ End(mw) \/ Send(mw) \/ SendFile(mw) \/ SendFilePiece(mw)
        PROVE  FirstUse' /\ WireInv'
    BY <2>2, UseKeepsInv
  <2>3. CASE CompressionHandler
    BY <2>3, CompressionKeepsInv
  <2>4. CASE RunHandler
    BY <2>4, RunHandlerKeepsInv
  <2>5. CASE UseDefaultStatusPage
    BY <2>5, DefaultPageKeepsInv
  <2>6. CASE ReloadContext
    BY <2>6, OtherKeepsInv DEF ReloadContext
  <2>7. CASE ConnectionBreaks
    BY <2>7, OtherKeepsInv DEF ConnectionBreaks, bodyVars
  <2>8. CASE UNCHANGED vars
    BY <2>8, OtherKeepsInv DEF vars, bodyVars
  <2> QED BY <2>1, <2>2, <2>3, <2>4, <2>5, <2>6, <2>7, <2>8 DEF Next
<1> QED BY <1>1, <1>2 DEF IInv

LEMMA InitInv == Init => IInv
<1> SUFFICES ASSUME Init PROVE IInv
  OBVIOUS
<1>1. Types /\ ChainInv
  BY InitTypes, InitChain
<1>2. FirstUse
  BY DEF Init, FirstUse
<1>3. WireInv
  BY DEF Init, WireInv, NewPeer
<1> QED BY <1>1, <1>2, <1>3 DEF IInv

LEMMA Invariant ==
    ASSUME CompressionAt \in {0, 1}
    PROVE  Spec => []IInv
<1>1. IInv /\ [Next]_vars => IInv'
  BY NextKeepsInv
<1> QED BY <1>1, InitInv, PTL DEF Spec

(* Response.cpp and Compression.cpp, with Compression in front of the other
   middlewares or absent: however they write, in whatever form, and whatever
   deflate holds back, the client meets no byte it cannot place, unless a chunk
   without data has ended the body before. *)
THEOREM ClientsAreNeverConfused ==
    ASSUME CompressionAt \in {0, 1}
    PROVE  Spec => []NeverGarbled
<1>1. IInv => NeverGarbled
  BY DEF IInv, WireInv, NeverGarbled
<1> QED BY <1>1, Invariant, PTL

(* With the same: a response that the middlewares completed on a connection
   that lives, and that no chunk without data has ended, is complete for the
   client, who decodes what they passed, unless a call by pointer has cut it. *)
THEOREM CompleteResponsesAreDecoded ==
    ASSUME CompressionAt \in {0, 1}
    PROVE  Spec => []CompleteResponseIsDecoded
<1>1. IInv => CompleteResponseIsDecoded
  <2> SUFFICES ASSUME IInv, use = "complete", sock = "open", "ended" \notin mishaps
               PROVE  peer.phase = "done" /\ ("cut" \in mishaps \/ Decoded)
    BY DEF CompleteResponseIsDecoded
  <2>1. responses > 0
    BY DEF IInv, WireInv, Types, TypeOK
  <2> QED BY <2>1 DEF IInv, WireInv, Wire, CompleteWire, Whole
<1> QED BY <1>1, Invariant, PTL

(* With the same, and whenever the connection breaks: a client that takes a
   response to be over has got all of it, but for the same two mishaps. *)
THEOREM DoneResponsesAreComplete ==
    ASSUME CompressionAt \in {0, 1}
    PROVE  Spec => []DoneMeansComplete
<1>1. IInv => DoneMeansComplete
  BY DEF IInv, WireInv, DoneMeansComplete, Whole
<1> QED BY <1>1, Invariant, PTL
=============================================================================
