-------------------------- MODULE RequestPathProofs --------------------------
(***************************************************************************)
(* Theorems about RequestPath, for any number of requests of any sizes, cut *)
(* into any pieces.  Every byte of the request that is being served is in  *)
(* one of four places, in this order: what the handler has read, what the  *)
(* parser holds of the body, the socket, and before them all the header.   *)
(***************************************************************************)
EXTENDS RequestPath, SequenceTheorems, TLAPS

(* The bytes m + 1 to n of request k. *)
Piece(k, m, n) == [i \in 1..(n - m) |-> [req |-> k, pos |-> m + i]]

LEMMA PieceIsSeq ==
    ASSUME NEW k \in Nat, NEW m \in Nat, NEW n \in Nat, m <= n
    PROVE  /\ Piece(k, m, n) \in Seq(Byte) /\ Len(Piece(k, m, n)) = n - m
           /\ \A i \in 1..(n - m) : Piece(k, m, n)[i] = [req |-> k, pos |-> m + i]
  BY DEF Piece, Byte

LEMMA PieceEmpty ==
    ASSUME NEW k \in Nat, NEW m \in Nat, NEW n \in Nat, m <= n
    PROVE  Piece(k, m, n) = << >> <=> m = n
  <1>1. Piece(k, m, n) \in Seq(Byte) /\ Len(Piece(k, m, n)) = n - m
    BY PieceIsSeq
  <1> QED
    BY <1>1

(* Two pieces that meet are one. *)
LEMMA PieceConcat ==
    ASSUME NEW k \in Nat, NEW m \in Nat, NEW n \in Nat, NEW o \in Nat, m <= n, n <= o
    PROVE  Piece(k, m, n) \o Piece(k, n, o) = Piece(k, m, o)
  <1> DEFINE s == Piece(k, m, n)
             t == Piece(k, n, o)
             u == Piece(k, m, o)
  <1>0. m <= o
    OBVIOUS
  <1>1. /\ s \in Seq(Byte) /\ Len(s) = n - m
        /\ \A i \in 1..(n - m) : s[i] = [req |-> k, pos |-> m + i]
    BY PieceIsSeq
  <1>2. /\ t \in Seq(Byte) /\ Len(t) = o - n
        /\ \A i \in 1..(o - n) : t[i] = [req |-> k, pos |-> n + i]
    BY PieceIsSeq
  <1>3. /\ u \in Seq(Byte) /\ Len(u) = o - m
        /\ \A i \in 1..(o - m) : u[i] = [req |-> k, pos |-> m + i]
    BY <1>0, PieceIsSeq
  <1> HIDE DEF s, t, u
  <1>4. /\ s \o t \in Seq(Byte) /\ Len(s \o t) = Len(s) + Len(t)
        /\ \A i \in 1..(Len(s) + Len(t)) :
              (s \o t)[i] = IF i <= Len(s) THEN s[i] ELSE t[i - Len(s)]
    <2>1. s \in Seq(Byte) /\ t \in Seq(Byte)
      BY <1>1, <1>2
    <2> QED
      BY <2>1, ConcatProperties
  <1>5. ASSUME NEW i \in 1..Len(s \o t)
        PROVE  (s \o t)[i] = u[i]
    <2>0. i \in 1..(o - m) /\ u[i] = [req |-> k, pos |-> m + i]
      BY <1>1, <1>2, <1>3, <1>4
    <2>1. CASE i <= n - m
      <3>1. (s \o t)[i] = s[i] /\ i \in 1..(n - m)
        BY <1>1, <1>2, <1>4, <2>0, <2>1
      <3> QED
        BY <1>1, <2>0, <3>1
    <2>2. CASE i > n - m
      <3>1. (s \o t)[i] = t[i - (n - m)] /\ i - (n - m) \in 1..(o - n)
        BY <1>1, <1>2, <1>4, <2>0, <2>2
      <3>2. t[i - (n - m)] = [req |-> k, pos |-> n + (i - (n - m))]
        BY <1>2, <3>1
      <3>3. n + (i - (n - m)) = m + i
        BY <2>0
      <3> QED
        BY <2>0, <3>1, <3>2, <3>3
    <2> QED
      BY <2>0, <2>1, <2>2
  <1>6. s \o t = u
    <2>1. Len(s \o t) = Len(u)
      BY <1>1, <1>2, <1>3, <1>4
    <2> QED
      BY <1>3, <1>4, <1>5, <2>1, SeqEqual
  <1> QED
    BY <1>6 DEF s, t, u

(* A piece is cut into two, as a read does with what has arrived. *)
Front(s, n) == SubSeq(s, 1, n)
Rest(s, n) == SubSeq(s, n + 1, Len(s))

LEMMA PieceFront ==
    ASSUME NEW k \in Nat, NEW m \in Nat, NEW n \in Nat, m <= n,
           NEW j \in Nat, j <= n - m
    PROVE  Front(Piece(k, m, n), j) = Piece(k, m, m + j)
  <1> DEFINE s == Piece(k, m, n)
             f == SubSeq(s, 1, j)
             g == Piece(k, m, m + j)
  <1>1. /\ s \in Seq(Byte) /\ Len(s) = n - m
        /\ \A i \in 1..(n - m) : s[i] = [req |-> k, pos |-> m + i]
    BY PieceIsSeq
  <1>2. /\ g \in Seq(Byte) /\ Len(g) = j
        /\ \A i \in 1..j : g[i] = [req |-> k, pos |-> m + i]
    <2>1. m + j \in Nat /\ m <= m + j /\ (m + j) - m = j
      OBVIOUS
    <2>2. /\ g \in Seq(Byte) /\ Len(g) = (m + j) - m
          /\ \A i \in 1..((m + j) - m) : g[i] = [req |-> k, pos |-> m + i]
      BY <2>1, PieceIsSeq
    <2> HIDE DEF g
    <2> QED
      BY <2>1, <2>2
  <1> HIDE DEF s, g
  <1>3. \A i \in 1..j : s[i] \in Byte
    BY <1>1, ElementOfSeq
  <1>4. f \in Seq(Byte) /\ Len(f) = j /\ \A i \in 1..j : f[i] = s[i]
    BY <1>3, SubSeqProperties
  <1> HIDE DEF f
  <1>5. ASSUME NEW i \in 1..j PROVE f[i] = g[i]
    <2>1. i \in 1..(n - m)
      OBVIOUS
    <2> QED
      BY <1>1, <1>2, <1>4, <2>1
  <1>6. f = g
    <2>1. Len(f) = Len(g) /\ \A i \in 1..Len(f) : f[i] = g[i]
      BY <1>2, <1>4, <1>5
    <2> QED
      BY <1>2, <1>4, <2>1, SeqEqual
  <1> QED
    BY <1>6 DEF f, g, s, Front

LEMMA PieceBack ==
    ASSUME NEW k \in Nat, NEW m \in Nat, NEW n \in Nat, m <= n,
           NEW j \in Nat, j <= n - m
    PROVE  Rest(Piece(k, m, n), j) = Piece(k, m + j, n)
  <1> DEFINE s == Piece(k, m, n)
             b == SubSeq(s, j + 1, n - m)
             g == Piece(k, m + j, n)
  <1>1. /\ s \in Seq(Byte) /\ Len(s) = n - m
        /\ \A i \in 1..(n - m) : s[i] = [req |-> k, pos |-> m + i]
    BY PieceIsSeq
  <1>2. /\ g \in Seq(Byte) /\ Len(g) = n - (m + j)
        /\ \A i \in 1..(n - (m + j)) : g[i] = [req |-> k, pos |-> (m + j) + i]
    <2>1. m + j \in Nat /\ m + j <= n
      OBVIOUS
    <2> QED
      BY <2>1, PieceIsSeq
  <1> HIDE DEF s, g
  <1>3. \A i \in (j + 1)..(n - m) : s[i] \in Byte
    BY <1>1, ElementOfSeq
  <1>4. b \in Seq(Byte) /\ Len(b) = n - (m + j)
        /\ \A i \in 1..(n - (m + j)) : b[i] = s[j + i]
    BY <1>3, SubSeqProperties
  <1> HIDE DEF b
  <1>5. ASSUME NEW i \in 1..(n - (m + j)) PROVE b[i] = g[i]
    <2>1. j + i \in 1..(n - m) /\ m + (j + i) = (m + j) + i
      OBVIOUS
    <2>2. b[i] = s[j + i] /\ g[i] = [req |-> k, pos |-> (m + j) + i]
      BY <1>2, <1>4
    <2>3. s[j + i] = [req |-> k, pos |-> m + (j + i)]
      BY <1>1, <2>1
    <2> QED
      BY <2>1, <2>2, <2>3
  <1>6. b = g
    BY <1>2, <1>4, <1>5, SeqEqual
  <1> QED
    BY <1>1, <1>6 DEF b, g, s, Rest

-----------------------------------------------------------------------------
(* The inductive invariant.  Req is the request served, the last one sent. *)

Types ==
    /\ sent \in Seq(Request)
    /\ answered \in Seq([req : Nat, by : {"handler", "page"}, seen : Seq(Byte)])
    /\ phase \in {"reading", "handling", "closed"}

NumSent == Len(sent)
Req == sent[NumSent]
Size(r) == r.header + r.body

(* Request i was the i-th to be answered; its handler saw a beginning of its
   body, all of it if handlers read to the end. *)
AnswerShape ==
    /\ Len(answered) <= NumSent
    /\ \A i \in 1..Len(answered) :
          /\ answered[i].req = i
          /\ answered[i].by = "handler" =>
                \E n \in 0..sent[i].body :
                    /\ answered[i].seen = Piece(i, sent[i].header, sent[i].header + n)
                    /\ ReadsWholeBody => n = sent[i].body

Blank == parsed = << >> /\ body = << >> /\ got = << >> /\ route = "none" /\ flags = {}

(* The last request is answered and none of its bytes is left. *)
Between == phase = "reading" /\ Blank /\ socket = << >> /\ Len(answered) = NumSent

Served == NumSent > 0 /\ Len(answered) = NumSent - 1

(* The parser has the bytes up to p, the socket those behind it. *)
Reading ==
    /\ Served /\ phase = "reading" /\ got = << >>
    /\ \E p \in 0..Size(Req) :
          /\ parsed = Piece(NumSent, 0, p) /\ socket = Piece(NumSent, p, Size(Req))
          /\ Req.malformed => p < Req.header
          /\ \/ route = "none" /\ flags = {} /\ body = << >> /\ p < Req.header
             \/ /\ route = "buffered" /\ "NOT_STREAMED" \in flags
                /\ Req.header <= p /\ p < Size(Req)
                /\ body = Piece(NumSent, Req.header, p)

(* The whole body is in the parser. *)
HandlingBuffered ==
    /\ route = "buffered" /\ got = << >> /\ socket = << >>
    /\ parsed = Piece(NumSent, 0, Size(Req))
    /\ body = Piece(NumSent, Req.header, Size(Req))

(* The handler has the bytes of the body up to b, the parser those up to q. *)
HandlingStreamed ==
    /\ route = "streamed"
    /\ \E p \in Req.header..Size(Req) : parsed = Piece(NumSent, 0, p)
    /\ \E b, q \in Req.header..Size(Req) :
          /\ b <= q
          /\ got = Piece(NumSent, Req.header, b) /\ body = Piece(NumSent, b, q)
          /\ socket = Piece(NumSent, q, Size(Req))

Handling == Served /\ phase = "handling" /\ (HandlingBuffered \/ HandlingStreamed)

(* A handler has left bytes of its body in the socket: the next that are read
   are not the beginning of a request. *)
Leftover ==
    /\ ~ReadsWholeBody /\ phase = "reading" /\ Blank
    /\ socket \in Seq(Byte) /\ socket # << >> /\ socket[1].pos > 1

Progress == phase # "closed" => Between \/ Reading \/ Handling \/ Leftover

Reason ==
    why = "parse" =>
        /\ phase = "closed"
        /\ ReadsWholeBody => NumSent > 0 /\ Req.malformed

IInv == Types /\ AnswerShape /\ Progress /\ Reason

-----------------------------------------------------------------------------
(* What the parser makes of a beginning of the request. *)

LEMMA RequestTypes ==
    ASSUME NEW r \in Request
    PROVE  /\ r.header \in Nat \ {0} /\ r.body \in Nat /\ Size(r) \in Nat
           /\ r.malformed \in BOOLEAN /\ r.keepalive \in BOOLEAN
           /\ r.header <= Size(r)
  <1>1. r.header \in Nat \ {0} /\ r.body \in Nat
    BY ConstantsAssumption DEF Request
  <1> QED
    BY <1>1 DEF Request, Size

LEMMA ReqTypes ==
    ASSUME Types, NumSent > 0
    PROVE  /\ NumSent \in Nat \ {0} /\ Req \in Request
           /\ Req.header \in Nat \ {0} /\ Req.body \in Nat /\ Size(Req) \in Nat
           /\ Req.malformed \in BOOLEAN /\ Req.header <= Size(Req)
           /\ Size(Req) = Req.header + Req.body
  <1>1. NumSent \in Nat \ {0} /\ NumSent \in 1..Len(sent)
    BY DEF Types, NumSent
  <1>2. Req \in Request
    BY <1>1, ElementOfSeq DEF Types, Req
  <1> QED
    BY <1>1, <1>2, RequestTypes DEF Size

LEMMA BytesArePieces ==
    ASSUME NEW k \in Nat, NEW r \in Request
    PROVE  /\ Bytes(k, r) = Piece(k, 0, Size(r))
           /\ BodyBytes(k, r) = Piece(k, r.header, r.header + r.body)
  <1>1. r.header \in Nat /\ r.body \in Nat
    BY RequestTypes
  <1>2. (r.header + r.body) - 0 = r.header + r.body /\ (r.header + r.body) - r.header = r.body
    BY <1>1
  <1>3. \A i \in 1..(r.header + r.body) : 0 + i = i
    BY <1>1
  <1> QED
    BY <1>2, <1>3 DEF Bytes, BodyBytes, Piece, Size

LEMMA ParserOnPiece ==
    ASSUME Types, NumSent > 0, NEW m \in 1..Size(Req)
    PROVE  /\ Piece(NumSent, 0, m) # << >>
           /\ Piece(NumSent, 0, m)[1].req = NumSent
           /\ WellFormed(Piece(NumSent, 0, m)) <=> (Req.malformed => m < Req.header)
           /\ HeadersFinished(Piece(NumSent, 0, m)) <=> m >= Req.header
           /\ Finished(Piece(NumSent, 0, m)) <=> m >= Size(Req)
           /\ m >= Req.header =>
                 BodyPart(Piece(NumSent, 0, m)) = Piece(NumSent, Req.header, m)
           /\ m < Req.header => BodyPart(Piece(NumSent, 0, m)) = << >>
  <1> DEFINE P == Piece(NumSent, 0, m)
  <1>1. /\ NumSent \in Nat \ {0} /\ Req.header \in Nat \ {0} /\ Req.body \in Nat
        /\ Size(Req) = Req.header + Req.body /\ Req.malformed \in BOOLEAN
    BY ReqTypes
  <1>2. m \in Nat /\ m > 0 /\ m - 0 = m /\ 0 \in Nat /\ 0 <= m
    BY <1>1
  <1>3. /\ P \in Seq(Byte) /\ Len(P) = m
        /\ \A i \in 1..m : P[i] = [req |-> NumSent, pos |-> 0 + i]
    <2>1. \A k \in Nat :
             /\ Piece(k, 0, m) \in Seq(Byte) /\ Len(Piece(k, 0, m)) = m - 0
             /\ \A i \in 1..(m - 0) : Piece(k, 0, m)[i] = [req |-> k, pos |-> 0 + i]
      BY <1>2, PieceIsSeq
    <2>2. /\ P \in Seq(Byte) /\ Len(P) = m - 0
          /\ \A i \in 1..(m - 0) : P[i] = [req |-> NumSent, pos |-> 0 + i]
      BY <1>1, <2>1
    <2> HIDE DEF P
    <2> QED
      BY <1>2, <2>2
  <1>4. m >= Req.header => SubSeq(P, Req.header + 1, Len(P)) = Piece(NumSent, Req.header, m)
    <2> SUFFICES ASSUME m >= Req.header
                 PROVE  SubSeq(P, Req.header + 1, Len(P)) = Piece(NumSent, Req.header, m)
      OBVIOUS
    <2>1. Req.header <= m - 0 /\ 0 + Req.header = Req.header
      BY <1>1, <1>2
    <2>2. \A k \in Nat, j \in Nat :
             j <= m - 0 =>
                Rest(Piece(k, 0, m), j) = Piece(k, 0 + j, m)
      BY <1>2, PieceBack
    <2>3. Rest(P, Req.header) = Piece(NumSent, 0 + Req.header, m)
      BY <1>1, <2>1, <2>2
    <2> HIDE DEF P
    <2> QED
      BY <2>1, <2>3 DEF Rest
  <1> HIDE DEF P
  <1>5. P # << >>
    BY <1>2, <1>3
  <1>6. \A i \in 1..m : P[i].pos = i /\ P[i].req = NumSent
    BY <1>2, <1>3
  <1>7. P[1].req = NumSent /\ sent[P[1].req] = Req
    BY <1>2, <1>6 DEF Req
  <1>8. HeadersFinished(P) <=> m >= Req.header
    BY <1>3, <1>5, <1>7 DEF HeadersFinished
  <1>9. Finished(P) <=> m >= Size(Req)
    BY <1>1, <1>3, <1>5, <1>7 DEF Finished
  <1>10. WellFormed(P) <=> (Req.malformed => m < Req.header)
    BY <1>3, <1>5, <1>6, <1>7 DEF WellFormed
  <1>11. /\ m >= Req.header => BodyPart(P) = Piece(NumSent, Req.header, m)
         /\ m < Req.header => BodyPart(P) = << >>
    <2>1. CASE m >= Req.header
      <3>1. HeadersFinished(P) /\ ~(m < Req.header)
        BY <1>1, <1>2, <1>8, <2>1
      <3> QED
        BY <1>4, <1>7, <2>1, <3>1 DEF BodyPart
    <2>2. CASE m < Req.header
      <3>1. ~HeadersFinished(P) /\ ~(m >= Req.header)
        BY <1>1, <1>2, <1>8, <2>2
      <3> QED
        BY <3>1 DEF BodyPart
    <2> QED
      BY <1>1, <1>2, <2>1, <2>2
  <1> QED
    BY <1>5, <1>7, <1>8, <1>9, <1>10, <1>11 DEF P

-----------------------------------------------------------------------------
(* A read of n bytes *)

LEMMA SameRequests ==
    ASSUME sent' = sent
    PROVE  NumSent' = NumSent /\ Req' = Req /\ Size(Req)' = Size(Req)
  BY DEF NumSent, Req, Size

(* While a request is read, the parser and the socket have its bytes. *)
LEMMA ReadsOn ==
    ASSUME Types, Reading, NEW n \in Nat \ {0}, ReadBytes(n)
    PROVE  \E p \in 0..Size(Req) :
              /\ p + n \in 1..Size(Req)
              /\ Data(n) = Piece(NumSent, 0, p + n)
              /\ socket' = Piece(NumSent, p + n, Size(Req))
              /\ \/ route = "none" /\ flags = {}
                 \/ route = "buffered" /\ "NOT_STREAMED" \in flags /\ Req.header <= p
  <1>1. NumSent > 0 /\ NumSent \in Nat \ {0} /\ Size(Req) \in Nat
    BY ReqTypes DEF Reading, Served
  <1>2. PICK p \in 0..Size(Req) :
          /\ parsed = Piece(NumSent, 0, p) /\ socket = Piece(NumSent, p, Size(Req))
          /\ \/ route = "none" /\ flags = {}
             \/ route = "buffered" /\ "NOT_STREAMED" \in flags /\ Req.header <= p
    BY DEF Reading
  <1>3. p \in Nat /\ p <= Size(Req)
    BY <1>1
  <1>4. Len(socket) = Size(Req) - p
    BY <1>1, <1>2, <1>3, PieceIsSeq
  <1>5. n <= Len(socket) /\ socket' = SubSeq(socket, n + 1, Len(socket))
    BY DEF ReadBytes
  <1>6. p + n \in 1..Size(Req)
    BY <1>1, <1>3, <1>4, <1>5
  <1>7. /\ SubSeq(socket, 1, n) = Piece(NumSent, p, p + n)
        /\ socket' = Piece(NumSent, p + n, Size(Req))
    <2>1. p <= Size(Req) /\ n \in Nat /\ n <= Size(Req) - p
      BY <1>3, <1>4, <1>5
    <2>2. /\ Front(socket, n) = Piece(NumSent, p, p + n)
          /\ Rest(socket, n) = Piece(NumSent, p + n, Size(Req))
      BY <1>1, <1>2, <1>3, <2>1, PieceFront, PieceBack
    <2> QED
      BY <1>5, <2>2 DEF Front, Rest
  <1>8. Data(n) = Piece(NumSent, 0, p + n)
    <2>1. 0 \in Nat /\ p + n \in Nat /\ 0 <= p /\ p <= p + n
      BY <1>3, <1>6
    <2>2. \A k \in Nat : Piece(k, 0, p) \o Piece(k, p, p + n) = Piece(k, 0, p + n)
      BY <1>3, <2>1, PieceConcat
    <2> QED
      BY <1>1, <1>2, <1>7, <2>2 DEF Data
  <1> QED
    BY <1>2, <1>6, <1>7, <1>8

(* What a handler has left is not the beginning of a request. *)
LEMMA LeftoverIsMalformed ==
    ASSUME Types, Leftover, NEW n \in Nat \ {0}, ReadBytes(n)
    PROVE  ~WellFormed(Data(n))
  <1>1. /\ socket \in Seq(Byte) /\ Len(socket) \in Nat /\ n <= Len(socket)
        /\ socket[1].pos > 1 /\ parsed = << >>
    BY LenProperties DEF Leftover, Blank, ReadBytes
  <1>2. \A i \in 1..n : socket[i] \in Byte
    BY <1>1, ElementOfSeq
  <1>3. /\ SubSeq(socket, 1, n) \in Seq(Byte) /\ Len(SubSeq(socket, 1, n)) = n
        /\ SubSeq(socket, 1, n)[1] = socket[1]
    <2>1. /\ SubSeq(socket, 1, n) \in Seq(Byte)
          /\ Len(SubSeq(socket, 1, n)) = IF 1 <= n THEN n - 1 + 1 ELSE 0
          /\ \A i \in 1..(n - 1 + 1) : SubSeq(socket, 1, n)[i] = socket[1 + i - 1]
      BY <1>2, SubSeqProperties
    <2> QED
      BY <2>1
  <1>4. Data(n) = SubSeq(socket, 1, n)
    BY <1>1, <1>3, ConcatEmptySeq DEF Data
  <1>5. socket[1].pos # 1
    <2>1. socket[1] \in Byte
      BY <1>1, <1>2
    <2> QED
      BY <1>1, <2>1 DEF Byte
  <1> QED
    BY <1>3, <1>4, <1>5 DEF WellFormed

LEMMA NothingToRead ==
    ASSUME Between, NEW n \in Nat \ {0} PROVE ~ReadBytes(n)
  BY DEF Between, ReadBytes

-----------------------------------------------------------------------------
(* The steps.  Those that answer nothing keep the answers as they are. *)

LEMMA InitIInv == ASSUME Init PROVE IInv
  <1>0. Len(answered) = 0 /\ NumSent = 0
    BY DEF Init, NumSent
  <1>1. sent = << >> /\ answered = << >> /\ phase = "reading" /\ why = ""
    BY DEF Init
  <1>2. Between
    BY <1>0, <1>1 DEF Init, Between, Blank
  <1>3. Types
    BY <1>1, EmptySeq DEF Types
  <1>4. AnswerShape
    <2>1. Len(answered) <= NumSent /\ \A i \in 1..Len(answered) : FALSE
      BY <1>0
    <2> QED
      BY <2>1 DEF AnswerShape
  <1> QED
    BY <1>1, <1>2, <1>3, <1>4 DEF IInv, Progress, Reason

LEMMA SameAnswers ==
    ASSUME AnswerShape, sent' = sent, answered' = answered
    PROVE  AnswerShape'
  BY SameRequests DEF AnswerShape

(* A connection that ends leaves nothing to show but the reason. *)
LEMMA ClosedIInv ==
    ASSUME IInv, sent' = sent, answered' = answered, phase' = "closed",
           why' = "parse" => (ReadsWholeBody => NumSent > 0 /\ Req.malformed)
    PROVE  IInv'
  <1>1. Types'
    BY DEF IInv, Types
  <1>2. AnswerShape'
    BY SameAnswers DEF IInv
  <1>3. Progress'
    BY DEF Progress
  <1>4. Reason'
    BY SameRequests DEF Reason
  <1> QED
    BY <1>1, <1>2, <1>3, <1>4 DEF IInv

LEMMA StutterIInv == ASSUME IInv, UNCHANGED vars PROVE IInv'
  <1>1. /\ sent' = sent /\ socket' = socket /\ phase' = phase /\ parsed' = parsed
        /\ body' = body /\ route' = route /\ flags' = flags /\ got' = got
        /\ answered' = answered /\ why' = why
    BY DEF vars, ctxVars
  <1>2. NumSent' = NumSent /\ Req' = Req /\ Size(Req)' = Size(Req)
    BY <1>1, SameRequests
  <1>3. Types' /\ AnswerShape'
    BY <1>1, SameAnswers DEF IInv, Types
  <1>4. Reason'
    BY <1>1, <1>2 DEF IInv, Reason
  <1>5. /\ Between => Between'
        /\ Leftover => Leftover'
    BY <1>1, <1>2 DEF Between, Leftover, Blank
  <1>6. Reading => Reading'
    BY <1>1, <1>2 DEF Reading, Served
  <1>7. Handling => Handling'
    BY <1>1, <1>2 DEF Handling, Served, HandlingBuffered, HandlingStreamed
  <1>8. Progress'
    BY <1>1, <1>5, <1>6, <1>7 DEF IInv, Progress
  <1> QED
    BY <1>3, <1>4, <1>8 DEF IInv

(* The client asks when it has its answer: after Between, or when the bytes
   that a handler has left are still there. *)
LEMMA ClientSendsIInv == ASSUME IInv, ClientSends PROVE IInv'
  <1>1. PICK r \in Request : /\ sent' = Append(sent, r)
                             /\ socket' = socket \o Bytes(NumSent + 1, r)
    BY DEF ClientSends, NumSent
  <1>2. /\ phase # "closed" /\ NumSent = Len(answered)
        /\ phase' = phase /\ parsed' = parsed /\ body' = body /\ route' = route
        /\ flags' = flags /\ got' = got /\ answered' = answered /\ why' = why
    BY DEF ClientSends, ctxVars, NumSent
  <1>3. sent \in Seq(Request) /\ NumSent \in Nat
    BY DEF IInv, Types, NumSent
  <1>4. /\ sent' \in Seq(Request) /\ NumSent' = NumSent + 1 /\ Req' = r
        /\ \A i \in 1..NumSent : sent'[i] = sent[i]
    BY <1>1, <1>3, AppendProperties DEF NumSent, Req
  <1>5. Types'
    BY <1>2, <1>4 DEF IInv, Types
  <1>6. AnswerShape'
    <2>1. Len(answered) <= NumSent'
      BY <1>2, <1>3, <1>4
    <2>2. ASSUME NEW i \in 1..Len(answered)
          PROVE  sent'[i] = sent[i]
      BY <1>2, <1>4
    <2> QED
      BY <1>2, <2>1, <2>2 DEF IInv, AnswerShape
  <1>7. Reason'
    BY <1>2 DEF IInv, Reason
  <1>8. ~Reading /\ ~Handling
    BY <1>2, <1>3 DEF Reading, Handling, Served
  <1>9. CASE Between
    <2>1. Size(r) \in Nat /\ r.header \in Nat \ {0}
      BY RequestTypes
    <2>2. Bytes(NumSent + 1, r) = Piece(NumSent', 0, Size(r))
      <3>1. Bytes(NumSent + 1, r) = Piece(NumSent + 1, 0, Size(r))
        BY <1>3, BytesArePieces
      <3> QED
        BY <1>4, <3>1
    <2>3. socket' = Piece(NumSent', 0, Size(r))
      <3>1. Piece(NumSent', 0, Size(r)) \in Seq(Byte)
        BY <1>3, <1>4, <2>1, PieceIsSeq
      <3> QED
        BY <1>1, <1>9, <2>2, <3>1, ConcatEmptySeq DEF Between
    <2>4. parsed' = Piece(NumSent', 0, 0)
      <3>1. \A k \in Nat : Piece(k, 0, 0) = << >>
        BY PieceEmpty
      <3> QED
        BY <1>2, <1>3, <1>4, <1>9, <3>1 DEF Between, Blank
    <2>5. Size(Req)' = Size(r) /\ 0 \in 0..Size(r) /\ 0 < r.header
      BY <1>4, <2>1 DEF Size
    <2>6. Served' /\ phase' = "reading" /\ got' = << >> /\ route' = "none" /\ flags' = {}
          /\ body' = << >>
      BY <1>2, <1>3, <1>4, <1>9 DEF Served, Between, Blank
    <2>7. Reading'
      BY <1>4, <2>3, <2>4, <2>5, <2>6 DEF Reading
    <2> QED
      BY <1>5, <1>6, <1>7, <2>7 DEF IInv, Progress
  <1>10. CASE Leftover
    <2>1. Bytes(NumSent + 1, r) \in Seq(Byte)
      <3>1. Bytes(NumSent + 1, r) = Piece(NumSent + 1, 0, Size(r))
        BY <1>3, BytesArePieces
      <3>2. NumSent + 1 \in Nat /\ Size(r) \in Nat
        BY <1>3, RequestTypes
      <3>3. ASSUME NEW k \in Nat, NEW n \in Nat PROVE Piece(k, 0, n) \in Seq(Byte)
        BY PieceIsSeq
      <3> QED
        BY <3>1, <3>2, <3>3
    <2>2. socket \in Seq(Byte) /\ Len(socket) > 0 /\ socket[1].pos > 1
      BY <1>10, EmptySeq DEF Leftover
    <2>3. socket' \in Seq(Byte) /\ Len(socket') > 0 /\ socket'[1] = socket[1]
      BY <1>1, <2>1, <2>2, ConcatProperties
    <2>4. Leftover'
      BY <1>2, <1>10, <2>2, <2>3 DEF Leftover, Blank
    <2> QED
      BY <1>5, <1>6, <1>7, <2>4 DEF IInv, Progress
  <1> QED
    BY <1>2, <1>8, <1>9, <1>10 DEF IInv, Progress

(* Where the read of a piece gets the request that is being read. *)
LEMMA ParsePiece ==
    ASSUME IInv, Reading, NEW n \in Nat \ {0}, ReadBytes(n)
    PROVE  /\ NumSent > 0 /\ sent' = sent /\ Len(answered) = NumSent - 1
           /\ phase = "reading" /\ got = << >>
           /\ \E m \in 1..Size(Req) :
                 /\ Data(n) = Piece(NumSent, 0, m)
                 /\ socket' = Piece(NumSent, m, Size(Req))
                 /\ \/ route = "none" /\ flags = {}
                    \/ route = "buffered" /\ "NOT_STREAMED" \in flags /\ Req.header <= m
  <1>1. Types /\ NumSent > 0 /\ sent' = sent
    BY DEF IInv, Reading, Served, ReadBytes
  <1>2. PICK p \in 0..Size(Req) :
              /\ p + n \in 1..Size(Req)
              /\ Data(n) = Piece(NumSent, 0, p + n)
              /\ socket' = Piece(NumSent, p + n, Size(Req))
              /\ \/ route = "none" /\ flags = {}
                 \/ route = "buffered" /\ "NOT_STREAMED" \in flags /\ Req.header <= p
    BY <1>1, ReadsOn
  <1>3. Req.header <= p => Req.header <= p + n
    BY <1>1, ReqTypes
  <1> QED
    BY <1>1, <1>2, <1>3 DEF Reading, Served

(* Refused for its size: nothing is said of the request. *)
LEMMA RefuseIInv ==
    ASSUME IInv, NEW n \in Nat \ {0}, RefuseHeaderSize(n) PROVE IInv'
  BY ClosedIInv DEF RefuseHeaderSize, ReadBytes, Teardown

(* A parse error: what was read of the request is not its fault, so it is
   malformed, or the bytes are left over. *)
LEMMA ParseErrorIInv ==
    ASSUME IInv, NEW n \in Nat \ {0}, ParseError(n) PROVE IInv'
  <1>1. /\ ReadBytes(n) /\ ~WellFormed(Data(n)) /\ phase = "reading"
        /\ sent' = sent /\ answered' = answered /\ phase' = "closed"
    BY DEF ParseError, ReadBytes, Teardown
  <1>2. CASE Reading
    <2>1. NumSent > 0 /\ Types /\ Req.malformed \in BOOLEAN
      BY <1>2, ReqTypes DEF IInv, Reading, Served
    <2>2. PICK m \in 1..Size(Req) : Data(n) = Piece(NumSent, 0, m)
      BY <1>1, <1>2, ParsePiece
    <2>3. Req.malformed
      BY <1>1, <2>1, <2>2, ParserOnPiece
    <2> QED
      BY <1>1, <2>1, <2>3, ClosedIInv
  <1>3. CASE Leftover
    BY <1>1, <1>3, ClosedIInv DEF Leftover
  <1> QED
    BY <1>1, <1>2, <1>3, NothingToRead DEF IInv, Progress, Handling

(* A successful parse was of a request that is being read. *)
LEMMA ParseIsOfRequest ==
    ASSUME IInv, NEW n \in Nat \ {0}, Parse(n)
    PROVE  /\ Reading /\ Types /\ NumSent > 0 /\ Len(answered) = NumSent - 1
           /\ phase = "reading" /\ got = << >> /\ got' = << >> /\ sent' = sent
           /\ \E m \in 1..Size(Req) :
                 /\ parsed' = Piece(NumSent, 0, m)
                 /\ socket' = Piece(NumSent, m, Size(Req))
                 /\ body' = BodyPart(Piece(NumSent, 0, m))
                 /\ Req.malformed => m < Req.header
                 /\ \/ route = "none" /\ flags = {}
                    \/ route = "buffered" /\ "NOT_STREAMED" \in flags /\ Req.header <= m
  <1>1. /\ ReadBytes(n) /\ WellFormed(Data(n)) /\ phase = "reading" /\ Types
        /\ parsed' = Data(n) /\ body' = BodyPart(Data(n)) /\ got' = got
    BY DEF Parse, ReadBytes, IInv
  <1>2. Reading
    BY <1>1, NothingToRead, LeftoverIsMalformed DEF IInv, Progress, Handling
  <1>3. /\ NumSent > 0 /\ sent' = sent /\ Len(answered) = NumSent - 1 /\ got = << >>
        /\ \E m \in 1..Size(Req) :
              /\ Data(n) = Piece(NumSent, 0, m)
              /\ socket' = Piece(NumSent, m, Size(Req))
              /\ \/ route = "none" /\ flags = {}
                 \/ route = "buffered" /\ "NOT_STREAMED" \in flags /\ Req.header <= m
    BY <1>1, <1>2, ParsePiece
  <1>4. PICK m \in 1..Size(Req) :
              /\ Data(n) = Piece(NumSent, 0, m)
              /\ socket' = Piece(NumSent, m, Size(Req))
              /\ \/ route = "none" /\ flags = {}
                 \/ route = "buffered" /\ "NOT_STREAMED" \in flags /\ Req.header <= m
    BY <1>3
  <1>5. Req.malformed => m < Req.header
    BY <1>1, <1>3, <1>4, ParserOnPiece
  <1> QED
    BY <1>1, <1>2, <1>3, <1>4, <1>5

Answer == [req : Nat, by : {"handler", "page"}, seen : Seq(Byte)]

(* The answer of the request that is being served is the next one. *)
LEMMA NextAnswer ==
    ASSUME Types, AnswerShape, NumSent > 0, Len(answered) = NumSent - 1, sent' = sent,
           NEW b \in {"handler", "page"}, NEW x \in Seq(Byte),
           answered' = Append(answered, [req |-> NumSent, by |-> b, seen |-> x]),
           b = "handler" => \E n \in 0..Req.body :
               /\ x = Piece(NumSent, Req.header, Req.header + n)
               /\ ReadsWholeBody => n = Req.body
    PROVE  AnswerShape' /\ answered' \in Seq(Answer) /\ Len(answered') = NumSent
  <1> DEFINE a == [req |-> NumSent, by |-> b, seen |-> x]
  <1>1. NumSent \in Nat \ {0} /\ answered \in Seq(Answer) /\ NumSent' = NumSent
    BY ReqTypes, SameRequests DEF Types, Answer
  <1>2. a \in Answer /\ a.req = NumSent /\ a.by = b /\ a.seen = x
    BY <1>1 DEF Answer
  <1> HIDE DEF a
  <1>3. /\ answered' \in Seq(Answer) /\ Len(answered') = NumSent
        /\ \A i \in 1..Len(answered) : answered'[i] = answered[i]
        /\ answered'[NumSent] = a
    BY <1>1, <1>2, AppendProperties DEF a
  <1>4. ASSUME NEW i \in 1..NumSent
        PROVE  /\ answered'[i].req = i
               /\ answered'[i].by = "handler" =>
                    \E n \in 0..sent[i].body :
                       /\ answered'[i].seen = Piece(i, sent[i].header, sent[i].header + n)
                       /\ ReadsWholeBody => n = sent[i].body
    <2>1. CASE i = NumSent
      BY <1>2, <1>3, <2>1 DEF Req
    <2>2. CASE i # NumSent
      <3>1. i \in 1..Len(answered)
        BY <1>1, <2>2
      <3> QED
        BY <1>3, <3>1 DEF AnswerShape
    <2> QED
      BY <2>1, <2>2
  <1>5. AnswerShape'
    BY <1>1, <1>3, <1>4 DEF AnswerShape
  <1> QED
    BY <1>3, <1>5

(* The 404 page ends the session. *)
LEMMA NotFoundIInv ==
    ASSUME IInv, NEW n \in Nat \ {0}, NotFound(n) PROVE IInv'
  <1>1. /\ Types /\ NumSent > 0 /\ Len(answered) = NumSent - 1 /\ sent' = sent
        /\ \E m \in 1..Size(Req) : parsed' = Piece(NumSent, 0, m)
    BY ParseIsOfRequest DEF NotFound
  <1>2. parsed'[1].req = NumSent
    BY <1>1, ParserOnPiece
  <1>3. /\ answered' = Append(answered, [req |-> NumSent, by |-> "page", seen |-> << >>])
        /\ phase' = "closed" /\ why' = "not_found"
    BY <1>2 DEF NotFound, Teardown
  <1>4. AnswerShape' /\ answered' \in Seq(Answer)
    BY <1>1, <1>3, EmptySeq, NextAnswer DEF IInv
  <1> QED
    BY <1>1, <1>3, <1>4 DEF IInv, Types, Answer, Progress, Reason

(* More is wanted: the header goes on, or the body of a buffered route. *)
LEMMA WantReadIInv ==
    ASSUME IInv, NEW n \in Nat \ {0}, WantRead(n) PROVE IInv'
  <1>1. /\ Types /\ NumSent > 0 /\ Len(answered) = NumSent - 1
        /\ phase = "reading" /\ got' = << >> /\ sent' = sent
    BY ParseIsOfRequest DEF WantRead
  <1>2. PICK m \in 1..Size(Req) :
          /\ parsed' = Piece(NumSent, 0, m)
          /\ socket' = Piece(NumSent, m, Size(Req))
          /\ body' = BodyPart(Piece(NumSent, 0, m))
          /\ Req.malformed => m < Req.header
          /\ \/ route = "none" /\ flags = {}
             \/ route = "buffered" /\ "NOT_STREAMED" \in flags /\ Req.header <= m
    BY ParseIsOfRequest DEF WantRead
  <1>3. /\ ~DetermineHpState(parsed', flags)
        /\ phase' = phase /\ route' = route /\ flags' = flags /\ answered' = answered
        /\ why' = why
    BY DEF WantRead
  <1>4. NumSent' = NumSent /\ Req' = Req /\ Size(Req)' = Size(Req)
    BY <1>1, SameRequests
  <1>5. m \in 0..Size(Req) /\ m \in Nat /\ Req.header \in Nat /\ Size(Req) \in Nat
    BY <1>1, ReqTypes
  <1>6. \/ route = "none" /\ flags = {} /\ body' = << >> /\ m < Req.header
        \/ /\ route = "buffered" /\ "NOT_STREAMED" \in flags
           /\ Req.header <= m /\ m < Size(Req) /\ body' = Piece(NumSent, Req.header, m)
    <2>1. CASE route = "none" /\ flags = {}
      <3>1. ~HeadersFinished(Piece(NumSent, 0, m))
        BY <1>2, <1>3, <2>1 DEF DetermineHpState
      <3>2. m < Req.header
        BY <1>1, <1>5, <3>1, ParserOnPiece
      <3> QED
        BY <1>1, <1>2, <2>1, <3>2, ParserOnPiece
    <2>2. CASE route = "buffered" /\ "NOT_STREAMED" \in flags /\ Req.header <= m
      <3>1. ~Finished(Piece(NumSent, 0, m))
        BY <1>2, <1>3, <2>2 DEF DetermineHpState
      <3>2. m < Size(Req)
        BY <1>1, <1>5, <3>1, ParserOnPiece
      <3> QED
        BY <1>1, <1>2, <1>5, <2>2, <3>2, ParserOnPiece
    <2> QED
      BY <1>2, <2>1, <2>2
  <1>7. Reading'
    BY <1>1, <1>2, <1>3, <1>4, <1>5, <1>6 DEF Reading, Served
  <1>8. AnswerShape' /\ Types' /\ Reason'
    BY <1>1, <1>3, <1>4, SameAnswers DEF IInv, Types, Reason
  <1> QED
    BY <1>7, <1>8 DEF IInv, Progress

(* A buffered route waits for the body, and then has all of it. *)
LEMMA BufferedStep ==
    ASSUME Types, NumSent > 0, Len(answered) = NumSent - 1, sent' = sent, got' = << >>,
           answered' = answered, NEW m \in 1..Size(Req), Req.header <= m,
           parsed' = Piece(NumSent, 0, m), socket' = Piece(NumSent, m, Size(Req)),
           body' = Piece(NumSent, Req.header, m), Req.malformed => m < Req.header,
           route' = "buffered", "NOT_STREAMED" \in flags',
           phase' = IF m >= Size(Req) THEN "handling" ELSE "reading"
    PROVE  Progress' /\ phase' \in {"reading", "handling"}
  <1>1. /\ NumSent' = NumSent /\ Req' = Req /\ Size(Req)' = Size(Req)
        /\ NumSent \in Nat /\ Size(Req) \in Nat /\ m \in Nat /\ m <= Size(Req)
        /\ m \in 0..Size(Req) /\ Req.header \in Nat
    BY SameRequests, ReqTypes
  <1>2. Served'
    BY <1>1 DEF Served
  <1>3. CASE m < Size(Req)
    <2>1. phase' = "reading"
      BY <1>1, <1>3
    <2> QED
      BY <1>1, <1>2, <1>3, <2>1 DEF Progress, Reading
  <1>4. CASE m = Size(Req)
    <2>1. phase' = "handling"
      BY <1>1, <1>4
    <2>2. socket' = << >>
      BY <1>1, <1>4, PieceEmpty
    <2> QED
      BY <1>1, <1>2, <1>4, <2>1, <2>2 DEF Progress, Handling, HandlingBuffered
  <1> QED
    BY <1>1, <1>3, <1>4

(* The header is complete and has a route. *)
LEMMA FindRouteIInv ==
    ASSUME IInv, NEW n \in Nat \ {0}, FindRoute(n) PROVE IInv'
  <1>1. /\ Types /\ NumSent > 0 /\ Len(answered) = NumSent - 1 /\ route = "none"
        /\ phase = "reading" /\ got' = << >> /\ sent' = sent
    BY ParseIsOfRequest DEF FindRoute
  <1>2. PICK m \in 1..Size(Req) :
          /\ parsed' = Piece(NumSent, 0, m)
          /\ socket' = Piece(NumSent, m, Size(Req))
          /\ body' = BodyPart(Piece(NumSent, 0, m))
          /\ Req.malformed => m < Req.header
          /\ flags = {}
    BY <1>1, ParseIsOfRequest DEF FindRoute
  <1>3. /\ DetermineHpState(parsed', flags)
        /\ route' = Current.target /\ route' \in {"buffered", "streamed"}
        /\ flags' = flags \cup KeepAliveFlag
                     \cup (IF route' = "streamed" THEN {} ELSE {"NOT_STREAMED"})
        /\ phase' = IF DetermineHpState(parsed', flags') THEN "handling" ELSE "reading"
        /\ answered' = answered /\ why' = why
    BY DEF FindRoute
  <1>4. /\ NumSent' = NumSent /\ Req' = Req /\ Size(Req)' = Size(Req)
        /\ NumSent \in Nat /\ m \in Nat /\ Req.header \in Nat \ {0} /\ Size(Req) \in Nat
        /\ m \in Req.header..Size(Req) <=> m >= Req.header
    BY <1>1, SameRequests, ReqTypes
  <1>5. m >= Req.header /\ body' = Piece(NumSent, Req.header, m)
    <2>1. HeadersFinished(Piece(NumSent, 0, m))
      BY <1>2, <1>3 DEF DetermineHpState
    <2> QED
      BY <1>1, <1>2, <2>1, ParserOnPiece
  <1>6. Progress' /\ phase' \in {"reading", "handling"}
    <2>1. CASE route' = "buffered"
      <3>1. "NOT_STREAMED" \in flags'
        BY <1>3, <2>1
      <3>2. phase' = IF m >= Size(Req) THEN "handling" ELSE "reading"
        BY <1>1, <1>2, <1>3, <3>1, ParserOnPiece DEF DetermineHpState
      <3> QED
        BY <1>1, <1>2, <1>3, <1>4, <1>5, <2>1, <3>1, <3>2, BufferedStep
    <2>2. CASE route' = "streamed"
      <3>1. "NOT_STREAMED" \notin flags'
        BY <1>2, <1>3, <2>2 DEF KeepAliveFlag
      <3>2. phase' = "handling"
        BY <1>1, <1>2, <1>3, <1>5, <3>1, ParserOnPiece DEF DetermineHpState
      <3>3. got' = Piece(NumSent, Req.header, Req.header)
        BY <1>1, <1>4, PieceEmpty
      <3>4. /\ m \in Req.header..Size(Req) /\ Req.header \in Req.header..Size(Req)
            /\ Req.header <= m
        BY <1>4, <1>5
      <3>5. HandlingStreamed'
        BY <1>2, <1>4, <1>5, <2>2, <3>3, <3>4 DEF HandlingStreamed
      <3> QED
        BY <1>1, <1>3, <1>4, <3>2, <3>5 DEF Progress, Handling, Served
    <2> QED
      BY <1>3, <2>1, <2>2
  <1>7. AnswerShape' /\ Types' /\ Reason'
    BY <1>1, <1>3, <1>4, <1>6, SameAnswers DEF IInv, Types, Reason
  <1> QED
    BY <1>6, <1>7 DEF IInv

LEMMA BodyCompleteIInv ==
    ASSUME IInv, NEW n \in Nat \ {0}, BodyComplete(n) PROVE IInv'
  <1>1. /\ Types /\ NumSent > 0 /\ Len(answered) = NumSent - 1 /\ route # "none"
        /\ phase = "reading" /\ got' = << >> /\ sent' = sent
    BY ParseIsOfRequest DEF BodyComplete
  <1>2. PICK m \in 1..Size(Req) :
          /\ parsed' = Piece(NumSent, 0, m)
          /\ socket' = Piece(NumSent, m, Size(Req))
          /\ body' = BodyPart(Piece(NumSent, 0, m))
          /\ Req.malformed => m < Req.header
          /\ route = "buffered" /\ "NOT_STREAMED" \in flags /\ Req.header <= m
    BY <1>1, ParseIsOfRequest DEF BodyComplete
  <1>3. /\ DetermineHpState(parsed', flags) /\ phase' = "handling"
        /\ route' = route /\ flags' = flags /\ answered' = answered /\ why' = why
    BY DEF BodyComplete
  <1>4. m \in Nat /\ Req.header \in Nat /\ NumSent' = NumSent /\ Req' = Req
    BY <1>1, SameRequests, ReqTypes
  <1>5. m >= Size(Req)
    <2>1. Finished(Piece(NumSent, 0, m))
      BY <1>2, <1>3 DEF DetermineHpState
    <2> QED
      BY <1>1, <2>1, ParserOnPiece
  <1>6. body' = Piece(NumSent, Req.header, m)
    <2>1. m >= Req.header
      BY <1>2, <1>4
    <2> QED
      BY <1>1, <1>2, <2>1, ParserOnPiece
  <1>7. Progress'
    BY <1>1, <1>2, <1>3, <1>5, <1>6, BufferedStep
  <1>8. AnswerShape' /\ Types' /\ Reason'
    BY <1>1, <1>3, <1>4, SameAnswers DEF IInv, Types, Reason
  <1> QED
    BY <1>7, <1>8 DEF IInv

(* Request::read moves bytes on, from the parser first, then from the socket. *)
LEMMA RequestReadIInv == ASSUME IInv, RequestRead PROVE IInv'
  <1>1. /\ phase = "handling" /\ route = "streamed" /\ sent' = sent /\ phase' = phase
        /\ parsed' = parsed /\ route' = route /\ flags' = flags /\ answered' = answered
        /\ why' = why
    BY DEF RequestRead
  <1>2. Types /\ Served /\ HandlingStreamed
    BY <1>1 DEF IInv, Progress, Between, Reading, Leftover, Handling, HandlingBuffered
  <1>3. /\ NumSent' = NumSent /\ Req' = Req /\ Size(Req)' = Size(Req) /\ NumSent > 0
        /\ NumSent \in Nat /\ Req.header \in Nat \ {0} /\ Size(Req) \in Nat
    BY <1>1, <1>2, SameRequests, ReqTypes DEF Served
  <1>4. PICK b, q \in Req.header..Size(Req) :
          /\ b <= q
          /\ got = Piece(NumSent, Req.header, b) /\ body = Piece(NumSent, b, q)
          /\ socket = Piece(NumSent, q, Size(Req))
    BY <1>2 DEF HandlingStreamed
  <1>5. b \in Nat /\ q \in Nat /\ Req.header <= b /\ q <= Size(Req)
    BY <1>3
  <1>6. \E c, d \in Req.header..Size(Req) :
          /\ c <= d
          /\ got' = Piece(NumSent, Req.header, c) /\ body' = Piece(NumSent, c, d)
          /\ socket' = Piece(NumSent, d, Size(Req))
    <2>1. CASE body # << >>
      <3>1. got' = got \o body /\ body' = << >> /\ socket' = socket
        BY <2>1 DEF RequestRead
      <3>2. got' = Piece(NumSent, Req.header, q)
        <4>1. /\ NumSent \in Nat /\ Req.header \in Nat /\ b \in Nat /\ q \in Nat
              /\ Req.header <= b /\ b <= q
          BY <1>3, <1>4, <1>5
        <4>2. Piece(NumSent, Req.header, b) \o Piece(NumSent, b, q)
                = Piece(NumSent, Req.header, q)
          BY <4>1, PieceConcat, ZenonT(60)
        <4> QED
          BY <1>4, <3>1, <4>2
      <3>3. body' = Piece(NumSent, q, q)
        BY <1>3, <1>5, <3>1, PieceEmpty
      <3> QED
        BY <1>4, <1>5, <3>1, <3>2, <3>3
    <2>2. CASE body = << >>
      <3>1. b = q
        <4>1. Piece(NumSent, b, q) = << >> <=> b = q
          BY <1>3, <1>4, <1>5, PieceEmpty
        <4> QED
          BY <1>4, <2>2, <4>1
      <3>2. PICK n \in 1..buffer_size :
              /\ n <= Len(socket)
              /\ got' = got \o Front(socket, n) /\ socket' = Rest(socket, n)
              /\ body' = body
        BY <2>2 DEF RequestRead, Front, Rest
      <3>3. n \in Nat /\ n <= Size(Req) - q
        <4>1. Len(socket) = Size(Req) - q
          BY <1>3, <1>4, <1>5, PieceIsSeq
        <4> QED
          BY <3>2, <4>1, ConstantsAssumption
      <3>4. /\ Front(socket, n) = Piece(NumSent, q, q + n)
            /\ Rest(socket, n) = Piece(NumSent, q + n, Size(Req))
        <4>1. q <= Size(Req)
          BY <1>5
        <4> QED
          BY <1>3, <1>4, <1>5, <3>3, <4>1, PieceFront, PieceBack
      <3>5. q + n \in Nat /\ Req.header <= q /\ q <= q + n
            /\ q + n \in Req.header..Size(Req)
        BY <1>3, <1>4, <1>5, <3>3
      <3>6. got' = Piece(NumSent, Req.header, q + n)
        <4>1. Piece(NumSent, Req.header, q) \o Piece(NumSent, q, q + n)
                = Piece(NumSent, Req.header, q + n)
          <5>1. /\ NumSent \in Nat /\ Req.header \in Nat /\ q \in Nat /\ q + n \in Nat
                /\ Req.header <= q /\ q <= q + n
            BY <1>3, <1>5, <3>5
          <5> QED
            BY <5>1, PieceConcat, ZenonT(60)
        <4> QED
          BY <1>4, <3>1, <3>2, <3>4, <4>1
      <3>7. body' = Piece(NumSent, q + n, q + n)
        BY <1>3, <2>2, <3>2, <3>5, PieceEmpty
      <3> QED
        <4>1. /\ q + n <= q + n /\ socket' = Piece(NumSent, q + n, Size(Req))
          BY <3>2, <3>4, <3>5
        <4> QED
          BY <3>5, <3>6, <3>7, <4>1
    <2> QED
      BY <2>1, <2>2
  <1>7. HandlingStreamed'
    <2>1. \E p \in Req.header..Size(Req) : parsed = Piece(NumSent, 0, p)
      BY <1>2 DEF HandlingStreamed
    <2> QED
      BY <1>1, <1>3, <1>6, <2>1 DEF HandlingStreamed
  <1>8. Progress'
    BY <1>1, <1>2, <1>3, <1>7 DEF Progress, Handling, Served
  <1>9. AnswerShape' /\ Types' /\ Reason'
    BY <1>1, <1>3, SameAnswers DEF IInv, Types, Reason
  <1> QED
    BY <1>8, <1>9 DEF IInv

(* What a handler has seen when it returns, and what it leaves in the socket. *)
LEMMA HandlerSaw ==
    ASSUME IInv, HandlerReturns
    PROVE  /\ Served /\ parsed[1].req = NumSent
           /\ LET x == IF route = "streamed" THEN got ELSE body
              IN  /\ x \in Seq(Byte)
                  /\ \E n \in 0..Req.body :
                        /\ x = Piece(NumSent, Req.header, Req.header + n)
                        /\ ReadsWholeBody => n = Req.body
           /\ \/ socket = << >>
              \/ ~ReadsWholeBody /\ socket \in Seq(Byte) /\ socket # << >> /\ socket[1].pos > 1
  <1> DEFINE x == IF route = "streamed" THEN got ELSE body
  <1>1. Types /\ Served /\ NumSent > 0 /\ (HandlingBuffered \/ HandlingStreamed)
    BY DEF HandlerReturns, IInv, Progress, Between, Reading, Leftover, Handling, Served
  <1>2. /\ NumSent \in Nat /\ Req.header \in Nat \ {0} /\ Req.body \in Nat
        /\ Size(Req) \in Nat /\ Size(Req) = Req.header + Req.body
    BY <1>1, ReqTypes
  <1>3. PICK p \in Req.header..Size(Req) : parsed = Piece(NumSent, 0, p)
    BY <1>1, <1>2 DEF HandlingBuffered, HandlingStreamed
  <1>4. p \in 1..Size(Req)
    BY <1>2
  <1>5. parsed[1].req = NumSent
    BY <1>1, <1>3, <1>4, ParserOnPiece
  <1>6. CASE HandlingBuffered
    <2>1. x = Piece(NumSent, Req.header, Req.header + Req.body)
      BY <1>2, <1>6 DEF HandlingBuffered
    <2>2. x \in Seq(Byte)
      <3>1. Req.header + Req.body \in Nat /\ Req.header <= Req.header + Req.body
        BY <1>2
      <3> HIDE DEF x
      <3> QED
        BY <1>2, <2>1, <3>1, PieceIsSeq
    <2>3. Req.body \in 0..Req.body
      BY <1>2
    <2> QED
      BY <1>1, <1>5, <1>6, <2>1, <2>2, <2>3 DEF HandlingBuffered
  <1>7. CASE HandlingStreamed
    <2>1. PICK b, q \in Req.header..Size(Req) :
            /\ b <= q
            /\ got = Piece(NumSent, Req.header, b) /\ body = Piece(NumSent, b, q)
            /\ socket = Piece(NumSent, q, Size(Req))
      BY <1>7 DEF HandlingStreamed
    <2>2. /\ b \in Nat /\ q \in Nat /\ Req.header <= b /\ q <= Size(Req) /\ x = got
          /\ b - Req.header \in 0..Req.body /\ Req.header + (b - Req.header) = b
      BY <1>2, <1>7, <2>1 DEF HandlingStreamed
    <2>3. got \in Seq(Byte) /\ Len(got) = b - Req.header
      <3>1. NumSent \in Nat /\ Req.header \in Nat
        BY <1>2
      <3>2. ASSUME NEW k \in Nat, NEW m \in Nat, m <= b
            PROVE  Piece(k, m, b) \in Seq(Byte) /\ Len(Piece(k, m, b)) = b - m
        <4>1. b \in Nat
          BY <2>2
        <4> QED
          BY <3>2, <4>1, PieceIsSeq
      <3>3. got = Piece(NumSent, Req.header, b) /\ Req.header <= b
        BY <2>1, <2>2
      <3> QED
        BY <3>1, <3>2, <3>3
    <2>4. ReadsWholeBody => b - Req.header = Req.body /\ q = Size(Req)
      <3>1. sent[parsed[1].req] = Req /\ route = "streamed"
        BY <1>5, <1>7 DEF Req, HandlingStreamed
      <3>2. ReadsWholeBody => Len(got) >= Req.body
        BY <3>1 DEF HandlerReturns, Handled
      <3> QED
        BY <1>2, <2>1, <2>2, <2>3, <3>2
    <2>5. CASE q = Size(Req)
      <3>1. socket = << >>
        BY <1>2, <2>1, <2>2, <2>5, PieceEmpty
      <3> QED
        BY <1>1, <1>5, <2>1, <2>2, <2>3, <2>4, <3>1
    <2>6. CASE q # Size(Req)
      <3>1. /\ socket \in Seq(Byte) /\ Len(socket) = Size(Req) - q
            /\ \A i \in 1..(Size(Req) - q) : socket[i] = [req |-> NumSent, pos |-> q + i]
        <4>1. q <= Size(Req)
          BY <2>2
        <4>2. ASSUME NEW k \in Nat, NEW o \in Nat, q <= o
              PROVE  /\ Piece(k, q, o) \in Seq(Byte) /\ Len(Piece(k, q, o)) = o - q
                     /\ \A i \in 1..(o - q) : Piece(k, q, o)[i] = [req |-> k, pos |-> q + i]
          <5>1. q \in Nat
            BY <2>2
          <5> QED
            BY <4>2, <5>1, PieceIsSeq
        <4> QED
          BY <1>2, <2>1, <4>1, <4>2
      <3>2. 1 \in 1..(Size(Req) - q) /\ q + 1 > 1
        BY <1>2, <2>1, <2>2, <2>6
      <3>3. socket # << >> /\ socket[1].pos > 1
        BY <3>1, <3>2
      <3> QED
        BY <1>1, <1>5, <2>1, <2>2, <2>3, <2>4, <2>6, <3>1, <3>3
    <2> QED
      BY <2>5, <2>6
  <1> QED
    BY <1>1, <1>6, <1>7

(* The handler is done: the next request, or the bytes it has left, or the end. *)
LEMMA HandlerReturnsIInv == ASSUME IInv, HandlerReturns PROVE IInv'
  <1> DEFINE x == IF route = "streamed" THEN got ELSE body
  <1>1. /\ Served /\ parsed[1].req = NumSent /\ x \in Seq(Byte)
        /\ \E n \in 0..Req.body :
              /\ x = Piece(NumSent, Req.header, Req.header + n)
              /\ ReadsWholeBody => n = Req.body
        /\ \/ socket = << >>
           \/ ~ReadsWholeBody /\ socket \in Seq(Byte) /\ socket # << >> /\ socket[1].pos > 1
    BY HandlerSaw
  <1>2. answered' = Append(answered, [req |-> NumSent, by |-> "handler", seen |-> x])
    BY <1>1 DEF HandlerReturns
  <1> HIDE DEF x
  <1>3. sent' = sent /\ socket' = socket /\ phase = "handling" /\ why # "parse"
    BY DEF HandlerReturns, IInv, Reason
  <1>4. AnswerShape' /\ answered' \in Seq(Answer) /\ Len(answered') = NumSent
    BY <1>1, <1>2, <1>3, NextAnswer DEF IInv, Served
  <1>5. NumSent' = NumSent
    BY <1>3, SameRequests
  <1>6. \/ Blank' /\ phase' = "reading" /\ why' = why
        \/ phase' = "closed" /\ why' = "done"
    BY DEF HandlerReturns, ReloadContext, Teardown, Blank
  <1>7. Progress'
    BY <1>1, <1>3, <1>4, <1>5, <1>6 DEF Progress, Between, Leftover
  <1>8. Types'
    BY <1>3, <1>4, <1>6 DEF IInv, Types, Answer
  <1>9. Reason'
    BY <1>3, <1>6 DEF Reason
  <1> QED
    BY <1>4, <1>7, <1>8, <1>9 DEF IInv

LEMMA NextIInv == ASSUME IInv, [Next]_vars PROVE IInv'
  <1>1. ASSUME NEW n \in 1..buffer_size,
               \/ RefuseHeaderSize(n) \/ ParseError(n) \/ WantRead(n)
               \/ NotFound(n) \/ FindRoute(n) \/ BodyComplete(n)
        PROVE  IInv'
    <2>1. n \in Nat \ {0}
      BY ConstantsAssumption
    <2> QED
      BY <1>1, <2>1, RefuseIInv, ParseErrorIInv, WantReadIInv, NotFoundIInv,
         FindRouteIInv, BodyCompleteIInv
  <1>2. CASE ConnectionFails
    BY <1>2, ClosedIInv DEF ConnectionFails, Teardown
  <1> QED
    BY <1>1, <1>2, StutterIInv, ClientSendsIInv, RequestReadIInv, HandlerReturnsIInv
    DEF Next, ProcessRequestData

LEMMA Invariant == Spec => []IInv
  <1>1. Init => IInv
    BY InitIInv
  <1>2. IInv /\ [Next]_vars => IInv'
    BY NextIInv
  <1> QED
    BY <1>1, <1>2, PTL DEF Spec

-----------------------------------------------------------------------------
(* Whatever the sizes of requests and reads, and even when handlers leave some
   of a body unread, no request is answered twice, skipped or overtaken. *)
THEOREM AnsweredInOrderHolds == Spec => []AnsweredInOrder
  <1>1. IInv => AnsweredInOrder
    BY DEF IInv, AnswerShape, AnsweredInOrder, NumSent
  <1> QED
    BY <1>1, Invariant, PTL

(* A handler sees exactly the body of its own request, wherever the pieces end
   in which it came, when handlers read bodies to their end. *)
THEOREM HandlersSeeTheirBodies ==
    ASSUME ReadsWholeBody
    PROVE  Spec => []HandlerSeesTheBody
  <1>1. ASSUME IInv PROVE HandlerSeesTheBody
    <2> SUFFICES ASSUME NEW i \in 1..Len(answered), answered[i].by = "handler"
                 PROVE  answered[i].seen = BodyBytes(i, sent[i])
      BY DEF HandlerSeesTheBody
    <2>1. answered[i].seen = Piece(i, sent[i].header, sent[i].header + sent[i].body)
      BY <1>1 DEF IInv, AnswerShape
    <2>2. i \in Nat /\ sent[i] \in Request
      <3>1. sent \in Seq(Request) /\ Len(answered) <= Len(sent) /\ Len(answered) \in Nat
        BY <1>1 DEF IInv, Types, AnswerShape, NumSent
      <3>2. i \in 1..Len(sent)
        BY <3>1
      <3> QED
        BY <3>1, <3>2, ElementOfSeq
    <2> QED
      BY <2>1, <2>2, BytesArePieces
  <1> QED
    BY <1>1, Invariant, PTL

(* Without that, a handler has still seen a beginning of its own body and of no
   other: bytes left over end the connection before another request is read. *)
HandlerSeesABeginning ==
    \A i \in 1..Len(answered) : answered[i].by = "handler" =>
        \E n \in 0..sent[i].body : answered[i].seen = SubSeq(BodyBytes(i, sent[i]), 1, n)

THEOREM HandlersSeeBeginnings == Spec => []HandlerSeesABeginning
  <1>1. ASSUME IInv PROVE HandlerSeesABeginning
    <2> SUFFICES ASSUME NEW i \in 1..Len(answered), answered[i].by = "handler"
                 PROVE  \E n \in 0..sent[i].body :
                            answered[i].seen = SubSeq(BodyBytes(i, sent[i]), 1, n)
      BY DEF HandlerSeesABeginning
    <2>1. PICK n \in 0..sent[i].body :
              answered[i].seen = Piece(i, sent[i].header, sent[i].header + n)
      BY <1>1 DEF IInv, AnswerShape
    <2>2. i \in Nat /\ sent[i] \in Request
      <3>1. sent \in Seq(Request) /\ Len(answered) <= Len(sent) /\ Len(answered) \in Nat
        BY <1>1 DEF IInv, Types, AnswerShape, NumSent
      <3>2. i \in 1..Len(sent)
        BY <3>1
      <3> QED
        BY <3>1, <3>2, ElementOfSeq
    <2>3. sent[i].header \in Nat /\ sent[i].body \in Nat
      BY <2>2, RequestTypes
    <2>4. Front(BodyBytes(i, sent[i]), n) = Piece(i, sent[i].header, sent[i].header + n)
      <3>1. BodyBytes(i, sent[i]) = Piece(i, sent[i].header, sent[i].header + sent[i].body)
        BY <2>2, BytesArePieces
      <3> DEFINE h == sent[i].header
                 e == h + sent[i].body
      <3>2. e \in Nat /\ n \in Nat /\ h <= e /\ n <= e - h /\ h \in Nat
        BY <2>3
      <3> HIDE DEF h, e
      <3>3. Front(Piece(i, h, e), n) = Piece(i, h, h + n)
        BY <2>2, <3>2, PieceFront
      <3> QED
        BY <3>1, <3>3 DEF h, e
    <2> QED
      BY <2>1, <2>4 DEF Front
  <1> QED
    BY <1>1, Invariant, PTL

(* A parse error is the client's: with handlers that read bodies to their end
   no cut of a well-formed request and no request before it can cause one. *)
THEOREM ParseErrorsAreTheClients ==
    ASSUME ReadsWholeBody
    PROVE  Spec => []ParseErrorIsTheClients
  <1>1. IInv => ParseErrorIsTheClients
    BY DEF IInv, Reason, ParseErrorIsTheClients, Req, NumSent
  <1> QED
    BY <1>1, Invariant, PTL
=============================================================================
