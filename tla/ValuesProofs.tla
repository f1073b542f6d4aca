---------------------------- MODULE ValuesProofs ----------------------------
(***************************************************************************)
(* Theorems about the machines of Values, for any number of calls, changes *)
(* and headers, any data, and texts of any length: StaticFiles over a file *)
(* system that others change, the Buffers that are moved into packages,    *)
(* the escapes of URLs, Dates that are assigned again, the cookies of a     *)
(* request, the routes a program adds and the vector of a header block.    *)
(***************************************************************************)
EXTENDS Values, ParsersProofs, SequencesExt, SequenceTheorems, FiniteSetTheorems, TLAPS

-----------------------------------------------------------------------------
(* StaticFiles *)

AnswerType == [status : Nat, body : {"teapot", "status_page", "page", "file"}]

FileTypes ==
    /\ request \in [dots : BOOLEAN, list_files : BOOLEAN]
    /\ what \in SF!Kinds /\ seen \in Seq(SF!Kinds) /\ seen # << >>
    /\ seen[Len(seen)] = what
    /\ step \in {"check", "stat", "opendir", "list", "open", "sending", "done"}
    /\ client \in {"reads", "gone"} /\ out \in Seq(AnswerType)

Told ==
    out # << >> =>
        IF request.dots THEN out[1].body = "teapot"
        ELSE \E i \in DOMAIN seen :
                 SF!Justifies(seen[i], out[1])

(* Nothing is sent before the call that ends the handler or begins a file. *)
Unanswered == step \in {"check", "stat", "opendir", "list", "open"} => out = << >>
OneAnswer ==
    /\ Len(out) <= 1
    /\ step \in {"sending", "done"} /\ client = "reads" => Len(out) = 1
    /\ request.dots => step \in {"check", "done"}

(* What the calls before have found at the path. *)
Found ==
    /\ step = "list" => request.list_files /\ \E i \in DOMAIN seen : seen[i] = "dir"
    /\ step = "open" => what \in {"file", "empty"} \/ Len(seen) > 1

AnswerInv == FileTypes /\ Told /\ Unanswered /\ OneAnswer /\ Found

LEMMA KindsFacts ==
    ASSUME NEW k \in SF!Kinds
    PROVE  /\ k \notin {"file", "empty", "dir"} =>
                /\ k \in {"denied", "guarded", "absent"}
                /\ SF!StatusOf(SF!Errno[k]) \in Nat
                /\ k = "denied" => SF!StatusOf(SF!Errno[k]) = 500
                /\ k = "guarded" => SF!StatusOf(SF!Errno[k]) = 403
                /\ k = "absent" => SF!StatusOf(SF!Errno[k]) = 404
           /\ SF!Errno[k] = "ENOTDIR" <=> k \in {"file", "empty"}
<1>1. k \in {"file", "empty", "dir", "denied", "guarded", "absent"}
  BY DEF SF!Kinds
<1>2. /\ SF!Errno["denied"] = "EACCES" /\ SF!Errno["guarded"] = "EPERM"
      /\ SF!Errno["absent"] = "ENOENT" /\ SF!Errno["file"] = "ENOTDIR"
      /\ SF!Errno["empty"] = "ENOTDIR" /\ SF!Errno["dir"] = "EISDIR"
  BY DEF SF!Errno
<1>3. /\ SF!StatusOf("ENOENT") = 404 /\ SF!StatusOf("EPERM") = 403
      /\ SF!StatusOf("EACCES") = 500
  BY ZenonT(60) DEF SF!StatusOf
<1>4. 404 \in Nat /\ 403 \in Nat /\ 500 \in Nat
  OBVIOUS
<1> QED BY <1>1, <1>2, <1>3, <1>4

LEMMA AppendFirst ==
    ASSUME NEW S, NEW s \in Seq(S), s = << >>, NEW e \in S
    PROVE  Append(s, e) \in Seq(S) /\ Len(Append(s, e)) = 1 /\ Append(s, e)[1] = e
<1>1. Len(s) = 0
  BY EmptySeq
<1> QED BY <1>1, AppendProperties

(* What is sent first, or not at all when the client is gone. *)
LEMMA SentFirst ==
    ASSUME AnswerInv, out = << >>, NEW status \in Nat,
           NEW body \in {"teapot", "status_page", "page", "file"},
           out' = SF!Sent(status, body)
    PROVE  /\ out' \in Seq(AnswerType) /\ Len(out') <= 1
           /\ client = "reads" => Len(out') = 1
           /\ out' # << >> => out'[1] = [status |-> status, body |-> body]
<1> DEFINE reply == [status |-> status, body |-> body]
<1>1. reply \in AnswerType
  BY DEF AnswerType
<1>2. out \in Seq(AnswerType) /\ Len(out) = 0 /\ client \in {"reads", "gone"}
  BY EmptySeq DEF AnswerInv, FileTypes
<1>3. out' = IF client = "gone" THEN out ELSE Append(out, reply)
  BY DEF SF!Sent
<1> HIDE DEF reply
<1>4. CASE client = "gone"
  <2>1. out' = out /\ client # "reads"
    BY <1>3, <1>4
  <2>2. out' \in Seq(AnswerType) /\ Len(out') <= 1 
    BY <1>2, <2>1
  <2>3. out' = << >>
    BY <2>1
  <2> QED BY <2>1, <2>2, <2>3
<1>5. CASE client = "reads"
  <2>1. out' = Append(out, reply)
    BY <1>3, <1>5
  <2>2. out' \in Seq(AnswerType) /\ Len(out') = 1 /\ out'[1] = reply
    BY <1>1, <1>2, <2>1, AppendFirst
  <2> QED BY <2>2 DEF reply
<1> QED BY <1>2, <1>4, <1>5

(* The handler ends with an answer of what is at the path. *)
LEMMA EndsWith ==
    ASSUME AnswerInv, out = << >>, NEW status \in Nat,
           NEW body \in {"teapot", "status_page", "page", "file"},
           NEW next \in {"sending", "done"}, request.dots => next = "done",
           out' = SF!Sent(status, body), step' = next,
           UNCHANGED <<request, what, seen, client>>,
           IF request.dots THEN body = "teapot"
           ELSE \E i \in DOMAIN seen :
                    SF!Justifies(seen[i], [status |-> status, body |-> body])
    PROVE  AnswerInv'
<1> DEFINE reply == [status |-> status, body |-> body]
<1>1. /\ out' \in Seq(AnswerType) /\ Len(out') <= 1
      /\ client = "reads" => Len(out') = 1
      /\ out' # << >> => out'[1] = reply
  BY SentFirst
<1>2. FileTypes'
  BY <1>1 DEF AnswerInv, FileTypes
<1>3. Told'
  <2>1. /\ request.dots => reply.body = "teapot"
        /\ ~request.dots => \E i \in DOMAIN seen :
               SF!Justifies(seen[i], reply)
    OBVIOUS
  <2> HIDE DEF reply
  <2> QED BY <1>1, <2>1 DEF Told, SF!Justifies
<1>4. Unanswered' /\ OneAnswer' /\ Found'
  BY <1>1 DEF Unanswered, OneAnswer, Found
<1> QED BY <1>2, <1>3, <1>4 DEF AnswerInv

LEMMA CallsKeepAnswer ==
    ASSUME AnswerInv,
           \/ SF!CheckPath \/ SF!StatPath \/ SF!OpenDir \/ SF!SendPage
           \/ SF!OpenFile \/ SF!SendPiece
    PROVE  AnswerInv'
<1>1. /\ what \in SF!Kinds /\ seen \in Seq(SF!Kinds) /\ Len(seen) \in Nat
      /\ Len(seen) \in DOMAIN seen /\ seen[Len(seen)] = what
      /\ request.dots \in BOOLEAN /\ request.list_files \in BOOLEAN
  BY EmptySeq DEF AnswerInv, FileTypes
<1> DEFINE reply(status, body) == [status |-> status, body |-> body]
           told(status, body) ==
               \E i \in DOMAIN seen :
                   SF!Justifies(seen[i], reply(status, body))
<1>2. CASE SF!CheckPath
  <2>1. out = << >>
    BY <1>2 DEF SF!CheckPath, AnswerInv, Unanswered
  <2>2. CASE request.dots
    BY <1>2, <2>1, <2>2, EndsWith DEF SF!CheckPath, SF!Answer
  <2>3. CASE ~request.dots
    <3>1. step' = "stat" /\ UNCHANGED <<request, what, seen, client, out>>
      BY <1>2, <2>3 DEF SF!CheckPath
    <3> QED BY <2>1, <2>3, <3>1
        DEF AnswerInv, FileTypes, Told, SF!Justifies, Unanswered, OneAnswer, Found
  <2> QED BY <2>2, <2>3
<1>3. ASSUME what \notin {"file", "empty", "dir"}
      PROVE  /\ told(SF!StatusOf(SF!Errno[what]), "status_page")
             /\ SF!StatusOf(SF!Errno[what]) \in Nat
  BY <1>1, <1>3, KindsFacts DEF SF!Justifies
<1>4. CASE SF!StatPath
  <2>1. out = << >> /\ ~request.dots
    BY <1>4 DEF SF!StatPath, AnswerInv, Unanswered, OneAnswer
  <2>2. CASE what \in {"file", "empty", "dir"}
    BY <1>4, <2>1, <2>2
    DEF SF!StatPath, AnswerInv, FileTypes, Told, SF!Justifies, Unanswered, OneAnswer, Found
  <2>3. CASE what \notin {"file", "empty", "dir"}
    BY <1>3, <1>4, <2>1, <2>3, EndsWith DEF SF!StatPath, SF!Answer
  <2> QED BY <2>2, <2>3
<1>5. CASE SF!OpenDir
  <2>1. out = << >> /\ ~request.dots
    BY <1>5 DEF SF!OpenDir, AnswerInv, Unanswered, OneAnswer
  <2>2. CASE what = "dir" /\ request.list_files /\ step' = "list" /\ UNCHANGED out
    BY <1>1, <1>5, <2>1, <2>2
    DEF SF!OpenDir, AnswerInv, FileTypes, Told, SF!Justifies, Unanswered, OneAnswer, Found
  <2>3. CASE what = "dir" /\ ~request.list_files /\ SF!Answer(403, "status_page")
    <3>1. told(403, "status_page") /\ 403 \in Nat
      BY <1>1, <2>3 DEF SF!Justifies
    <3> QED BY <1>5, <2>1, <2>3, <3>1, EndsWith, ZenonT(60) DEF SF!OpenDir, SF!Answer
  <2>4. CASE SF!Errno[what] = "ENOTDIR" /\ step' = "open" /\ UNCHANGED out
    <3>1. what \in {"file", "empty"}
      BY <1>1, <2>4, KindsFacts
    <3> QED BY <1>1, <1>5, <2>1, <2>4, <3>1
        DEF SF!OpenDir, AnswerInv, FileTypes, Told, SF!Justifies, Unanswered, OneAnswer, Found
  <2>5. CASE /\ what # "dir" /\ SF!Errno[what] # "ENOTDIR"
             /\ SF!Answer(SF!StatusOf(SF!Errno[what]), "status_page")
    <3>1. what \notin {"file", "empty", "dir"}
      BY <1>1, <2>5, KindsFacts
    <3> QED BY <1>3, <1>5, <2>1, <2>5, <3>1, EndsWith DEF SF!OpenDir, SF!Answer
  <2> QED BY <1>5, <2>2, <2>3, <2>4, <2>5 DEF SF!OpenDir
<1>6. CASE SF!SendPage
  <2>1. /\ out = << >> /\ ~request.dots /\ request.list_files
        /\ \E i \in DOMAIN seen : seen[i] = "dir"
    BY <1>6 DEF SF!SendPage, AnswerInv, Unanswered, OneAnswer, Found
  <2>2. told(200, "page") /\ 200 \in Nat
    BY <2>1 DEF SF!Justifies
  <2>3. /\ out' = SF!Sent(200, "page") /\ step' = "done"
        /\ UNCHANGED <<request, what, seen, client>>
    BY <1>6 DEF SF!SendPage, SF!Answer
  <2> QED BY <2>1, <2>2, <2>3, EndsWith, Zenon
<1>7. CASE SF!OpenFile
  <2>1. out = << >> /\ ~request.dots /\ (what \in {"file", "empty"} \/ Len(seen) > 1)
    BY <1>7 DEF SF!OpenFile, AnswerInv, Unanswered, OneAnswer, Found
  <2>2. CASE what = "file"
    <3>1. told(200, "file") /\ 200 \in Nat
      BY <1>1, <2>2 DEF SF!Justifies
    <3> QED BY <1>7, <2>1, <2>2, <3>1, EndsWith DEF SF!OpenFile
  <2>3. CASE what # "file"
    <3>1. told(500, "status_page") /\ 500 \in Nat
      BY <1>1, <2>1, <2>3 DEF SF!Justifies
    <3>2. /\ out' = SF!Sent(500, "status_page") /\ step' = "done"
          /\ UNCHANGED <<request, what, seen, client>>
      BY <1>7, <2>3 DEF SF!OpenFile, SF!SendFileFailed
    <3> QED BY <2>1, <3>1, <3>2, EndsWith, ZenonT(60)
  <2> QED BY <2>2, <2>3
<1>8. CASE SF!SendPiece
  <2>1. UNCHANGED out /\ step = "sending" /\ step' \in {"sending", "done"}
    BY <1>8 DEF SF!SendPiece, SF!SendFileFailed, SF!Sent
  <2> QED BY <1>8, <2>1
      DEF SF!SendPiece, AnswerInv, FileTypes, Told, SF!Justifies, Unanswered, OneAnswer, Found
<1> QED BY <1>2, <1>4, <1>5, <1>6, <1>7, <1>8

(* Others change what is at the path, and the client may go. *)
LEMMA OthersKeepAnswer ==
    ASSUME AnswerInv, SF!Change \/ SF!ClientLeaves
    PROVE  AnswerInv'
<1>1. CASE SF!ClientLeaves
  BY <1>1 DEF SF!ClientLeaves, AnswerInv, FileTypes, Told, SF!Justifies, Unanswered, OneAnswer, Found
<1>2. CASE SF!Change
  <2>1. /\ seen' \in Seq(SF!Kinds) /\ Len(seen') = Len(seen) + 1
        /\ seen'[Len(seen')] = what' /\ what' \in SF!Kinds /\ Len(seen') > 1
        /\ \A i \in DOMAIN seen : i \in DOMAIN seen' /\ seen'[i] = seen[i]
    <3>1. what' \in SF!Kinds /\ seen' = Append(seen, what') /\ seen \in Seq(SF!Kinds)
      BY <1>2 DEF SF!Change, AnswerInv, FileTypes
    <3>2. Len(seen) > 0
      BY <3>1, EmptySeq DEF AnswerInv, FileTypes
    <3> QED BY <3>1, <3>2, AppendProperties
  <2>2. UNCHANGED <<request, step, client, out>>
    BY <1>2 DEF SF!Change
  <2>3. FileTypes'
    BY <2>1, <2>2, EmptySeq DEF AnswerInv, FileTypes
  <2>4. Told'
    <3>1. CASE out = << >> \/ request.dots
      BY <2>2, <3>1 DEF AnswerInv, Told
    <3>2. CASE out # << >> /\ ~request.dots
      <4>1. PICK i \in DOMAIN seen : SF!Justifies(seen[i], out[1])
        BY <3>2 DEF AnswerInv, Told
      <4>2. i \in DOMAIN seen' /\ seen'[i] = seen[i] /\ Len(seen') > 1
        BY <2>1
      <4>3. \E j \in DOMAIN seen' : SF!Justifies(seen[j], out[1])'
        BY <2>2, <4>1, <4>2 DEF SF!Justifies
      <4> QED BY <4>3, <2>2, <3>2 DEF Told
    <3> QED BY <3>1, <3>2
  <2>5. Unanswered' /\ OneAnswer' /\ Found'
    BY <2>1, <2>2 DEF AnswerInv, Unanswered, OneAnswer, Found
  <2> QED BY <2>3, <2>4, <2>5 DEF AnswerInv
<1> QED BY <1>1, <1>2

LEMMA AnswerInvariant == SF!Spec => []AnswerInv
<1>1. SF!Init => AnswerInv
  <2> SUFFICES ASSUME SF!Init PROVE AnswerInv
    OBVIOUS
  <2>1. /\ seen = <<what>> /\ what \in SF!Kinds /\ out = << >> /\ step = "check"
        /\ client = "reads" /\ Len(out) = 0
        /\ request \in [dots : BOOLEAN, list_files : BOOLEAN]
    BY EmptySeq DEF SF!Init
  <2> QED BY <2>1, EmptySeq
      DEF AnswerInv, FileTypes, Told, SF!Justifies, Unanswered, OneAnswer, Found
<1>2. AnswerInv /\ [SF!Next]_SF!vars => AnswerInv'
  <2>1. ASSUME AnswerInv, UNCHANGED SF!vars PROVE AnswerInv'
    BY <2>1 DEF SF!vars, AnswerInv, FileTypes, Told, SF!Justifies, Unanswered, OneAnswer, Found
  <2> QED BY <2>1, CallsKeepAnswer, OthersKeepAnswer DEF SF!Next
<1> QED BY <1>1, <1>2, PTL DEF SF!Spec

(* StaticFiles::handler: for any number of changes between its calls, a client that
   stays gets one response, true of something that was at the path. *)
THEOREM StaticAnswersAreTrue == SF!Spec => []SF!AnswerIsTrue
<1>1. ASSUME AnswerInv PROVE SF!AnswerIsTrue
  <2>1. /\ Len(out) <= 1
        /\ step = "done" /\ client = "reads" => Len(out) = 1
    BY <1>1 DEF AnswerInv, OneAnswer
  <2>2. ASSUME out # << >>, ~request.dots
        PROVE  \E i \in DOMAIN seen : SF!Justifies(seen[i], out[1])
    BY <1>1, <2>2 DEF AnswerInv, Told
  <2>3. out # << >> /\ request.dots => out[1].body = "teapot"
    BY <1>1 DEF AnswerInv, Told
  <2> QED BY <2>1, <2>2, <2>3 DEF SF!AnswerIsTrue
<1> QED BY <1>1, AnswerInvariant, PTL

-----------------------------------------------------------------------------
(* Buffers *)

(* What memory and packages hold. *)
Texts ==
    Passable \cup {BF!CRLF, BF!Reused} \cup {<<"size", Len(d)>> : d \in Passable}
Content == Texts \cup {BF!Null} \cup {BF!View(i) : i \in Nat}
BufferType == [type : BF!Types \cup {"none"}, held : [BF!Types -> Content]]

(* A Buffer that owns the text, or views memory that is the text. *)
Holds(b, text, mem) ==
    \/ b.type \in {"str", "vec"} /\ b.held[b.type] = text /\ b.held.sv = BF!Null
    \/ b.type = "sv" /\ \E k \in 1..Len(mem) : b.held.sv = BF!View(k) /\ mem[k] = text

BufferTypes ==
    /\ buf_write \in BufferType /\ chunk_end = BF!Buffer("sv", BF!View(1))
    /\ memory \in Seq(Texts) /\ Len(memory) > 0 /\ memory[1] = BF!CRLF
    /\ packages \in Seq(BufferType) /\ wire \in Seq(Texts) /\ passed \in Seq(Texts)

(* The packages ps hold what was passed and is not on the wire. *)
Flow(done, ps, given, mem) ==
    /\ Len(done) + Len(ps) = Len(given)
    /\ \A i \in 1..Len(done) : done[i] = given[i]
    /\ \A i \in 1..Len(ps) : Holds(ps[i], given[Len(done) + i], mem)

FlowInv == BufferTypes /\ Flow(wire, packages, passed, memory)

LEMMA ViewFacts ==
    ASSUME NEW i \in Nat, NEW j \in Nat
    PROVE  /\ BF!View(i) # BF!Null /\ BF!View(i)[2] = i
           /\ BF!View(i) = BF!View(j) => i = j
BY DEF BF!View, BF!Null

(* get and size give the text. *)
LEMMA HoldsBytes ==
    ASSUME NEW b, NEW text, NEW mem, Len(mem) \in Nat, Holds(b, text, mem)
    PROVE  BF!Bytes(b, mem) = text
<1>1. "str" # "sv" /\ "vec" # "sv" /\ "str" # "none" /\ "vec" # "none" /\ "sv" # "none"
  OBVIOUS
<1>2. CASE b.type \in {"str", "vec"} /\ b.held[b.type] = text
  BY <1>1, <1>2, Zenon DEF BF!Bytes
<1>3. CASE b.type = "sv" /\ \E k \in 1..Len(mem) : b.held.sv = BF!View(k) /\ mem[k] = text
  <2>1. PICK k \in 1..Len(mem) : b.held.sv = BF!View(k) /\ mem[k] = text
    BY <1>3
  <2>2. b.held.sv # BF!Null /\ mem[b.held.sv[2]] = text
    BY <2>1, ViewFacts
  <2> QED BY <1>1, <1>3, <2>2, Zenon DEF BF!Bytes
<1> QED BY <1>2, <1>3 DEF Holds

LEMMA BufferHolds ==
    ASSUME NEW mem, NEW text \in Texts,
           NEW type \in BF!Types, NEW x \in Content,
           \/ type \in {"str", "vec"} /\ x = text
           \/ type = "sv" /\ \E k \in 1..Len(mem) : x = BF!View(k) /\ mem[k] = text
    PROVE  /\ BF!Buffer(type, x) \in BufferType /\ Holds(BF!Buffer(type, x), text, mem)
           /\ BF!Buffer(type, x).type = type /\ BF!Buffer(type, x).held[type] = x
<1>1. BF!Null \in Content
  BY DEF Content
<1> QED BY <1>1 DEF BF!Buffer, BufferType, Holds, BF!Types

LEMMA HoldsLonger ==
    ASSUME NEW b, NEW text, NEW mem \in Seq(Texts), NEW d \in Texts, Holds(b, text, mem)
    PROVE  Holds(b, text, Append(mem, d))
BY AppendProperties DEF Holds

(* A call fills buf_write, which then moves into a package. *)
LEMMA CallMoves ==
    ASSUME BufferTypes, NEW call \in BF!Calls
    PROVE  /\ call.data \in Passable /\ call.mem = Append(memory, call.data)
           /\ BF!Bytes(call.buf, call.mem) = call.data
           /\ BF!Moved(call.buf) \in BufferType
           /\ Holds(BF!Moved(call.buf), call.data, call.mem)
           /\ BF!MovedFrom(call.buf) \in BufferType
<1>1. PICK t \in BF!Types, d \in Passable :
          call = [type |-> t, data |-> d, mem |-> Append(memory, d),
                  buf |-> BF!Assigned(buf_write, t,
                              IF t = "sv" THEN BF!View(Len(memory) + 1) ELSE d)]
  BY DEF BF!Calls
<1> DEFINE x == IF t = "sv" THEN BF!View(Len(memory) + 1) ELSE d
           mem == Append(memory, d)
           b == BF!Assigned(buf_write, t, x)
<1>2. call.data = d /\ call.mem = mem /\ call.buf = b
  BY <1>1
<1>3. /\ d \in Texts /\ Len(memory) \in Nat /\ mem \in Seq(Texts)
      /\ Len(mem) = Len(memory) + 1 /\ mem[Len(memory) + 1] = d
  BY AppendProperties DEF BufferTypes, Texts
<1>4. x \in Content
  BY <1>3 DEF Content
<1>5. /\ b.type = t /\ b \in BufferType /\ b.held \in [BF!Types -> Content]
      /\ b.held[t] = x
  BY <1>4 DEF BF!Assigned, BufferTypes, BufferType
<1>6. \/ t \in {"str", "vec"} /\ x = d
      \/ t = "sv" /\ \E k \in 1..Len(mem) : x = BF!View(k) /\ mem[k] = d
  BY <1>3 DEF BF!Types
<1> HIDE DEF b, x, mem
<1>7. BF!Moved(b) = BF!Buffer(t, x)
  BY <1>5 DEF BF!Moved, BF!Types
<1>8. BF!Moved(b) \in BufferType /\ Holds(BF!Moved(b), d, mem)
  BY <1>3, <1>4, <1>6, <1>7, BufferHolds
<1>9. BF!Bytes(b, mem) = d
  <2>1. "str" # "sv" /\ "vec" # "sv" /\ "str" # "none" /\ "vec" # "none" /\ "sv" # "none"
    OBVIOUS
  <2>2. CASE t \in {"str", "vec"} /\ x = d
    BY <1>5, <2>1, <2>2, Zenon DEF BF!Bytes
  <2>3. CASE t = "sv" /\ \E k \in 1..Len(mem) : x = BF!View(k) /\ mem[k] = d
    <3>1. PICK k \in 1..Len(mem) : x = BF!View(k) /\ mem[k] = d
      BY <2>3
    <3>2. b.held.sv # BF!Null /\ mem[b.held.sv[2]] = d
      BY <1>3, <1>5, <2>3, <3>1, ViewFacts
    <3> QED BY <1>5, <2>1, <2>3, <3>2, Zenon DEF BF!Bytes
  <2> QED BY <1>6, <2>2, <2>3
<1>10. BF!MovedFrom(b) \in BufferType
  <2>1. BF!Null \in Content
    BY DEF Content
  <2> DEFINE held == [b.held EXCEPT ![t] = BF!Null]
  <2>2. held \in [BF!Types -> Content]
    BY <1>5, <2>1
  <2>3. BF!MovedFrom(b) = [b EXCEPT !.held = held]
    BY <1>5 DEF BF!MovedFrom, BF!Types, BufferType
  <2> HIDE DEF held
  <2> QED BY <1>5, <2>2, <2>3 DEF BufferType
<1> QED BY <1>2, <1>8, <1>9, <1>10 DEF mem
(* One more package, for one more text. *)
LEMMA Posts ==
    ASSUME NEW done \in Seq(Texts), NEW ps \in Seq(BufferType), NEW given \in Seq(Texts),
           NEW mem, Flow(done, ps, given, mem),
           NEW b \in BufferType, NEW text \in Texts, Holds(b, text, mem)
    PROVE  /\ Append(ps, b) \in Seq(BufferType) /\ Append(given, text) \in Seq(Texts)
           /\ Flow(done, Append(ps, b), Append(given, text), mem)
<1> DEFINE ps1 == Append(ps, b)
           given1 == Append(given, text)
<1>1. /\ ps1 \in Seq(BufferType) /\ Len(ps1) = Len(ps) + 1
      /\ \A i \in 1..Len(ps) : ps1[i] = ps[i]
      /\ ps1[Len(ps) + 1] = b
  BY AppendProperties
<1>2. /\ given1 \in Seq(Texts) /\ Len(given1) = Len(given) + 1
      /\ \A i \in 1..Len(given) : given1[i] = given[i]
      /\ given1[Len(given) + 1] = text
  BY AppendProperties
<1>3. /\ Len(done) \in Nat /\ Len(ps) \in Nat /\ Len(given) \in Nat
      /\ Len(given) = Len(done) + Len(ps)
  BY DEF Flow
<1> HIDE DEF ps1, given1
<1>4. Len(done) + Len(ps1) = Len(given1)
  BY <1>1, <1>2, <1>3
<1>5. ASSUME NEW i \in 1..Len(done) PROVE done[i] = given1[i]
  BY <1>2, <1>3 DEF Flow
<1>6. ASSUME NEW i \in 1..Len(ps1) PROVE Holds(ps1[i], given1[Len(done) + i], mem)
  <2>1. i \in 1..Len(ps) \/ i = Len(ps) + 1
    BY <1>1, <1>3
  <2>2. CASE i \in 1..Len(ps)
    <3>1. Len(done) + i \in 1..Len(given) /\ Holds(ps[i], given[Len(done) + i], mem)
      BY <1>3, <2>2 DEF Flow
    <3>2. ps1[i] = ps[i] /\ given1[Len(done) + i] = given[Len(done) + i]
      BY <1>1, <1>2, <2>2, <3>1
    <3> QED BY <3>1, <3>2
  <2>3. CASE i = Len(ps) + 1
    <3>1. Len(done) + i = Len(given) + 1
      BY <1>3, <2>3
    <3>2. ps1[i] = b /\ given1[Len(done) + i] = text
      BY <1>1, <1>2, <2>3, <3>1
    <3> QED BY <3>2
  <2> QED BY <2>1, <2>2, <2>3
<1>7. Flow(done, ps1, given1, mem)
  BY <1>4, <1>5, <1>6 DEF Flow
<1> QED BY <1>1, <1>2, <1>7 DEF ps1, given1

LEMMA FlowLonger ==
    ASSUME BufferTypes, Flow(wire, packages, passed, memory), NEW d \in Texts
    PROVE  Flow(wire, packages, passed, Append(memory, d))
BY HoldsLonger DEF BufferTypes, Flow

LEMMA MemoryLonger ==
    ASSUME BufferTypes, NEW d \in Texts
    PROVE  /\ Append(memory, d) \in Seq(Texts) /\ Len(Append(memory, d)) > 0
           /\ Append(memory, d)[1] = BF!CRLF
BY AppendProperties DEF BufferTypes

LEMMA RawWriteFlows ==
    ASSUME FlowInv, BF!RawWrite
    PROVE  FlowInv'
<1>1. PICK call \in BF!Calls :
          /\ packages' = Append(packages, BF!Moved(call.buf))
          /\ buf_write' = BF!MovedFrom(call.buf) /\ memory' = call.mem
          /\ passed' = Append(passed, call.data)
  BY DEF BF!RawWrite
<1>2. UNCHANGED <<chunk_end, wire>>
  BY DEF BF!RawWrite
<1>3. BufferTypes /\ Flow(wire, packages, passed, memory)
  BY DEF FlowInv
<1>4. /\ call.data \in Passable /\ call.mem = Append(memory, call.data)
      /\ BF!Moved(call.buf) \in BufferType
      /\ Holds(BF!Moved(call.buf), call.data, call.mem)
      /\ BF!MovedFrom(call.buf) \in BufferType
  BY <1>3, CallMoves
<1>5. call.data \in Texts
  BY <1>4 DEF Texts
<1>6. Flow(wire, packages, passed, call.mem)
  BY <1>3, <1>4, <1>5, FlowLonger
<1>7. /\ packages' \in Seq(BufferType) /\ passed' \in Seq(Texts)
      /\ Flow(wire, packages', passed', call.mem)
  <2>1. wire \in Seq(Texts) /\ packages \in Seq(BufferType) /\ passed \in Seq(Texts)
    BY <1>3 DEF BufferTypes
  <2> QED BY <1>1, <1>4, <1>5, <1>6, <2>1, Posts
<1>8. memory' \in Seq(Texts) /\ Len(memory') > 0 /\ memory'[1] = BF!CRLF
  BY <1>1, <1>3, <1>4, <1>5, MemoryLonger
<1>9. BufferTypes'
  BY <1>1, <1>2, <1>3, <1>4, <1>7, <1>8 DEF BufferTypes
<1> QED BY <1>1, <1>2, <1>7, <1>9 DEF FlowInv

LEMMA WriteFlows ==
    ASSUME FlowInv, BF!Write
    PROVE  FlowInv'
<1>1. PICK call \in BF!Calls :
          /\ packages' = packages \o
                <<BF!ChunkHeader(Len(BF!Bytes(call.buf, call.mem))), BF!Moved(call.buf),
                  BF!Copied(chunk_end)>>
          /\ buf_write' = BF!MovedFrom(call.buf) /\ memory' = call.mem
          /\ passed' = passed \o <<<<"size", Len(call.data)>>, call.data, BF!CRLF>>
  BY DEF BF!Write
<1>2. UNCHANGED <<chunk_end, wire>>
  BY DEF BF!Write, BF!CopiedFrom
<1>3. BufferTypes /\ Flow(wire, packages, passed, memory)
  BY DEF FlowInv
<1>4. /\ call.data \in Passable /\ call.mem = Append(memory, call.data)
      /\ BF!Bytes(call.buf, call.mem) = call.data
      /\ BF!Moved(call.buf) \in BufferType
      /\ Holds(BF!Moved(call.buf), call.data, call.mem)
      /\ BF!MovedFrom(call.buf) \in BufferType
  BY <1>3, CallMoves
<1> DEFINE size1 == <<"size", Len(call.data)>>
           h == BF!ChunkHeader(Len(call.data))
           m == BF!Moved(call.buf)
           e == BF!Copied(chunk_end)
<1>5. call.data \in Texts /\ size1 \in Texts /\ BF!CRLF \in Texts
  BY <1>4 DEF Texts
<1>6. call.mem \in Seq(Texts) /\ Len(call.mem) > 0 /\ call.mem[1] = BF!CRLF
  BY <1>3, <1>4, <1>5, MemoryLonger
<1>7. h \in BufferType /\ Holds(h, size1, call.mem)
  <2>1. size1 \in Content /\ "vec" \in BF!Types
    BY <1>5 DEF Content, BF!Types
  <2>2. h = BF!Buffer("vec", size1)
    BY DEF BF!ChunkHeader
  <2> HIDE DEF h, size1
  <2> QED BY <1>5, <2>1, <2>2, BufferHolds
<1>8. e \in BufferType /\ Holds(e, BF!CRLF, call.mem)
  <2>1. BF!View(1) \in Content /\ "sv" \in BF!Types
    BY DEF Content, BF!Types
  <2>2. /\ chunk_end = BF!Buffer("sv", BF!View(1))
        /\ chunk_end.type = "sv" /\ chunk_end.held["sv"] = BF!View(1)
    BY <1>3 DEF BufferTypes, BF!Buffer, BF!Types
  <2>3. e = BF!Buffer("sv", BF!View(1))
    BY <2>2 DEF BF!Copied, BF!Moved
  <2>4. \E k \in 1..Len(call.mem) : BF!View(1) = BF!View(k) /\ call.mem[k] = BF!CRLF
    BY <1>6
  <2> HIDE DEF e
  <2> QED BY <1>5, <2>1, <2>3, <2>4, BufferHolds
<1> HIDE DEF size1, h, m, e
<1>9. /\ wire \in Seq(Texts) /\ packages \in Seq(BufferType) /\ passed \in Seq(Texts)
      /\ Flow(wire, packages, passed, call.mem)
  BY <1>3, <1>4, <1>5, FlowLonger DEF BufferTypes
<1> DEFINE ps1 == Append(packages, h)
           ps2 == Append(ps1, m)
           ps3 == Append(ps2, e)
           given1 == Append(passed, size1)
           given2 == Append(given1, call.data)
           given3 == Append(given2, BF!CRLF)
<1>10. /\ ps1 \in Seq(BufferType) /\ given1 \in Seq(Texts)
       /\ Flow(wire, ps1, given1, call.mem)
  BY <1>5, <1>7, <1>9, Posts
<1> HIDE DEF ps1, given1
<1>11. /\ ps2 \in Seq(BufferType) /\ given2 \in Seq(Texts)
       /\ Flow(wire, ps2, given2, call.mem)
  BY <1>4, <1>5, <1>9, <1>10, Posts DEF m
<1> HIDE DEF ps2, given2
<1>12. /\ ps3 \in Seq(BufferType) /\ given3 \in Seq(Texts)
       /\ Flow(wire, ps3, given3, call.mem)
  BY <1>5, <1>8, <1>9, <1>11, Posts
<1>13. packages' = ps3 /\ passed' = given3
  <2>1. packages' = packages \o <<h, m, e>>
    BY <1>1, <1>4 DEF h, m, e
  <2>2. passed' = passed \o <<size1, call.data, BF!CRLF>>
    BY <1>1 DEF size1
  <2>3. m \in BufferType
    BY <1>4 DEF m
  <2>4. packages \o <<h, m, e>> = ps3
    BY <1>7, <1>8, <1>9, <2>3 DEF ps1, ps2
  <2>5. passed \o <<size1, call.data, BF!CRLF>> = given3
    BY <1>5, <1>9 DEF given1, given2
  <2> QED BY <2>1, <2>2, <2>4, <2>5
<1>14. BufferTypes'
  BY <1>1, <1>2, <1>3, <1>4, <1>6, <1>12, <1>13 DEF BufferTypes
<1> QED BY <1>1, <1>2, <1>12, <1>13, <1>14 DEF FlowInv
LEMMA TransmitFlows ==
    ASSUME FlowInv, BF!Transmit
    PROVE  FlowInv'
<1> DEFINE text == passed[Len(wire) + 1]
<1>1. BufferTypes /\ Flow(wire, packages, passed, memory) /\ packages # << >>
  BY DEF FlowInv, BF!Transmit
<1>2. /\ wire \in Seq(Texts) /\ packages \in Seq(BufferType) /\ passed \in Seq(Texts)
      /\ memory \in Seq(Texts)
      /\ Len(wire) \in Nat /\ Len(packages) \in Nat /\ Len(packages) > 0
      /\ Len(passed) = Len(wire) + Len(packages)
  BY <1>1, EmptySeq DEF BufferTypes, Flow
<1>3. text \in Texts /\ Len(wire) + 1 \in 1..Len(passed)
  BY <1>2
<1>4. BF!Bytes(Head(packages), memory) = text
  <2>1. Holds(packages[1], text, memory)
    BY <1>1, <1>2 DEF Flow
  <2>2. Head(packages) = packages[1] /\ Len(memory) \in Nat
    BY <1>2
  <2> HIDE DEF text
  <2> QED BY <2>1, <2>2, HoldsBytes
<1>5. /\ wire' = Append(wire, text) /\ packages' = Tail(packages)
      /\ UNCHANGED <<buf_write, chunk_end, memory, passed>>
  BY <1>4 DEF BF!Transmit
<1>6. /\ wire' \in Seq(Texts) /\ Len(wire') = Len(wire) + 1
      /\ \A i \in 1..Len(wire) : wire'[i] = wire[i]
      /\ wire'[Len(wire) + 1] = text
  BY <1>2, <1>3, <1>5, AppendProperties
<1>7. /\ packages' \in Seq(BufferType) /\ Len(packages') = Len(packages) - 1
      /\ \A i \in 1..Len(packages') : packages'[i] = packages[i + 1]
  BY <1>1, <1>2, <1>5, HeadTailProperties
<1>8. BufferTypes'
  BY <1>1, <1>5, <1>6, <1>7 DEF BufferTypes
<1>9. ASSUME NEW i \in 1..Len(wire') PROVE wire'[i] = passed[i]
  <2>1. CASE i \in 1..Len(wire)
    BY <1>1, <1>6, <2>1 DEF Flow
  <2>2. CASE i = Len(wire) + 1
    BY <1>6, <2>2
  <2> QED BY <1>2, <1>6, <2>1, <2>2
<1>10. ASSUME NEW i \in 1..Len(packages')
       PROVE  Holds(packages'[i], passed[Len(wire') + i], memory)
  <2>1. i + 1 \in 1..Len(packages) /\ Len(wire') + i = Len(wire) + (i + 1)
    BY <1>2, <1>6, <1>7
  <2>2. Holds(packages[i + 1], passed[Len(wire) + (i + 1)], memory)
    BY <1>1, <2>1 DEF Flow
  <2> QED BY <1>7, <2>1, <2>2
<1>11. Len(wire') + Len(packages') = Len(passed)
  BY <1>2, <1>6, <1>7
<1> QED BY <1>5, <1>8, <1>9, <1>10, <1>11 DEF FlowInv, Flow

(* A caller that waits reuses no memory that a package views. *)
LEMMA ReuseFlows ==
    ASSUME CallersWait, FlowInv, BF!CallerReuses
    PROVE  FlowInv'
<1>1. PICK i \in DOMAIN memory \ {1} :
          ~BF!Views(i) /\ memory' = [memory EXCEPT ![i] = BF!Reused]
  BY DEF BF!CallerReuses
<1>2. UNCHANGED <<buf_write, chunk_end, packages, wire, passed>>
  BY DEF BF!CallerReuses
<1>3. BufferTypes /\ Flow(wire, packages, passed, memory)
  BY DEF FlowInv
<1>4. BF!Reused \in Texts
  BY DEF Texts
<1>5. /\ memory \in Seq(Texts) /\ DOMAIN memory = 1..Len(memory) /\ Len(memory) \in Nat
      /\ memory' \in Seq(Texts) /\ Len(memory') = Len(memory)
      /\ \A k \in 1..Len(memory) : k # i => memory'[k] = memory[k]
      /\ memory'[1] = BF!CRLF
  <2>1. memory \in Seq(Texts) /\ Len(memory) > 0 /\ memory[1] = BF!CRLF
    BY <1>3 DEF BufferTypes
  <2> QED BY <1>1, <1>4, <2>1, ExceptSeq
<1>6. ASSUME NEW j \in 1..Len(packages)
      PROVE  Holds(packages[j], passed[Len(wire) + j], memory')
  <2> DEFINE b == packages[j]
             text == passed[Len(wire) + j]
  <2>1. Holds(b, text, memory)
    BY <1>3 DEF Flow
  <2>2. b.held.sv # BF!View(i)
    BY <1>1, <1>3 DEF BF!Views, BufferTypes
  <2> HIDE DEF b, text
  <2>3. Holds(b, text, memory')
    <3>1. CASE b.type \in {"str", "vec"} /\ b.held[b.type] = text /\ b.held.sv = BF!Null
      BY <3>1 DEF Holds
    <3>2. CASE b.type = "sv" /\ \E k \in 1..Len(memory) : b.held.sv = BF!View(k) /\ memory[k] = text
      <4>1. PICK k \in 1..Len(memory) : b.held.sv = BF!View(k) /\ memory[k] = text
        BY <3>2
      <4>2. k \in 1..Len(memory') /\ memory'[k] = text
        BY <1>5, <2>2, <4>1
      <4> QED BY <3>2, <4>1, <4>2 DEF Holds
    <3> QED BY <2>1, <3>1, <3>2 DEF Holds
  <2> QED BY <2>3 DEF b, text
<1>7. BufferTypes'
  BY <1>2, <1>3, <1>5 DEF BufferTypes
<1> QED BY <1>2, <1>3, <1>6, <1>7 DEF FlowInv, Flow

LEMMA FlowInvariant ==
    ASSUME CallersWait
    PROVE  BF!Spec => []FlowInv
<1>1. BF!Init => FlowInv
  <2> SUFFICES ASSUME BF!Init PROVE FlowInv
    OBVIOUS
  <2>1. /\ buf_write = BF!NoBuffer /\ chunk_end = BF!Buffer("sv", BF!View(1))
        /\ memory = <<BF!CRLF>> /\ packages = << >> /\ wire = << >> /\ passed = << >>
    BY DEF BF!Init
  <2>2. BF!NoBuffer \in BufferType
    BY DEF BF!NoBuffer, BufferType, Content
  <2>3. BF!CRLF \in Texts
    BY DEF Texts
  <2>4. memory \in Seq(Texts) /\ Len(memory) > 0 /\ memory[1] = BF!CRLF
    BY <2>1, <2>3
  <2>5. BufferTypes
    BY <2>1, <2>2, <2>4 DEF BufferTypes
  <2>6. Flow(wire, packages, passed, memory)
    BY <2>1 DEF Flow
  <2> QED BY <2>5, <2>6 DEF FlowInv
<1>2. FlowInv /\ [BF!Next]_BF!vars => FlowInv'
  <2> SUFFICES ASSUME FlowInv, [BF!Next]_BF!vars PROVE FlowInv'
    OBVIOUS
  <2>1. CASE BF!Write
    BY <2>1, WriteFlows
  <2>2. CASE BF!RawWrite
    BY <2>2, RawWriteFlows
  <2>3. CASE BF!Transmit
    BY <2>3, TransmitFlows
  <2>4. CASE BF!CallerReuses
    BY <2>4, ReuseFlows
  <2>5. CASE UNCHANGED BF!vars
    BY <2>5 DEF BF!vars, FlowInv, BufferTypes, Flow, Holds
  <2> QED BY <2>1, <2>2, <2>3, <2>4, <2>5 DEF BF!Next
<1> QED BY <1>1, <1>2, PTL DEF BF!Spec

(* Response::write and raw_write: what the strand reads from the packages is, for any
   number of calls and any data, what the calls were given, in their order, as
   long as a caller that passes a pointer leaves its memory alone until it
   is written. *)
THEOREM WireCarriesWhatWasPassed ==
    ASSUME CallersWait
    PROVE  BF!Spec => []BF!WireIsWhatWasPassed
<1>1. FlowInv => BF!WireIsWhatWasPassed
  <2> SUFFICES ASSUME FlowInv PROVE BF!WireIsWhatWasPassed
    OBVIOUS
  <2>1. /\ wire \in Seq(Texts) /\ passed \in Seq(Texts)
        /\ Len(wire) \in Nat /\ Len(wire) <= Len(passed)
        /\ \A i \in 1..Len(wire) : wire[i] = passed[i]
    BY DEF FlowInv, BufferTypes, Flow
  <2>2. SubSeq(wire, 1, Len(wire)) = SubSeq(passed, 1, Len(wire))
    BY <2>1
  <2> QED BY <2>1, <2>2 DEF BF!WireIsWhatWasPassed, BF!IsPrefix
<1> QED BY <1>1, FlowInvariant, PTL
-----------------------------------------------------------------------------
(* Escapes *)

Alphabet == UE!Chars \cup UE!Digits

(* The characters of full behind a, up to b, are read as those of m behind c,
   up to d: a character that stays, or the escape of one. *)
Read(full, m, a, b, c, d) ==
    \/ b = a + 1 /\ d = c + 1 /\ full[b] \in UE!Chars \ {"%"} /\ m[d] = full[b]
    \/ /\ b = a + 3 /\ full[a + 1] = "%"
       /\ \E char \in UE!Chars :
             /\ <<full[a + 2], full[a + 3]>> = UE!Hex[char]
             /\ IF table = "url" /\ char \in UE!Separators
                THEN /\ d = c + 3 /\ m[c + 1] = "%"
                     /\ m[c + 2] = full[a + 2] /\ m[c + 3] = full[a + 3]
                ELSE d = c + 1 /\ m[d] = char

(* So is the text full, piece by piece, the i-th between the i-th ends p and q
   and the ones after them. *)
Corresponds(full, m, p, q) ==
    /\ p \in Seq(Nat) /\ q \in Seq(Nat) /\ Len(p) = Len(q) /\ Len(p) > 0
    /\ p[1] = 0 /\ q[1] = 0 /\ p[Len(p)] = Len(full) /\ q[Len(p)] = Len(m)
    /\ \A i \in 1..Len(p) : q[i] <= p[i] /\ p[i] <= Len(full) /\ q[i] <= Len(m)
    /\ \A i \in 1..(Len(p) - 1) : Read(full, m, p[i], p[i + 1], q[i], q[i + 1])

Written ==
    /\ src \in Seq(UE!Chars) /\ Len(dst) + 3 * Len(src) + 1 <= size
    /\ \E p, q \in Seq(Nat) : Corresponds(dst, means, p, q)

(* The pieces in front of the k-th ends have been read. *)
BeingRead(full, p, q, k) ==
    /\ full \in Seq(Alphabet) /\ Corresponds(full, means, p, q) /\ k \in 1..Len(p)
    /\ size = Len(full) /\ Len(src) = Len(full) - p[k] /\ Len(dst) = q[k]
    /\ \A i \in 1..Len(src) : src[i] = full[p[k] + i]
    /\ \A i \in 1..q[k] : dst[i] = means[i]

EscapeInv ==
    /\ src \in Seq(Alphabet) /\ dst \in Seq(Alphabet) /\ means \in Seq(Alphabet)
    /\ size \in Nat
    /\ \/ phase = "encode" /\ Written
       \/ /\ phase = "decode"
          /\ \E full, p, q, k : BeingRead(full, p, q, k)

LEMMA HexFacts ==
    ASSUME NEW c \in UE!Chars
    PROVE  /\ UE!Hex[c] = <<UE!Hex[c][1], UE!Hex[c][2]>>
           /\ UE!Hex[c][1] \in UE!Digits /\ UE!Hex[c][2] \in UE!Digits
           /\ \A d \in UE!Chars : UE!Hex[c] = UE!Hex[d] => c = d
BY DEF UE!Hex, UE!Chars, UE!Digits

LEMMA Letters == /\ "%" \in Alphabet
                 /\ \A c \in UE!Chars : c \in Alphabet
                 /\ \A c \in UE!Digits : c \in Alphabet
                 /\ UE!Separators \subseteq UE!Chars
                 /\ UE!Keeps(table) \subseteq UE!Chars \ {"%"}
BY DEF Alphabet, UE!Chars, UE!Digits, UE!Separators, UE!Keeps

LEMMA ReadSame ==
    ASSUME NEW full, NEW m, NEW full1, NEW m1, Len(full) \in Nat, Len(m) \in Nat,
           \A i \in 1..Len(full) : full1[i] = full[i],
           \A i \in 1..Len(m) : m1[i] = m[i],
           NEW a \in Nat, NEW b \in Nat, NEW c \in Nat, NEW d \in Nat,
           b <= Len(full), d <= Len(m), Read(full, m, a, b, c, d)
    PROVE  Read(full1, m1, a, b, c, d)
<1>1. CASE b = a + 1 /\ d = c + 1 /\ full[b] \in UE!Chars \ {"%"} /\ m[d] = full[b]
  BY <1>1 DEF Read
<1>2. CASE /\ b = a + 3 /\ full[a + 1] = "%"
           /\ \E char \in UE!Chars :
                 /\ <<full[a + 2], full[a + 3]>> = UE!Hex[char]
                 /\ IF table = "url" /\ char \in UE!Separators
                    THEN /\ d = c + 3 /\ m[c + 1] = "%"
                         /\ m[c + 2] = full[a + 2] /\ m[c + 3] = full[a + 3]
                    ELSE d = c + 1 /\ m[d] = char
  <2>1. full1[a + 1] = full[a + 1] /\ full1[a + 2] = full[a + 2] /\ full1[a + 3] = full[a + 3]
    <3>1. b = a + 3
      BY <1>2
    <3>2. a + 1 \in 1..Len(full) /\ a + 2 \in 1..Len(full) /\ a + 3 \in 1..Len(full)
      BY <3>1
    <3> QED BY <3>2
  <2>2. d = c + 3 => m1[c + 1] = m[c + 1] /\ m1[c + 2] = m[c + 2] /\ m1[c + 3] = m[c + 3]
    OBVIOUS
  <2>3. d = c + 1 => m1[d] = m[d]
    OBVIOUS
  <2> QED BY <1>2, <2>1, <2>2, <2>3 DEF Read
<1> QED BY <1>1, <1>2 DEF Read

LEMMA ConcatAt ==
    ASSUME NEW s \in Seq(Alphabet), NEW t \in Seq(Alphabet)
    PROVE  /\ Len(s) \in Nat /\ Len(t) \in Nat
           /\ s \o t \in Seq(Alphabet) /\ Len(s \o t) = Len(s) + Len(t)
           /\ \A i \in 1..Len(s) : (s \o t)[i] = s[i]
           /\ \A i \in 1..Len(t) : (s \o t)[Len(s) + i] = t[i]
<1>1. Len(s) \in Nat /\ Len(t) \in Nat
  BY LenProperties
<1>2. /\ s \o t \in Seq(Alphabet) /\ Len(s \o t) = Len(s) + Len(t)
      /\ \A i \in 1..(Len(s) + Len(t)) :
            (s \o t)[i] = IF i <= Len(s) THEN s[i] ELSE t[i - Len(s)]
  BY ConcatProperties
<1> QED BY <1>1, <1>2

LEMMA AppendAt ==
    ASSUME NEW S, NEW p \in Seq(S), NEW v \in S
    PROVE  /\ Len(p) \in Nat /\ Append(p, v) \in Seq(S) /\ Len(Append(p, v)) = Len(p) + 1
           /\ Append(p, v)[Len(p) + 1] = v
           /\ \A i \in 1..Len(p) : Append(p, v)[i] = p[i] /\ p[i] \in S
BY AppendProperties, LenProperties, ElementOfSeq

LEMMA AppendEnd ==
    ASSUME NEW p \in Seq(Nat), NEW v \in Nat
    PROVE  /\ Len(p) \in Nat /\ Append(p, v) \in Seq(Nat) /\ Len(Append(p, v)) = Len(p) + 1
           /\ Append(p, v)[Len(p) + 1] = v
           /\ \A i \in 1..Len(p) : Append(p, v)[i] = p[i] /\ p[i] \in Nat
BY AppendAt

LEMMA Sums ==
    ASSUME NEW a \in Nat, NEW b \in Nat, NEW i \in Int
    PROVE  /\ a + (b + i) = (a + b) + i
           /\ i \in 1..(a + 1) => i \in 1..a \/ i = a + 1
           /\ i \in 1..(a + 3) => i \in 1..a \/ i = a + 1 \/ i = a + 2 \/ i = a + 3
OBVIOUS

LEMMA OneMore ==
    ASSUME NEW s \in Seq(Alphabet), NEW c \in Alphabet
    PROVE  /\ Len(s) \in Nat /\ s \o <<c>> \in Seq(Alphabet) /\ Len(s \o <<c>>) = Len(s) + 1
           /\ (s \o <<c>>)[Len(s) + 1] = c
           /\ \A i \in 1..Len(s) : (s \o <<c>>)[i] = s[i]
<1> DEFINE t == <<c>>
<1>1. t \in Seq(Alphabet) /\ Len(t) = 1 /\ t[1] = c
  OBVIOUS
<1> HIDE DEF t
<1>2. /\ Len(s) \in Nat /\ s \o t \in Seq(Alphabet) /\ Len(s \o t) = Len(s) + Len(t)
      /\ \A i \in 1..Len(s) : (s \o t)[i] = s[i]
      /\ \A i \in 1..Len(t) : (s \o t)[Len(s) + i] = t[i]
  BY <1>1, ConcatAt
<1>3. (s \o t)[Len(s) + 1] = c
  BY <1>1, <1>2
<1> QED BY <1>1, <1>2, <1>3 DEF t

LEMMA ThreeMore ==
    ASSUME NEW s \in Seq(Alphabet), NEW t \in Seq(Alphabet), Len(t) = 3
    PROVE  /\ Len(s) \in Nat /\ s \o t \in Seq(Alphabet) /\ Len(s \o t) = Len(s) + 3
           /\ (s \o t)[Len(s) + 1] = t[1] /\ (s \o t)[Len(s) + 2] = t[2]
           /\ (s \o t)[Len(s) + 3] = t[3]
           /\ \A i \in 1..Len(s) : (s \o t)[i] = s[i]
<1>1. /\ Len(s) \in Nat /\ s \o t \in Seq(Alphabet) /\ Len(s \o t) = Len(s) + Len(t)
      /\ \A i \in 1..Len(s) : (s \o t)[i] = s[i]
      /\ \A i \in 1..Len(t) : (s \o t)[Len(s) + i] = t[i]
  BY ConcatAt
<1> QED BY <1>1

(* One piece more. *)
LEMMA OnePieceMore ==
    ASSUME NEW full, NEW m, NEW full1, NEW m1,
           Len(full) \in Nat, Len(m) \in Nat, Len(full1) \in Nat, Len(m1) \in Nat,
           Len(full) <= Len(full1), Len(m) <= Len(m1),
           Len(m1) + Len(full) <= Len(full1) + Len(m),
           \A i \in 1..Len(full) : full1[i] = full[i],
           \A i \in 1..Len(m) : m1[i] = m[i],
           Read(full1, m1, Len(full), Len(full1), Len(m), Len(m1)),
           NEW p, NEW q, Corresponds(full, m, p, q)
    PROVE  Corresponds(full1, m1, Append(p, Len(full1)), Append(q, Len(m1)))
<1> DEFINE n == Len(p)
           p1 == Append(p, Len(full1))
           q1 == Append(q, Len(m1))
<1>0. p \in Seq(Nat) /\ q \in Seq(Nat) /\ n = Len(q) /\ n > 0
  BY DEF Corresponds
<1>1. /\ n \in Nat /\ p1 \in Seq(Nat) /\ Len(p1) = n + 1 /\ p1[n + 1] = Len(full1)
      /\ \A i \in 1..n : p1[i] = p[i] /\ p[i] \in Nat
  BY <1>0, AppendEnd
<1>2. /\ q1 \in Seq(Nat) /\ Len(q1) = n + 1 /\ q1[n + 1] = Len(m1)
      /\ \A i \in 1..n : q1[i] = q[i] /\ q[i] \in Nat
  <2>1. /\ q1 \in Seq(Nat) /\ Len(q1) = Len(q) + 1 /\ q1[Len(q) + 1] = Len(m1)
        /\ \A i \in 1..Len(q) : q1[i] = q[i] /\ q[i] \in Nat
    BY <1>0, AppendEnd
  <2> QED BY <1>0, <2>1
<1>3. /\ Len(full) = p[n] /\ Len(m) = q[n] /\ Len(m) <= Len(full) /\ p[1] = 0 /\ q[1] = 0
      /\ \A i \in 1..n : q[i] <= p[i] /\ p[i] <= Len(full) /\ q[i] <= Len(m)
      /\ \A i \in 1..(n - 1) : Read(full, m, p[i], p[i + 1], q[i], q[i + 1])
  BY <1>0, <1>1 DEF Corresponds
<1> HIDE DEF n, p1, q1
<1>4. ASSUME NEW i \in 1..(n + 1)
      PROVE  q1[i] <= p1[i] /\ p1[i] <= Len(full1) /\ q1[i] <= Len(m1)
  <2>1. CASE i \in 1..n
    <3>1. q[i] <= p[i] /\ p[i] <= Len(full) /\ q[i] <= Len(m)
      BY <1>3, <2>1
    <3>2. q1[i] = q[i] /\ p1[i] = p[i] /\ p[i] \in Nat /\ q[i] \in Nat
      BY <1>1, <1>2, <2>1
    <3> QED BY <3>1, <3>2
  <2>2. CASE i = n + 1
    BY <1>1, <1>2, <1>3, <2>2
  <2> QED BY <1>1, <2>1, <2>2
<1>5. ASSUME NEW i \in 1..n
      PROVE  Read(full1, m1, p1[i], p1[i + 1], q1[i], q1[i + 1])
  <2>1. CASE i \in 1..(n - 1)
    <3>1. i + 1 \in 1..n
      BY <1>1, <2>1
    <3>2. /\ p1[i + 1] = p[i + 1] /\ p1[i] = p[i] /\ q1[i + 1] = q[i + 1] /\ q1[i] = q[i]
          /\ p[i + 1] \in Nat /\ p[i] \in Nat /\ q[i + 1] \in Nat /\ q[i] \in Nat
      BY <1>1, <1>2, <3>1
    <3>3. /\ p[i + 1] <= Len(full) /\ q[i + 1] <= Len(m)
          /\ Read(full, m, p[i], p[i + 1], q[i], q[i + 1])
      BY <1>3, <2>1, <3>1
    <3>4. Read(full1, m1, p[i], p[i + 1], q[i], q[i + 1])
      BY <3>2, <3>3, ReadSame
    <3> QED BY <3>2, <3>4
  <2>2. CASE i = n
    <3>1. p1[n] = Len(full) /\ q1[n] = Len(m)
      BY <1>1, <1>2, <1>3, <2>2
    <3> QED BY <1>1, <1>2, <2>2, <3>1
  <2> QED BY <1>1, <2>1, <2>2
<1>6. p1[1] = 0 /\ q1[1] = 0 /\ n + 1 > 0
  <2>1. 1 \in 1..n
    BY <1>0, <1>1
  <2>2. p1[1] = p[1] /\ q1[1] = q[1]
    BY <1>1, <1>2, <2>1
  <2> QED BY <1>1, <1>3, <2>2
<1>7. Corresponds(full1, m1, p1, q1)
  BY <1>1, <1>2, <1>4, <1>5, <1>6 DEF Corresponds
<1> QED BY <1>7 DEF p1, q1

(* Corresponds depends on table and means only. *)
LEMMA CorrespondsSame ==
    ASSUME table' = table, means' = means, NEW full, NEW p, NEW q
    PROVE  Corresponds(full, means, p, q)' <=> Corresponds(full, means, p, q)
<1>1. ASSUME NEW a, NEW b, NEW c, NEW d
      PROVE  Read(full, means, a, b, c, d)' <=> Read(full, means, a, b, c, d)
  BY DEF Read
<1> QED BY <1>1 DEF Corresponds

LEMMA EscapeIs ==
    ASSUME NEW c \in UE!Chars
    PROVE  /\ UE!Escape(c) \in Seq(Alphabet) /\ Len(UE!Escape(c)) = 3
           /\ UE!Escape(c)[1] = "%"
           /\ <<UE!Escape(c)[2], UE!Escape(c)[3]>> = UE!Hex[c]
<1> DEFINE h == UE!Hex[c]
<1>1. h = <<h[1], h[2]>> /\ h[1] \in Alphabet /\ h[2] \in Alphabet
  BY HexFacts, Letters
<1>2. <<"%">> \in Seq(Alphabet) /\ Len(<<"%">>) = 1 /\ <<"%">>[1] = "%"
  BY Letters
<1> HIDE DEF h
<1>3. h \in Seq(Alphabet) /\ Len(h) = 2
  <2>1. <<h[1], h[2]>> \in Seq(Alphabet) /\ Len(<<h[1], h[2]>>) = 2
    BY <1>1
  <2> QED BY <1>1, <2>1
<1>4. UE!Escape(c) = <<"%">> \o h
  BY DEF UE!Escape, h
<1>5. /\ UE!Escape(c) \in Seq(Alphabet) /\ Len(UE!Escape(c)) = 3
      /\ UE!Escape(c)[1] = "%" /\ UE!Escape(c)[2] = h[1] /\ UE!Escape(c)[3] = h[2]
  <2> DEFINE s == <<"%">>
  <2> HIDE DEF s
  <2>1. s \in Seq(Alphabet) /\ Len(s) = 1 /\ s[1] = "%"
    BY <1>2 DEF s
  <2>2. /\ s \o h \in Seq(Alphabet) /\ Len(s \o h) = Len(s) + Len(h)
        /\ \A i \in 1..Len(s) : (s \o h)[i] = s[i]
        /\ \A i \in 1..Len(h) : (s \o h)[Len(s) + i] = h[i]
    BY <1>3, <2>1, ConcatAt
  <2>3. (s \o h)[1] = "%" /\ (s \o h)[2] = h[1] /\ (s \o h)[3] = h[2]
    BY <1>3, <2>1, <2>2
  <2> QED BY <1>3, <1>4, <2>1, <2>2, <2>3 DEF s
<1> QED BY <1>1, <1>5 DEF h

LEMMA EncodeKeeps ==
    ASSUME EscapeInv, UE!Encode PROVE EscapeInv'
<1> DEFINE c == Head(src)
<1>1. /\ phase = "encode" /\ phase' = "encode" /\ src # <<>> /\ src' = Tail(src)
      /\ size' = size /\ table' = table
      /\ src \in Seq(UE!Chars) /\ dst \in Seq(Alphabet) /\ means \in Seq(Alphabet)
      /\ Len(dst) + 3 * Len(src) + 1 <= size /\ size \in Nat
  BY DEF EscapeInv, Written, UE!Encode
<1>2. PICK p \in Seq(Nat), q \in Seq(Nat) : Corresponds(dst, means, p, q)
  BY <1>1 DEF EscapeInv, Written
<1>3. /\ c \in UE!Chars /\ c \in Alphabet /\ src' \in Seq(UE!Chars) /\ src' \in Seq(Alphabet)
      /\ Len(src') = Len(src) - 1 /\ Len(src) \in Nat
  <2>1. c \in UE!Chars /\ src' \in Seq(UE!Chars) /\ Len(src') = Len(src) - 1
    BY <1>1, HeadTailProperties
  <2>2. UE!Chars \subseteq Alphabet
    BY Letters
  <2>3. src' \in Seq(Alphabet)
    BY <2>1, <2>2
  <2> QED BY <1>1, <2>1, <2>2, <2>3, LenProperties
<1>4. /\ dst' \in Seq(Alphabet) /\ means' \in Seq(Alphabet)
      /\ Len(dst) \in Nat /\ Len(dst') \in Nat /\ Len(means) \in Nat /\ Len(means') \in Nat
      /\ Len(dst) <= Len(dst') /\ Len(dst') <= Len(dst) + 3 /\ Len(means) <= Len(means')
      /\ Len(means') + Len(dst) <= Len(dst') + Len(means)
      /\ \A i \in 1..Len(dst) : dst'[i] = dst[i]
      /\ \A i \in 1..Len(means) : means'[i] = means[i]
      /\ Read(dst', means', Len(dst), Len(dst'), Len(means), Len(means'))
  <2> HIDE DEF c
  <2>1. CASE c \in UE!Keeps(table) /\ dst' = Append(dst, c) /\ means' = Append(means, c)
    <3>1. /\ Len(dst) \in Nat /\ dst' \in Seq(Alphabet) /\ Len(dst') = Len(dst) + 1
          /\ dst'[Len(dst) + 1] = c /\ \A i \in 1..Len(dst) : dst'[i] = dst[i]
      BY <1>1, <1>3, <2>1, AppendAt
    <3>2. /\ Len(means) \in Nat /\ means' \in Seq(Alphabet) /\ Len(means') = Len(means) + 1
          /\ means'[Len(means) + 1] = c /\ \A i \in 1..Len(means) : means'[i] = means[i]
      BY <1>1, <1>3, <2>1, AppendAt
    <3>3. c \in UE!Chars \ {"%"}
      BY <2>1, Letters
    <3>4. Read(dst', means', Len(dst), Len(dst'), Len(means), Len(means'))
      BY <3>1, <3>2, <3>3 DEF Read
    <3> QED BY <3>1, <3>2, <3>4
  <2>2. CASE /\ dst' = dst \o UE!Escape(c)
             /\ means' = means \o (IF table = "url" /\ c \in UE!Separators
                                   THEN UE!Escape(c) ELSE <<c>>)
    <3> DEFINE e == UE!Escape(c)
    <3>1. /\ e \in Seq(Alphabet) /\ Len(e) = 3 /\ e[1] = "%" /\ <<e[2], e[3]>> = UE!Hex[c]
      BY <1>3, EscapeIs
    <3> HIDE DEF e
    <3>2. /\ Len(dst) \in Nat /\ dst' \in Seq(Alphabet) /\ Len(dst') = Len(dst) + 3
          /\ \A i \in 1..Len(dst) : dst'[i] = dst[i]
          /\ dst'[Len(dst) + 1] = "%"
          /\ dst'[Len(dst) + 2] = e[2] /\ dst'[Len(dst) + 3] = e[3]
      <4>1. dst' = dst \o e
        BY <2>2 DEF e
      <4> QED BY <1>1, <3>1, <4>1, ThreeMore
    <3>3. CASE table = "url" /\ c \in UE!Separators
      <4>1. /\ Len(means) \in Nat /\ means' \in Seq(Alphabet) /\ Len(means') = Len(means) + 3
            /\ \A i \in 1..Len(means) : means'[i] = means[i]
            /\ means'[Len(means) + 1] = "%"
            /\ means'[Len(means) + 2] = e[2] /\ means'[Len(means) + 3] = e[3]
        <5>1. means' = means \o e
          BY <2>2, <3>3 DEF e
        <5> QED BY <1>1, <3>1, <5>1, ThreeMore
      <4>2. Read(dst', means', Len(dst), Len(dst'), Len(means), Len(means'))
        BY <1>3, <3>1, <3>2, <3>3, <4>1 DEF Read
      <4> QED BY <3>2, <4>1, <4>2
    <3>4. CASE ~(table = "url" /\ c \in UE!Separators)
      <4>1. /\ Len(means) \in Nat /\ means' \in Seq(Alphabet) /\ Len(means') = Len(means) + 1
            /\ \A i \in 1..Len(means) : means'[i] = means[i]
            /\ means'[Len(means) + 1] = c
        <5>1. means' = means \o <<c>>
          BY <2>2, <3>4
        <5> QED BY <1>1, <1>3, <5>1, OneMore
      <4>2. Read(dst', means', Len(dst), Len(dst'), Len(means), Len(means'))
        BY <1>3, <3>1, <3>2, <3>4, <4>1 DEF Read
      <4> QED BY <3>2, <4>1, <4>2
    <3> QED BY <3>3, <3>4
  <2> QED BY <2>1, <2>2 DEF UE!Encode, c
<1>5. Corresponds(dst', means', Append(p, Len(dst')), Append(q, Len(means')))
  BY <1>2, <1>4, OnePieceMore
<1>6. Append(p, Len(dst')) \in Seq(Nat) /\ Append(q, Len(means')) \in Seq(Nat)
  BY <1>2, <1>4, AppendEnd
<1>7. Len(dst') + 3 * Len(src') + 1 <= size'
  BY <1>1, <1>3, <1>4
<1>8. Written'
  <2>1. PICK p1 \in Seq(Nat), q1 \in Seq(Nat) : Corresponds(dst', means', p1, q1)
    BY <1>5, <1>6
  <2>2. Corresponds(dst, means, p1, q1)'
    BY <1>1, <2>1 DEF Corresponds, Read
  <2> QED BY <1>3, <1>7, <2>2 DEF Written
<1> QED BY <1>1, <1>3, <1>4, <1>8 DEF EscapeInv

LEMMA DecodeKeeps ==
    ASSUME EscapeInv, UE!Decode PROVE EscapeInv'
<1>1. /\ phase' = "decode" /\ src' = dst /\ dst' = <<>> /\ size' = Len(dst) /\ Len(dst) \in Nat
      /\ table' = table /\ means' = means /\ phase = "encode"
      /\ dst \in Seq(Alphabet) /\ means \in Seq(Alphabet)
  BY LenProperties DEF EscapeInv, UE!Decode
<1>2. PICK p \in Seq(Nat), q \in Seq(Nat) : Corresponds(dst, means, p, q)
  BY <1>1 DEF EscapeInv, Written
<1>3. p[1] = 0 /\ q[1] = 0 /\ Len(p) > 0 /\ Len(p) \in Nat
  BY <1>2, LenProperties DEF Corresponds
<1>4. PICK full : full = dst
  OBVIOUS
<1>5. Corresponds(full, means, p, q)'
  BY <1>1, <1>2, <1>4 DEF Corresponds, Read
<1>6. BeingRead(full, p, q, 1)'
  BY <1>1, <1>3, <1>4, <1>5 DEF BeingRead
<1>7. dst' \in Seq(Alphabet)
  BY <1>1
<1> QED BY <1>1, <1>6, <1>7 DEF EscapeInv

(* While the text is read, what is in front of the loop is the next piece. *)
LEMMA AtPiece ==
    ASSUME NEW full, NEW p, NEW q, NEW k,
           BeingRead(full, p, q, k), src \in Seq(Alphabet), src # <<>>
    PROVE  /\ k + 1 \in 1..Len(p) /\ Len(src) \in Nat
           /\ p[k] \in Nat /\ p[k + 1] \in Nat /\ q[k] \in Nat /\ q[k + 1] \in Nat
           /\ p[k + 1] <= Len(full) /\ Len(full) \in Nat
           /\ Read(full, means, p[k], p[k + 1], q[k], q[k + 1])
<1>1. /\ p \in Seq(Nat) /\ q \in Seq(Nat) /\ Len(p) = Len(q) /\ p[Len(p)] = Len(full)
      /\ \A i \in 1..Len(p) : q[i] <= p[i] /\ p[i] <= Len(full) /\ q[i] <= Len(means)
      /\ \A i \in 1..(Len(p) - 1) : Read(full, means, p[i], p[i + 1], q[i], q[i + 1])
      /\ k \in 1..Len(p) /\ Len(src) = Len(full) - p[k] /\ full \in Seq(Alphabet)
  BY DEF BeingRead, Corresponds
<1>2. Len(p) \in Nat /\ Len(full) \in Nat /\ Len(src) \in Nat /\ Len(src) > 0
  BY <1>1, LenProperties, EmptySeq
<1>3. \A i \in 1..Len(p) : p[i] \in Nat /\ q[i] \in Nat
  BY <1>1, ElementOfSeq
<1>4. k # Len(p)
  BY <1>1, <1>2
<1>5. k \in 1..(Len(p) - 1) /\ k + 1 \in 1..Len(p) /\ k \in Nat
  BY <1>1, <1>2, <1>4
<1> QED BY <1>1, <1>2, <1>3, <1>5

LEMMA DecodeEscapeKeeps ==
    ASSUME EscapeInv, UE!DecodeEscape PROVE EscapeInv'
<1>1. /\ phase = "decode" /\ phase' = "decode" /\ table' = table /\ means' = means
      /\ size' = size /\ size \in Nat /\ src' = SubSeq(src, 4, Len(src))
      /\ src \in Seq(Alphabet) /\ dst \in Seq(Alphabet) /\ means \in Seq(Alphabet)
      /\ Len(src) >= 3 /\ src[1] = "%"
  BY DEF EscapeInv, UE!DecodeEscape, UE!AtEscape
<1>2. PICK c \in UE!Chars : UE!Hex[c] = <<src[2], src[3]>> /\ dst' = dst \o UE!Unescape(c)
  BY DEF UE!DecodeEscape
<1>3. PICK full, p, q, k : BeingRead(full, p, q, k)
  BY <1>1 DEF EscapeInv
<1>4. /\ k + 1 \in 1..Len(p) /\ Len(src) \in Nat /\ Len(full) \in Nat
      /\ p[k] \in Nat /\ p[k + 1] \in Nat /\ q[k] \in Nat /\ q[k + 1] \in Nat
      /\ p[k + 1] <= Len(full)
      /\ Read(full, means, p[k], p[k + 1], q[k], q[k + 1])
  <2>1. src # <<>>
    BY <1>1
  <2> QED BY <1>1, <1>3, <2>1, AtPiece
<1>5. /\ Corresponds(full, means, p, q) /\ size = Len(full) /\ Len(src) = Len(full) - p[k]
      /\ full \in Seq(Alphabet)
      /\ Len(dst) = q[k] /\ \A i \in 1..Len(src) : src[i] = full[p[k] + i]
      /\ \A i \in 1..q[k] : dst[i] = means[i]
  BY <1>3 DEF BeingRead
<1>6. full[p[k] + 1] = "%" /\ full[p[k] + 2] = src[2] /\ full[p[k] + 3] = src[3]
  <2>1. Len(src) \in Nat /\ Len(src) >= 3
    BY <1>1, <1>4
  <2>2. 1 \in 1..Len(src) /\ 2 \in 1..Len(src) /\ 3 \in 1..Len(src)
    BY <2>1
  <2> QED BY <1>1, <1>5, <2>2
(* The piece is the escape of c. *)
<1>7. /\ p[k + 1] = p[k] + 3
      /\ IF table = "url" /\ c \in UE!Separators
         THEN /\ q[k + 1] = q[k] + 3 /\ means[q[k] + 1] = "%"
              /\ means[q[k] + 2] = src[2] /\ means[q[k] + 3] = src[3]
         ELSE q[k + 1] = q[k] + 1 /\ means[q[k + 1]] = c
  <2>1. ~(p[k + 1] = p[k] + 1 /\ full[p[k + 1]] \in UE!Chars \ {"%"})
    BY <1>4, <1>6
  <2>2. PICK char \in UE!Chars :
          /\ p[k + 1] = p[k] + 3 /\ <<src[2], src[3]>> = UE!Hex[char]
          /\ IF table = "url" /\ char \in UE!Separators
             THEN /\ q[k + 1] = q[k] + 3 /\ means[q[k] + 1] = "%"
                  /\ means[q[k] + 2] = src[2] /\ means[q[k] + 3] = src[3]
             ELSE q[k + 1] = q[k] + 1 /\ means[q[k + 1]] = char
    BY <1>4, <1>6, <2>1 DEF Read
  <2>3. char = c
    <3>1. UE!Hex[c] = UE!Hex[char]
      BY <1>2, <2>2
    <3> QED BY <2>2, <3>1, HexFacts
  <2> QED BY <2>2, <2>3
<1>8. /\ dst' \in Seq(Alphabet) /\ Len(dst') = q[k + 1]
      /\ \A i \in 1..q[k + 1] : dst'[i] = means[i]
  <2>1. CASE table = "url" /\ c \in UE!Separators
    <3> DEFINE e == UE!Escape(c)
    <3>1. e \in Seq(Alphabet) /\ Len(e) = 3 /\ e[1] = "%" /\ <<e[2], e[3]>> = UE!Hex[c]
      BY <1>2, EscapeIs
    <3>2. dst' = dst \o e
      BY <1>2, <2>1 DEF UE!Unescape
    <3> HIDE DEF e
    <3>3. e[2] = src[2] /\ e[3] = src[3]
      BY <1>2, <3>1
    <3>4. /\ dst' \in Seq(Alphabet) /\ Len(dst') = q[k] + 3
          /\ \A i \in 1..q[k] : dst'[i] = dst[i]
          /\ dst'[q[k] + 1] = e[1] /\ dst'[q[k] + 2] = e[2] /\ dst'[q[k] + 3] = e[3]
      <4>1. Len(dst) = q[k] /\ dst \in Seq(Alphabet)
        BY <1>1, <1>5
      <4>2. /\ dst' \in Seq(Alphabet) /\ Len(dst') = Len(dst) + 3
            /\ \A i \in 1..Len(dst) : dst'[i] = dst[i]
            /\ dst'[Len(dst) + 1] = e[1]
            /\ dst'[Len(dst) + 2] = e[2] /\ dst'[Len(dst) + 3] = e[3]
        BY <3>1, <3>2, <4>1, ThreeMore
      <4> QED BY <4>1, <4>2
    <3>5. /\ q[k + 1] = q[k] + 3 /\ q[k] \in Nat
          /\ means[q[k] + 1] = e[1] /\ means[q[k] + 2] = e[2] /\ means[q[k] + 3] = e[3]
      BY <1>4, <1>7, <2>1, <3>1, <3>3
    <3>6. \A i \in 1..q[k] : dst[i] = means[i]
      BY <1>5
    <3>7. ASSUME NEW i \in 1..q[k + 1] PROVE dst'[i] = means[i]
      <4>1. i \in 1..q[k] \/ i = q[k] + 1 \/ i = q[k] + 2 \/ i = q[k] + 3
        BY <3>5, Sums
      <4> QED BY <3>4, <3>5, <3>6, <4>1
    <3> QED BY <3>4, <3>5, <3>7
  <2>2. CASE ~(table = "url" /\ c \in UE!Separators)
    <3>1. /\ dst' \in Seq(Alphabet) /\ Len(dst') = q[k] + 1
          /\ \A i \in 1..q[k] : dst'[i] = dst[i]
          /\ dst'[q[k] + 1] = c
      <4>1. Len(dst) = q[k] /\ dst \in Seq(Alphabet) /\ c \in Alphabet
        BY <1>1, <1>2, <1>5, Letters
      <4>2. dst' = dst \o <<c>>
        BY <1>2, <2>2 DEF UE!Unescape
      <4>3. /\ dst' \in Seq(Alphabet) /\ Len(dst') = Len(dst) + 1
            /\ dst'[Len(dst) + 1] = c /\ \A i \in 1..Len(dst) : dst'[i] = dst[i]
        BY <4>1, <4>2, OneMore
      <4> QED BY <4>1, <4>3
    <3>2. q[k + 1] = q[k] + 1 /\ q[k] \in Nat /\ means[q[k] + 1] = c
      BY <1>4, <1>7, <2>2
    <3>3. \A i \in 1..q[k] : dst[i] = means[i]
      BY <1>5
    <3>4. ASSUME NEW i \in 1..q[k + 1] PROVE dst'[i] = means[i]
      <4>1. i \in 1..q[k] \/ i = q[k] + 1
        BY <3>2, Sums
      <4> QED BY <3>1, <3>2, <3>3, <4>1
    <3> QED BY <3>1, <3>2, <3>4
  <2> QED BY <2>1, <2>2
<1>9. /\ src' \in Seq(Alphabet) /\ Len(src') = Len(full) - p[k + 1]
      /\ \A i \in 1..Len(src') : src'[i] = full[p[k + 1] + i]
  <2>1. /\ src' \in Seq(Alphabet) /\ Len(src') = Len(src) - 3
        /\ \A i \in 1..Len(src') : src'[i] = src[3 + i]
    <3>1. Len(src) \in Nat /\ Len(src) >= 3 /\ src \in Seq(Alphabet)
      BY <1>1, <1>4
    <3>2. SubSeq(src, 4, Len(src)) \in Seq(Alphabet)
      BY <3>1, SubSeqProperties, ElementOfSeq
    <3>3. /\ Len(SubSeq(src, 4, Len(src))) = Len(src) - 3
          /\ \A i \in 1..(Len(src) - 3) : SubSeq(src, 4, Len(src))[i] = src[3 + i]
      <4>1. Len(src) - 4 + 1 = Len(src) - 3 /\ 4 \in Int /\ Len(src) \in Int
        BY <3>1
      <4>2. \A i \in 4..Len(src) : src[i] \in Alphabet
        BY <3>1, ElementOfSeq
      <4>3. /\ Len(SubSeq(src, 4, Len(src))) = IF 4 <= Len(src) THEN Len(src) - 4 + 1 ELSE 0
            /\ \A i \in 1..(Len(src) - 4 + 1) : SubSeq(src, 4, Len(src))[i] = src[4 + i - 1]
        BY <4>1, <4>2, SubSeqProperties
      <4>4. \A i \in 1..(Len(src) - 3) : 4 + i - 1 = 3 + i
        BY <3>1
      <4> QED BY <3>1, <4>1, <4>3, <4>4
    <3>4. src' = SubSeq(src, 4, Len(src))
      BY <1>1
    <3> QED BY <3>2, <3>3, <3>4
  <2>2. ASSUME NEW i \in 1..Len(src') PROVE src'[i] = full[p[k + 1] + i]
    <3>1. 3 + i \in 1..Len(src)
      BY <1>4, <2>1
    <3>2. src'[i] = src[3 + i] /\ src[3 + i] = full[p[k] + (3 + i)]
      BY <1>5, <2>1, <3>1
    <3>3. p[k] + (3 + i) = p[k + 1] + i
      <4>1. p[k + 1] = p[k] + 3 /\ p[k] \in Nat /\ i \in Int
        BY <1>4, <1>7
      <4>2. p[k] + (3 + i) = (p[k] + 3) + i
        BY <4>1, Sums
      <4> QED BY <4>1, <4>2
    <3> QED BY <3>2, <3>3
  <2> QED BY <1>4, <1>5, <1>7, <2>1, <2>2
<1>10. Corresponds(full, means, p, q)'
  BY <1>1, <1>5, CorrespondsSame
<1>11. BeingRead(full, p, q, k + 1)'
  BY <1>1, <1>4, <1>5, <1>8, <1>9, <1>10 DEF BeingRead
<1> QED BY <1>1, <1>8, <1>9, <1>11 DEF EscapeInv

LEMMA DecodeOtherKeeps ==
    ASSUME EscapeInv, UE!DecodeOther PROVE EscapeInv'
<1>1. /\ phase = "decode" /\ phase' = "decode" /\ table' = table /\ means' = means
      /\ size' = size /\ size \in Nat /\ src # <<>> /\ src' = Tail(src)
      /\ dst' = Append(dst, Head(src))
      /\ src \in Seq(Alphabet) /\ dst \in Seq(Alphabet) /\ means \in Seq(Alphabet)
  BY DEF EscapeInv, UE!DecodeOther
<1>2. PICK full, p, q, k : BeingRead(full, p, q, k)
  BY <1>1 DEF EscapeInv
<1>3. /\ k + 1 \in 1..Len(p) /\ Len(src) \in Nat /\ Len(full) \in Nat
      /\ p[k] \in Nat /\ p[k + 1] \in Nat /\ q[k] \in Nat /\ q[k + 1] \in Nat
      /\ p[k + 1] <= Len(full)
      /\ Read(full, means, p[k], p[k + 1], q[k], q[k + 1])
  BY <1>1, <1>2, AtPiece
<1>4. /\ Corresponds(full, means, p, q) /\ size = Len(full) /\ Len(src) = Len(full) - p[k]
      /\ full \in Seq(Alphabet)
      /\ Len(dst) = q[k] /\ \A i \in 1..Len(src) : src[i] = full[p[k] + i]
      /\ \A i \in 1..q[k] : dst[i] = means[i]
  BY <1>2 DEF BeingRead
<1>5. /\ Len(src) > 0 /\ Head(src) = src[1] /\ Head(src) \in Alphabet
      /\ src' \in Seq(Alphabet) /\ Len(src') = Len(src) - 1
      /\ \A i \in 1..Len(src') : src'[i] = src[i + 1]
  BY <1>1, <1>3, HeadTailProperties
(* An escape would be seen as one. *)
<1>6. /\ p[k + 1] = p[k] + 1 /\ q[k + 1] = q[k] + 1
      /\ means[q[k + 1]] = full[p[k + 1]]
  <2>1. SUFFICES ASSUME p[k + 1] = p[k] + 3, full[p[k] + 1] = "%",
                        NEW char \in UE!Chars,
                        <<full[p[k] + 2], full[p[k] + 3]>> = UE!Hex[char]
                 PROVE FALSE
    BY <1>3 DEF Read
  <2>2. Len(src) >= 3
    BY <1>3, <1>4, <2>1
  <2>3. src[1] = full[p[k] + 1] /\ src[2] = full[p[k] + 2] /\ src[3] = full[p[k] + 3]
    <3>1. Len(src) \in Nat
      BY <1>3
    <3>2. 1 \in 1..Len(src) /\ 2 \in 1..Len(src) /\ 3 \in 1..Len(src)
      BY <2>2, <3>1
    <3> QED BY <1>4, <3>2
  <2>4. src[2] \in UE!Digits /\ src[3] \in UE!Digits
    <3>1. /\ UE!Hex[char] = <<UE!Hex[char][1], UE!Hex[char][2]>>
          /\ UE!Hex[char][1] \in UE!Digits /\ UE!Hex[char][2] \in UE!Digits
      BY HexFacts
    <3> QED BY <2>1, <2>3, <3>1
  <2> QED BY <2>1, <2>2, <2>3, <2>4 DEF UE!DecodeOther, UE!AtEscape
<1>7. /\ dst' \in Seq(Alphabet) /\ Len(dst') = q[k + 1]
      /\ \A i \in 1..q[k + 1] : dst'[i] = means[i]
  <2>1. /\ dst' \in Seq(Alphabet) /\ Len(dst') = q[k] + 1 /\ dst'[q[k] + 1] = src[1]
        /\ \A i \in 1..q[k] : dst'[i] = dst[i]
    <3>1. /\ Len(dst) = q[k] /\ dst \in Seq(Alphabet)
          /\ dst' = Append(dst, src[1]) /\ src[1] \in Alphabet
      BY <1>1, <1>4, <1>5
    <3> QED BY <3>1, AppendAt
  <2>2. src[1] = full[p[k] + 1]
    <3>1. 1 \in 1..Len(src)
      BY <1>3, <1>5
    <3> QED BY <1>4, <3>1
  <2>3. q[k + 1] = q[k] + 1 /\ q[k] \in Nat /\ means[q[k] + 1] = src[1]
    BY <1>3, <1>6, <2>2
  <2>4. \A i \in 1..q[k] : dst[i] = means[i]
    BY <1>4
  <2>5. ASSUME NEW i \in 1..q[k + 1] PROVE dst'[i] = means[i]
    <3>1. i \in 1..q[k] \/ i = q[k] + 1
      BY <2>3, Sums
    <3> QED BY <2>1, <2>3, <2>4, <3>1
  <2> QED BY <2>1, <2>3, <2>5
<1>8. /\ Len(src') = Len(full) - p[k + 1]
      /\ \A i \in 1..Len(src') : src'[i] = full[p[k + 1] + i]
  <2>1. ASSUME NEW i \in 1..Len(src') PROVE src'[i] = full[p[k + 1] + i]
    <3>1. i + 1 \in 1..Len(src)
      BY <1>3, <1>5
    <3>2. src'[i] = src[i + 1] /\ src[i + 1] = full[p[k] + (i + 1)]
      BY <1>4, <1>5, <3>1
    <3>3. p[k] + (i + 1) = p[k + 1] + i
      <4>1. p[k + 1] = p[k] + 1 /\ p[k] \in Nat /\ i \in Int
        BY <1>3, <1>6
      <4>2. p[k] + (1 + i) = (p[k] + 1) + i /\ 1 + i = i + 1
        BY <4>1, Sums
      <4> QED BY <4>1, <4>2
    <3> QED BY <3>2, <3>3
  <2> QED BY <1>3, <1>4, <1>5, <1>6, <2>1
<1>9. Corresponds(full, means, p, q)'
  BY <1>1, <1>4, CorrespondsSame
<1>10. BeingRead(full, p, q, k + 1)'
  BY <1>1, <1>3, <1>4, <1>7, <1>8, <1>9 DEF BeingRead
<1> QED BY <1>1, <1>5, <1>7, <1>10 DEF EscapeInv

LEMMA EscapeInvariant ==
    ASSUME MaxLength \in Nat
    PROVE  UE!Spec => []EscapeInv
<1>1. UE!Init => EscapeInv
  <2> SUFFICES ASSUME UE!Init PROVE EscapeInv
    OBVIOUS
  <2>1. /\ phase = "encode" /\ dst = <<>> /\ means = <<>> /\ size = 3 * Len(src) + 1
        /\ src \in UNION {[1..n -> UE!Chars] : n \in 0..MaxLength}
    BY DEF UE!Init
  <2>2. src \in Seq(UE!Chars)
    <3>1. PICK n \in 0..MaxLength : src \in [1..n -> UE!Chars]
      BY <2>1
    <3>2. n \in Nat
      OBVIOUS
    <3> QED BY <3>1, <3>2
  <2>3. UE!Chars \subseteq Alphabet
    BY Letters
  <2>4. src \in Seq(Alphabet) /\ dst \in Seq(Alphabet) /\ means \in Seq(Alphabet)
    BY <2>1, <2>2, <2>3
  <2>5. size \in Nat /\ Len(dst) + 3 * Len(src) + 1 <= size
    BY <2>1, <2>2
  <2>6. PICK p \in Seq(Nat) : p = <<0>>
    <3>1. <<0>> \in Seq(Nat)
      OBVIOUS
    <3> QED BY <3>1
  <2>7. Corresponds(dst, means, p, p)
    BY <2>1, <2>6 DEF Corresponds
  <2> QED BY <2>1, <2>2, <2>4, <2>5, <2>7 DEF EscapeInv, Written
<1>2. EscapeInv /\ [UE!Next]_UE!vars => EscapeInv'
  <2> SUFFICES ASSUME EscapeInv, [UE!Next]_UE!vars PROVE EscapeInv'
    OBVIOUS
  <2>1. CASE UE!Encode
    BY <2>1, EncodeKeeps
  <2>2. CASE UE!Decode
    BY <2>2, DecodeKeeps
  <2>3. CASE UE!DecodeEscape
    BY <2>3, DecodeEscapeKeeps
  <2>4. CASE UE!DecodeOther
    BY <2>4, DecodeOtherKeeps
  <2>5. CASE UNCHANGED UE!vars
    <3>1. /\ table' = table /\ means' = means /\ src' = src /\ dst' = dst
          /\ phase' = phase /\ size' = size
      BY <2>5 DEF UE!vars
    <3>2. CASE phase = "encode"
      <4>1. Written
        BY <3>2 DEF EscapeInv
      <4>2. PICK p \in Seq(Nat), q \in Seq(Nat) : Corresponds(dst, means, p, q)
        BY <4>1 DEF Written
      <4>3. PICK full : full = dst
        OBVIOUS
      <4>4. Corresponds(full, means, p, q)'
        BY <3>1, <4>2, <4>3, CorrespondsSame
      <4>5. Corresponds(dst, means, p, q)'
        BY <3>1, <4>3, <4>4 DEF Corresponds, Read
      <4>6. Written'
        BY <3>1, <4>1, <4>2, <4>5 DEF Written
      <4> QED BY <3>1, <3>2, <4>6 DEF EscapeInv
    <3>3. CASE phase = "decode"
      <4>1. PICK full, p, q, k : BeingRead(full, p, q, k)
        BY <3>3 DEF EscapeInv
      <4>2. Corresponds(full, means, p, q)'
        BY <3>1, <4>1, CorrespondsSame DEF BeingRead
      <4>3. BeingRead(full, p, q, k)'
        BY <3>1, <4>1, <4>2 DEF BeingRead
      <4> QED BY <3>1, <3>3, <4>3 DEF EscapeInv
    <3> QED BY <3>2, <3>3 DEF EscapeInv
  <2> QED BY <2>1, <2>2, <2>3, <2>4, <2>5 DEF UE!Next
<1> QED BY <1>1, <1>2, PTL DEF UE!Spec

(* url_encode, decodeURI and decodeURIComponent: a text of any length that is
   escaped, by Marisa or by a client with other habits, is read again as it
   was, and no loop writes past its buffer. *)
THEOREM EscapedTextsRoundTrip ==
    ASSUME MaxLength \in Nat
    PROVE  UE!Spec => []UE!EscapesRoundTrip
<1>1. EscapeInv => UE!EscapesRoundTrip
  <2> SUFFICES ASSUME EscapeInv PROVE UE!EscapesRoundTrip
    OBVIOUS
  <2>1. /\ src \in Seq(Alphabet) /\ dst \in Seq(Alphabet) /\ means \in Seq(Alphabet)
        /\ size \in Nat
    BY DEF EscapeInv
  <2>2. CASE phase = "encode"
    <3>1. Len(dst) + 3 * Len(src) + 1 <= size /\ src \in Seq(UE!Chars)
      BY <2>2 DEF EscapeInv, Written
    <3>2. Len(src) \in Nat /\ Len(dst) \in Nat
      BY <2>1, LenProperties
    <3> QED BY <2>1, <2>2, <3>1, <3>2 DEF UE!EscapesRoundTrip
  <2>3. CASE phase = "decode"
    <3>1. PICK full, p, q, k : BeingRead(full, p, q, k)
      BY <2>3 DEF EscapeInv
    <3>2. /\ Len(p) = Len(q) /\ p[Len(p)] = Len(full) /\ q[Len(p)] = Len(means)
          /\ full \in Seq(Alphabet) /\ p \in Seq(Nat) /\ q \in Seq(Nat)
          /\ q[k] <= p[k] /\ p[k] <= Len(full) /\ k \in 1..Len(p)
          /\ size = Len(full) /\ Len(src) = Len(full) - p[k] /\ Len(dst) = q[k]
          /\ \A i \in 1..q[k] : dst[i] = means[i]
      BY <3>1 DEF BeingRead, Corresponds
    <3>3. Len(dst) <= size
      <4>1. q[k] \in Nat /\ p[k] \in Nat /\ Len(full) \in Nat
        BY <3>2, ElementOfSeq, LenProperties
      <4> QED BY <3>2, <4>1
    <3>4. ASSUME src = <<>> PROVE dst = means
      <4>1. k = Len(p)
        <5>1. p[k] = Len(full) /\ Len(full) \in Nat /\ Len(p) \in Nat
          <6>1. Len(src) = 0 /\ Len(full) \in Nat /\ p[k] \in Nat
            BY <2>1, <3>2, <3>4, ElementOfSeq, LenProperties, EmptySeq
          <6>2. Len(src) = Len(full) - p[k]
            BY <3>2
          <6>3. Len(p) \in Nat
            BY <3>2, LenProperties
          <6> QED BY <6>1, <6>2, <6>3
        <5>2. SUFFICES ASSUME k # Len(p) PROVE FALSE
          OBVIOUS
        <5>3. k \in 1..(Len(p) - 1) /\ k + 1 \in 1..Len(p)
          BY <3>2, <5>1, <5>2
        <5>4. /\ p[k + 1] <= Len(full) /\ p[k + 1] \in Nat
              /\ Read(full, means, p[k], p[k + 1], q[k], q[k + 1])
          BY <3>1, <5>3, ElementOfSeq DEF BeingRead, Corresponds
        <5>5. p[k + 1] = p[k] + 1 \/ p[k + 1] = p[k] + 3
          BY <5>4 DEF Read
        <5> QED BY <5>1, <5>4, <5>5
      <4>2. Len(dst) = Len(means) /\ \A i \in 1..Len(means) : dst[i] = means[i]
        BY <3>2, <4>1
      <4> QED BY <2>1, <4>2, SeqEqual
    <3> QED BY <3>3, <3>4 DEF UE!EscapesRoundTrip
  <2> QED BY <2>2, <2>3 DEF EscapeInv
<1> QED BY <1>1, EscapeInvariant, PTL
-----------------------------------------------------------------------------
(* Dates *)

(* Texts of the two forms, with a zone and with three digits behind the "."
   or none. *)
TextType ==
    [form : {"GMT", "ISO"},
     wall : [day : Nat, hour : Nat, min : Nat, sec : Nat],
     fraction : [digits : {0, 3}, value : Nat],
     zone : [sign : {"none", "+", "-", "Z"}, h : Nat, m : Nat]]

WellFormed(t) ==
    /\ t \in TextType
    /\ t.form = "GMT" => t.fraction = DT!NoFraction /\ t.zone = DT!NoZone
    /\ t.form = "ISO" => t.zone.sign \in {"+", "-"} \/ t.zone = DT!Z
    /\ t.fraction.value < 1000 /\ (t.fraction.digits = 0 => t.fraction.value = 0)

Milli(nsec) == nsec \div 1000000
Whole(milli) == milli * 1000000
Nanos == {n \in Int : 0 <= n /\ n < 1000000000}
Instant == [sec : Int, nsec : Nanos]

DateInv ==
    /\ meant \in Instant
    /\ \E nsec \in Nanos :
          /\ date = [valid |-> TRUE, sec |-> meant.sec, nsec |-> nsec]
          /\ Milli(nsec) = Milli(meant.nsec)

LEMMA Thousands ==
    ASSUME NEW s \in Int, NEW n \in Int, 0 <= n, n < 1000
    PROVE  (s * 1000 + n) \div 1000 = s /\ (s * 1000 + n) % 1000 = n
BY SMT

LEMMA Millions ==
    ASSUME NEW x \in Nanos
    PROVE  /\ x \in Int /\ x \div 1000000 \in Int
           /\ 0 <= x \div 1000000 /\ x \div 1000000 < 1000
           /\ (x \div 1000000) * 1000000 \in Nanos
           /\ ((x \div 1000000) * 1000000) \div 1000000 = x \div 1000000
           /\ x = 0 => x \div 1000000 = 0
BY SMT DEF Nanos

(* gmtime_r and timegm. *)
LEMMA ClockTells ==
    ASSUME NEW s \in Int
    PROVE  DT!Seconds(DT!WallOf(s)) = s
<1>1. /\ s = 86400 * (s \div 86400) + (s % 86400)
      /\ s % 86400 = 3600 * ((s % 86400) \div 3600) + (s % 3600)
      /\ s % 3600 = 60 * ((s % 3600) \div 60) + (s % 60)
  BY SMT
<1>2. /\ s \div 86400 \in Int /\ (s % 86400) \div 3600 \in Int
      /\ (s % 3600) \div 60 \in Int /\ s % 60 \in Int
  BY SMT
<1>3. 86400 * (s \div 86400) + 3600 * ((s % 86400) \div 3600)
      + 60 * ((s % 3600) \div 60) + (s % 60) = s
  BY SMT
<1> QED BY <1>3, SMT DEF DT!Seconds, DT!WallOf, DT!Wall

(* A text is taken for what it means. *)
LEMMA TextAssigned ==
    ASSUME NEW sec, NEW nsec, date = [valid |-> TRUE, sec |-> sec, nsec |-> nsec],
           NEW t, WellFormed(t)
    PROVE  /\ DT!TextMeans(t) \in Instant
           /\ DT!AssignedText(t) = [valid |-> TRUE, sec |-> DT!TextMeans(t).sec,
                                    nsec |-> DT!TextMeans(t).nsec]
<1> DEFINE zone == t.zone
           seconds == DT!Seconds(t.wall)
           shift == 3600 * zone.h + 60 * zone.m
           value == t.fraction.value
<1>1. /\ t.form \in {"GMT", "ISO"} /\ t.form # "empty"
      /\ t.wall.day \in Nat /\ t.wall.hour \in Nat /\ t.wall.min \in Nat /\ t.wall.sec \in Nat
      /\ t.fraction.digits \in {0, 3} /\ value \in Nat
      /\ zone.sign \in {"none", "+", "-", "Z"} /\ zone.h \in Nat /\ zone.m \in Nat
  <2>1. t \in TextType
    BY SMT DEF WellFormed
  <2> QED BY <2>1, SMT DEF TextType
<1>2. value < 1000 /\ (t.fraction.digits = 0 => value = 0) /\ (t.form = "GMT" => value = 0)
  BY SMT DEF WellFormed, DT!NoFraction
<1>3. CASE \/ t.form = "GMT" /\ zone = DT!NoZone
           \/ t.form = "ISO" /\ (zone.sign \in {"+", "-"} \/ zone = DT!Z)
  <2>1. seconds \in Int /\ shift \in Int
    BY <1>1, SMT DEF DT!Seconds
  <2>2. DT!Offset(t) \in Int /\ DT!Offset(t) = (IF zone.sign = "-" THEN -1 ELSE 1) * shift
    <3>1. CASE zone = DT!NoZone /\ t.form = "GMT"
      <4>1. zone.sign = "none" /\ zone.h = 0 /\ zone.m = 0
        BY <3>1, SMT DEF DT!NoZone, DT!Zone
      <4>2. DT!Offset(t) = 0
        BY <3>1, <4>1, Zenon DEF DT!Offset
      <4> QED BY <4>1, <4>2, SMT
    <3>2. CASE t.form = "ISO" /\ zone = DT!Z
      <4>1. zone.sign = "Z" /\ zone.h = 0 /\ zone.m = 0
        BY <3>2, SMT DEF DT!Z, DT!Zone
      <4>2. DT!Offset(t) = 0
        BY <4>1, Zenon DEF DT!Offset
      <4> QED BY <4>1, <4>2, SMT
    <3>3. CASE t.form = "ISO" /\ zone.sign = "+"
      <4>1. DT!Offset(t) = DT!ZoneSeconds(zone)
        BY <3>3, Zenon DEF DT!Offset
      <4> QED BY <2>1, <3>3, <4>1, SMT DEF DT!ZoneSeconds
    <3>4. CASE t.form = "ISO" /\ zone.sign = "-"
      <4>1. DT!Offset(t) = -DT!ZoneSeconds(zone)
        BY <3>4, Zenon DEF DT!Offset
      <4> QED BY <2>1, <3>4, <4>1, SMT DEF DT!ZoneSeconds
    <3> QED BY <1>3, <3>1, <3>2, <3>3, <3>4, SMT
  <2>3. DT!Nanoseconds(t) = value * 1000000
    BY <1>1, <1>2, SMT DEF DT!Nanoseconds
  <2>4. value * DT!Unit(t.fraction.digits) = value * 1000000
    <3>1. DT!Unit(3) = 1000000
      BY SMT DEF DT!Unit
    <3>2. DT!Unit(0) \in Int
      BY SMT DEF DT!Unit
    <3> QED BY <1>1, <1>2, <3>1, <3>2, SMT
  <2>5. DT!TextMeans(t) = [sec |-> seconds - DT!Offset(t), nsec |-> value * 1000000]
    BY <2>2, <2>4, SMT DEF DT!TextMeans
  <2>6. value * 1000000 \in Nanos
    BY <1>1, <1>2, SMT DEF Nanos
  <2>7. DT!AssignedText(t) =
          [valid |-> TRUE, sec |-> seconds - DT!Offset(t), nsec |-> value * 1000000]
    BY <1>1, <2>3, SMT DEF DT!AssignedText
  <2>8. seconds - DT!Offset(t) \in Int
    BY <2>1, <2>2, SMT
  <2> HIDE DEF seconds
  <2> QED BY <2>5, <2>6, <2>7, <2>8, SMT DEF Instant
<1>4. /\ t.form = "GMT" => zone = DT!NoZone
      /\ t.form = "ISO" => zone.sign \in {"+", "-"} \/ zone = DT!Z
  BY SMT DEF WellFormed
<1> QED BY <1>1, <1>3, <1>4, SMT

LEMMA DateInvariant ==
    ASSUME \A t \in DateTexts : WellFormed(t), Times \subseteq Instant
    PROVE  DT!Spec => []DateInv
<1>1. DT!Init => DateInv
  <2> SUFFICES ASSUME NEW t \in Times, date = DT!AssignedTime(t), meant = t PROVE DateInv
    BY Zenon DEF DT!Init
  <2>1. t \in Instant /\ t.nsec \in Nanos
    BY SMT DEF Instant
  <2> QED BY <2>1, Zenon DEF DT!AssignedTime, DateInv
<1>2. DateInv /\ [DT!Next]_DT!vars => DateInv'
  <2> SUFFICES ASSUME DateInv, [DT!Next]_DT!vars PROVE DateInv'
    BY SMT
  <2>0. PICK nsec \in Nanos :
          /\ date = [valid |-> TRUE, sec |-> meant.sec, nsec |-> nsec]
          /\ Milli(nsec) = Milli(meant.nsec)
    BY Zenon DEF DateInv
  <2> DEFINE milli == Milli(nsec)
  <2>1. /\ meant \in Instant /\ meant.sec \in Int /\ meant.nsec \in Nanos
        /\ date.sec = meant.sec /\ date.nsec = nsec /\ date.valid = TRUE
    BY <2>0, SMT DEF DateInv, Instant
  <2>2. /\ milli \in Int /\ 0 <= milli /\ milli < 1000 /\ Whole(milli) \in Nanos
        /\ Milli(Whole(milli)) = milli /\ (nsec = 0 => milli = 0)
    BY <2>0, Millions, SMT DEF Milli, Whole
  (* What the three actions that read the Date again come to. *)
  <2>3. ASSUME NEW n, n \in {0, Whole(milli)},
               date' = [valid |-> TRUE, sec |-> meant.sec, nsec |-> n],
               meant' = [sec |-> meant.sec, nsec |-> n]
        PROVE  DateInv'
    <3>1. n \in Nanos
      BY <2>2, <2>3, SMT DEF Nanos
    <3>2. meant' \in Instant /\ meant'.sec = meant.sec /\ meant'.nsec = n
      BY <2>1, <2>3, <3>1, SMT DEF Instant
    <3> QED BY <2>3, <3>1, <3>2, Zenon DEF DateInv
  <2>4. CASE DT!AssignText
    <3>1. PICK t \in DateTexts : date' = DT!AssignedText(t) /\ meant' = DT!TextMeans(t)
      BY <2>4, SMT DEF DT!AssignText
    <3>2. /\ DT!TextMeans(t) \in Instant
          /\ DT!AssignedText(t) = [valid |-> TRUE, sec |-> DT!TextMeans(t).sec,
                                   nsec |-> DT!TextMeans(t).nsec]
      BY <2>0, TextAssigned, SMT
    <3>3. DT!TextMeans(t).nsec \in Nanos
      BY <3>2, SMT DEF Instant
    <3> QED BY <3>1, <3>2, <3>3, Zenon DEF DateInv
  <2>5. CASE DT!AssignTime
    <3>1. PICK t \in Times : date' = DT!AssignedTime(t) /\ meant' = t
      BY <2>5, SMT DEF DT!AssignTime
    <3>2. t \in Instant /\ t.nsec \in Nanos
      BY <3>1, SMT DEF Instant
    <3> QED BY <3>1, <3>2, Zenon DEF DT!AssignedTime, DateInv
  <2>6. CASE DT!ThroughGMT
    <3> DEFINE text == DT!ToGMTString(date)
    <3>1. /\ date' = DT!AssignedText(text) /\ meant' = [sec |-> meant.sec, nsec |-> 0]
          /\ text.form = "GMT" /\ text.wall = DT!WallOf(meant.sec) /\ text.zone.sign = "none"
      BY <2>1, <2>6, SMT DEF DT!ThroughGMT, DT!ToGMTString, DT!Text, DT!NoZone, DT!Zone
    <3> HIDE DEF text
    <3>2. DT!Offset(text) = 0 /\ DT!Nanoseconds(text) = 0
      <4>1. DT!Offset(text) = 0
        BY <3>1, Zenon DEF DT!Offset
      <4> QED BY <3>1, <4>1, SMT DEF DT!Nanoseconds
    <3>3. DT!Seconds(text.wall) = meant.sec
      BY <2>1, <3>1, ClockTells, SMT
    <3>4. date' = [valid |-> TRUE, sec |-> meant.sec, nsec |-> 0]
      <4>1. text.form # "empty" /\ DT!Seconds(text.wall) - DT!Offset(text) = meant.sec
        BY <2>1, <3>1, <3>2, <3>3, SMT
      <4> QED BY <2>1, <3>1, <3>2, <4>1, Zenon DEF DT!AssignedText
    <3> QED BY <2>3, <3>1, <3>4, SMT
  <2>7. CASE DT!ThroughISO
    <3> DEFINE text == DT!ToISOString(date)
    <3>1. /\ date' = DT!AssignedText(text) /\ meant' = DT!Milliseconds(meant)
          /\ text.form = "ISO" /\ text.wall = DT!WallOf(meant.sec) /\ text.zone = DT!Z
          /\ text.fraction = IF nsec = 0 THEN DT!NoFraction
                             ELSE [digits |-> 3, value |-> milli]
      BY <2>1, <2>7, SMT DEF DT!ThroughISO, DT!ToISOString, DT!Text, Milli
    <3> HIDE DEF text
    <3>2. text.zone.sign = "Z"
      BY <3>1, SMT DEF DT!Z, DT!Zone
    <3>3. DT!Offset(text) = 0
      BY <3>2, Zenon DEF DT!Offset
    <3>4. text.fraction.value = milli
      BY <2>2, <3>1, SMT DEF DT!NoFraction
    <3>5. DT!Seconds(text.wall) = meant.sec
      BY <2>1, <3>1, ClockTells, SMT
    <3>6. DT!Nanoseconds(text) = Whole(milli)
      BY <3>1, <3>4, SMT DEF DT!Nanoseconds, Whole
    <3> HIDE DEF milli
    <3>7. date' = [valid |-> TRUE, sec |-> meant.sec, nsec |-> Whole(milli)]
      <4>1. text.form # "empty" /\ DT!Seconds(text.wall) - DT!Offset(text) = meant.sec
        BY <2>1, <3>1, <3>3, <3>5, SMT
      <4> QED BY <2>1, <3>1, <3>6, <4>1, Zenon DEF DT!AssignedText
    <3>8. meant' = [sec |-> meant.sec, nsec |-> Whole(milli)]
      BY <2>0, <3>1, SMT DEF DT!Milliseconds, Milli, Whole, milli
    <3> QED BY <2>3, <3>7, <3>8, SMT
  <2>8. CASE DT!ThroughJstime
    <3> DEFINE ms == DT!GetTime(date)
    <3>1. date' = DT!AssignedJstime(ms) /\ meant' = DT!Milliseconds(meant)
      BY <2>8, SMT DEF DT!ThroughJstime
    <3>2. ms = meant.sec * 1000 + milli
      BY <2>1, SMT DEF DT!GetTime, Milli
    <3> HIDE DEF ms
    <3>3. meant' = [sec |-> meant.sec, nsec |-> Whole(milli)]
      BY <2>0, <3>1, SMT DEF DT!Milliseconds, Milli, Whole
    <3> HIDE DEF milli
    <3>4. ms \div 1000 = meant.sec /\ ms % 1000 = milli
      <4>1. meant.sec \in Int /\ milli \in Int /\ 0 <= milli /\ milli < 1000
        BY <2>1, <2>2, SMT
      <4>2. /\ (meant.sec * 1000 + milli) \div 1000 = meant.sec
            /\ (meant.sec * 1000 + milli) % 1000 = milli
        BY <4>1, Thousands, SMT
      <4> QED BY <3>2, <4>2, SMT
    <3>5. date' = [valid |-> TRUE, sec |-> meant.sec, nsec |-> Whole(milli)]
      <4> DEFINE sec == ms \div 1000
                 nanos == (ms % 1000) * 1000000
      <4>1. sec = meant.sec /\ nanos = Whole(milli)
        BY <3>4, SMT DEF Whole
      <4>2. DT!AssignedJstime(ms) = [valid |-> TRUE, sec |-> sec, nsec |-> nanos]
        BY SMT DEF DT!AssignedJstime
      <4> HIDE DEF sec, nanos
      <4> QED BY <3>1, <4>1, <4>2, Zenon
    <3> QED BY <2>3, <3>3, <3>5, SMT
  <2>9. CASE UNCHANGED DT!vars
    BY <2>9, Zenon DEF DT!vars, DateInv
  <2> QED BY <2>4, <2>5, <2>6, <2>7, <2>8, <2>9, SMT DEF DT!Next
<1> QED BY <1>1, <1>2, PTL DEF DT!Spec

(* Date::assign and its like: for texts with a zone and with three digits
   behind the "." or none, a Date gives the instant last assigned, to the
   millisecond, whatever it held before and whatever texts of its own it has
   gone through. *)
THEOREM DatesAreWhatWasAssigned ==
    ASSUME \A t \in DateTexts : WellFormed(t), Times \subseteq Instant
    PROVE  DT!Spec => []DT!DateIsWhatWasAssigned
<1>1. DateInv => DT!DateIsWhatWasAssigned
  BY SMT DEF DateInv, DT!DateIsWhatWasAssigned, DT!GetTime, Milli
<1> QED BY <1>1, DateInvariant, PTL
-----------------------------------------------------------------------------
(* Generator *)

(* The bytes written are those kept, and the vector has its first size until
   the status line is in it. *)
BlockInv ==
    /\ line \in {"status", "headers", "keepalive", "end", "done"}
    /\ unwritten \in Seq(HeaderLengths) /\ keep \in NumberLengths \X NumberLengths
    /\ pos \in Nat /\ length \in Nat /\ kept = pos
    /\ line = "status" => pos = 0 /\ length = 50
    /\ line = "done" => length = pos

(* A write that ends within the vector keeps all that was written. *)
LEMMA WriteKeeps ==
    ASSUME NEW room \in Nat, NEW n \in Nat, BlockInv, pos + n <= room, HG!WriteAt(room, n)
    PROVE  pos' = pos + n /\ kept' = pos' /\ length' = room /\ pos' \in Nat
  BY DEF BlockInv, HG!WriteAt, HG!Least

LEMMA InitBlockInv == ASSUME HG!LengthsFit, HG!Init PROVE BlockInv
  BY DEF HG!LengthsFit, HG!Init, BlockInv

LEMMA NextBlockInv == ASSUME HG!LengthsFit, BlockInv, [HG!Next]_HG!vars PROVE BlockInv'
  <1>1. CASE HG!WriteStatus
    <2>1. PICK n \in StatusLengths : HG!WriteAt(length, n)
      BY <1>1 DEF HG!WriteStatus
    <2>2. n \in Nat /\ length \in Nat /\ pos + n <= length
      BY <1>1, <2>1 DEF HG!LengthsFit, BlockInv, HG!WriteStatus
    <2>3. pos' \in Nat /\ kept' = pos' /\ length' \in Nat
      BY <2>1, <2>2, WriteKeeps
    <2> QED
      BY <1>1, <2>3 DEF BlockInv, HG!WriteStatus
  <1>2. CASE HG!WriteHeader
    <2> DEFINE h == Head(unwritten)
    <2>1. h \in [field : Nat, value : Nat] /\ Tail(unwritten) \in Seq(HeaderLengths)
      BY <1>2 DEF HG!LengthsFit, BlockInv, HG!WriteHeader
    <2>2. HG!HeaderSize(h) \in Nat /\ HG!RoomFor(h) \in Nat /\ pos + HG!HeaderSize(h) <= HG!RoomFor(h)
      BY <2>1 DEF BlockInv, HG!HeaderSize, HG!RoomFor
    <2>3. pos' \in Nat /\ kept' = pos' /\ length' \in Nat
      BY <1>2, <2>2, WriteKeeps DEF HG!WriteHeader
    <2> QED
      BY <1>2, <2>1, <2>3 DEF BlockInv, HG!WriteHeader
  <1>3. CASE HG!HeadersWritten
    BY <1>3 DEF BlockInv, HG!HeadersWritten
  <1>4. CASE HG!WriteKeepAlive
    <2> DEFINE n == 44 + keep[1] + 6 + keep[2] + 2
    <2>1. keep[1] \in NumberLengths /\ keep[2] \in NumberLengths
      BY DEF BlockInv
    <2>2. keep[1] \in Nat /\ keep[2] \in Nat /\ keep[1] + keep[2] <= 12
      BY <2>1 DEF HG!LengthsFit
    <2>3. n \in Nat /\ n <= 64 /\ pos + 64 \in Nat
      BY <2>2 DEF BlockInv
    <2>4. pos + n <= pos + 64
      BY <2>3 DEF BlockInv
    <2> HIDE DEF n
    <2>5. pos' \in Nat /\ kept' = pos' /\ length' \in Nat
      BY <1>4, <2>3, <2>4, WriteKeeps DEF HG!WriteKeepAlive, n
    <2> QED
      BY <1>4, <2>5 DEF BlockInv, HG!WriteKeepAlive
  <1>5. CASE HG!WriteEnd
    <2>1. pos' = pos + 2 /\ kept' = pos' /\ length' = pos + 2 /\ pos' \in Nat
      BY <1>5, WriteKeeps DEF HG!WriteEnd, BlockInv
    <2> QED
      BY <1>5, <2>1 DEF BlockInv, HG!WriteEnd
  <1>6. CASE UNCHANGED HG!vars
    BY <1>6 DEF BlockInv, HG!vars
  <1> QED
    BY <1>1, <1>2, <1>3, <1>4, <1>5, <1>6 DEF HG!Next

(* For any headers, and numbers of 12 digits together, generate_headers writes
   within its vector and sends every byte it wrote. *)
THEOREM BlockIsWhole ==
    ASSUME HG!LengthsFit PROVE HG!Spec => []HG!HeaderBlockIsWhole
  <1>1. HG!Init => BlockInv
    BY InitBlockInv
  <1>2. BlockInv /\ [HG!Next]_HG!vars => BlockInv'
    BY NextBlockInv
  <1>3. BlockInv => HG!HeaderBlockIsWhole
    BY DEF BlockInv, HG!HeaderBlockIsWhole
  <1> QED
    BY <1>1, <1>2, <1>3, PTL DEF HG!Spec
-----------------------------------------------------------------------------
(* Routing *)

AnyMethod == Methods \cup {"ALL"}
AnyCall ==
    [call : {"route", "use"}, route : Nat, of : Patterns \cup {"*"} \cup AnyMethod]
AnyRoute ==
    [pattern : Patterns \cup {"*"}, route : Nat,
     methods : UNION {[D -> Seq(Nat)] : D \in SUBSET AnyMethod}]

(* What the calls ask for, of any list of calls. *)
UsesIn(calls, r, m) ==
    {c \in DOMAIN calls : calls[c].call = "use" /\ calls[c].route = r /\ calls[c].of = m}
RoutesIn(calls) == {c \in DOMAIN calls : calls[c].call = "route" /\ calls[c].of # "*"}
GlobalsIn(calls) == {c \in DOMAIN calls : calls[c].call = "route" /\ calls[c].of = "*"}

(* A Route is the one its call made, and has for each method the middlewares
   that were asked for. *)
Keeps(r, calls) ==
    /\ r.route \in DOMAIN calls
    /\ calls[r.route].call = "route" /\ calls[r.route].of = r.pattern
    /\ \A m \in AnyMethod : (m \in DOMAIN r.methods) = (UsesIn(calls, r.route, m) # {})
    /\ \A m \in DOMAIN r.methods : RT!Enumerates(r.methods[m], UsesIn(calls, r.route, m))

Mapped(rm, calls) ==
    /\ \A i \in DOMAIN rm : Keeps(rm[i], calls) /\ rm[i].pattern # "*"
    /\ \A i, j \in DOMAIN rm : i < j => rm[i].route < rm[j].route
    /\ \A c \in RoutesIn(calls) : \E i \in DOMAIN rm : rm[i].route = c

Global(rg, calls) ==
    \/ rg = <<>> /\ GlobalsIn(calls) = {}
    \/ \E r \in AnyRoute :
          /\ rg = <<r>> /\ Keeps(r, calls) /\ r.pattern = "*"
          /\ \A c \in GlobalsIn(calls) : c <= r.route

(* The middlewares are given to Routes that were made before. *)
Named(calls) ==
    \A c \in DOMAIN calls : calls[c].call = "use" => calls[c].route \in DOMAIN calls

RoutesInv ==
    /\ Named(log)
    /\ log \in Seq(AnyCall) /\ route_mapping \in Seq(AnyRoute)
    /\ Mapped(route_mapping, log) /\ Global(route_global, log)

(* One more call. *)
LEMMA CallsGrow ==
    ASSUME NEW calls \in Seq(AnyCall), NEW e \in AnyCall
    PROVE  LET more == Append(calls, e)
               id == Len(calls) + 1
           IN /\ more \in Seq(AnyCall) /\ id \in Nat /\ more[id] = e
              /\ DOMAIN more = DOMAIN calls \cup {id} /\ id \notin DOMAIN calls
              /\ \A c \in DOMAIN calls : c \in Nat /\ c < id /\ more[c] = calls[c]
              /\ \A r, m : UsesIn(more, r, m) = UsesIn(calls, r, m) \cup
                    (IF e.call = "use" /\ e.route = r /\ e.of = m THEN {id} ELSE {})
              /\ RoutesIn(more) = RoutesIn(calls) \cup
                    (IF e.call = "route" /\ e.of # "*" THEN {id} ELSE {})
              /\ GlobalsIn(more) = GlobalsIn(calls) \cup
                    (IF e.call = "route" /\ e.of = "*" THEN {id} ELSE {})
<1> DEFINE more == Append(calls, e)
           id == Len(calls) + 1
<1>1. /\ more \in Seq(AnyCall) /\ Len(more) = id /\ id \in Nat
      /\ \A c \in 1..Len(calls) : more[c] = calls[c]
      /\ more[id] = e
  BY AppendProperties
<1>2. DOMAIN more = 1..id /\ DOMAIN calls = 1..Len(calls) /\ Len(calls) \in Nat
  BY <1>1
<1>3. DOMAIN more = DOMAIN calls \cup {id} /\ id \notin DOMAIN calls
  BY <1>2
<1>4. \A c \in DOMAIN calls : c \in Nat /\ c < id /\ more[c] = calls[c]
  BY <1>1, <1>2
<1> HIDE DEF more, id
<1>5. \A r, m : UsesIn(more, r, m) = UsesIn(calls, r, m) \cup
         (IF e.call = "use" /\ e.route = r /\ e.of = m THEN {id} ELSE {})
  BY <1>1, <1>3, <1>4 DEF UsesIn
<1>6. RoutesIn(more) = RoutesIn(calls) \cup
         (IF e.call = "route" /\ e.of # "*" THEN {id} ELSE {})
  BY <1>1, <1>3, <1>4 DEF RoutesIn
<1>7. GlobalsIn(more) = GlobalsIn(calls) \cup
         (IF e.call = "route" /\ e.of = "*" THEN {id} ELSE {})
  BY <1>1, <1>3, <1>4 DEF GlobalsIn
<1> QED BY <1>1, <1>3, <1>4, <1>5, <1>6, <1>7 DEF more, id

(* A number above all others comes last. *)
LEMMA EnumeratesMore ==
    ASSUME NEW list \in Seq(Nat), NEW numbers, NEW id \in Nat,
           RT!Enumerates(list, numbers), \A n \in numbers : n < id
    PROVE  RT!Enumerates(Append(list, id), numbers \cup {id})
<1> DEFINE more == Append(list, id)
<1>1. /\ more \in Seq(Nat) /\ Len(more) = Len(list) + 1 /\ Len(list) \in Nat
      /\ \A i \in 1..Len(list) : more[i] = list[i]
      /\ more[Len(list) + 1] = id
  BY AppendProperties
<1>2. DOMAIN more = 1..(Len(list) + 1) /\ DOMAIN list = 1..Len(list)
  BY <1>1
<1>3. {list[i] : i \in 1..Len(list)} = numbers
  BY <1>2 DEF RT!Enumerates
<1> HIDE DEF more
<1>4. {more[i] : i \in DOMAIN more} = numbers \cup {id}
  <2>1. ASSUME NEW i \in DOMAIN more PROVE more[i] \in numbers \cup {id}
    <3>1. CASE i = Len(list) + 1
      BY <1>1, <3>1
    <3>2. CASE i \in 1..Len(list)
      BY <1>1, <1>3, <3>2
    <3> QED BY <1>1, <1>2, <3>1, <3>2
  <2>2. ASSUME NEW n \in numbers PROVE \E i \in DOMAIN more : more[i] = n
    <3>1. PICK i \in 1..Len(list) : list[i] = n
      BY <1>3, <2>2
    <3>2. i \in DOMAIN more
      BY <1>1, <1>2
    <3> QED BY <1>1, <3>1, <3>2
  <2>3. \E i \in DOMAIN more : more[i] = id
    <3>1. Len(list) + 1 \in DOMAIN more
      BY <1>1, <1>2
    <3> QED BY <1>1, <3>1
  <2> QED BY <2>1, <2>2, <2>3
<1>5. ASSUME NEW i \in DOMAIN more, NEW j \in DOMAIN more, i < j
      PROVE  more[i] < more[j]
  <2>1. i \in DOMAIN list /\ more[i] = list[i] /\ list[i] \in numbers
    BY <1>1, <1>2, <1>3, <1>5
  <2>2. CASE j = Len(list) + 1
    BY <1>1, <2>1, <2>2
  <2>3. CASE j \in DOMAIN list
    BY <1>1, <1>2, <1>5, <2>1, <2>3 DEF RT!Enumerates
  <2> QED BY <1>2, <2>2, <2>3
<1> QED BY <1>4, <1>5 DEF RT!Enumerates, more

LEMMA EnumeratesOne ==
    ASSUME NEW id \in Nat PROVE RT!Enumerates(Append(<<>>, id), {id})
<1>1. Append(<<>>, id) = <<id>>
  OBVIOUS
<1> QED BY <1>1 DEF RT!Enumerates

(* Calls that are not about a Route leave what it keeps. *)
LEMMA KeepsMore ==
    ASSUME NEW r \in AnyRoute, NEW calls \in Seq(AnyCall), NEW e \in AnyCall, Keeps(r, calls),
           e.call = "use" => e.route # r.route
    PROVE  Keeps(r, Append(calls, e))
<1> DEFINE more == Append(calls, e)
<1>1. /\ DOMAIN calls \subseteq DOMAIN more
      /\ \A c \in DOMAIN calls : more[c] = calls[c]
      /\ \A m : UsesIn(more, r.route, m) = UsesIn(calls, r.route, m)
  <2>1. \A m : UsesIn(more, r.route, m) = UsesIn(calls, r.route, m) \cup
           (IF e.call = "use" /\ e.route = r.route /\ e.of = m THEN {Len(calls) + 1} ELSE {})
    BY CallsGrow
  <2>2. \A m : UsesIn(more, r.route, m) = UsesIn(calls, r.route, m)
    BY <2>1
  <2> QED BY <2>2, CallsGrow
<1> HIDE DEF more
<1> QED BY <1>1 DEF Keeps, more

(* A Route that its call has just made. *)
LEMMA KeepsNew ==
    ASSUME NEW calls \in Seq(AnyCall), NEW p \in Patterns \cup {"*"}, NEW r, NEW e,
           Named(calls),
           r = [pattern |-> p, route |-> Len(calls) + 1, methods |-> RT!NoMethods],
           e = [call |-> "route", route |-> r.route, of |-> p]
    PROVE  r \in AnyRoute /\ e \in AnyCall /\ Keeps(r, Append(calls, e))
<1> DEFINE more == Append(calls, e)
           id == Len(calls) + 1
<1>1. id \in Nat /\ DOMAIN RT!NoMethods = {}
  BY LenProperties DEF RT!NoMethods
<1>2. e \in AnyCall
  BY <1>1 DEF AnyCall
<1>3. r \in AnyRoute
  <2>1. RT!NoMethods \in [{} -> Seq(Nat)]
    BY DEF RT!NoMethods
  <2> QED BY <1>1, <2>1 DEF AnyRoute
<1>4. /\ id \in DOMAIN more /\ more[id] = e
      /\ \A m : UsesIn(more, id, m) = UsesIn(calls, id, m)
      /\ id \notin DOMAIN calls
  <2>1. /\ more[id] = e /\ DOMAIN more = DOMAIN calls \cup {id} /\ id \notin DOMAIN calls
        /\ \A m : UsesIn(more, id, m) = UsesIn(calls, id, m) \cup
              (IF e.call = "use" /\ e.route = id /\ e.of = m THEN {id} ELSE {})
    BY <1>2, CallsGrow
  <2>2. e.call # "use"
    OBVIOUS
  <2> HIDE DEF more, id
  <2> QED BY <2>1, <2>2
<1>5. \A m : UsesIn(calls, id, m) = {}
  BY <1>4 DEF UsesIn, Named
<1> HIDE DEF more, id
<1>6. r.route = id /\ r.pattern = p /\ DOMAIN r.methods = {}
  BY <1>1 DEF id
<1> QED BY <1>2, <1>3, <1>4, <1>5, <1>6 DEF Keeps, more

(* A Route that on(method).use(middleware) is called of. *)
LEMMA KeepsUse ==
    ASSUME NEW calls \in Seq(AnyCall), NEW r \in AnyRoute, NEW m \in AnyMethod, NEW e,
           Keeps(r, calls), e = [call |-> "use", route |-> r.route, of |-> m]
    PROVE  LET u == RT!WithMiddleware(r, m, Len(calls) + 1)
           IN /\ u \in AnyRoute /\ u.route = r.route /\ u.pattern = r.pattern
              /\ e \in AnyCall /\ Keeps(u, Append(calls, e))
<1> DEFINE more == Append(calls, e)
           id == Len(calls) + 1
           u == RT!WithMiddleware(r, m, id)
           had == IF m \in DOMAIN r.methods THEN r.methods[m] ELSE <<>>
<1>1. r.route \in Nat /\ r.pattern \in Patterns \cup {"*"} /\ id \in Nat
  BY LenProperties DEF AnyRoute
<1>2. DOMAIN r.methods \subseteq AnyMethod /\ \A n \in DOMAIN r.methods : r.methods[n] \in Seq(Nat)
  BY DEF AnyRoute
<1>3. e \in AnyCall
  BY <1>1 DEF AnyCall
<1>4. /\ u.pattern = r.pattern /\ u.route = r.route
      /\ DOMAIN u.methods = DOMAIN r.methods \cup {m}
      /\ \A n \in DOMAIN r.methods : n # m => u.methods[n] = r.methods[n]
      /\ u.methods[m] = Append(had, id)
  BY DEF RT!WithMiddleware
<1>5. had \in Seq(Nat) /\ Append(had, id) \in Seq(Nat)
  BY <1>1, <1>2, AppendProperties
<1>6. u \in AnyRoute
  <2> DEFINE methods == [n \in DOMAIN r.methods \cup {m} |->
                 IF n # m THEN r.methods[n] ELSE Append(had, id)]
             D == DOMAIN r.methods \cup {m}
  <2>1. u = [pattern |-> r.pattern, route |-> r.route, methods |-> methods]
    BY DEF RT!WithMiddleware
  <2>2. \A n \in D : IF n # m THEN r.methods[n] \in Seq(Nat) ELSE Append(had, id) \in Seq(Nat)
    BY <1>2, <1>5
  <2>3. methods \in [D -> Seq(Nat)]
    BY <2>2
  <2>4. D \in SUBSET AnyMethod
    BY <1>2
  <2> HIDE DEF methods, D
  <2> QED BY <1>1, <2>1, <2>3, <2>4 DEF AnyRoute
<1>7. /\ DOMAIN calls \subseteq DOMAIN more /\ \A c \in DOMAIN calls : more[c] = calls[c] /\ c < id
      /\ \A n : UsesIn(more, r.route, n) =
            UsesIn(calls, r.route, n) \cup (IF n = m THEN {id} ELSE {})
  <2>1. /\ DOMAIN more = DOMAIN calls \cup {id}
        /\ \A c \in DOMAIN calls : more[c] = calls[c] /\ c < id
        /\ \A n : UsesIn(more, r.route, n) = UsesIn(calls, r.route, n) \cup
              (IF e.call = "use" /\ e.route = r.route /\ e.of = n THEN {id} ELSE {})
    BY <1>3, CallsGrow
  <2>2. e.call = "use" /\ e.route = r.route /\ e.of = m
    OBVIOUS
  <2> HIDE DEF more, id
  <2> QED BY <2>1, <2>2
<1>8. RT!Enumerates(u.methods[m], UsesIn(more, r.route, m))
  <2>1. \A c \in UsesIn(calls, r.route, m) : c < id
    BY <1>7 DEF UsesIn
  <2>2. CASE m \in DOMAIN r.methods
    <3>1. RT!Enumerates(had, UsesIn(calls, r.route, m))
      BY <2>2 DEF Keeps
    <3>2. RT!Enumerates(Append(had, id), UsesIn(calls, r.route, m) \cup {id})
      BY <1>1, <1>5, <2>1, <3>1, EnumeratesMore
    <3> QED BY <1>4, <1>7, <3>2
  <2>3. CASE m \notin DOMAIN r.methods
    <3>1. UsesIn(calls, r.route, m) = {} /\ had = <<>>
      BY <2>3 DEF Keeps
    <3>2. UsesIn(more, r.route, m) = {id}
      BY <1>7, <3>1
    <3> QED BY <1>1, <1>4, <3>1, <3>2, EnumeratesOne
  <2> QED BY <2>2, <2>3
<1> HIDE DEF more, id, u
<1>9. ASSUME NEW n \in AnyMethod
      PROVE  (n \in DOMAIN u.methods) = (UsesIn(more, r.route, n) # {})
  <2>1. CASE n = m
    BY <1>4, <1>7, <2>1
  <2>2. CASE n # m
    <3>1. UsesIn(more, r.route, n) = UsesIn(calls, r.route, n)
      BY <1>7, <2>2
    <3>2. (n \in DOMAIN r.methods) = (UsesIn(calls, r.route, n) # {})
      BY DEF Keeps
    <3> QED BY <1>4, <2>2, <3>1, <3>2
  <2> QED BY <2>1, <2>2
<1>10. ASSUME NEW n \in DOMAIN u.methods
       PROVE  RT!Enumerates(u.methods[n], UsesIn(more, r.route, n))
  <2>1. CASE n = m
    BY <1>8, <2>1
  <2>2. CASE n # m
    <3>1. UsesIn(more, r.route, n) = UsesIn(calls, r.route, n)
      BY <1>7, <2>2
    <3>2. n \in DOMAIN r.methods /\ u.methods[n] = r.methods[n]
      BY <1>4, <2>2
    <3>3. RT!Enumerates(r.methods[n], UsesIn(calls, r.route, n))
      BY <3>2 DEF Keeps
    <3> QED BY <3>1, <3>2, <3>3
  <2> QED BY <2>1, <2>2
<1>11. Keeps(u, more)
  BY <1>4, <1>7, <1>9, <1>10 DEF Keeps
<1> QED BY <1>3, <1>4, <1>6, <1>11 DEF more, id, u

(* A call that does not make a Route for every target leaves the global one. *)
LEMMA GlobalMore ==
    ASSUME NEW rg, NEW calls \in Seq(AnyCall), NEW e \in AnyCall, Global(rg, calls),
           ~(e.call = "route" /\ e.of = "*"),
           \A r \in AnyRoute : rg = <<r>> => ~(e.call = "use" /\ e.route = r.route)
    PROVE  Global(rg, Append(calls, e))
<1>1. GlobalsIn(Append(calls, e)) = GlobalsIn(calls)
  <2>1. GlobalsIn(Append(calls, e)) = GlobalsIn(calls) \cup
           (IF e.call = "route" /\ e.of = "*" THEN {Len(calls) + 1} ELSE {})
    BY CallsGrow
  <2> QED BY <2>1
<1>2. CASE rg = <<>> /\ GlobalsIn(calls) = {}
  BY <1>1, <1>2 DEF Global
<1>3. ASSUME NEW r \in AnyRoute, rg = <<r>>, Keeps(r, calls), r.pattern = "*",
             \A c \in GlobalsIn(calls) : c <= r.route
      PROVE  Global(rg, Append(calls, e))
  <2>1. Keeps(r, Append(calls, e))
    BY <1>3, KeepsMore
  <2> QED BY <1>1, <1>3, <2>1 DEF Global
<1> QED BY <1>2, <1>3 DEF Global

(* route makes its Route the last. *)
LEMMA AddRouteKeeps ==
    ASSUME RoutesInv, RT!AddRoute PROVE RoutesInv'
<1>1. PICK p \in Patterns \cup {"*"} :
        LET r == [pattern |-> p, route |-> Len(log) + 1, methods |-> RT!NoMethods]
        IN /\ IF p = "*" THEN route_global' = <<r>> /\ UNCHANGED route_mapping
              ELSE route_mapping' = Append(route_mapping, r) /\ UNCHANGED route_global
           /\ log' = Append(log, [call |-> "route", route |-> r.route, of |-> p])
  BY DEF RT!AddRoute
<1> DEFINE r == [pattern |-> p, route |-> Len(log) + 1, methods |-> RT!NoMethods]
           e == [call |-> "route", route |-> r.route, of |-> p]
           id == Len(log) + 1
<1>2. r \in AnyRoute /\ e \in AnyCall /\ Keeps(r, log')
  BY <1>1, KeepsNew DEF RoutesInv
<1>3. r.pattern = p /\ r.route = id /\ e.call = "route" /\ e.of = p /\ e.call # "use"
  OBVIOUS
<1>4. log' = Append(log, e)
  BY <1>1
<1>5. p = "*" => route_global' = <<r>> /\ route_mapping' = route_mapping
  BY <1>1
<1>6. p # "*" => route_mapping' = Append(route_mapping, r) /\ route_global' = route_global
  BY <1>1
<1> HIDE DEF r, e
<1>7. /\ log' \in Seq(AnyCall) /\ id \in Nat /\ log'[id] = e
      /\ DOMAIN log' = DOMAIN log \cup {id} /\ id \notin DOMAIN log
      /\ \A c \in DOMAIN log : c \in Nat /\ c < id /\ log'[c] = log[c]
      /\ RoutesIn(log') = RoutesIn(log) \cup (IF p # "*" THEN {id} ELSE {})
      /\ GlobalsIn(log') = GlobalsIn(log) \cup (IF p = "*" THEN {id} ELSE {})
  <2>1. LET more == Append(log, e)
        IN /\ more \in Seq(AnyCall) /\ id \in Nat /\ more[id] = e
           /\ DOMAIN more = DOMAIN log \cup {id} /\ id \notin DOMAIN log
           /\ \A c \in DOMAIN log : c \in Nat /\ c < id /\ more[c] = log[c]
           /\ RoutesIn(more) = RoutesIn(log) \cup
                 (IF e.call = "route" /\ e.of # "*" THEN {id} ELSE {})
           /\ GlobalsIn(more) = GlobalsIn(log) \cup
                 (IF e.call = "route" /\ e.of = "*" THEN {id} ELSE {})
    BY <1>2, CallsGrow DEF RoutesInv
  <2> HIDE DEF id
  <2> QED BY <1>3, <1>4, <2>1
<1> HIDE DEF id
<1>8. Named(log')
  BY <1>3, <1>7 DEF Named, RoutesInv
<1>9. \A q \in AnyRoute : Keeps(q, log) => Keeps(q, log')
  BY <1>2, <1>3, <1>4, KeepsMore DEF RoutesInv
<1>10. CASE p = "*"
  <2>1. Mapped(route_mapping', log')
    <3>1. \A i \in DOMAIN route_mapping : route_mapping[i] \in AnyRoute
      BY DEF RoutesInv
    <3>2. RoutesIn(log') = RoutesIn(log)
      BY <1>7, <1>10
    <3> QED BY <1>5, <1>9, <1>10, <3>1, <3>2 DEF Mapped, RoutesInv
  <2>2. \A c \in GlobalsIn(log') : c <= r.route
    <3>1. \A c \in GlobalsIn(log) : c \in Nat /\ c < id
      BY <1>7 DEF GlobalsIn
    <3>2. GlobalsIn(log') = GlobalsIn(log) \cup {id} /\ id \in Nat
      BY <1>7, <1>10
    <3>3. \A c \in GlobalsIn(log) : c <= id
      BY <3>1, <3>2
    <3>4. \A c \in GlobalsIn(log') : c <= id
      BY <3>2, <3>3
    <3> QED BY <1>3, <3>4
  <2>3. Global(route_global', log')
    BY <1>2, <1>3, <1>5, <1>10, <2>2 DEF Global
  <2> QED BY <1>5, <1>7, <1>8, <1>10, <2>1, <2>3 DEF RoutesInv
<1>11. CASE p # "*"
  <2>1. Global(route_global', log')
    <3>1. Global(route_global, Append(log, e))
      BY <1>2, <1>3, <1>11, GlobalMore DEF RoutesInv
    <3> QED BY <1>4, <1>6, <1>11, <3>1
  <2> DEFINE n == Len(route_mapping)
  <2>2. /\ route_mapping' \in Seq(AnyRoute) /\ n \in Nat /\ DOMAIN route_mapping = 1..n
        /\ DOMAIN route_mapping' = 1..(n + 1)
        /\ \A i \in 1..n : route_mapping'[i] = route_mapping[i]
        /\ route_mapping'[n + 1] = r
    <3>1. route_mapping \in Seq(AnyRoute) /\ r \in AnyRoute
      BY <1>2 DEF RoutesInv
    <3>2. route_mapping' = Append(route_mapping, r)
      BY <1>6, <1>11
    <3>3. n \in Nat /\ DOMAIN route_mapping = 1..n
      BY <3>1
    <3>4. /\ Append(route_mapping, r) \in Seq(AnyRoute)
          /\ Len(Append(route_mapping, r)) = n + 1
          /\ \A i \in 1..n : Append(route_mapping, r)[i] = route_mapping[i]
          /\ Append(route_mapping, r)[n + 1] = r
      BY <3>1, AppendProperties
    <3>5. DOMAIN Append(route_mapping, r) = 1..(n + 1)
      BY <3>4
    <3> QED BY <3>2, <3>3, <3>4, <3>5
  <2> HIDE DEF n
  <2>3. \A i \in 1..n : route_mapping[i] \in AnyRoute
    BY <2>2 DEF RoutesInv
  <2>4. \A i \in DOMAIN route_mapping' :
          Keeps(route_mapping'[i], log') /\ route_mapping'[i].pattern # "*"
    <3>1. \A i \in 1..n : Keeps(route_mapping[i], log) /\ route_mapping[i].pattern # "*"
      BY <2>2 DEF RoutesInv, Mapped
    <3>2. \A i \in 1..n : Keeps(route_mapping[i], log')
      BY <1>9, <2>3, <3>1
    <3>3. Keeps(r, log') /\ r.pattern # "*"
      BY <1>2, <1>3, <1>11
    <3>4. \A i \in DOMAIN route_mapping' : i \in 1..n \/ i = n + 1
      BY <2>2
    <3> QED BY <2>2, <3>1, <3>2, <3>3, <3>4
  <2>5. ASSUME NEW i \in DOMAIN route_mapping', NEW j \in DOMAIN route_mapping', i < j
        PROVE  route_mapping'[i].route < route_mapping'[j].route
    <3>1. i \in 1..n /\ route_mapping'[i] = route_mapping[i]
      BY <2>2, <2>5
    <3>2. CASE j = n + 1
      <4>1. route_mapping[i].route \in DOMAIN log
        BY <2>2, <3>1 DEF RoutesInv, Mapped, Keeps
      <4> QED BY <1>3, <1>7, <2>2, <3>1, <3>2, <4>1
    <3>3. CASE j \in 1..n
      BY <2>2, <2>5, <3>1, <3>3 DEF RoutesInv, Mapped
    <3> QED BY <2>2, <3>2, <3>3
  <2>6. ASSUME NEW c \in RoutesIn(log')
        PROVE  \E i \in DOMAIN route_mapping' : route_mapping'[i].route = c
    <3>1. CASE c = id
      BY <1>3, <2>2, <3>1
    <3>2. CASE c \in RoutesIn(log)
      <4>1. PICK i \in DOMAIN route_mapping : route_mapping[i].route = c
        BY <3>2 DEF RoutesInv, Mapped
      <4>2. i \in 1..n /\ i \in DOMAIN route_mapping'
        BY <2>2
      <4> QED BY <2>2, <4>1, <4>2
    <3> QED BY <1>7, <1>11, <2>6, <3>1, <3>2
  <2>7. Mapped(route_mapping', log')
    BY <2>4, <2>5, <2>6 DEF Mapped
  <2> QED BY <1>7, <1>8, <2>1, <2>2, <2>7 DEF RoutesInv
<1> QED BY <1>10, <1>11

(* on(method).use(middleware) is a call of one Route. *)
LEMMA OnUseKeeps ==
    ASSUME RoutesInv, RT!OnUse PROVE RoutesInv'
<1> DEFINE id == Len(log) + 1
           Call(r, m) == [call |-> "use", route |-> r.route, of |-> m]
<1>1. PICK m \in AnyMethod :
         \/ \E i \in DOMAIN route_mapping :
               /\ route_mapping' =
                    [route_mapping EXCEPT ![i] = RT!WithMiddleware(route_mapping[i], m, id)]
               /\ log' = Append(log, Call(route_mapping[i], m))
               /\ route_global' = route_global
         \/ /\ route_global # <<>>
            /\ route_global' = <<RT!WithMiddleware(route_global[1], m, id)>>
            /\ log' = Append(log, Call(route_global[1], m))
            /\ route_mapping' = route_mapping
  BY DEF RT!OnUse, AnyMethod
<1>2. ASSUME NEW r \in AnyRoute, Keeps(r, log), log' = Append(log, Call(r, m))
      PROVE  /\ RT!WithMiddleware(r, m, id) \in AnyRoute
             /\ RT!WithMiddleware(r, m, id).route = r.route
             /\ RT!WithMiddleware(r, m, id).pattern = r.pattern
             /\ Keeps(RT!WithMiddleware(r, m, id), log')
             /\ Call(r, m) \in AnyCall /\ log' \in Seq(AnyCall) /\ Named(log')
             /\ RoutesIn(log') = RoutesIn(log) /\ GlobalsIn(log') = GlobalsIn(log)
             /\ \A q \in AnyRoute : Keeps(q, log) /\ q.route # r.route => Keeps(q, log')
  <2> DEFINE e == Call(r, m)
  <2>1. /\ RT!WithMiddleware(r, m, id) \in AnyRoute
        /\ RT!WithMiddleware(r, m, id).route = r.route
        /\ RT!WithMiddleware(r, m, id).pattern = r.pattern
        /\ e \in AnyCall /\ Keeps(RT!WithMiddleware(r, m, id), log')
    BY <1>2, KeepsUse DEF RoutesInv
  <2>2. e.call = "use" /\ e.route = r.route /\ r.route \in DOMAIN log
    BY <1>2 DEF Keeps
  <2>3. log' = Append(log, e)
    BY <1>2
  <2> HIDE DEF e, id
  <2>4. LET more == Append(log, e)
            n == Len(log) + 1
        IN /\ more \in Seq(AnyCall) /\ more[n] = e
           /\ DOMAIN more = DOMAIN log \cup {n}
           /\ \A c \in DOMAIN log : more[c] = log[c]
           /\ RoutesIn(more) = RoutesIn(log) \cup
                 (IF e.call = "route" /\ e.of # "*" THEN {n} ELSE {})
           /\ GlobalsIn(more) = GlobalsIn(log) \cup
                 (IF e.call = "route" /\ e.of = "*" THEN {n} ELSE {})
    BY <2>1, CallsGrow DEF RoutesInv
  <2>5. log' \in Seq(AnyCall) /\ RoutesIn(log') = RoutesIn(log) /\ GlobalsIn(log') = GlobalsIn(log)
    BY <2>2, <2>3, <2>4
  <2>6. Named(log')
    BY <2>2, <2>3, <2>4 DEF Named, RoutesInv
  <2>7. \A q \in AnyRoute : Keeps(q, log) /\ q.route # r.route => Keeps(q, log')
    BY <2>1, <2>2, <2>3, KeepsMore DEF RoutesInv
  <2> QED BY <2>1, <2>5, <2>6, <2>7 DEF e
<1>3. \A k \in DOMAIN route_mapping :
         /\ route_mapping[k] \in AnyRoute /\ Keeps(route_mapping[k], log)
         /\ route_mapping[k].pattern # "*" /\ route_mapping[k].route \in Nat
  <2>1. \A k \in DOMAIN route_mapping : route_mapping[k] \in AnyRoute
    BY DEF RoutesInv
  <2>2. \A r \in AnyRoute : r.route \in Nat
    BY DEF AnyRoute
  <2> QED BY <2>1, <2>2 DEF RoutesInv, Mapped
<1>4. ASSUME NEW r \in AnyRoute, NEW q \in AnyRoute, Keeps(r, log), Keeps(q, log),
             r.pattern = "*", q.pattern # "*"
      PROVE  r.route # q.route
  BY <1>4 DEF Keeps
<1> HIDE DEF id
<1>5. ASSUME NEW i \in DOMAIN route_mapping,
             route_mapping' =
               [route_mapping EXCEPT ![i] = RT!WithMiddleware(route_mapping[i], m, id)],
             log' = Append(log, Call(route_mapping[i], m)), route_global' = route_global
      PROVE  RoutesInv'
  <2> DEFINE r == route_mapping[i]
             u == RT!WithMiddleware(r, m, id)
  <2>1. r \in AnyRoute /\ Keeps(r, log) /\ r.pattern # "*" /\ r.route \in Nat
    BY <1>3
  <2>2. /\ u \in AnyRoute /\ u.route = r.route /\ u.pattern = r.pattern
        /\ Keeps(u, log') /\ Call(r, m) \in AnyCall /\ log' \in Seq(AnyCall) /\ Named(log')
        /\ RoutesIn(log') = RoutesIn(log) /\ GlobalsIn(log') = GlobalsIn(log)
        /\ \A q \in AnyRoute : Keeps(q, log) /\ q.route # r.route => Keeps(q, log')
    BY <1>2, <1>5, <2>1
  <2>3. /\ DOMAIN route_mapping' = DOMAIN route_mapping
        /\ DOMAIN route_mapping = 1..Len(route_mapping) /\ Len(route_mapping) \in Nat
        /\ route_mapping'[i] = u
        /\ \A k \in DOMAIN route_mapping : k # i => route_mapping'[k] = route_mapping[k]
    BY <1>5 DEF RoutesInv
  <2> HIDE DEF r, u
  <2>4. route_mapping' \in Seq(AnyRoute)
    <3>1. \A k \in DOMAIN route_mapping : route_mapping'[k] \in AnyRoute
      BY <1>3, <2>2, <2>3
    <3>2. route_mapping' = [k \in 1..Len(route_mapping) |-> route_mapping'[k]]
      BY <1>5, <2>3
    <3> QED BY <2>3, <3>1, <3>2
  <2>5. \A k \in DOMAIN route_mapping : route_mapping'[k].route = route_mapping[k].route
    BY <2>2, <2>3 DEF r
  <2>6. ASSUME NEW k \in DOMAIN route_mapping
        PROVE  Keeps(route_mapping'[k], log') /\ route_mapping'[k].pattern # "*"
    <3>1. CASE k = i
      BY <2>1, <2>2, <2>3, <3>1
    <3>2. CASE k # i
      <4>1. route_mapping[k].route # r.route
        <5>1. \A a, b \in DOMAIN route_mapping :
                 a < b => route_mapping[a].route < route_mapping[b].route
          BY DEF RoutesInv, Mapped
        <5>2. k < i \/ i < k
          BY <2>3, <3>2
        <5> QED BY <1>3, <5>1, <5>2 DEF r
      <4> QED BY <1>3, <2>2, <2>3, <3>2, <4>1
    <3> QED BY <3>1, <3>2
  <2>7. Mapped(route_mapping', log')
    BY <2>2, <2>3, <2>5, <2>6 DEF Mapped, RoutesInv
  <2>8. Global(route_global', log')
    <3>1. \A q \in AnyRoute : Keeps(q, log) /\ q.pattern = "*" => Keeps(q, log')
      BY <1>4, <2>1, <2>2
    <3> QED BY <1>5, <2>2, <3>1 DEF Global, RoutesInv
  <2> QED BY <2>2, <2>4, <2>7, <2>8 DEF RoutesInv
<1>6. ASSUME route_global # <<>>,
             route_global' = <<RT!WithMiddleware(route_global[1], m, id)>>,
             log' = Append(log, Call(route_global[1], m)), route_mapping' = route_mapping
      PROVE  RoutesInv'
  <2>1. PICK r \in AnyRoute : /\ route_global = <<r>> /\ Keeps(r, log) /\ r.pattern = "*"
                              /\ \A c \in GlobalsIn(log) : c <= r.route
    BY <1>6 DEF RoutesInv, Global
  <2> DEFINE u == RT!WithMiddleware(r, m, id)
  <2>2. route_global[1] = r
    BY <2>1
  <2>3. /\ u \in AnyRoute /\ u.route = r.route /\ u.pattern = r.pattern
        /\ Keeps(u, log') /\ log' \in Seq(AnyCall) /\ Named(log')
        /\ RoutesIn(log') = RoutesIn(log) /\ GlobalsIn(log') = GlobalsIn(log)
        /\ \A q \in AnyRoute : Keeps(q, log) /\ q.route # r.route => Keeps(q, log')
    BY <1>2, <1>6, <2>1, <2>2
  <2>4. route_global' = <<u>>
    BY <1>6, <2>2
  <2> HIDE DEF u
  <2>5. Global(route_global', log')
    BY <2>1, <2>3, <2>4 DEF Global
  <2>6. \A k \in DOMAIN route_mapping : Keeps(route_mapping[k], log')
    BY <1>3, <1>4, <2>1, <2>3
  <2>7. Mapped(route_mapping', log')
    BY <1>3, <1>6, <2>3, <2>6 DEF Mapped, RoutesInv
  <2> QED BY <1>6, <2>3, <2>5, <2>7 DEF RoutesInv
<1> QED BY <1>1, <1>5, <1>6

(* What the loop has seen of the Routes, of a request that is not answered yet. *)
Captured(i) == Captures[route_mapping[i].pattern][search.url]
HasAtEnd(list, end) ==
    \E n \in 1..(Len(list) + 1) : SubSeq(list, n, Len(list)) = end

SearchInv ==
    /\ search.url \in Urls /\ search.method \in Methods
    /\ search.seen \in 0..Len(route_mapping) /\ search.route \in 0..search.seen
    /\ search.smbuf \in Seq(STRING)
    /\ \A i \in (search.route + 1)..search.seen : Captured(i) = <<>>
    /\ search.route = 0 => search.smbuf = <<>>
    /\ search.route # 0 =>
          /\ Captured(search.route) # <<>>
          /\ HasAtEnd(search.smbuf, Captured(search.route))
          /\ (\A i \in 1..(search.route - 1) : Captured(i) = <<>>) =>
                search.smbuf = Captured(search.route)

Answered ==
    LET list == IF RT!Chosen = <<>> THEN <<>> ELSE RT!Handlers(RT!Chosen[1], search.method)
    IN /\ search.seen = Len(route_mapping)
       /\ answer = [status |-> IF list = <<>> THEN 404 ELSE 200, middlewares |-> list,
                    url_smatch |-> search.smbuf]

RoutingInv ==
    /\ RoutesInv /\ stage \in {"setup", "search", "answered"}
    /\ stage \in {"search", "answered"} => SearchInv
    /\ stage = "answered" => Answered

(* A concatenation ends with its second part. *)
LEMMA HasAtEndLast ==
    ASSUME NEW a \in Seq(STRING), NEW b \in Seq(STRING) PROVE HasAtEnd(a \o b, b)
<1> DEFINE c == a \o b
           n == Len(a) + 1
<1>1. /\ c \in Seq(STRING) /\ Len(c) = Len(a) + Len(b) /\ Len(a) \in Nat /\ Len(b) \in Nat
      /\ \A i \in 1..Len(b) : c[Len(a) + i] = b[i]
  BY ConcatProperties
<1> HIDE DEF c
<1>2. SubSeq(c, n, Len(c)) = b
  <2>1. SubSeq(c, n, Len(c)) = [i \in 1..Len(b) |-> c[Len(a) + i]]
    BY <1>1
  <2> QED BY <1>1, <2>1
<1>3. n \in 1..(Len(c) + 1)
  BY <1>1
<1> QED BY <1>2, <1>3 DEF HasAtEnd, c

LEMMA InitRoutingInv == RT!Init => RoutingInv
<1> SUFFICES ASSUME RT!Init PROVE RoutingInv
  OBVIOUS
<1>1. log = <<>> /\ route_mapping = <<>> /\ route_global = <<>> /\ stage = "setup"
  BY DEF RT!Init
<1>2. DOMAIN log = {} /\ DOMAIN route_mapping = {} /\ RoutesIn(log) = {} /\ GlobalsIn(log) = {}
  BY <1>1 DEF RoutesIn, GlobalsIn
<1>3. Named(log) /\ Mapped(route_mapping, log) /\ Global(route_global, log)
  BY <1>1, <1>2 DEF Named, Mapped, Global
<1>4. log \in Seq(AnyCall) /\ route_mapping \in Seq(AnyRoute)
  BY <1>1
<1> QED BY <1>1, <1>3, <1>4 DEF RoutingInv, RoutesInv

LEMMA MatchKeeps ==
    ASSUME RoutingInv, RT!Match PROVE SearchInv'
<1> DEFINE i == search.seen + 1
           found == Captured(i)
<1>1. SearchInv /\ search.seen < Len(route_mapping) /\ route_mapping' = route_mapping
  BY DEF RoutingInv, RT!Match, RT!setup
<1>2. search' = [url |-> search.url, method |-> search.method, seen |-> i,
                 route |-> IF found = <<>> THEN search.route ELSE i,
                 smbuf |-> search.smbuf \o found]
  BY DEF RT!Match, Captured
<1>3. /\ search'.url = search.url /\ search'.method = search.method /\ search'.seen = i
      /\ search'.route = (IF found = <<>> THEN search.route ELSE i)
      /\ search'.smbuf = search.smbuf \o found
  BY <1>2
<1>4. \A k : Captured(k)' = Captured(k)
  BY <1>1, <1>3 DEF Captured
<1>5. Len(route_mapping) \in Nat /\ search.seen \in Nat /\ i \in DOMAIN route_mapping
  BY <1>1, LenProperties DEF SearchInv, RoutingInv, RoutesInv
<1>6. found \in Seq(STRING)
  <2>1. route_mapping[i] \in AnyRoute /\ route_mapping[i].pattern # "*"
    BY <1>5 DEF RoutingInv, RoutesInv, Mapped
  <2>2. route_mapping[i].pattern \in Patterns
    BY <2>1 DEF AnyRoute
  <2>3. Captures[route_mapping[i].pattern] \in [Urls -> Seq(STRING)]
    BY <2>2, TargetsAssumption
  <2> QED BY <1>1, <2>3 DEF SearchInv, Captured
<1>7. search.smbuf \o found \in Seq(STRING) /\ HasAtEnd(search.smbuf \o found, found)
  BY <1>1, <1>6, ConcatProperties, HasAtEndLast DEF SearchInv
<1> HIDE DEF found
<1>8. CASE found = <<>>
  <2>1. search'.route = search.route /\ search'.smbuf = search.smbuf
    BY <1>1, <1>3, <1>8, ConcatEmptySeq DEF SearchInv
  <2>2. \A k \in (search.route + 1)..i : Captured(k) = <<>>
    BY <1>1, <1>5, <1>8 DEF SearchInv, found
  <2>3. search'.seen \in 0..Len(route_mapping) /\ search'.route \in 0..search'.seen
    BY <1>1, <1>3, <1>5, <2>1 DEF SearchInv
  <2> QED BY <1>1, <1>3, <1>4, <2>1, <2>2, <2>3 DEF SearchInv
<1>9. CASE found # <<>>
  <2>1. search'.route = i /\ search'.smbuf = search.smbuf \o found
    BY <1>3, <1>9
  <2>2. search'.seen \in 0..Len(route_mapping) /\ search'.route \in 0..search'.seen /\ i # 0
    BY <1>1, <1>3, <1>5, <2>1 DEF SearchInv
  <2>3. (i + 1)..i = {}
    BY <1>5
  <2>4. ASSUME \A k \in 1..(i - 1) : Captured(k) = <<>>
        PROVE  search.smbuf \o found = found
    <3>1. search.route = 0
      BY <1>1, <1>5, <2>4 DEF SearchInv
    <3> QED BY <1>1, <1>6, <3>1, ConcatEmptySeq DEF SearchInv
  <2>5. Captured(i) = found
    BY DEF found
  <2> HIDE DEF i
  <2>6. /\ search'.url \in Urls /\ search'.method \in Methods /\ search'.smbuf \in Seq(STRING)
        /\ \A k \in (search'.route + 1)..search'.seen : Captured(k) = <<>>
    BY <1>1, <1>3, <1>7, <2>1, <2>3 DEF SearchInv
  <2>7. /\ Captured(search'.route) # <<>>
        /\ HasAtEnd(search'.smbuf, Captured(search'.route))
        /\ (\A k \in 1..(search'.route - 1) : Captured(k) = <<>>) =>
              search'.smbuf = Captured(search'.route)
    BY <1>7, <1>9, <2>1, <2>4, <2>5
  <2>8. search'.route # 0
    BY <2>1, <2>2
  <2> QED BY <1>1, <1>3, <2>2, <2>6, <2>7, <2>8 DEF SearchInv, Captured
<1> QED BY <1>8, <1>9

LEMMA NextRoutingInv ==
    ASSUME RoutingInv, [RT!Next]_RT!vars PROVE RoutingInv'
<1>1. CASE RT!AddRoute
  BY <1>1, AddRouteKeeps DEF RoutingInv, RT!AddRoute
<1>2. CASE RT!OnUse
  BY <1>2, OnUseKeeps DEF RoutingInv, RT!OnUse
<1>3. CASE RT!Request
  <2>1. PICK url \in Urls, m \in Methods :
          search' = [url |-> url, method |-> m, seen |-> 0, route |-> 0, smbuf |-> <<>>]
    BY <1>3 DEF RT!Request
  <2>2. /\ search'.url = url /\ search'.method = m /\ search'.seen = 0 /\ search'.route = 0
        /\ search'.smbuf = <<>>
    BY <2>1
  <2>3. <<>> \in Seq(STRING) /\ Len(route_mapping) \in Nat
    BY LenProperties DEF RoutingInv, RoutesInv
  <2>4. SearchInv'
    BY <1>3, <2>2, <2>3 DEF SearchInv, RT!Request, RT!setup
  <2> QED BY <1>3, <2>4 DEF RoutingInv, RoutesInv, RT!Request, RT!setup
<1>4. CASE RT!Match
  BY <1>4, MatchKeeps DEF RoutingInv, RoutesInv, RT!Match, RT!setup
<1>5. CASE RT!Answer
  <2>1. SearchInv' /\ RoutesInv' /\ stage' = "answered"
    BY <1>5 DEF RoutingInv, RoutesInv, SearchInv, Captured, RT!Answer, RT!setup
  <2>2. Answered'
    BY <1>5 DEF Answered, RT!Answer, RT!setup, RT!Chosen
  <2> QED BY <2>1, <2>2 DEF RoutingInv
<1>6. CASE UNCHANGED RT!vars
  BY <1>6 DEF RoutingInv, RoutesInv, SearchInv, Answered, Captured, RT!Chosen, RT!vars
<1> QED BY <1>1, <1>2, <1>3, <1>4, <1>5, <1>6 DEF RT!Next

LEMMA LatestIs ==
    ASSUME NEW calls, NEW c \in calls, calls \subseteq Nat, \A d \in calls : d <= c
    PROVE  RT!Latest(calls) = c
<1>1. \A b \in calls : (\A d \in calls : d <= b) => b = c
  OBVIOUS
<1> QED BY <1>1 DEF RT!Latest

LEMMA EnumeratesNone ==
    ASSUME NEW list \in Seq(Nat), NEW numbers, RT!Enumerates(list, numbers)
    PROVE  (list = <<>>) = (numbers = {})
<1>1. DOMAIN list = 1..Len(list) /\ Len(list) \in Nat /\ (list = <<>>) = (Len(list) = 0)
  BY EmptySeq, LenProperties
<1>2. numbers = {list[i] : i \in 1..Len(list)}
  BY <1>1 DEF RT!Enumerates
<1>3. CASE Len(list) = 0
  BY <1>1, <1>2, <1>3
<1>4. CASE Len(list) # 0
  <2>1. 1 \in 1..Len(list)
    BY <1>1, <1>4
  <2>2. list[1] \in numbers
    BY <1>2, <2>1
  <2> QED BY <1>1, <1>4, <2>2
<1> QED BY <1>3, <1>4

(* init_handler_data takes what was asked for. *)
LEMMA HandlersAsAsked ==
    ASSUME NEW r \in AnyRoute, Keeps(r, log), NEW m \in Methods
    PROVE  /\ RT!Handlers(r, m) \in Seq(Nat)
           /\ RT!Enumerates(RT!Handlers(r, m),
                IF RT!Uses(r.route, m) # {} THEN RT!Uses(r.route, m) ELSE RT!Uses(r.route, "ALL"))
<1>1. \A n : RT!Uses(r.route, n) = UsesIn(log, r.route, n)
  BY DEF RT!Uses, UsesIn
<1>2. m \in AnyMethod /\ "ALL" \in AnyMethod
  BY DEF AnyMethod
<1>3. \A n \in DOMAIN r.methods : r.methods[n] \in Seq(Nat)
  BY DEF AnyRoute
<1>4. CASE m \in DOMAIN r.methods
  <2>1. RT!Handlers(r, m) = r.methods[m] /\ RT!Uses(r.route, m) # {}
    BY <1>1, <1>2, <1>4 DEF RT!Handlers, Keeps
  <2>2. RT!Enumerates(r.methods[m], RT!Uses(r.route, m))
    BY <1>1, <1>4 DEF Keeps
  <2> QED BY <1>3, <1>4, <2>1, <2>2
<1>5. CASE m \notin DOMAIN r.methods /\ "ALL" \in DOMAIN r.methods
  <2>1. RT!Handlers(r, m) = r.methods["ALL"] /\ RT!Uses(r.route, m) = {}
    BY <1>1, <1>2, <1>5 DEF RT!Handlers, Keeps
  <2>2. RT!Enumerates(r.methods["ALL"], RT!Uses(r.route, "ALL"))
    BY <1>1, <1>5 DEF Keeps
  <2> QED BY <1>3, <1>5, <2>1, <2>2
<1>6. CASE m \notin DOMAIN r.methods /\ "ALL" \notin DOMAIN r.methods
  <2>1. RT!Handlers(r, m) = <<>> /\ RT!Uses(r.route, m) = {} /\ RT!Uses(r.route, "ALL") = {}
    BY <1>1, <1>2, <1>6 DEF RT!Handlers, Keeps
  <2>2. RT!Enumerates(<<>>, {})
    BY DEF RT!Enumerates
  <2>3. RT!Handlers(r, m) \in Seq(Nat)
    BY <2>1
  <2>4. (IF RT!Uses(r.route, m) # {} THEN RT!Uses(r.route, m) ELSE RT!Uses(r.route, "ALL")) = {}
    BY <2>1
  <2> QED BY <2>1, <2>2, <2>3, <2>4
<1> QED BY <1>4, <1>5, <1>6

(* The routes that match a target, as the loop has seen them and as they were asked for. *)
LEMMA RouteIsLatest ==
    ASSUME RoutesInv, SearchInv, search.seen = Len(route_mapping)
    PROVE  LET calls == RT!RouteCalls(search.url)
               r == route_mapping[search.route]
           IN /\ calls \subseteq Nat
              /\ search.route = 0 => calls = {}
              /\ search.route # 0 =>
                    /\ search.route \in DOMAIN route_mapping /\ r.route \in calls
                    /\ RT!Latest(calls) = r.route /\ log[r.route].of = r.pattern
                    /\ Cardinality(calls) = 1 =>
                          \A k \in 1..(search.route - 1) : Captured(k) = <<>>
<1> DEFINE calls == RT!RouteCalls(search.url)
           n == Len(route_mapping)
<1>1. /\ n \in Nat /\ DOMAIN route_mapping = 1..n /\ DOMAIN log = 1..Len(log)
      /\ Len(log) \in Nat /\ search.route \in 0..n /\ search.route \in Nat
      /\ \A k \in (search.route + 1)..n : Captured(k) = <<>>
      /\ search.route # 0 => Captured(search.route) # <<>>
  BY LenProperties DEF RoutesInv, SearchInv
<1>2. ASSUME NEW k \in DOMAIN route_mapping
      PROVE  /\ route_mapping[k].route \in DOMAIN log
             /\ log[route_mapping[k].route].of = route_mapping[k].pattern
             /\ Captured(k) # <<>> => route_mapping[k].route \in calls
  BY DEF RoutesInv, Mapped, Keeps, RT!RouteCalls, Captured
<1>3. ASSUME NEW c \in calls
      PROVE  \E k \in DOMAIN route_mapping : /\ route_mapping[k].route = c /\ k <= search.route
                                             /\ Captured(k) # <<>>
  <2>1. c \in RoutesIn(log) /\ Captures[log[c].of][search.url] # <<>>
    BY DEF RT!RouteCalls, RoutesIn
  <2>2. PICK k \in DOMAIN route_mapping : route_mapping[k].route = c
    BY <2>1 DEF RoutesInv, Mapped
  <2>3. Captured(k) # <<>>
    BY <1>2, <2>1, <2>2 DEF Captured
  <2>4. k <= search.route
    BY <1>1, <2>3
  <2> QED BY <2>2, <2>3, <2>4
<1>4. calls \subseteq DOMAIN log /\ calls \subseteq Nat
  BY <1>1 DEF RT!RouteCalls
<1> HIDE DEF calls, n
<1>5. search.route = 0 => calls = {}
  BY <1>1, <1>3
<1>6. ASSUME search.route # 0
      PROVE  /\ search.route \in DOMAIN route_mapping
             /\ route_mapping[search.route].route \in calls
             /\ RT!Latest(calls) = route_mapping[search.route].route
             /\ log[route_mapping[search.route].route].of = route_mapping[search.route].pattern
             /\ Cardinality(calls) = 1 =>
                   \A k \in 1..(search.route - 1) : Captured(k) = <<>>
  <2> DEFINE i == search.route
             c == route_mapping[i].route
  <2>1. i \in DOMAIN route_mapping
    BY <1>1, <1>6
  <2>2. c \in calls /\ log[c].of = route_mapping[i].pattern
    BY <1>1, <1>2, <1>6, <2>1
  <2>3. \A a, b \in DOMAIN route_mapping : a < b => route_mapping[a].route < route_mapping[b].route
    BY DEF RoutesInv, Mapped
  <2>4. ASSUME NEW d \in calls PROVE d <= c
    <3>1. PICK k \in DOMAIN route_mapping : route_mapping[k].route = d /\ k <= i
      BY <1>3
    <3>2. k = i \/ k < i
      BY <1>1, <3>1
    <3>3. c \in Nat /\ d \in Nat
      BY <1>4, <2>2
    <3> QED BY <2>1, <2>3, <3>1, <3>2, <3>3
  <2>5. RT!Latest(calls) = c
    BY <1>4, <2>2, <2>4, LatestIs
  <2>6. ASSUME Cardinality(calls) = 1, NEW k \in 1..(i - 1)
        PROVE  Captured(k) = <<>>
    <3>1. IsFiniteSet(calls)
      <4>1. IsFiniteSet(1..Len(log))
        BY <1>1, FS_Interval
      <4> QED BY <1>1, <1>4, <4>1, FS_Subset
    <3>2. PICK d : calls = {d}
      BY <2>6, <3>1, FS_Singleton
    <3>3. k \in DOMAIN route_mapping /\ k < i
      BY <1>1
    <3>4. route_mapping[k].route # c
      <4>1. route_mapping[k].route < c
        BY <2>1, <2>3, <3>3
      <4>2. c \in Nat /\ route_mapping[k].route \in Nat
        BY <1>1, <1>2, <1>4, <2>2, <3>3
      <4> QED BY <4>1, <4>2
    <3> QED BY <1>2, <2>2, <3>2, <3>3, <3>4
  <2> QED BY <2>1, <2>2, <2>5, <2>6
<1> QED BY <1>4, <1>5, <1>6 DEF calls

LEMMA SameCardinality == \A S : RT!Cardinality(S) = Cardinality(S)
BY DEF RT!Cardinality, Cardinality

LEMMA RoutingInvServes ==
    ASSUME RoutingInv PROVE RT!RequestIsServedByItsRoute
<1> SUFFICES ASSUME stage = "answered" PROVE RT!RequestIsServedByItsRoute
  BY DEF RT!RequestIsServedByItsRoute
<1> DEFINE calls == RT!RouteCalls(search.url)
           m == search.method
           i == search.route
           list == IF RT!Chosen = <<>> THEN <<>> ELSE RT!Handlers(RT!Chosen[1], m)
           asked == RT!Asked(search.url, m)
<1>1. /\ RoutesInv /\ SearchInv /\ search.seen = Len(route_mapping)
      /\ m \in Methods
      /\ answer.status = (IF list = <<>> THEN 404 ELSE 200)
      /\ answer.middlewares = list /\ answer.url_smatch = search.smbuf
  BY DEF RoutingInv, Answered, SearchInv
<1>2. /\ calls \subseteq Nat
      /\ i = 0 => calls = {}
      /\ i # 0 => /\ i \in DOMAIN route_mapping /\ route_mapping[i].route \in calls
                  /\ RT!Latest(calls) = route_mapping[i].route
                  /\ log[route_mapping[i].route].of = route_mapping[i].pattern
                  /\ Cardinality(calls) = 1 => \A k \in 1..(i - 1) : Captured(k) = <<>>
  BY <1>1, RouteIsLatest
<1>3. ASSUME NEW r \in AnyRoute, Keeps(r, log), RT!Chosen = <<r>>,
             NEW routed, routed # {}, RT!Latest(routed) = r.route,
             routed = IF calls # {} THEN calls ELSE RT!GlobalCalls
      PROVE  list \in Seq(Nat) /\ RT!Enumerates(list, asked)
  <2>1. list = RT!Handlers(r, m)
    BY <1>3
  <2>2. asked = IF RT!Uses(r.route, m) # {} THEN RT!Uses(r.route, m) ELSE RT!Uses(r.route, "ALL")
    <3>1. asked = LET q == RT!Latest(routed)
                  IN IF routed = {} THEN {}
                     ELSE IF RT!Uses(q, m) # {} THEN RT!Uses(q, m) ELSE RT!Uses(q, "ALL")
      BY <1>3 DEF RT!Asked
    <3> HIDE DEF asked
    <3> QED BY <1>3, <3>1
  <2>3. /\ RT!Handlers(r, m) \in Seq(Nat)
        /\ RT!Enumerates(RT!Handlers(r, m),
             IF RT!Uses(r.route, m) # {} THEN RT!Uses(r.route, m) ELSE RT!Uses(r.route, "ALL"))
    BY <1>1, <1>3, HandlersAsAsked
  <2> HIDE DEF asked, list
  <2> QED BY <2>1, <2>2, <2>3
<1>4. list \in Seq(Nat) /\ RT!Enumerates(list, asked)
  <2>1. CASE i # 0
    <3>1. RT!Chosen = <<route_mapping[i]>> /\ calls # {}
      BY <1>2, <2>1 DEF RT!Chosen
    <3>2. route_mapping[i] \in AnyRoute /\ Keeps(route_mapping[i], log)
      BY <1>1, <1>2, <2>1 DEF RoutesInv, Mapped
    <3> HIDE DEF list, asked, calls
    <3> QED BY <1>2, <1>3, <2>1, <3>1, <3>2
  <2>2. CASE i = 0 /\ route_global = <<>> /\ GlobalsIn(log) = {}
    <3>1. calls = {} /\ RT!GlobalCalls = {} /\ list = <<>>
      BY <1>2, <2>2 DEF RT!GlobalCalls, GlobalsIn, RT!Chosen
    <3>2. asked = {}
      BY <3>1 DEF RT!Asked
    <3> HIDE DEF list, asked
    <3>3. <<>> \in Seq(Nat) /\ RT!Enumerates(<<>>, {})
      BY DEF RT!Enumerates
    <3> QED BY <3>1, <3>2, <3>3
  <2>3. ASSUME NEW r \in AnyRoute, route_global = <<r>>, Keeps(r, log), r.pattern = "*",
               \A c \in GlobalsIn(log) : c <= r.route, i = 0
        PROVE  list \in Seq(Nat) /\ RT!Enumerates(list, asked)
    <3>1. RT!Chosen = <<r>> /\ calls = {}
      BY <1>2, <2>3 DEF RT!Chosen
    <3>2. r.route \in GlobalsIn(log) /\ RT!GlobalCalls = GlobalsIn(log) /\ GlobalsIn(log) \subseteq Nat
      BY <1>1, <2>3 DEF Keeps, GlobalsIn, RT!GlobalCalls, RoutesInv
    <3>3. RT!Latest(RT!GlobalCalls) = r.route
      BY <2>3, <3>2, LatestIs
    <3> HIDE DEF list, asked, calls
    <3> QED BY <1>3, <2>3, <3>1, <3>2, <3>3
  <2> QED BY <1>1, <2>1, <2>2, <2>3 DEF RoutesInv, Global
<1>5. (answer.status = 404) = (asked = {})
  <2>1. (list = <<>>) = (asked = {})
    BY <1>4, EnumeratesNone
  <2> HIDE DEF list, asked
  <2> QED BY <1>1, <2>1
<1>6. calls # {} =>
         LET captures == Captures[log[RT!Latest(calls)].of][search.url]
         IN /\ \E n \in 1..(Len(answer.url_smatch) + 1) :
                  SubSeq(answer.url_smatch, n, Len(answer.url_smatch)) = captures
            /\ Cardinality(calls) = 1 => answer.url_smatch = captures
  <2> SUFFICES ASSUME calls # {}
      PROVE  LET captures == Captures[log[RT!Latest(calls)].of][search.url]
             IN /\ HasAtEnd(answer.url_smatch, captures)
                /\ Cardinality(calls) = 1 => answer.url_smatch = captures
    BY DEF HasAtEnd
  <2> HIDE DEF calls, list
  <2>1. i # 0
    BY <1>2
  <2>2. Captures[log[RT!Latest(calls)].of][search.url] = Captured(i)
    BY <1>2, <2>1 DEF Captured
  <2>3. HasAtEnd(search.smbuf, Captured(i))
    BY <1>1, <2>1 DEF SearchInv
  <2>4. Cardinality(calls) = 1 => search.smbuf = Captured(i)
    BY <1>1, <1>2, <2>1 DEF SearchInv
  <2> QED BY <1>1, <2>2, <2>3, <2>4
<1>7. RT!Enumerates(answer.middlewares, asked)
  BY <1>1, <1>4
<1> QED BY <1>5, <1>6, <1>7, SameCardinality, Zenon DEF RT!RequestIsServedByItsRoute

(* Whatever routes and middlewares a program adds, and in whatever order, a request is
   served by those it asked for. *)
THEOREM RequestsAreServedByTheirRoutes ==
    RT!Spec => []RT!RequestIsServedByItsRoute
<1>1. RT!Init => RoutingInv
  BY InitRoutingInv
<1>2. RoutingInv /\ [RT!Next]_RT!vars => RoutingInv'
  BY NextRoutingInv
<1>3. RoutingInv => RT!RequestIsServedByItsRoute
  BY RoutingInvServes
<1> QED BY <1>1, <1>2, <1>3, PTL DEF RT!Spec
-----------------------------------------------------------------------------
(* Cookies *)

(* Each of two texts is found where it is in both. *)
LEMMA PartsOfJoined ==
    ASSUME NEW a \in Text, NEW b \in Text
    PROVE  /\ SubSeq(a \o b, 1, Len(a)) = a
           /\ SubSeq(a \o b, Len(a) + 1, Len(a \o b)) = b
<1> DEFINE t == a \o b
           n == Len(a)
           e == Len(t)
           k == n + 1
<1>1. /\ e = n + Len(b) /\ n \in Nat /\ Len(b) \in Nat /\ t \in Text
      /\ \A i \in 1..(n + Len(b)) : t[i] = IF i <= n THEN a[i] ELSE b[i - n]
  BY JoinedAre
<1>2. \A i \in 1..e : t[i] \in Chars
  BY <1>1 DEF Text
<1> HIDE DEF t, n, e
<1>3. /\ \A i \in 1..n : t[i] \in Chars /\ t[i] = a[i]
      /\ \A i \in k..e : t[i] \in Chars
      /\ n \in Int /\ k \in Int /\ e \in Int /\ n - 1 + 1 = n /\ e - k + 1 = Len(b)
      /\ (1 <= n \/ n = 0) /\ (k <= e \/ Len(b) = 0)
  <2>1. /\ \A i \in 1..n : i \in 1..e /\ i <= n /\ i \in 1..(n + Len(b))
        /\ \A i \in k..e : i \in 1..e
    BY <1>1
  <2> QED BY <1>1, <1>2, <2>1
<1>4. \A i \in 1..Len(b) : t[k + i - 1] = b[i] /\ k + i - 1 = n + i
  <2>1. \A i \in 1..Len(b) : /\ n + i \in 1..(n + Len(b)) /\ ~(n + i <= n) /\ (n + i) - n = i
                             /\ k + i - 1 = n + i
    BY <1>1
  <2> QED BY <1>1, <2>1
<1> HIDE DEF k
<1>5. SubSeq(t, 1, n) = a
  <2>1. /\ SubSeq(t, 1, n) \in Seq(Chars)
        /\ Len(SubSeq(t, 1, n)) = IF 1 <= n THEN n - 1 + 1 ELSE 0
        /\ \A i \in 1..(n - 1 + 1) : SubSeq(t, 1, n)[i] = t[1 + i - 1]
    BY <1>3, SubSeqProperties
  <2>2. \A i \in 1..n : 1 + i - 1 = i
    BY <1>3
  <2>3. Len(SubSeq(t, 1, n)) = n /\ \A i \in 1..n : SubSeq(t, 1, n)[i] = a[i]
    BY <1>3, <2>1, <2>2
  <2> QED BY <2>1, <2>3, SeqEqual DEF Text, n
<1>6. SubSeq(t, k, e) = b
  <2>1. /\ SubSeq(t, k, e) \in Seq(Chars)
        /\ Len(SubSeq(t, k, e)) = IF k <= e THEN e - k + 1 ELSE 0
        /\ \A i \in 1..(e - k + 1) : SubSeq(t, k, e)[i] = t[k + i - 1]
    BY <1>3, SubSeqProperties
  <2>2. Len(SubSeq(t, k, e)) = Len(b) /\ \A i \in 1..Len(b) : SubSeq(t, k, e)[i] = b[i]
    BY <1>3, <1>4, <2>1
  <2> QED BY <2>1, <2>2, SeqEqual DEF Text
<1> QED BY <1>5, <1>6 DEF t, n, e, k

(* The texts a client may set blanks around. *)
Unpadded(x) == x \in Text /\ (x # <<>> => x[1] # Blank /\ x[Len(x)] # Blank)
Pad(b) == IF b THEN <<Blank>> ELSE <<>>

LEMMA PadIs ==
    ASSUME NEW b \in BOOLEAN
    PROVE  /\ Pad(b) \in Text /\ Len(Pad(b)) \in 0..1 /\ (b = FALSE => Len(Pad(b)) = 0)
           /\ \A i \in 1..Len(Pad(b)) : Pad(b)[i] = Blank
<1> DEFINE pad == Pad(b)
<1>1. pad = <<Blank>> \/ pad = <<>>
  BY DEF Pad
<1>2. b = FALSE => pad = <<>>
  BY DEF Pad
<1> HIDE DEF pad
<1>3. pad \in Text
  <2>1. Blank \in Chars
    BY DEF Chars
  <2>2. <<Blank>> \in Text /\ <<>> \in Text
    BY <2>1, OneCharacter, EmptySeq DEF Text
  <2> QED BY <1>1, <2>2
<1>4. Len(pad) \in 0..1 /\ \A i \in 1..Len(pad) : pad[i] = Blank
  <2>1. CASE pad = <<Blank>>
    <3>1. Len(pad) = 1 /\ pad[1] = Blank
      BY <2>1
    <3>2. Len(pad) \in 0..1
      BY <3>1
    <3>3. \A i \in 1..Len(pad) : i = 1
      BY <3>1
    <3> QED BY <3>1, <3>2, <3>3, Zenon
  <2>2. CASE pad = <<>>
    BY <2>2
  <2> QED BY <1>1, <2>1, <2>2
<1>5. b = FALSE => Len(pad) = 0
  BY <1>2
<1> QED BY <1>3, <1>4, <1>5 DEF pad

(* Trimming takes the blanks off again. *)
LEMMA TrimIs ==
    ASSUME NEW x, Unpadded(x), NEW p \in BOOLEAN, NEW q \in BOOLEAN, x = <<>> => p = FALSE /\ q = FALSE
    PROVE  /\ Pad(p) \o (x \o Pad(q)) \in Text
           /\ CK!Trim(Pad(p) \o (x \o Pad(q))) = x
<1> DEFINE l == Len(Pad(p))
           n == Len(x)
           r == Len(Pad(q))
           s == x \o Pad(q)
           t == Pad(p) \o s
           U == {i \in 1..Len(t) : t[i] # Blank}
<1>1. x \in Text /\ n \in Nat /\ l \in 0..1 /\ r \in 0..1
  <2>1. x \in Text
    BY DEF Unpadded
  <2>2. n \in Nat
    BY <2>1 DEF Text
  <2>3. l \in 0..1
    BY PadIs
  <2>4. r \in 0..1
    BY PadIs
  <2> QED BY <2>1, <2>2, <2>3, <2>4
<1>2. /\ s \in Text /\ Len(s) = n + r
      /\ \A i \in 1..(n + r) : s[i] = IF i <= n THEN x[i] ELSE Pad(q)[i - n]
  BY <1>1, PadIs, JoinedAre
<1> HIDE DEF s
<1>3. /\ t \in Text /\ Len(t) = l + Len(s)
      /\ \A i \in 1..(l + Len(s)) : t[i] = IF i <= l THEN Pad(p)[i] ELSE s[i - l]
  BY <1>1, <1>2, PadIs, JoinedAre
<1> HIDE DEF t
<1>4. Len(t) = l + n + r
  BY <1>1, <1>2, <1>3
<1>5. ASSUME NEW i \in 1..Len(t)
      PROVE  /\ i <= l => t[i] = Blank
             /\ i > l /\ i <= l + n => t[i] = x[i - l]
             /\ i > l + n => t[i] = Blank
  <2>1. i \in 1..(l + Len(s)) /\ i \in Nat /\ l \in Nat /\ n \in Nat /\ r \in Nat
    BY <1>1, <1>2, <1>3
  <2>2. CASE i <= l
    <3>1. i \in 1..l /\ ~(i > l) /\ ~(i > l + n)
      BY <2>1, <2>2
    <3>2. t[i] = Pad(p)[i]
      BY <1>3, <2>1, <2>2
    <3> QED BY <3>1, <3>2, PadIs
  <2>3. CASE ~(i <= l)
    <3>1. t[i] = s[i - l] /\ i - l \in 1..(n + r)
      <4>1. t[i] = s[i - l]
        BY <1>3, <2>1, <2>3
      <4> HIDE DEF l, n, r
      <4> QED BY <1>2, <2>1, <2>3, <4>1
    <3>2. CASE i <= l + n
      <4>1. i - l <= n
        BY <2>1, <3>2
      <4>2. s[i - l] = x[i - l]
        BY <1>2, <3>1, <4>1
      <4>3. t[i] = x[i - l] /\ ~(i > l + n)
        BY <2>1, <3>1, <3>2, <4>2
      <4> HIDE DEF l, n, r
      <4> QED BY <2>3, <4>3
    <3>3. CASE ~(i <= l + n)
      <4>0. ~(i - l <= n) /\ (i - l) - n \in 1..r
        BY <2>1, <3>1, <3>3
      <4>1. s[i - l] = Pad(q)[(i - l) - n] /\ (i - l) - n \in 1..r
        BY <1>2, <3>1, <4>0
      <4>2. Pad(q)[(i - l) - n] = Blank
        BY <4>1, PadIs
      <4> QED BY <2>1, <3>1, <3>3, <4>1, <4>2
    <3> QED BY <3>2, <3>3
  <2> QED BY <2>2, <2>3
<1>6. CK!Trim(t) = IF U = {} THEN <<>> ELSE SubSeq(t, CK!Min(U), CK!Max(U))
  <2>1. DOMAIN t = 1..Len(t)
    BY <1>3 DEF Text
  <2> QED BY <2>1, Zenon DEF CK!Trim, CK!Used, Blank
<1>7. CASE x = <<>>
  <2>1. l = 0 /\ r = 0 /\ n = 0
    BY <1>7, PadIs
  <2>2. U = {}
    BY <1>4, <2>1
  <2> QED BY <1>3, <1>6, <1>7, <2>2 DEF t, s
<1>8. CASE x # <<>>
  <2> DEFINE a == l + 1
             z == l + n
  <2>1. n # 0 /\ a \in 1..Len(t) /\ z \in 1..Len(t) /\ a <= z /\ a - l = 1 /\ z - l = n /\ a > l
        /\ z > l /\ a <= l + n
    BY <1>1, <1>4, <1>8, EmptySeq DEF Text
  <2>2. x[1] # Blank /\ x[n] # Blank
    BY <1>8 DEF Unpadded
  <2>3. a \in U /\ z \in U
    <3> HIDE DEF l, n, r
    <3>1. t[a] = x[1]
      BY <1>5, <2>1
    <3>2. z <= l + n
      BY <1>1
    <3>3. t[z] = x[n]
      BY <1>5, <2>1, <3>2
    <3> QED BY <2>1, <2>2, <3>1, <3>3
  <2>4. \A i \in U : i \in Nat /\ a <= i /\ i <= z
    <3> HIDE DEF l, n, r
    <3>1. \A i \in U : i \in 1..Len(t) /\ ~(i <= l) /\ ~(i > l + n)
      BY <1>5
    <3>2. l \in Int /\ n \in Int
      BY <1>1
    <3> HIDE DEF U
    <3> QED BY <3>1, <3>2
  <2> HIDE DEF U, a, z, l, n, r
  <2>5. CK!Min(U) = a
    <3>1. \A i \in U : (\A y \in U : i <= y) => i = a
      <4>1. a \in Nat
        BY <2>3, <2>4
      <4> QED BY <2>3, <2>4, <4>1
    <3> QED BY <2>3, <2>4, <3>1 DEF CK!Min
  <2>6. CK!Max(U) = z
    <3>1. \A i \in U : (\A y \in U : i >= y) => i = z
      <4>1. z \in Nat
        BY <2>3, <2>4
      <4> QED BY <2>3, <2>4, <4>1
    <3> QED BY <2>3, <2>4, <3>1 DEF CK!Max
  <2>7. SubSeq(t, a, z) = x
    <3>1. /\ \A i \in a..z : t[i] \in Chars
          /\ a \in Int /\ z \in Int /\ z - a + 1 = n
      <4>1. \A i \in 1..Len(t) : t[i] \in Chars
        BY <1>3 DEF Text
      <4>2. \A i \in a..z : i \in 1..Len(t)
        BY <2>1, <1>1 DEF a, z
      <4>3. z - a + 1 = n
        BY <1>1 DEF a, z
      <4> QED BY <1>1, <4>1, <4>2, <4>3 DEF a, z
    <3>2. \A i \in 1..n : t[a + i - 1] = x[i]
      <4>1. \A i \in 1..n : /\ a + i - 1 \in 1..Len(t) /\ a + i - 1 > l /\ a + i - 1 <= l + n
                            /\ (a + i - 1) - l = i
        BY <1>1, <1>4 DEF a
      <4> QED BY <1>5, <4>1
    <3>3. /\ SubSeq(t, a, z) \in Seq(Chars)
          /\ Len(SubSeq(t, a, z)) = IF a <= z THEN z - a + 1 ELSE 0
          /\ \A i \in 1..(z - a + 1) : SubSeq(t, a, z)[i] = t[a + i - 1]
      BY <3>1, SubSeqProperties
    <3>4. Len(SubSeq(t, a, z)) = n /\ \A i \in 1..n : SubSeq(t, a, z)[i] = x[i]
      BY <2>1, <3>1, <3>2, <3>3
    <3> QED BY <1>1, <3>3, <3>4, SeqEqual DEF Text, n
  <2> QED BY <1>3, <1>6, <2>3, <2>5, <2>6, <2>7 DEF t, s
<1> QED BY <1>7, <1>8

IsCookie(c) ==
    /\ Unpadded(c.name) /\ c.name # <<>> /\ Free(c.name, "=") /\ Free(c.name, ";")
    /\ Unpadded(c.value) /\ Free(c.value, ";")
    /\ c.pad[1] \in BOOLEAN /\ c.pad[2] \in BOOLEAN /\ c.pad[3] \in BOOLEAN /\ c.pad[4] \in BOOLEAN
    /\ c.value = <<>> => c.pad[3] = FALSE /\ c.pad[4] = FALSE

LEMMA PadIsFree ==
    ASSUME NEW b \in BOOLEAN PROVE Free(Pad(b), "=") /\ Free(Pad(b), ";")
<1>1. Blank # "=" /\ Blank # ";"
  BY Zenon DEF Blank
<1>2. \A i \in 1..Len(Pad(b)) : Pad(b)[i] = Blank
  BY PadIs
<1> QED BY <1>1, <1>2 DEF Free

(* A part of the field is read as the cookie it was made of. *)
LEMMA PartIsRead ==
    ASSUME NEW c, IsCookie(c)
    PROVE  LET p == CK!Part(c)
               e == SignAt(p, "=")
           IN /\ p \in Text /\ p # <<>> /\ Free(p, ";") /\ e # 0
              /\ CK!Trim(SubSeq(p, 1, e - 1)) = c.name
              /\ CK!Trim(SubSeq(p, e + 1, Len(p))) = c.value
<1> DEFINE p == CK!Part(c)
           e == SignAt(p, "=")
           n == c.name
           v == c.value
           p1 == Pad(c.pad[1])
           p2 == Pad(c.pad[2])
           p3 == Pad(c.pad[3])
           p4 == Pad(c.pad[4])
           eq == <<"=">>
           a == p1 \o (n \o p2)
           b == p3 \o (v \o p4)
<1>1. /\ Unpadded(n) /\ n # <<>> /\ Free(n, "=") /\ Free(n, ";")
      /\ Unpadded(v) /\ Free(v, ";") /\ n \in Text /\ v \in Text
  BY DEF IsCookie, Unpadded
<1>2. /\ p1 \in Text /\ p2 \in Text /\ p3 \in Text /\ p4 \in Text
      /\ Free(p1, "=") /\ Free(p2, "=")
      /\ Free(p1, ";") /\ Free(p2, ";") /\ Free(p3, ";") /\ Free(p4, ";")
  BY PadIs, PadIsFree DEF IsCookie
<1>3. a \in Text /\ CK!Trim(a) = n
  BY <1>1, TrimIs DEF IsCookie
<1>4. b \in Text /\ CK!Trim(b) = v
  BY <1>1, TrimIs DEF IsCookie
<1>5. eq \in Text /\ Len(eq) = 1 /\ eq[1] = "=" /\ Free(eq, ";")
  <2>1. "=" \in Chars
    BY DEF Chars
  <2>2. eq \in Text
    BY <2>1, OneCharacter
  <2>3. Len(eq) = 1 /\ eq[1] = "="
    OBVIOUS
  <2>4. "=" # ";"
    BY Zenon
  <2>5. \A i \in 1..1 : i = 1
    OBVIOUS
  <2> HIDE DEF eq
  <2> QED BY <2>2, <2>3, <2>4, <2>5 DEF Free
<1>6. p = ((((((p1 \o n) \o p2) \o eq) \o p3) \o v) \o p4)
  BY Zenon DEF CK!Part, CK!Blanks, Pad, Blank
<1> HIDE DEF p, n, v, p1, p2, p3, p4, eq
<1>7. p = a \o (eq \o b) /\ p = (a \o eq) \o b
  <2>1. a = p1 \o (n \o p2) /\ b = p3 \o (v \o p4)
    BY Zenon
  <2> HIDE DEF a, b
  <2>2. (p1 \o n) \o p2 = a /\ (p3 \o v) \o p4 = b
    <3>1. p1 \in Text /\ n \in Text /\ p2 \in Text
      BY <1>1, <1>2
    <3>2. p3 \in Text /\ v \in Text /\ p4 \in Text
      BY <1>1, <1>2
    <3> HIDE DEF e
    <3>3. (p1 \o n) \o p2 = p1 \o (n \o p2)
      BY <3>1, Associates, Zenon
    <3>4. (p3 \o v) \o p4 = p3 \o (v \o p4)
      BY <3>2, Associates, Zenon
    <3> QED BY <2>1, <3>3, <3>4, Zenon
  <2>3. a \o eq \in Text
    BY <1>3, <1>5, JoinedAre
  <2>4. p3 \o v \in Text
    BY <1>1, <1>2, JoinedAre
  <2>5. ((a \o eq) \o p3) \o v = (a \o eq) \o (p3 \o v)
    <3>1. a \o eq \in Text /\ p3 \in Text /\ v \in Text
      BY <1>1, <1>2, <2>3
    <3> QED BY <3>1, Associates, Zenon
  <2>6. ((a \o eq) \o (p3 \o v)) \o p4 = (a \o eq) \o ((p3 \o v) \o p4)
    <3>1. a \o eq \in Text /\ p3 \o v \in Text /\ p4 \in Text
      BY <1>2, <2>3, <2>4
    <3> QED BY <3>1, Associates, Zenon
  <2>7. (a \o eq) \o b = a \o (eq \o b)
    <3>1. a \in Text /\ eq \in Text /\ b \in Text
      BY <1>3, <1>4, <1>5
    <3> QED BY <3>1, Associates, Zenon
  <2> QED BY <1>6, <2>2, <2>5, <2>6, <2>7
<1>8. Free(a, "=") /\ Free(a, ";") /\ Free(b, ";")
  <2>1. /\ n \o p2 \in Text /\ v \o p4 \in Text
        /\ Free(n \o p2, "=") /\ Free(n \o p2, ";") /\ Free(v \o p4, ";")
    BY <1>1, <1>2, FreeJoined, Joined
  <2> QED BY <1>2, <2>1, FreeJoined
<1> HIDE DEF a, b
<1>9. p \in Text /\ Free(p, ";")
  <2>1. eq \o b \in Text /\ Free(eq \o b, ";")
    BY <1>4, <1>5, <1>8, FreeJoined, JoinedAre
  <2>2. a \o (eq \o b) \in Text
    BY <1>3, <2>1, JoinedAre
  <2>3. Free(a \o (eq \o b), ";")
    BY <1>3, <1>8, <2>1, FreeJoined
  <2> QED BY <1>7, <2>2, <2>3
<1>10. /\ Len(a) \in Nat /\ Len(b) \in Nat /\ Len(p) = Len(a) + 1 + Len(b)
       /\ p[Len(a) + 1] = "=" /\ \A i \in 1..Len(a) : p[i] # "="
  <2> DEFINE s == eq \o b
  <2>1. /\ s \in Text /\ Len(s) = 1 + Len(b) /\ Len(b) \in Nat /\ s[1] = "="
    <3>1. /\ s \in Text /\ Len(s) = Len(eq) + Len(b) /\ Len(b) \in Nat
          /\ \A i \in 1..(Len(eq) + Len(b)) : s[i] = IF i <= Len(eq) THEN eq[i] ELSE b[i - Len(eq)]
      BY <1>4, <1>5, JoinedAre
    <3> HIDE DEF s
    <3>2. 1 \in 1..(1 + Len(b)) /\ 1 <= 1
      BY <3>1
    <3> QED BY <1>5, <3>1, <3>2
  <2> HIDE DEF s
  <2>2. /\ Len(p) = Len(a) + Len(s) /\ Len(a) \in Nat
        /\ \A i \in 1..(Len(a) + Len(s)) : p[i] = IF i <= Len(a) THEN a[i] ELSE s[i - Len(a)]
    <3>1. p = a \o s
      BY <1>7 DEF s
    <3> QED BY <1>3, <2>1, <3>1, JoinedAre
  <2>3. p[Len(a) + 1] = s[1]
    <3>1. Len(a) + 1 \in 1..(Len(a) + Len(s)) /\ ~(Len(a) + 1 <= Len(a)) /\ (Len(a) + 1) - Len(a) = 1
      BY <2>1, <2>2
    <3> QED BY <2>2, <3>1
  <2>4. \A i \in 1..Len(a) : p[i] # "="
    <3>1. \A i \in 1..Len(a) : i \in 1..(Len(a) + Len(s)) /\ i <= Len(a)
      BY <2>1, <2>2
    <3> QED BY <1>8, <2>2, <3>1 DEF Free
  <2> QED BY <2>1, <2>2, <2>3, <2>4
<1>11. e = Len(a) + 1
  <2> DEFINE m == Len(a) + 1
  <2>1. m \in 1..Len(p) /\ p[m] = "=" /\ m \in Nat /\ \A i \in 1..(m - 1) : p[i] # "="
    BY <1>10
  <2>2. \/ e = 0 /\ Free(p, "=")
        \/ e \in 1..Len(p) /\ p[e] = "=" /\ \A i \in 1..(e - 1) : p[i] # "="
    BY <1>9, FirstSign
  <2> HIDE DEF e, m
  <2>3. e \in 1..Len(p) /\ p[e] = "=" /\ \A i \in 1..(e - 1) : p[i] # "="
    BY <2>1, <2>2 DEF Free
  <2>4. ~(e < m) /\ ~(m < e) /\ e \in Nat
    <3>1. e \in Nat /\ (e < m => e \in 1..(m - 1)) /\ (m < e => m \in 1..(e - 1))
      BY <2>1, <2>3
    <3> QED BY <2>1, <2>3, <3>1
  <2>5. e = m
    BY <2>1, <2>4
  <2> QED BY <2>5 DEF m
<1> HIDE DEF e
<1>12. SubSeq(p, 1, e - 1) = a
  <2>1. e - 1 = Len(a)
    BY <1>10, <1>11
  <2>2. eq \o b \in Text
    BY <1>4, <1>5, Joined
  <2>3. SubSeq(p, 1, Len(a)) = a
    BY <1>3, <1>7, <2>2, PartsOfJoined
  <2> QED BY <2>1, <2>3
<1>13. SubSeq(p, e + 1, Len(p)) = b
  <2>1. a \o eq \in Text /\ Len(a \o eq) = Len(a) + 1
    BY <1>3, <1>5, JoinedAre
  <2>2. SubSeq(p, Len(a \o eq) + 1, Len(p)) = b
    BY <1>4, <1>7, <2>1, PartsOfJoined
  <2>3. Len(a \o eq) + 1 = e + 1
    BY <1>10, <1>11, <2>1
  <2> QED BY <2>2, <2>3
<1>14. p # <<>> /\ e # 0
  <2>1. Len(p) # 0 /\ Len(a) + 1 # 0
    BY <1>10
  <2> QED BY <1>11, <2>1
<1> QED BY <1>3, <1>4, <1>9, <1>12, <1>13, <1>14 DEF p, e, n, v

(* The assumption with the name of the blank. *)
LEMMA CookieTexts ==
    /\ MaxCookies \in Nat
    /\ CookieNames \subseteq Seq(STRING) \ {<<>>} /\ CookieValues \subseteq Seq(STRING)
    /\ \A n \in CookieNames : \A i \in DOMAIN n : n[i] # "="
    /\ \A t \in CookieNames \cup CookieValues :
          /\ \A i \in DOMAIN t : t[i] # ";"
          /\ t # <<>> => t[1] # Blank /\ t[Len(t)] # Blank
BY CookiesAssumption, Zenon DEF Blank

LEMMA SentIsCookie == ASSUME NEW c \in CK!Sendable PROVE IsCookie(c)
<1> DEFINE n == c.name
           v == c.value
<1>1. n \in CookieNames /\ v \in CookieValues /\ c.pad \in [1..4 -> BOOLEAN]
      /\ (v = <<>> => ~c.pad[3] /\ ~c.pad[4])
  BY Zenon DEF CK!Sendable
<1>2. c.pad[1] \in BOOLEAN /\ c.pad[2] \in BOOLEAN /\ c.pad[3] \in BOOLEAN /\ c.pad[4] \in BOOLEAN
  <2>1. 1 \in 1..4 /\ 2 \in 1..4 /\ 3 \in 1..4 /\ 4 \in 1..4
    OBVIOUS
  <2> QED BY <1>1, <2>1, Zenon
<1>3. v = <<>> => c.pad[3] = FALSE /\ c.pad[4] = FALSE
  <2>1. \A b \in BOOLEAN : ~b => b = FALSE
    OBVIOUS
  <2> QED BY <1>1, <1>2, <2>1, Zenon
<1> HIDE DEF n, v
<1>4. /\ n \in Text /\ v \in Text /\ n # <<>>
      /\ n \in CookieNames \cup CookieValues /\ v \in CookieNames \cup CookieValues
  BY <1>1, CookieTexts, TextsAreTexts
<1>5. DOMAIN n = 1..Len(n) /\ DOMAIN v = 1..Len(v)
  BY <1>4 DEF Text
<1>6. /\ \A i \in 1..Len(n) : n[i] # "=" /\ n[i] # ";"
      /\ \A i \in 1..Len(v) : v[i] # ";"
      /\ n[1] # Blank /\ n[Len(n)] # Blank
      /\ v # <<>> => v[1] # Blank /\ v[Len(v)] # Blank
  <2>1. \A i \in 1..Len(n) : n[i] # "="
    BY <1>1, <1>5, CookieTexts
  <2>2. \A i \in 1..Len(n) : n[i] # ";"
    BY <1>4, <1>5, CookieTexts
  <2>3. \A i \in 1..Len(v) : v[i] # ";"
    BY <1>4, <1>5, CookieTexts
  <2>4. n[1] # Blank /\ n[Len(n)] # Blank
    BY <1>4, CookieTexts
  <2>5. v # <<>> => v[1] # Blank /\ v[Len(v)] # Blank
    BY <1>4, CookieTexts
  <2> QED BY <2>1, <2>2, <2>3, <2>4, <2>5
<1>7. Free(n, "=") /\ Free(n, ";") /\ Free(v, ";")
  BY <1>6 DEF Free
<1>8. Unpadded(n) /\ Unpadded(v)
  BY <1>4, <1>6 DEF Unpadded
<1> QED BY <1>2, <1>3, <1>4, <1>7, <1>8, Zenon DEF IsCookie, n, v

(* What is looked at is kept under its name, and what is left is still to come. *)
Looked == Len(sent) - Len(left)
JarInv ==
    /\ sent \in Seq(CK!Sendable) /\ left \in Seq(Text)
    /\ Looked \in Nat /\ Looked <= Len(sent)
    /\ \A i \in 1..Len(left) : left[i] = CK!Part(sent[Looked + i])
    /\ DOMAIN cookies = {sent[i].name : i \in 1..Looked}
    /\ \A i \in 1..Looked :
          (\A j \in 1..Looked : j > i => sent[j].name # sent[i].name)
            => cookies[sent[i].name] = sent[i].value

LEMMA InitJarInv == ASSUME CK!Init PROVE JarInv
<1> DEFINE n == Len(sent)
           parts == [i \in DOMAIN sent |-> CK!Part(sent[i])]
<1>1. sent \in Seq(CK!Sendable) /\ DOMAIN sent = 1..n /\ n \in Nat
  <2>1. PICK k \in 0..MaxCookies : sent \in [1..k -> CK!Sendable]
    BY Zenon DEF CK!Init
  <2>2. k \in Nat
    <3>1. MaxCookies \in Nat
      BY CookieTexts
    <3> QED BY <3>1, <2>1
  <2> QED BY <2>1, <2>2
<1>2. \A i \in 1..n : /\ CK!Part(sent[i]) \in Text /\ CK!Part(sent[i]) # <<>>
                      /\ Free(CK!Part(sent[i]), ";")
  <2>1. \A i \in 1..n : sent[i] \in CK!Sendable
    BY <1>1
  <2> QED BY <2>1, SentIsCookie, PartIsRead
<1>3. parts \in Seq(Text) /\ Len(parts) = n /\ \A i \in 1..n : parts[i] = CK!Part(sent[i])
  <2>1. parts \in [1..n -> Text]
    BY <1>1, <1>2
  <2>2. \A i \in 1..n : parts[i] = CK!Part(sent[i])
    BY <1>1
  <2> HIDE DEF parts
  <2> QED BY <1>1, <2>1, <2>2
<1>4. left = ExplodeZerocopy(JoinTexts(parts, ";"), ";")
  <2>1. CK!Field(sent) = JoinTexts(parts, ";")
    BY Zenon DEF CK!Field, CK!JoinTexts, JoinTexts, CK!FlattenSeq, FlattenSeq
  <2>2. left = CK!ExplodeZerocopy(CK!Field(sent), ";")
    BY Zenon DEF CK!Init
  <2>3. \A t, sep : CK!ExplodeZerocopy(t, sep) = ExplodeZerocopy(t, sep)
    BY Zenon DEF CK!ExplodeZerocopy, ExplodeZerocopy, CK!Pieces, Pieces
  <2> QED BY <2>1, <2>2, <2>3, Zenon
<1> HIDE DEF parts, n
<1>5. left = parts
  <2>1. \A i \in 1..Len(parts) : parts[i] # <<>> /\ Free(parts[i], ";")
    BY <1>2, <1>3
  <2>2. ";" \in Chars
    BY DEF Chars
  <2> QED BY <1>3, <1>4, <2>1, <2>2, JoinExploded
<1>6. Looked = 0
  BY <1>1, <1>3, <1>5 DEF Looked, n
<1>7. 1..Looked = {}
  BY <1>6
<1>8. DOMAIN cookies = {}
  BY DEF CK!Init
<1>9. \A i \in 1..Len(left) : left[i] = CK!Part(sent[Looked + i])
  <2>1. \A i \in 1..n : 0 + i = i
    BY <1>1
  <2> QED BY <1>3, <1>5, <1>6, <2>1
<1>10. Looked \in Nat /\ Looked <= Len(sent)
  BY <1>1, <1>6 DEF n
<1>11. left \in Seq(Text)
  BY <1>3, <1>5
<1> QED BY <1>1, <1>7, <1>8, <1>9, <1>10, <1>11 DEF JarInv

(* The next part is that of the next cookie. *)
LEMMA LookKeepsJarInv == ASSUME JarInv, CK!Look PROVE JarInv'
<1> DEFINE k == Looked
           m == Looked + 1
           c == sent[m]
           n == Len(sent)
           key == c.name
           p == Head(left)
           e == SignAt(p, "=")
<1>1. /\ sent \in Seq(CK!Sendable) /\ left \in Seq(Text) /\ left # <<>>
      /\ k \in Nat /\ k <= n /\ n \in Nat /\ Len(left) \in Nat /\ Len(left) # 0
      /\ sent' = sent /\ left' = Tail(left)
  <2>1. left # <<>> /\ left' = Tail(left) /\ sent' = sent
    BY Zenon DEF CK!Look
  <2>2. sent \in Seq(CK!Sendable) /\ left \in Seq(Text) /\ k \in Nat /\ k <= n
    BY DEF JarInv
  <2>3. n \in Nat /\ Len(left) \in Nat
    BY <2>2
  <2>4. Len(left) # 0
    BY <2>1, <2>2, EmptySeq
  <2> QED BY <2>1, <2>2, <2>3, <2>4
<1>2. m \in 1..n /\ k = n - Len(left)
  BY <1>1 DEF Looked
<1>3. c \in CK!Sendable /\ IsCookie(c)
  BY <1>1, <1>2, SentIsCookie
<1>4. p = CK!Part(c)
  <2>1. 1 \in 1..Len(left)
    BY <1>1
  <2>2. left[1] = CK!Part(sent[k + 1])
    BY <2>1 DEF JarInv
  <2> QED BY <1>1, <2>2
<1>5. cookies' = [x \in DOMAIN cookies \cup {key} |-> IF x = key THEN c.value ELSE cookies[x]]
  <2>1. /\ e # 0 /\ CK!Trim(SubSeq(p, 1, e - 1)) = c.name
        /\ CK!Trim(SubSeq(p, e + 1, Len(p))) = c.value
    BY <1>3, <1>4, PartIsRead
  <2>2. CK!SelectInSeq(p, LAMBDA x : x = "=") = e
    BY Zenon DEF CK!SelectInSeq, SignAt, CK!Min, Min
  <2> HIDE DEF p, e, c
  <2>3. cookies' =
            LET kk == IF e = 0 THEN p ELSE CK!Trim(SubSeq(p, 1, e - 1))
                vv == IF e = 0 THEN <<>> ELSE CK!Trim(SubSeq(p, e + 1, Len(p)))
            IN [x \in DOMAIN cookies \cup {kk} |-> IF x = kk THEN vv ELSE cookies[x]]
    BY <2>2, Zenon DEF CK!Look, p
  <2> QED BY <2>1, <2>3, Zenon
<1>6. left' \in Seq(Text) /\ Len(left') = Len(left) - 1
      /\ \A i \in 1..(Len(left) - 1) : left'[i] = left[i + 1]
  BY <1>1
<1>7. Looked' = m
  BY <1>1, <1>2, <1>6 DEF Looked
<1>8. \A i \in 1..Len(left') : left'[i] = CK!Part(sent'[Looked' + i])
  <2>1. \A i \in 1..(Len(left) - 1) : i + 1 \in 1..Len(left) /\ k + (i + 1) = m + i
    BY <1>1
  <2>2. \A i \in 1..(Len(left) - 1) : left[i + 1] = CK!Part(sent[k + (i + 1)])
    BY <2>1 DEF JarInv
  <2> HIDE DEF m
  <2> QED BY <1>1, <1>6, <1>7, <2>1, <2>2
<1>9. \A i \in 1..m : i \in 1..k \/ i = m
  BY <1>1
<1>10. 1..k \subseteq 1..m /\ m \in 1..m /\ (\A i \in 1..k : m > i)
  BY <1>1
<1>11. /\ DOMAIN cookies = {sent[i].name : i \in 1..k}
       /\ \A i \in 1..k : (\A j \in 1..k : j > i => sent[j].name # sent[i].name)
                            => cookies[sent[i].name] = sent[i].value
  BY Zenon DEF JarInv
<1> HIDE DEF k, m, n
<1>12. DOMAIN cookies' = {sent[i].name : i \in 1..m}
  <2>1. DOMAIN cookies' = DOMAIN cookies \cup {sent[m].name}
    BY <1>5
  <2> QED BY <1>9, <1>10, <1>11, <2>1
<1>13. ASSUME NEW i \in 1..m, \A j \in 1..m : j > i => sent[j].name # sent[i].name
       PROVE  cookies'[sent[i].name] = sent[i].value
  <2>1. CASE i = m
    BY <1>5, <2>1
  <2>2. CASE i \in 1..k
    <3>1. sent[i].name # key
      BY <1>10, <1>13, <2>2
    <3>2. sent[i].name \in DOMAIN cookies
      BY <1>11, <2>2
    <3>3. cookies[sent[i].name] = sent[i].value
      BY <1>10, <1>11, <1>13, <2>2
    <3> HIDE DEF key, c
    <3> QED BY <1>5, <3>1, <3>2, <3>3
  <2> QED BY <1>9, <2>1, <2>2
<1>14. m \in Nat /\ m <= n
  BY <1>2
<1> QED BY <1>1, <1>6, <1>7, <1>8, <1>12, <1>13, <1>14, Zenon DEF JarInv, n

(* Of any cookies, with or without blanks around their parts, a handler finds the last of
   each name (Request.cpp, the cookies member). *)
THEOREM CookiesAreFound == CK!Spec => []CK!CookiesAreAsSent
<1>1. CK!Init => JarInv
  BY InitJarInv
<1>2. JarInv /\ [CK!Next]_CK!vars => JarInv'
  <2>1. JarInv /\ CK!Next => JarInv'
    BY LookKeepsJarInv DEF CK!Next
  <2>2. JarInv /\ UNCHANGED CK!vars => JarInv'
    <3> SUFFICES ASSUME JarInv, UNCHANGED CK!vars PROVE JarInv'
      OBVIOUS
    <3>1. sent' = sent /\ left' = left /\ cookies' = cookies
      BY Zenon DEF CK!vars
    <3>2. Looked' = Looked
      BY <3>1 DEF Looked
    <3> QED BY <3>1, <3>2, Zenon DEF JarInv
  <2> QED BY <2>1, <2>2
<1>3. JarInv => CK!CookiesAreAsSent
  <2> SUFFICES ASSUME JarInv, left = <<>> PROVE CK!CookiesAreAsSent
    BY DEF CK!CookiesAreAsSent
  <2>1. sent \in Seq(CK!Sendable) /\ Len(left) = 0
    BY DEF JarInv
  <2>2. DOMAIN sent = 1..Len(sent) /\ Looked = Len(sent)
    BY <2>1 DEF Looked
  <2> QED BY <2>2, Zenon DEF JarInv, CK!CookiesAreAsSent
<1> QED BY <1>1, <1>2, <1>3, PTL DEF CK!Spec

-----------------------------------------------------------------------------
(* The machines together: a behaviour of Values is one of the machine it runs. *)

LEMMA ParsersRuns == ValuesSpec /\ which = "Parsers" => Spec /\ [](which = "Parsers")
<1>1. ValuesInit /\ which = "Parsers" => Init
  BY DEF ValuesInit
<1>2. which = "Parsers" /\ [ValuesNext]_all => (which = "Parsers")' /\ [Next]_vars
  BY DEF ValuesNext, all, reading, vars
<1> QED BY <1>1, <1>2, PTL DEF ValuesSpec, Spec

LEMMA DatesRuns == ValuesSpec /\ which = "Dates" => DT!Spec /\ [](which = "Dates")
<1>1. ValuesInit /\ which = "Dates" => DT!Init
  BY DEF ValuesInit
<1>2. which = "Dates" /\ [ValuesNext]_all => (which = "Dates")' /\ [DT!Next]_DT!vars
  BY DEF ValuesNext, all, dates, DT!vars
<1> QED BY <1>1, <1>2, PTL DEF ValuesSpec, DT!Spec

LEMMA UrlEncodingRuns == ValuesSpec /\ which = "UrlEncoding" => UE!Spec /\ [](which = "UrlEncoding")
<1>1. ValuesInit /\ which = "UrlEncoding" => UE!Init
  BY DEF ValuesInit
<1>2. which = "UrlEncoding" /\ [ValuesNext]_all => (which = "UrlEncoding")' /\ [UE!Next]_UE!vars
  BY DEF ValuesNext, all, escapes, UE!vars
<1> QED BY <1>1, <1>2, PTL DEF ValuesSpec, UE!Spec

LEMMA CookiesRuns == ValuesSpec /\ which = "Cookies" => CK!Spec /\ [](which = "Cookies")
<1>1. ValuesInit /\ which = "Cookies" => CK!Init
  BY DEF ValuesInit
<1>2. which = "Cookies" /\ [ValuesNext]_all => (which = "Cookies")' /\ [CK!Next]_CK!vars
  BY DEF ValuesNext, all, jar, CK!vars
<1> QED BY <1>1, <1>2, PTL DEF ValuesSpec, CK!Spec

LEMMA RoutingRuns == ValuesSpec /\ which = "Routing" => RT!Spec /\ [](which = "Routing")
<1>1. ValuesInit /\ which = "Routing" => RT!Init
  BY DEF ValuesInit
<1>2. which = "Routing" /\ [ValuesNext]_all => (which = "Routing")' /\ [RT!Next]_RT!vars
  BY DEF ValuesNext, all, routes, RT!vars
<1> QED BY <1>1, <1>2, PTL DEF ValuesSpec, RT!Spec

LEMMA StaticFilesRuns == ValuesSpec /\ which = "StaticFiles" => SF!Spec /\ [](which = "StaticFiles")
<1>1. ValuesInit /\ which = "StaticFiles" => SF!Init
  BY DEF ValuesInit
<1>2. which = "StaticFiles" /\ [ValuesNext]_all => (which = "StaticFiles")' /\ [SF!Next]_SF!vars
  BY DEF ValuesNext, all, files, SF!vars
<1> QED BY <1>1, <1>2, PTL DEF ValuesSpec, SF!Spec

LEMMA GeneratorRuns == ValuesSpec /\ which = "Generator" => HG!Spec /\ [](which = "Generator")
<1>1. ValuesInit /\ which = "Generator" => HG!Init
  BY DEF ValuesInit
<1>2. which = "Generator" /\ [ValuesNext]_all => (which = "Generator")' /\ [HG!Next]_HG!vars
  BY DEF ValuesNext, all, block, HG!vars
<1> QED BY <1>1, <1>2, PTL DEF ValuesSpec, HG!Spec

LEMMA BuffersRuns == ValuesSpec /\ which = "Buffers" => BF!Spec /\ [](which = "Buffers")
<1>1. ValuesInit /\ which = "Buffers" => BF!Init
  BY DEF ValuesInit
<1>2. which = "Buffers" /\ [ValuesNext]_all => (which = "Buffers")' /\ [BF!Next]_BF!vars
  BY DEF ValuesNext, all, buffers, BF!vars
<1> QED BY <1>1, <1>2, PTL DEF ValuesSpec, BF!Spec

(* However the reads cut a request, its middlewares find what the client sent. *)
THEOREM EveryRequestArrives == ValuesSpec => []RequestArrives
<1>1. Spec => []RequestIsAsSent
  BY RequestsAreAsSent
<1>2. ~(which = "Parsers") => RequestArrives
  BY DEF RequestArrives
<1>3. RequestIsAsSent => RequestArrives
  BY DEF RequestArrives
<1>4. ~(which = "Parsers") /\ [ValuesNext]_all => ~(which = "Parsers")'
  BY DEF ValuesNext, all
<1> QED BY <1>1, <1>2, <1>3, <1>4, ParsersRuns, PTL DEF ValuesSpec

(* And so do the parts of its body, but for those without data, of which Mullet loses
   the last header. *)
THEOREM EveryPartArrives ==
    ASSUME <<>> \notin Datas PROVE ValuesSpec => []PartsArrive
<1>1. Spec => []PartsAreAsSent
  BY PartsOfBodiesAreAsSent
<1>2. ~(which = "Parsers") => PartsArrive
  BY DEF PartsArrive
<1>3. PartsAreAsSent => PartsArrive
  BY DEF PartsArrive
<1>4. ~(which = "Parsers") /\ [ValuesNext]_all => ~(which = "Parsers")'
  BY DEF ValuesNext, all
<1> QED BY <1>1, <1>2, <1>3, <1>4, ParsersRuns, PTL DEF ValuesSpec

(* A Date that is assigned any texts with a zone and any times tells the last of them, to
   the millisecond. *)
THEOREM EveryDateIsWhatWasAssigned ==
    ASSUME \A t \in DateTexts : WellFormed(t), Times \subseteq Instant
    PROVE  ValuesSpec => []DateIsWhatWasAssigned
<1>1. DT!Spec => []DT!DateIsWhatWasAssigned
  BY DatesAreWhatWasAssigned
<1>2. ~(which = "Dates") => DateIsWhatWasAssigned
  BY DEF DateIsWhatWasAssigned
<1>3. DT!DateIsWhatWasAssigned => DateIsWhatWasAssigned
  BY DEF DateIsWhatWasAssigned
<1>4. ~(which = "Dates") /\ [ValuesNext]_all => ~(which = "Dates")'
  BY DEF ValuesNext, all
<1> QED BY <1>1, <1>2, <1>3, <1>4, DatesRuns, PTL DEF ValuesSpec

(* Texts of any length, of both tables, are read again as they were. *)
THEOREM EveryEscapeRoundTrips ==
    ASSUME MaxLength \in Nat PROVE ValuesSpec => []EscapesRoundTrip
<1>1. UE!Spec => []UE!EscapesRoundTrip
  BY EscapedTextsRoundTrip
<1>2. ~(which = "UrlEncoding") => EscapesRoundTrip
  BY DEF EscapesRoundTrip
<1>3. UE!EscapesRoundTrip => EscapesRoundTrip
  BY DEF EscapesRoundTrip
<1>4. ~(which = "UrlEncoding") /\ [ValuesNext]_all => ~(which = "UrlEncoding")'
  BY DEF ValuesNext, all
<1> QED BY <1>1, <1>2, <1>3, <1>4, UrlEncodingRuns, PTL DEF ValuesSpec

(* Of any cookies, however many and with whatever blanks, a handler finds the last of
   each name. *)
THEOREM EveryCookieIsAsSent == ValuesSpec => []CookiesAreAsSent
<1>1. CK!Spec => []CK!CookiesAreAsSent
  BY CookiesAreFound
<1>2. ~(which = "Cookies") => CookiesAreAsSent
  BY DEF CookiesAreAsSent
<1>3. CK!CookiesAreAsSent => CookiesAreAsSent
  BY DEF CookiesAreAsSent
<1>4. ~(which = "Cookies") /\ [ValuesNext]_all => ~(which = "Cookies")'
  BY DEF ValuesNext, all
<1> QED BY <1>1, <1>2, <1>3, <1>4, CookiesRuns, PTL DEF ValuesSpec

(* A request runs the middlewares asked for, whatever calls of route, on and use the
   program has made. *)
THEOREM EveryRequestIsServedByItsRoute == ValuesSpec => []RequestIsServedByItsRoute
<1>1. RT!Spec => []RT!RequestIsServedByItsRoute
  BY RequestsAreServedByTheirRoutes
<1>2. ~(which = "Routing") => RequestIsServedByItsRoute
  BY DEF RequestIsServedByItsRoute
<1>3. RT!RequestIsServedByItsRoute => RequestIsServedByItsRoute
  BY DEF RequestIsServedByItsRoute
<1>4. ~(which = "Routing") /\ [ValuesNext]_all => ~(which = "Routing")'
  BY DEF ValuesNext, all
<1> QED BY <1>1, <1>2, <1>3, <1>4, RoutingRuns, PTL DEF ValuesSpec

(* However often what is at the path changes, the client gets one response, true of
   what was there. *)
THEOREM EveryAnswerIsTrue == ValuesSpec => []AnswerIsTrue
<1>1. SF!Spec => []SF!AnswerIsTrue
  BY StaticAnswersAreTrue
<1>2. ~(which = "StaticFiles") => AnswerIsTrue
  BY DEF AnswerIsTrue
<1>3. SF!AnswerIsTrue => AnswerIsTrue
  BY DEF AnswerIsTrue
<1>4. ~(which = "StaticFiles") /\ [ValuesNext]_all => ~(which = "StaticFiles")'
  BY DEF ValuesNext, all
<1> QED BY <1>1, <1>2, <1>3, <1>4, StaticFilesRuns, PTL DEF ValuesSpec

(* generate_headers loses no byte of the block, for any headers. *)
THEOREM EveryHeaderBlockIsWhole ==
    ASSUME HG!LengthsFit PROVE ValuesSpec => []HeaderBlockIsWhole
<1>1. HG!Spec => []HG!HeaderBlockIsWhole
  BY BlockIsWhole
<1>2. ~(which = "Generator") => HeaderBlockIsWhole
  BY DEF HeaderBlockIsWhole
<1>3. HG!HeaderBlockIsWhole => HeaderBlockIsWhole
  BY DEF HeaderBlockIsWhole
<1>4. ~(which = "Generator") /\ [ValuesNext]_all => ~(which = "Generator")'
  BY DEF ValuesNext, all
<1> QED BY <1>1, <1>2, <1>3, <1>4, GeneratorRuns, PTL DEF ValuesSpec

(* The wire has what any calls of write and raw_write were given. *)
THEOREM EveryWireIsWhatWasPassed ==
    ASSUME CallersWait PROVE ValuesSpec => []WireIsWhatWasPassed
<1>1. BF!Spec => []BF!WireIsWhatWasPassed
  BY WireCarriesWhatWasPassed
<1>2. ~(which = "Buffers") => WireIsWhatWasPassed
  BY DEF WireIsWhatWasPassed
<1>3. BF!WireIsWhatWasPassed => WireIsWhatWasPassed
  BY DEF WireIsWhatWasPassed
<1>4. ~(which = "Buffers") /\ [ValuesNext]_all => ~(which = "Buffers")'
  BY DEF ValuesNext, all
<1> QED BY <1>1, <1>2, <1>3, <1>4, BuffersRuns, PTL DEF ValuesSpec

=============================================================================
