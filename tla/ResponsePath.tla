---------------------------- MODULE ResponsePath ----------------------------
(***************************************************************************)
(* From the middlewares of a route to the response a client decodes:       *)
(* Context::next and the end of run_handler (Context.cpp),                 *)
(* Middleware::__load_context, ResponseContext (Response.cpp) and the      *)
(* Compression middleware that replaces it (Compression.cpp).              *)
(*                                                                         *)
(* A body is the sequence of the numbers 1, 2, ... in the order in which   *)
(* the middlewares passed them to the response.  deflate may hold back any *)
(* part of what it was given and marks the end of its stream (EndOfStream) *)
(* when it is finished.  What is posted reaches the peer in order until    *)
(* the connection breaks, which is the subject of WriteQueue, so the peer  *)
(* is modelled by what it has decoded so far.                              *)
(*                                                                         *)
(* What middlewares may do is the contract of the API: a response is one   *)
(* send, one send_file, or writes followed by an end.  They may do it      *)
(* before or after next(), call next() or not, and throw at any point.     *)
(***************************************************************************)
EXTENDS Naturals, Sequences

CONSTANTS Chain,         \* number of middlewares of the route
          CompressionAt, \* which of them is Compression, 0: none
          MaxResponses,  \* bound: requests on the connection
          MaxBody        \* bound: length of a body

ASSUME ConstantsAssumption ==
    /\ Chain \in Nat \ {0} /\ CompressionAt \in 0..Chain
    /\ MaxResponses \in Nat /\ MaxBody \in Nat

VARIABLES
    run,              \* "idle", "running", "returned", "thrown" or "closed"
    pos_cur_handler,  \* HandlerData::pos_cur_handler
    stack,            \* the handler() calls in progress, with their response
    called,           \* the middlewares called for this request
    response,         \* Context::response
    given,            \* length of the body the middlewares have passed
    mishaps,          \* what calls have done to this response, see Mishaps
    use,              \* of the API: "fresh", "stream", "file" or "complete"
    file,             \* bytes of the file not yet written by send_file
    sock,             \* "open" or "broken"
    peer,             \* what the peer has decoded of the response
    responses         \* requests so far

ctxVars == <<pos_cur_handler, stack, called>>
bodyVars == <<response, given, mishaps, use, file>>
vars == <<run, ctxVars, bodyVars, sock, peer, responses>>

NoLength == MaxBody + 2
EndOfStream == 0
Stray == 0
Units == 0..MaxBody
From(n, m) == [i \in 1..m |-> n + i]

Response == [id : 0..2, headers_sent : BOOLEAN, length : 0..NoLength,
             encoding : {"identity", "deflate"}, zlib : BOOLEAN, pending : Seq(Units)]

TypeOK ==
    /\ run \in {"idle", "running", "returned", "thrown", "closed"}
    /\ pos_cur_handler \in 0..Chain
    /\ stack \in Seq([mw : 1..Chain, response : 1..2])
    /\ called \in Seq(1..Chain)
    /\ response \in Response /\ given \in 0..MaxBody
    /\ mishaps \subseteq {"cut", "ended"}
    /\ use \in {"fresh", "stream", "file", "complete"} /\ file \in 0..MaxBody
    /\ sock \in {"open", "broken"}
    /\ peer \in [phase : {"status", "body", "chunks", "done", "garbled"}, left : Nat,
                 encoding : {"identity", "deflate"}, body : Seq(Units)]
    /\ responses \in 0..MaxResponses

NewResponse(id) ==
    [id |-> id, headers_sent |-> FALSE, length |-> NoLength, encoding |-> "identity",
     zlib |-> FALSE, pending |-> << >>]

NewPeer == [phase |-> "status", left |-> 0, encoding |-> "identity", body |-> << >>]

Init ==
    /\ run = "idle" /\ pos_cur_handler = 0 /\ stack = << >> /\ called = << >>
    /\ response = NewResponse(0) /\ given = 0 /\ mishaps = {}
    /\ use = "fresh" /\ file = 0
    /\ sock = "open" /\ peer = [NewPeer EXCEPT !.phase = "done"] /\ responses = 0

-----------------------------------------------------------------------------
(* The peer: an HTTP/1.1 client that decodes what it gets. *)

GetsHeaders(p, r, chunked) ==
    IF p.phase # "status" THEN [p EXCEPT !.phase = "garbled"]
    ELSE [p EXCEPT !.encoding = r.encoding, !.left = r.length,
                   !.phase = IF chunked THEN "chunks"
                             ELSE IF r.length = 0 THEN "done" ELSE "body"]

(* A chunk of size 0 is the last one, whoever wrote it. *)
GetsChunk(p, units) ==
    IF p.phase # "chunks" THEN [p EXCEPT !.phase = "garbled"]
    ELSE IF units = << >> THEN [p EXCEPT !.phase = "done"]
    ELSE [p EXCEPT !.body = @ \o units]

GetsRaw(p, units) ==
    IF units = << >> THEN p
    ELSE IF p.phase # "body" \/ Len(units) > p.left THEN [p EXCEPT !.phase = "garbled"]
    ELSE [p EXCEPT !.body = @ \o units, !.left = @ - Len(units),
                   !.phase = IF Len(units) = p.left THEN "done" ELSE "body"]

Transmit(p) == peer' = IF sock = "open" THEN p ELSE peer

-----------------------------------------------------------------------------
(* ResponseContext: each operator gives the peer after the call, r is the
   response when it is made. *)

\* Mutant: the headers are sent with every write.
SendHeadersAgain(p, r, chunked) == GetsHeaders(p, r, chunked)
SendHeaders(p, r, chunked) == IF r.headers_sent THEN p ELSE GetsHeaders(p, r, chunked)

DoWrite(p, units) == GetsChunk(p, units)
BaseWrite(p, r, units) == DoWrite(SendHeaders(p, r, TRUE), units)
BaseEnd(p) == GetsChunk(p, << >>)
BaseSend(p, r, units) ==
    GetsRaw(SendHeaders(p, [r EXCEPT !.length = Len(units)], FALSE), units)

(* The Compression overrides, for a response with a zlib stream. *)
\* Mutants: a chunk is written when deflate held everything back; end() does
\* not finish the zlib stream.
CompressStreamAlways(p, r, out) == BaseWrite(p, r, out)
CompressEndUnfinished(p, r) == BaseEnd(p)

CompressStream(p, r, out) == IF out = << >> THEN p ELSE BaseWrite(p, r, out)
CompressOnce(units) == units \o <<EndOfStream>>
CompressEnd(p, r) == BaseEnd(BaseWrite(p, r, CompressOnce(r.pending)))

-----------------------------------------------------------------------------
(* The chain of middlewares *)

Top == stack[Len(stack)]
MayUse(mw) == run = "running" /\ stack # << >> /\ Top.mw = mw

\* Mutant: the chain is loaded with the response it starts with.
FirstResponseFrame(mw, rsp) == [mw |-> mw, response |-> 1]

(* __load_context: a middleware gets the response of this moment. *)
Frame(mw, rsp) == [mw |-> mw, response |-> rsp]

\* Mutant: pos_cur_handler is incremented when the handler has returned.
PushWithoutIncrement(rsp) ==
    /\ stack' = Append(stack, Frame(pos_cur_handler + 1, rsp))
    /\ called' = Append(called, pos_cur_handler + 1)
    /\ UNCHANGED pos_cur_handler

Push(rsp) ==
    /\ stack' = Append(stack, Frame(pos_cur_handler + 1, rsp))
    /\ called' = Append(called, pos_cur_handler + 1)
    /\ pos_cur_handler' = pos_cur_handler + 1

(* Behind the last middleware next() does nothing. *)
CallNext(mw) ==
    /\ MayUse(mw) /\ mw # CompressionAt /\ use # "file"
    /\ pos_cur_handler < Chain
    /\ Push(response.id)
    /\ UNCHANGED <<run, bodyVars, sock, peer, responses>>

(* The overriding response opens a zlib stream when the Accept-Encoding of
   the request and the settings agree on one, and announces it. *)
DecideEncoding(agreed) ==
    [NewResponse(2) EXCEPT !.zlib = agreed,
                           !.encoding = IF agreed THEN "deflate" ELSE "identity"]

(* Compression::handler replaces the response and calls next(). *)
CompressionHandler ==
    /\ MayUse(CompressionAt) /\ response.id = Top.response
    /\ \E agreed \in BOOLEAN : response' = DecideEncoding(agreed)
    /\ IF pos_cur_handler < Chain THEN Push(2)
                                  ELSE UNCHANGED <<stack, called, pos_cur_handler>>
    /\ UNCHANGED <<run, given, mishaps, use, file, sock, peer, responses>>

Return(mw) ==
    /\ MayUse(mw) /\ use # "file"
    /\ mw = CompressionAt => response.id # Top.response
    /\ stack' = SubSeq(stack, 1, Len(stack) - 1)
    /\ run' = IF Len(stack) = 1 THEN "returned" ELSE "running"
    /\ UNCHANGED <<pos_cur_handler, called, bodyVars, sock, peer, responses>>

(* Its own exception, or that of a blocking write or of a coroutine's: it
   ends in the catch of run_handler or container_thread. *)
Throw(mw) ==
    /\ MayUse(mw) /\ mw # CompressionAt
    /\ stack' = << >> /\ run' = "thrown"
    /\ UNCHANGED <<pos_cur_handler, called, bodyVars, sock, peer, responses>>

-----------------------------------------------------------------------------
(* What a middleware does with the response *)

Uses(mw, before) == MayUse(mw) /\ mw # CompressionAt /\ use = before

(* Data are passed as a string or a vector, or as a pointer and a length.  The
   latter form of Compression's response, when no encoding was agreed, passes
   blocking where the length goes: no byte is sent, or one, and be it that
   behind the data. *)
Forms == {"value", "pointer", "blocking pointer"}
Sent(form, passed) ==
    IF form = "value" \/ response.id # 2 THEN passed
    ELSE IF form = "pointer" THEN << >>
    ELSE IF passed = << >> THEN <<Stray>> ELSE <<Head(passed)>>

(* A call that sends other data than it was passed cuts the body; a chunk
   without data ends it. *)
Mishaps(passed, sent, chunked) ==
    {m \in {"cut", "ended"} :
        (m = "cut" /\ sent # passed) \/ (m = "ended" /\ chunked /\ sent = << >>)}

(* deflate is given the data: it writes k units of what it holds, and nothing
   when there are none. *)
WriteCompressed(n) ==
    LET all == response.pending \o From(given, n)
    IN  \E k \in 0..(IF n = 0 THEN 0 ELSE Len(all)) :
           /\ Transmit(CompressStream(peer, response, SubSeq(all, 1, k)))
           /\ response' = [response EXCEPT !.pending = SubSeq(all, k + 1, Len(all)),
                                           !.headers_sent = @ \/ k > 0]

WritePlain(passed, sent) ==
    /\ Transmit(BaseWrite(peer, response, sent))
    /\ response' = [response EXCEPT !.headers_sent = TRUE]
    /\ mishaps' = mishaps \cup Mishaps(passed, sent, TRUE)

Write(mw) ==
    /\ Uses(mw, "fresh") \/ Uses(mw, "stream")
    /\ \E n \in 0..(MaxBody - given), form \in Forms :
          /\ n > 0 \/ form # "blocking pointer" \/ "cut" \notin mishaps  \* bound: stray bytes
          /\ given' = given + n
          /\ IF response.zlib
             THEN WriteCompressed(n) /\ UNCHANGED mishaps
             ELSE WritePlain(From(given, n), Sent(form, From(given, n)))
    /\ use' = "stream"
    /\ UNCHANGED <<run, ctxVars, file, sock, responses>>

End(mw) ==
    /\ Uses(mw, "stream")
    /\ Transmit(IF response.zlib THEN CompressEnd(peer, response) ELSE BaseEnd(peer))
    /\ response' = [response EXCEPT !.headers_sent = TRUE, !.zlib = FALSE,
                                    !.pending = << >>]
    /\ use' = "complete"
    /\ UNCHANGED <<run, ctxVars, given, mishaps, file, sock, responses>>

SendCompressed(passed) ==
    Transmit(BaseSend(peer, response, CompressOnce(passed))) /\ UNCHANGED mishaps

SendPlain(passed, sent) ==
    /\ Transmit(BaseSend(peer, response, sent))
    /\ mishaps' = mishaps \cup Mishaps(passed, sent, FALSE)

Send(mw) ==
    /\ Uses(mw, "fresh")
    /\ \E n \in 0..MaxBody, form \in Forms :
          /\ given' = n
          /\ IF response.zlib THEN SendCompressed(From(0, n))
                              ELSE SendPlain(From(0, n), Sent(form, From(0, n)))
    /\ response' = [response EXCEPT !.headers_sent = TRUE, !.zlib = FALSE]
    /\ use' = "complete"
    /\ UNCHANGED <<run, ctxVars, file, sock, responses>>

(* send_file is not overridden: the file is sent as it is, piece by piece. *)
SendFile(mw) ==
    /\ Uses(mw, "fresh")
    /\ \E n \in 1..MaxBody :
          /\ file' = n
          /\ Transmit(SendHeaders(peer, [response EXCEPT !.length = n,
                                            !.encoding = "identity"], FALSE))
          /\ use' = "file"
    /\ response' = [response EXCEPT !.headers_sent = TRUE, !.encoding = "identity"]
    /\ UNCHANGED <<run, ctxVars, given, mishaps, sock, responses>>

SendFilePiece(mw) ==
    /\ Uses(mw, "file")
    /\ \E n \in 1..file :
          /\ Transmit(GetsRaw(peer, From(given, n)))
          /\ given' = given + n /\ file' = file - n
          /\ use' = IF n = file THEN "complete" ELSE "file"
    /\ UNCHANGED <<run, ctxVars, response, mishaps, sock, responses>>

-----------------------------------------------------------------------------
(* Requests and their ends *)

(* A client waits for its response; init_handler_data, run_handler. *)
RunHandler ==
    /\ run = "idle" /\ sock = "open" /\ peer.phase = "done" /\ responses < MaxResponses
    /\ responses' = responses + 1
    /\ run' = "running"
    /\ stack' = <<Frame(1, 1)>> /\ called' = <<1>> /\ pos_cur_handler' = 1
    /\ response' = NewResponse(1) /\ given' = 0 /\ mishaps' = {}
    /\ use' = "fresh" /\ file' = 0
    /\ peer' = NewPeer
    /\ UNCHANGED sock

(* No route: the default page, and the session ends. *)
UseDefaultStatusPage ==
    /\ run = "idle" /\ sock = "open" /\ peer.phase = "done" /\ responses < MaxResponses
    /\ responses' = responses + 1
    /\ run' = "closed"
    /\ \E n \in 1..MaxBody :
          /\ given' = n
          /\ Transmit(BaseSend(NewPeer, NewResponse(1), From(0, n)))
    /\ mishaps' = {} /\ use' = "complete"
    /\ UNCHANGED <<ctxVars, response, file, sock>>

(* response.reset() and reload_context() of a kept-alive request; without
   an end() the body stays as it is. *)
ReloadContext ==
    /\ run \in {"returned", "thrown"}
    /\ run' = "idle"
    /\ response' = NewResponse(0)
    /\ UNCHANGED <<ctxVars, given, mishaps, use, file, sock, peer, responses>>

ConnectionBreaks ==
    /\ sock = "open" /\ sock' = "broken"
    /\ UNCHANGED <<run, ctxVars, bodyVars, peer, responses>>

-----------------------------------------------------------------------------
Next ==
    \/ \E mw \in 1..Chain :
          \/ CallNext(mw) \/ Return(mw) \/ Throw(mw)
          \/ Write(mw) \/ End(mw) \/ Send(mw) \/ SendFile(mw) \/ SendFilePiece(mw)
    \/ CompressionHandler
    \/ RunHandler \/ UseDefaultStatusPage \/ ReloadContext \/ ConnectionBreaks

Spec == Init /\ [][Next]_vars
-----------------------------------------------------------------------------
(* What the client makes of a body: decompressed if it was told so. *)
Decoded ==
    IF peer.encoding = "deflate"
    THEN peer.body = From(0, given) \o <<EndOfStream>>
    ELSE peer.body = From(0, given)

(* Whatever the middlewares write, before or after next(), compressed or
   not, over one connection: the client never meets bytes it cannot place
   (a second header, a chunk after the last one, more than Content-Length),
   unless a chunk without data has ended the body before. *)
NeverGarbled == peer.phase = "garbled" => "ended" \in mishaps

(* A response that the middlewares completed is complete for the client and
   its body, decoded, is what they passed: nothing is left in the zlib
   stream, and the framing and the encoding announced are those used.  Not so
   when a chunk without data has ended the body; and a body that a call by
   pointer has cut is complete, but not what was passed. *)
CompleteResponseIsDecoded ==
    use = "complete" /\ sock = "open" /\ "ended" \notin mishaps =>
        peer.phase = "done" /\ ("cut" \in mishaps \/ Decoded)

(* A client is never told that a response is over before it is, but by a
   chunk without data. *)
DoneMeansComplete ==
    peer.phase = "done" /\ responses > 0 /\ "ended" \notin mishaps =>
        use = "complete" /\ ("cut" \in mishaps \/ Decoded)

(* The middlewares of a route run in the order of use(), each at most once,
   however often they call next(). *)
MiddlewaresRunInOrder ==
    /\ called = From(0, Len(called))
    /\ \A i, j \in 1..Len(stack) : i < j => stack[i].mw < stack[j].mw

(* A middleware that runs has the response of its context, not the one that
   Compression destroyed. *)
RunningMiddlewareHasLiveResponse ==
    run = "running" /\ Top.mw # CompressionAt => Top.response = response.id
=============================================================================
