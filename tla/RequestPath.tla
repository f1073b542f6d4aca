----------------------------- MODULE RequestPath -----------------------------
(***************************************************************************)
(* From the bytes a connection delivers to the middlewares that handle a   *)
(* request: decide_io_action_in_read (SessionCommon.cpp), process_request_ *)
(* data, init_handler_data and the end of run_handler (Context.cpp), the   *)
(* HTTP1::Parser and Request::read (Request.cpp), for one connection with  *)
(* kept-alive requests.                                                    *)
(*                                                                         *)
(* The client sends a request once the previous one is answered.  A byte   *)
(* is a record: its request and its place in it; the first r.header bytes  *)
(* of a request r are its header, the r.body others its body.  A read      *)
(* returns any number of the bytes that are there, so a request arrives in *)
(* pieces that respect no boundary.  Which io thread does this, and what a *)
(* second one may do meanwhile, is the subject of Session.                 *)
(***************************************************************************)
EXTENDS Naturals, Sequences

CONSTANTS MaxRequests,      \* bound: requests the client sends
          HeaderSizes,      \* sizes of the headers it sends
          BodySizes,        \* sizes of the bodies it sends
          Targets,          \* what it asks for: see Request
          max_header_size,  \* App::config.http.max_header_size
          buffer_size,      \* size of buffer_read and of the buffer of read()
          ReadsWholeBody    \* do streamed handlers read the body to its end?

ASSUME ConstantsAssumption ==
    /\ MaxRequests \in Nat /\ max_header_size \in Nat
    /\ HeaderSizes \subseteq Nat \ {0} /\ BodySizes \subseteq Nat
    /\ Targets \subseteq {"buffered", "streamed", "no_route", "no_method"}
    /\ buffer_size \in Nat \ {0}
    /\ ReadsWholeBody \in BOOLEAN

VARIABLES
    sent,             \* the requests the client has sent
    socket,           \* bytes that arrived and have not been read
    total_read_size,  \* Session::total_read_size
    phase,            \* "reading", "handling" or "closed"
    parsed,           \* what the Parser of app_ctx has been given
    body,             \* Parser::__body
    route,            \* Context::route: "none", "buffered" or "streamed"
    flags,            \* FLAG_KEEPALIVE and FLAG_NOT_STREAMED of the context
    got,              \* what Request::read has returned to the handler
    answered,         \* the answers: whose, by whom, what it saw of the body
    why               \* why the session ended

ctxVars == <<parsed, body, route, flags, got>>
vars == <<sent, socket, total_read_size, phase, ctxVars, answered, why>>

Request == [header : HeaderSizes, body : BodySizes, target : Targets,
            keepalive : BOOLEAN, malformed : BOOLEAN]
Byte == [req : Nat, pos : Nat]

(* The bytes of request r, the k-th of the connection. *)
Bytes(k, r) == [i \in 1..(r.header + r.body) |-> [req |-> k, pos |-> i]]
BodyBytes(k, r) == [i \in 1..r.body |-> [req |-> k, pos |-> r.header + i]]

TypeOK ==
    /\ sent \in Seq(Request) /\ Len(sent) <= MaxRequests
    /\ socket \in Seq(Byte) /\ parsed \in Seq(Byte)
    /\ body \in Seq(Byte) /\ got \in Seq(Byte)
    /\ total_read_size \in Nat
    /\ phase \in {"reading", "handling", "closed"}
    /\ route \in {"none", "buffered", "streamed"}
    /\ flags \subseteq {"KEEPALIVE", "NOT_STREAMED"}
    /\ answered \in Seq([req : Nat, by : {"handler", "page"}, seen : Seq(Byte)])
    /\ why \in {"", "limit", "parse", "not_found", "done", "connection"}

Init ==
    /\ sent = << >> /\ socket = << >> /\ total_read_size = 0
    /\ phase = "reading"
    /\ parsed = << >> /\ body = << >> /\ route = "none" /\ flags = {} /\ got = << >>
    /\ answered = << >> /\ why = ""

-----------------------------------------------------------------------------
(* The client and the network *)

ClientSends ==
    /\ phase # "closed"
    /\ Len(sent) < MaxRequests /\ Len(sent) = Len(answered)
    /\ \E r \in Request :
          /\ sent' = Append(sent, r)
          /\ socket' = socket \o Bytes(Len(sent) + 1, r)
    /\ UNCHANGED <<total_read_size, phase, ctxVars, answered, why>>

Teardown(reason) ==
    /\ phase' = "closed"
    /\ why' = reason

ConnectionFails ==
    /\ phase # "closed"
    /\ Teardown("connection")
    /\ UNCHANGED <<sent, socket, total_read_size, ctxVars, answered>>

-----------------------------------------------------------------------------
(* The parser *)

(* http_parser reads one message: p must be the start of a request. *)
WellFormed(p) ==
    /\ \A i \in 1..Len(p) : p[i].pos = i /\ p[i].req = p[1].req
    /\ p # << >> /\ sent[p[1].req].malformed => Len(p) < sent[p[1].req].header

HeadersFinished(p) == p # << >> /\ Len(p) >= sent[p[1].req].header
Finished(p) ==
    p # << >> /\ Len(p) >= sent[p[1].req].header + sent[p[1].req].body

DetermineHpState(p, f) ==
    IF "NOT_STREAMED" \in f THEN Finished(p) ELSE HeadersFinished(p)

(* callback_body: the body bytes of p that are new. *)
BodyPart(p) ==
    IF HeadersFinished(p) THEN SubSeq(p, sent[p[1].req].header + 1, Len(p)) ELSE << >>

-----------------------------------------------------------------------------
(* The inline read: n bytes arrive in buffer_read. *)

ReadBytes(n) ==
    /\ phase = "reading" /\ n <= Len(socket)
    /\ socket' = SubSeq(socket, n + 1, Len(socket))
    /\ total_read_size' = total_read_size + n
    /\ UNCHANGED sent

Data(n) == parsed \o SubSeq(socket, 1, n)

HeaderSizeExceeded(n) == max_header_size < total_read_size + n

(* process_request_data: too much was read before the request is complete.
   A complete request is never read on, so line 43 always finds work. *)
RefuseHeaderSize(n) ==
    /\ ReadBytes(n)
    /\ HeaderSizeExceeded(n)
    /\ Teardown("limit")
    /\ UNCHANGED <<ctxVars, answered>>

ParseError(n) ==
    /\ ReadBytes(n)
    /\ ~HeaderSizeExceeded(n) /\ ~WellFormed(Data(n))
    /\ Teardown("parse")
    /\ UNCHANGED <<ctxVars, answered>>

Parse(n) ==
    /\ ReadBytes(n)
    /\ ~HeaderSizeExceeded(n) /\ WellFormed(Data(n))
    /\ parsed' = Data(n)
    /\ body' = BodyPart(Data(n))
    /\ UNCHANGED got

(* STATE_WANT_READ: decide_io_action_in_read starts the next read. *)
WantRead(n) ==
    /\ Parse(n)
    /\ ~DetermineHpState(parsed', flags)
    /\ UNCHANGED <<phase, route, flags, answered, why>>

(* The header is complete: look for the route. *)
Current == sent[parsed'[1].req]
KeepAliveFlag == IF Current.keepalive THEN {"KEEPALIVE"} ELSE {}

(* No route, or no middlewares for the method: the page and teardown, even
   when the connection was to be kept alive. *)
NotFound(n) ==
    /\ Parse(n)
    /\ DetermineHpState(parsed', flags) /\ route = "none"
    /\ Current.target \in {"no_route", "no_method"}
    /\ flags' = flags \cup KeepAliveFlag
    /\ answered' = Append(answered, [req |-> parsed'[1].req, by |-> "page", seen |-> << >>])
    /\ Teardown("not_found")
    /\ UNCHANGED route

(* A route that is not streamed reads the rest of the body first. *)
FindRoute(n) ==
    /\ Parse(n)
    /\ DetermineHpState(parsed', flags) /\ route = "none"
    /\ Current.target \in {"buffered", "streamed"}
    /\ route' = Current.target
    /\ flags' = flags \cup KeepAliveFlag
                  \cup (IF route' = "streamed" THEN {} ELSE {"NOT_STREAMED"})
    /\ phase' = IF DetermineHpState(parsed', flags') THEN "handling" ELSE "reading"
    /\ UNCHANGED <<answered, why>>

BodyComplete(n) ==
    /\ Parse(n)
    /\ DetermineHpState(parsed', flags) /\ route # "none"
    /\ phase' = "handling"
    /\ UNCHANGED <<route, flags, answered, why>>

-----------------------------------------------------------------------------
(* The handler *)

Handled == sent[parsed[1].req]

\* Mutant: the body is copied out of the parser and not cleared.
RequestReadKeepsBody ==
    /\ phase = "handling" /\ route = "streamed"
    /\ Len(got) < Handled.body
    /\ body # << >> /\ got' = got \o body
    /\ UNCHANGED <<sent, socket, total_read_size, phase, parsed, body, route, flags,
                   answered, why>>

(* Request::read: first what the parser holds, then the socket itself. *)
RequestRead ==
    /\ phase = "handling" /\ route = "streamed"
    /\ Len(got) < Handled.body
    /\ IF body # << >>
       THEN got' = got \o body /\ body' = << >> /\ UNCHANGED socket
       ELSE \E n \in 1..buffer_size :
               /\ n <= Len(socket)
               /\ got' = got \o SubSeq(socket, 1, n)
               /\ socket' = SubSeq(socket, n + 1, Len(socket))
               /\ UNCHANGED body
    /\ UNCHANGED <<sent, total_read_size, phase, parsed, route, flags, answered, why>>

\* Mutants: the new context gets the old Parser; no read is started.
ReloadContextKeepsParser ==
    IF "KEEPALIVE" \in flags
    THEN /\ phase' = "reading"
         /\ route' = "none" /\ flags' = {} /\ got' = << >>
         /\ UNCHANGED <<parsed, body, why>>
    ELSE Teardown("done") /\ UNCHANGED ctxVars

ReloadContextDoesNotRead ==
    IF "KEEPALIVE" \in flags
    THEN /\ phase' = "no read"
         /\ parsed' = << >> /\ body' = << >> /\ route' = "none" /\ flags' = {}
         /\ got' = << >>
         /\ UNCHANGED why
    ELSE Teardown("done") /\ UNCHANGED ctxVars

\* Mutant: the context is not replaced and its handler runs again.
ReloadContextRunsAgain == UNCHANGED <<phase, ctxVars, why>>

(* reload_context: a new context, with a new Parser, and the next read. *)
ReloadContext ==
    IF "KEEPALIVE" \in flags
    THEN /\ phase' = "reading"
         /\ parsed' = << >> /\ body' = << >> /\ route' = "none" /\ flags' = {}
         /\ got' = << >>
         /\ UNCHANGED why
    ELSE Teardown("done") /\ UNCHANGED ctxVars

HandlerReturns ==
    /\ phase = "handling"
    /\ route = "streamed" /\ ReadsWholeBody => Len(got) >= Handled.body
    /\ answered' = Append(answered, [req |-> parsed[1].req, by |-> "handler",
                                     seen |-> IF route = "streamed" THEN got ELSE body])
    /\ ReloadContext
    /\ UNCHANGED <<sent, socket, total_read_size>>

-----------------------------------------------------------------------------
ProcessRequestData ==
    \E n \in 1..buffer_size :
        \/ RefuseHeaderSize(n) \/ ParseError(n) \/ WantRead(n)
        \/ NotFound(n) \/ FindRoute(n) \/ BodyComplete(n)

Next ==
    \/ ClientSends \/ ConnectionFails
    \/ ProcessRequestData
    \/ RequestRead \/ HandlerReturns

Spec == Init /\ [][Next]_vars

(* What has arrived is read and processed, and handlers go on.  The client
   owes nothing: it may never send the next request. *)
FairSpec ==
    Spec /\ WF_vars(ProcessRequestData) /\ WF_vars(RequestRead) /\ WF_vars(HandlerReturns)
-----------------------------------------------------------------------------
(* Requests are answered in the order in which they were sent, none twice
   and none skipped. *)
AnsweredInOrder ==
    /\ Len(answered) <= Len(sent)
    /\ \A i \in 1..Len(answered) : answered[i].req = i

(* Whatever the pieces in which a request arrived, its handler saw exactly
   its body: not a byte missing, repeated, out of order or of another
   request, whether it was buffered, or read by Request::read partly from
   the parser and partly from the socket. *)
HandlerSeesTheBody ==
    \A i \in 1..Len(answered) : answered[i].by = "handler" =>
        answered[i].seen = BodyBytes(i, sent[i])

(* The server gives up on the syntax of a request only when the client sent
   one that is malformed. *)
ParseErrorIsTheClients ==
    why = "parse" => sent[Len(sent)].malformed

(* The limit is a limit on the header, as its name and its log message say. *)
LimitRefusesLargeHeadersOnly ==
    why = "limit" => sent[Len(sent)].header > max_header_size

(* Every request is answered, unless the connection ends. *)
EveryRequestIsSettled ==
    \A k \in 1..MaxRequests :
        (Len(sent) >= k) ~> (Len(answered) >= k \/ phase = "closed")
=============================================================================
