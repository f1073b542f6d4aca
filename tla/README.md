# Marisa: TLA+ specifications

Marisa is a C++17 web server framework on boost::asio. These modules model its
concurrent core: how responses are written, how a connection lives, how bytes
become requests, how middlewares become a response, and how the io threads of
a server share the work. TLC checks the properties on small instances
(`tlc -config server.cfg IoService.tla`), and TLAPS proves every safety
property that a run checks, for every instance (`tlapm WriteQueueProofs.tla`):
of the write path, of a session's turns, of the bytes of requests and
responses, of raw connections, of the io threads, and of the values: queries,
headers, parts of bodies, cookies, routes, header blocks, buffers, static
files, escapes and dates.
Paths below are relative to `src/Source`.

## Inventory

| component | state | operations | talks to | hard behaviours | correct when |
|---|---|---|---|---|---|
| App (`App/App.cpp`) | config, routes, Instances, runner threads | use, route, listen, run, stop | starts the threads that call Instance::run | stop against running handlers; a second run | stop ends the threads that do not wait |
| Instance (`Server/Instance*.cpp`) | io_service, one strand for all sessions, acceptor, accepts outstanding | run, stop, prepare_next_session | makes Sessions | N threads, one accept each; a handler that blocks its thread | a waiting connection is accepted and served |
| Session: write path (`SessionCommon.cpp`, `SessionTCP.cpp`) | queue_write, promises, timer, socket | inline_async_write, write_async, write_blocking, completion handlers, error_action, close_socket | middlewares' threads, strand, socket, timer | two places start a write; failure with packages queued; expiry against completion | one ordered stream with true answers |
| Session: life cycle (the same files) | app_ctx, buffer_read, timer, references | start, inline_async_read, decide_io_action_in_read, reload_context, timeouts | Context, strand, timer | unserialised read handlers; a context replaced while in use; a silent peer | one reader of the buffer; live contexts; release of silent peers |
| Context (`App/Context.cpp`) | state flags, route, parser, handlers, response | process_request_data, run_handler, next, init_handler_data | Parser, Route, Session, middlewares | requests in pieces; three ways to run a route; exceptions | the handler sees its request, in order |
| Multipart parser (`Types/Mullet.cpp`) | parts, last_handler | callbacks, parse | handlers | the same | headers and data in their part |
| Parser (`Protocol/HTTP/HTTP1/Parser.cpp`) | headers, URL, body, progress flags | http_parser callbacks | Context | fragmentation, pipelining | the pieces do not matter |
| Request (`App/Request`) | view of the parser's result | read, body, cookies, ip | Session reads | a body partly in the parser, partly in the socket | every byte once |
| Middlewares (`App/Middleware.cpp`, `App/Middlewares`) | their Context, Request and Response | handler, New, next | Context | calls after next(), exceptions | in order, with a live response |
| Response (`App/Response/Response.cpp`) | headers_sent, buf_write, yield_context | send_headers, write, end, send, raw_write, send_file | Session writes | framing over several calls | the client decodes what was passed |
| Compression (`App/Middlewares/Compression.cpp`) | zlib stream, encoding | overrides write, end, send | Response | deflate holds data back; replaces the response object | the same |
| Raw middlewares (`Context::run_raw_handler`) | handler in a coroutine or thread, reads and writes outstanding | read_async, read_blocking, write_async in three forms | Session, strand, timer | a peer that stops; writes beside queue_write; one timer for all | reads in order, writes whole, every read answered |
| SSL and Unix sessions (`SessionSSL.cpp`, `SessionUnix.cpp`) | as TCP | as TCP, with a handshake | as TCP | handshake without timer; blocking reads that fill their buffer | as TCP |
| Routes (`App::route`, `Route.cpp`, the loop in `Context.cpp`) | route_mapping, route_global, middlewares by method | route, on, use; the choice for a request | Context | several routes match | the middlewares asked for run |
| StaticFiles, MMap (`Middlewares/StaticFiles.cpp`, `Types/MMap.cpp`) | paths | handler, generate_file_page, map_file | the file system, send, send_file | files that change between two calls; a client gone in the middle | one answer, true of what was there |
| Buffer (`Server/Buffer.cpp`) | one of a string, a vector, a view | assign, move_assign, copies | Response, queue_write | moved and used again; views of a caller's memory | the wire has what was passed |
| Generator (`HTTP1/Generator.cpp`) | the vector and the place in it | generate_headers | Response | a vector resized as it is written | no byte lost |
| Escapes, cookies, dates, Utilities | values | encode, decode, cookies, assign, toString | all | clients with other habits; an object assigned again | read as it was meant |
| ConnectionContext, Base64, tables of methods, statuses and MIME types | none | look-ups | | none | |
| Log, Websocket and Config stubs | none | none | | none | |

`PROJECT.json` lists the same components with their files and, under
`hazards`, every place where this code is hard to test.

## Modules

`WriteQueue` models one session's write path. `posted` counts writes, `strand`
is the FIFO of tasks posted to `io_strand`, `queue_write` the packages,
`sending` the async_writes outstanding, `promise` what each package's
std::promise holds, `timer` and `expired` the io_timeout_timer and handlers of
it that expired but have not run. `InlineAsyncWrite` and `WriteBlocking` are the
two ways to post; `ArrangeAsyncWrite` is the task that enqueues and perhaps
starts the front; `WriteHandlerOk` and `WriteHandlerError` are the completion
handler, which answers the front, pops it, and starts the next or closes.
A write is named by its rank, which stands for its data.
`OrderedStream` is the abstract promise to those who write: in order until the
stream breaks, answered truly and in order, but perhaps not at all.

`Session` models one session's life: which io thread is at which point of the
read handler (`io`), the thread and the coroutine of each context (`app`,
`coro`), contexts as numbers with those destroyed in `freed`, inline reads on
`buffer_read`, writes as a count, the close and the timer. `HasRefs` says
whether any handler, task or thread holds a shared_ptr to the Session.
process_request_data sets FLAG_KEEPALIVE when it looks at the headers
(`AddFlags`), before it knows its outcome: a 404 may be kept alive, though nobody
reads on behind it (`RequestRefused`).

`RequestPath` models one connection's bytes, cut anywhere, up to the handler:
decide_io_action_in_read with process_request_data is one action
(`ProcessRequestData`), followed by `RequestRead` for streamed routes and
`HandlerReturns` with reload_context. A byte is a (request, place) pair, so
bytes can be told apart. The client sends a request when the one before it is
answered.

`ResponsePath` models next(), the response object a middleware holds, the
Response operations and the overriding ones of Compression, with deflate as a
stage that holds back any part of its input, against a client that decodes
status, length, chunks and encoding. Middlewares do anything the API allows:
one send, one send_file, or writes and an end, before or after next(), with data
or without, and they throw anywhere. Data are passed in three `Forms`: by value, by
pointer, and by pointer from a blocking call. Where Compression's response has
agreed on no encoding, the last two hand the flag `blocking` on as the length, so
that nothing is sent, or one byte (`Sent`). `mishaps` is a ghost that keeps what
calls have done to a response: such a call has cut its body, or a chunk without data
has ended it.

`Parsers` models the callbacks of HTTP1::Parser (`hp`) and of Mullet (`mp`). The
libraries that make the calls are external: `at` is the text they report next and
what is left of it, and each call reports any beginning of that. `ParseUrl` with
`ExplodeZerocopy`, `Decode` and `KeyValue` is the query; `TakeData` is a handler
that empties a part between reads, as the coverage test does. `Utilities` holds
`ExplodeZerocopy`, which `Cookies` uses too, and `JoinTexts`, what the client does
before.

`UserIO` models a raw connection: a handler in a coroutine on the strand or in a
thread (`RunRawHandler`), which reads and writes through one of the three
Sessions. `Reads`, `Writes` and `Close` are tables with one row for each class,
translated from its own functions: does a promised read return what there is or
fill its buffer, which writes go through queue_write, is the socket shut or
closed. Bytes of the peer are numbered, so order and gaps can be seen; a write
goes out in `Parts` pieces, so two writes can be seen to mix. `HasRefs` is who
keeps the Session alive; the waits of the timer do not.

`Dates`, `UrlEncoding`, `Cookies`, `Routing`, `StaticFiles`, `Generator` and
`Buffers` model the values a request is read from and a response is made of,
each as a small machine whose steps are the calls or loops of the code: a Date
that is assigned texts and times in turn; the loops that write and read escapes
into sized buffers; the pass over the cookie field; calls of route, on and use
in any order and then a request; StaticFiles over a file system that others
change between stat, opendir and open, with a listing taken as one body; the vector of a header block, with which
of its bytes survive the resizes; and the Buffers that write moves into
packages, with the memory their views point to. `Values` extends Parsers and
instantiates these seven, so that one run checks them all: a behaviour of it is one
of one of them (`which`), whose steps leave the variables of the others alone.
`MCValues` gives the constants their values.

`IoService` composes what these leave out: the io threads of one Instance, which
run all handlers, the strand they share, and what a route asks of them. `runner`
says what each io thread does, `strand` which one is inside a coroutine on the
strand, `accepts` the async_accepts outstanding. A request goes through `stage`: its
read handler is taken by a thread (`ReadHandler`), which then runs it to its end,
stopped or not, and `RunHandler` runs the middlewares there, spawns a coroutine, or
starts a thread, whose middlewares begin when that thread does (`ContainerThread`).
Middlewares may read once more (`read`): blocking, or in the coroutine. `WriteKind` is
do_raw_write: a coroutine write, a blocking one or a posted one. One that nobody waits
for is one write; one that blocks is send_file's, the headers posted (`headers`) and a
body behind them (`write`), which nobody starts or answers when the headers fail
(`Stranded`). `closing` is the close; the timer is derived: it may expire while an
operation it covers is outstanding.

`WriteQueueProofs`, `SessionProofs`, `RequestPathProofs`, `ResponsePathProofs`,
`UserIOProofs`, `IoServiceProofs` and `ParsersProofs` hold the theorems about the
module they are named for; `ValuesProofs` holds those about the seven machines of
`Values` and about `Values` itself.

The modules meet at the operations they share. A Session's posts are
WriteQueue's posts; RequestPath's `HandlerReturns` is Session's reload; the
responses of ResponsePath are posted through WriteQueue, whose theorem (an
ordered stream until it breaks) is what allows ResponsePath to treat the peer as
a decoder of posts. `Buffers` says whose bytes those posts carry, `Generator` what
is in the first of them, `Parsers`, `UrlEncoding`, `Cookies` and `Routing` what
RequestPath's handler is given. Each module says in its header what it leaves to the others.

## Runs

| run | instance | shows |
|---|---|---|
| `wq_order` | 2 blocking threads and a posting one, 3 writes, 2 expiries, 1 read, peer may drop or stop reading, with fairness | the stream is ordered and its promises true; refines OrderedStream; every write is sent or the connection ends; a blocked thread returns unless an earlier write failed or an inline read has cancelled its timer |
| `wq_stuck_writer` | 1 blocking, 1 posting, 2 writes | violation: behind a failed write a blocked thread waits for ever |
| `session` | 1 io thread, all modes, 2 contexts, 3 pieces, 2 writes | exclusive buffer, handlers one at a time, live contexts, release of silent peers, next request read |
| `session_two_io` | 2 io threads, no_yield | violation: two users of buffer_read |
| `session_stale_ctx` | 1 io thread, thread mode | violation: use of a context already replaced |
| `requests` | 3 requests, headers 1, 2, 9 with limit 8, bodies 0 and 2, buffer 3 | in order, exact bodies, only a client's malformed request is a parse error, every request settled |
| `requests_limit` | 3 requests with header 2, limit 5 | violation: small headers refused |
| `responses` | 3 middlewares, the first is Compression, 2 responses, bodies up to 4, empty ones and all forms of passing data included | the client decodes exactly what was passed, and is never told too early that it is over; the two mishaps of the code are the only exceptions |
| `user_io` | TCP, SSL and Unix, coroutine and thread, 3 reads or writes, 2 bytes, buffer 2, writes in 2 pieces, with fairness | bytes in order, writes whole, every read answered, an ended handler lets the Session go |
| `values` | one machine at a time, see MCValues: 2 parts, 2 lines of header or query, 2 cookies, texts of 3 characters, 3 routes and 3 uses, 2 changes of a file, 2 headers, 3 writes | texts cut anywhere, escapes, cookies, dates, routes, files, header blocks and buffers are what their users meant |
| `server` | 2 io threads, 2 connections, all modes, one request that reads on and sends a file | every connection served, but for a body stranded behind its headers; some thread always serving; stop ends the threads |
| `server_stuck` | 2 io threads, an async route, Compression, a file | violation: a blocking write inside the strand stops the Instance |

### Bounds

Three writes give a front, a middle and a back of queue_write, so that a
completion finds zero, one or two packages behind it; two timeouts let one
expire while another's handler is pending. In `session`, two contexts are what
it takes for one to be replaced, three pieces let a request arrive in two and
the next one begin. In `requests`, the buffer is smaller than a header with its
body and larger than a body, so that pieces end before, at and behind each
boundary, three requests are needed for bytes of earlier ones to count against
the limit, and the header 9 alone exceeds it. In `responses`, four units let
deflate hold back, release and finish with data both pending and new, and at most
one empty blocking write by pointer adds a byte from behind its data. In
`user_io` a buffer of two bytes can be filled, half filled and found empty, and
three operations are two reads with a write between, or a blocking write in the
queue and two beside it. In `values`, a callback of the parsers depends on the
kind of the one before it, so two lines show every pair, and one name is the
beginning of another; three characters hold one escape, which a text may also
look like; two cookies may share a name; three routes give one that is hidden,
one that hides it and a global one, and three uses a method of its own beside
ALL; two changes make a file another thing and back; two headers put a resize
behind a header and behind the status line; three calls move buf_write, use it
again, and find what an earlier call left in it. In
`server`, two threads and one request that waits are the smallest case in which a
thread may be blocked and another is left; the theorem covers the other numbers. A
connection carries one request, with at most one further read, and a body of one
write: a second piece only waits behind the first, as the first does behind the
headers.

What the constants leave out is deliberate, and the runs above change their
verdict when they are set otherwise:

* without the disjunct `WriteIsUntimed` in the two liveness properties of
  `wq_order`: both fail. A read that completes cancels the session's only timer,
  also the wait for the write.
* without "ended" as an exception in the three properties of `responses`: they
  fail. write() with no data sends a chunk of size 0, which ends the body, as the
  coverage test does for an empty POST (`Tests/coverage.cpp:243`); so does a write by
  pointer through Compression when no encoding is agreed.
* without "cut" in CompleteResponseIsDecoded and DoneMeansComplete: both fail. send
  and write by pointer send nothing or one byte then (`Compression.cpp:137`, `:194`).
* `CompressionAt = 2` in `responses`: RunningMiddlewareHasLiveResponse fails. The
  middleware in front of Compression keeps a reference to the old response.
* `ReadsWholeBody = FALSE` in `requests`: ParseErrorIsTheClients fails. The rest
  of the body is parsed as the next request.
* an empty text among `Datas` of Parsers in `values`: PartsArrive fails. A part
  without data loses its last header to the part that follows. (`Passable`, which
  Buffers writes, has it.)
* an empty parameter in a query, a "?" in it or a second "=" in a parameter, which
  TextsAssumption excludes: parse_url reads the first element of an empty vector,
  drops the query, drops the value. encodeURIComponent makes none of them.
* `Disciplined = FALSE` in `user_io`: WritesAreWhole fails. A write of a coroutine
  or with a callback goes to the socket beside queue_write.
* BlockingReadGivesWhatItTook in `user_io` for threads over SSL or Unix: fails. A
  blocking read waits for its whole buffer there, and when it fails the handler
  does not get what was taken; over TCP it gets what there is.
* `CallersWait = FALSE` of Buffers: WireIsWhatWasPassed fails. A write of (pointer,
  length) is a view until the strand has written it.
* `EmptyText` among the texts of Dates: DateIsWhatWasAssigned fails, since the flag
  `valid` is taken back and never given. So it does with an ISO text without a
  zone (the "-" of its day is read as one), with a zone "+hhmm", and with a number
  of digits behind the "." other than three.
* blanks around an empty value of a cookie: trimming runs past its ends; and a
  cookie without "=" keeps its blanks.
* numbers with more than 12 digits together in Generator: HeaderBlockIsWhole fails;
  the keep-alive line is printed into 64 bytes.
* Routing asks for a route's own captures only when no other route matches: the
  loop takes the last route that matches and keeps the captures of all.
* as many requests in `Files` and `Streamed` as `Threads` in `server`:
  SomeThreadServes fails.
* without the disjunct `Stranded` in EveryConnectionIsServed: it fails, as
  BlockedWriterReturns does in `wq_stuck_writer`.

### Fairness

Fairness is assumed of the server and never of a peer. io_service runs a handler
that is ready while a thread is free for it, and the strand runs its tasks in
order: weak fairness of each handler. Threads of routes go on: weak fairness of
their steps. The operating system fails an operation on a closed socket: weak
fairness of the failure. The timer expires once armed (`TimerExpires`), within
the bound on expirations; in `session` a peer that reads what it is sent is
assumed through `WriteStarts` and its handler. Sending the next request, reading
a response, dropping the connection, calling stop: no fairness. In `user_io` the
handler's code goes on (it ends, or starts an operation), and a read takes data
that is there. Deadlock is not
checked where a system that has handled everything and whose peers are silent
may stop.

## Proofs

TLAPS checks the following for all threads, writes, timeouts, requests and
files. `ConstantsAssumption` in each module is all that is assumed about the
constants, unless a theorem states more.

**WriteQueue.** The invariants are not inductive alone: that the front is what is
in flight needs to know where the other writes are. `IInv` says there are two
numbers p and a: writes 1..p are answered, queue_write is exactly p+1..a, the
strand holds the posts a+1..posted in order, and only p+1 may be in flight or
have its handler pending (`QueueShape`, `StrandShape`, `FlightShape`,
`WireShape`). A post moves `posted`, `ArrangeAsyncWrite` moves a, a completion
handler moves p, everything else keeps both; there is one lemma for each.
`OneWriteAtATime`, `WireOrder`, `PromisesAreTrue` and `QueueKeepsMoving` follow
from it. `WriteQueueImplementsOrderedStream` maps each step to a step of
OrderedStream (`StreamStep`), and `PromisesInOrder` follows from that.

**IoService.** `IInv` says a thread that runs a request is the only one to run it
(`RunnerShape`), a blocked request is one that may wait (`MayWait`) and a spawned one
has an async route (`StageShape`), a thread keeps the strand only for a
coroutine (`StrandShape`), and there is one accept for each thread that has
started (`AcceptShape`). `EnoughThreadsServe`: with fewer requests that read on or
send files than threads some thread serves, since otherwise two threads would run the
same request, by the pigeonhole principle. `StrandKeepsRunning`: without Compression
no thread waits inside the strand.

**UserIO.** That bytes come in order needs to know what was lost: a blocking read
over SSL or Unix takes bytes from the socket and may fail with them. `IInv` says
only such a read has bytes in its buffer (`PartsAreOfBlockingReads`), and that the
bytes delivered and those in the buffer are all that was taken, unless some were
lost and no byte can come any more (`LostOnlyAtTheEnd`, `Drained`). So whenever a
read can take something, it follows what was delivered (`TakingIsNext`), and
`ReadOkIInv` extends the order. A read fails only when nothing can come
(`ReadFailsIInv`), the socket never opens again and the peer never comes back
(`CloseSocketIInv`, `PeerIInv`). `ReadsInOrder` holds for any transports, buffers,
bytes and operations.

The writes have an invariant of their own, `WInv`: queue_write holds each promised
write once, only its front is being sent (`Queued`), a write that goes to the
socket beside it is alone (`DirectAlone`), and the pieces on the wire are of
answered writes, then of the one being sent (`PiecesOfSent`). `WholeWrites`
assumes `Disciplined`, a handler that starts no write of a coroutine or a callback
while another is outstanding: nothing in the code stops it, and the wire shows it.

**Session.** With one io thread, the default of App::run (`App/App.hpp:101`), a
session has one turn and at most one holder: the outstanding inline read, the io
thread while it handles one, or the thread or coroutine of the current context
(`OneTurn`). `IInv` adds that whoever works on a context works on app_ctx, and that
only older contexts are freed (`CurrentContext`), that later ones are as they were
made (`LaterContexts`), and that WANT_READ is set only between a read and the next
(`WantedBetweenReads`): that is what gives the second look of
decide_io_action_in_read, after process_request_data, its turn. `ReadBufferHasOneUser`,
`MiddlewaresNeverOverlap` and `RunningContextsLive` hold then for every mode, any
number of contexts, pieces, writes and timeouts, and every interleaving with
threads and coroutines. The hypothesis is needed: `session_two_io` is two threads.

With any number of io threads, run(2) of the tests included, the same holds as long
as no request asks to be kept alive (`KeepAlive = FALSE`): both counterexamples
need reload_context to start the next read. There the first context is the only
one (`FirstOnly`), and the argument is another: whoever parses, runs middlewares or
will read on is alone, with every other io thread idle and no middleware begun, and
once the thread or the coroutine of the request has begun nothing is read any more
(`OneWorks`), even though several io threads may still be in the second look at
app_ctx, in the coroutine or in reload_context. `AloneReadBufferHasOneUser` and
`AloneMiddlewaresNeverOverlap` follow. (That contexts live says nothing there: none is
ever replaced.)

**RequestPath.** Bytes are conserved. `Progress` says that a connection that is open
is `Between` two requests, `Reading` one, `Handling` one, or has a `Leftover` of an
unread body, and in each says which bytes of the request are with the handler, the
parser and the socket: pieces that meet (`PieceConcat`) and can be cut anywhere
(`PieceFront`, `PieceBack`). `AnswerShape` says what was answered, `Reason` why the
connection was closed. `AnsweredInOrderHolds` and `HandlersSeeBeginnings` need no
hypothesis: a handler is never given a wrong byte. That it is given all of them
when it returns (`HandlersSeeTheirBodies`), and that a parse error is the client's
(`ParseErrorsAreTheClients`), need `ReadsWholeBody`: a streamed route that leaves a
part of its body unread leaves it to the parser of the next request.

**ResponsePath.** `ChainInv` says which middlewares are on the stack, in order, and
which response each was loaded with. `MiddlewaresRunInTheirOrder` follows for any
middlewares, and with Compression first or absent, its place in the examples
(`Examples/usage_demo.cpp:153`), `RunningMiddlewaresHaveLiveResponses`. `WireInv` relates what the
middlewares have promised (`use`) to what the client expects: nothing yet, a stream
of chunks, a file of known length, or the end; in a stream, what the client has
decoded with what deflate holds back is what was passed (`StreamResponse`), unless a
mishap has cut or ended it.
`FirstUse` keeps the first response untouched until Compression replaces it.
`ClientsAreNeverConfused`, `CompleteResponsesAreDecoded` and
`DoneResponsesAreComplete` assume Compression's place alone; their exceptions are the
mishaps listed under Bounds.

**StaticFiles.** `StaticAnswersAreTrue` for any number of changes of the file system.
`AnswerInv` says that what was sent is justified by some moment at which it was true
(`Told`), that nothing is sent before the call that ends the handler or begins a file
(`Unanswered`) and no more than one response (`OneAnswer`), and what the calls before
have found at the path (`Found`).

**Buffers.** `WireCarriesWhatWasPassed` for any data and calls. `Flow` says that the
packages not yet written hold, one for one, what was passed and is not on the wire,
as owned bytes or as a view of memory that still has them (`Holds`); `CallMoves`
that a call fills buf_write, whatever was left in it, and moves it out whole. A
caller's memory is not viewed when it is reused: that is `CallersWait`.

**UrlEncoding.** `EscapedTextsRoundTrip` for texts of any length, which may hold what
looks like an escape. `EscapeInv` says that what is written is made of pieces
(`Pieces`), each a character that stays or the escape of one, and of which part of the
text that is to be read each is the piece (`Read`); that the loop which reads stands
between two pieces (`BeingRead`), so that a "%" in front of it begins an escape and no
other character does; and that no piece is shorter than what it is read as, hence the
bound on the buffer. The escapes have to be distinct (`HexFacts`).

**Dates.** `DatesAreWhatWasAssigned` for any assignments. `WellFormed` is what it assumes
of a text: one of the two forms, a zone, and three digits behind the "." or none. It
is needed, since an empty text takes `valid` back and no text gives it again, an offset is looked for
behind the last "-" of a text without a zone, and the digits are taken for
milliseconds however many they are. `DateInv` keeps the seconds equal to those
assigned last and the nanoseconds equal to the millisecond; `ClockTells` is the
arithmetic of gmtime_r and timegm, `Millions` that of the fraction.

**Routing.** `RequestsAreServedByTheirRoutes` for any patterns, targets, captures and
calls. `RoutesInv` says what the program's calls have made of the table: each Route
is the one a call made, in the order of the calls, and has for each method just the
middlewares that were asked for, numbered in their order (`Keeps`, `Enumerates`).
`SearchInv` says what the loop has seen of it: behind the route it holds none
matches, and what it has captured ends with that route's captures (`HasAtEnd`), and
is just that when no route in front matches. `HandlersAsAsked` reads
init_handler_data off the first, `RouteIsLatest` the choice off both.

**Parsers.** `RequestsAreAsSent` and `PartsOfBodiesAreAsSent` for any number of lines
and parts and any way to cut them. `AtInv` says where in the request the libraries
are; `ParserInv` and `MulletInv` what has been kept by then: the whole lines in front
are inserted, first values first (`Held`), the line at hand is in last_field and
last_value, and what is left of its text completes it. The kind of the last callback
tells which of the two it is, which is where the code could go wrong. That parts are
as sent assumes `<<>> \notin Datas`. The query goes through explode_zerocopy three
times: `JoinExploded` says that it undoes JoinTexts when no text is empty or has the
separator, `KeyValueIs` and `InsertAllIs` what the pairs and their map are, and
`ParseUrlIs` puts them together.

Those definitions are recursive functions, and no induction theorem of the library
can be used (see below), so ParsersProofs proves what it needs from the least
natural number (`LeastNatural`): `Induction` on a set of numbers, and `Recursion`, that a
function with a step exists, both with sets where the library has operators.
`Chars` is STRING with the few separators that the model adds to a text, which no
prover knows to be strings.

**Cookies.** `CookiesAreFound` for any cookies. `JarInv` says that the parts left are
those of the cookies not yet looked at, and that the jar has of the others the last
of each name. `PartIsRead` is the work of one step: the first "=" of a part is the
one behind its name, whatever the value holds, and what is around it is trimmed to the
name and the value (`TrimIs`). CookiesAssumption says that a name is not empty and has
no "=", and that no text has a ";" or a blank at an end.

**Generator.** `BlockIsWhole`: with lines of at most 50 characters and numbers of at
most 12 digits together (`LengthsFit`), no byte of the block is cut off or zeroed,
for any headers. `IInv` adds that what is written ends inside the vector; the one
lemma `WriteKeeps` serves every write.

**Values.** The theorems `Every...` state these results of `ValuesSpec`, which the run
checks: a behaviour of Values in which a machine runs is a behaviour of that machine
(`DatesRuns` and its like), and in any other the property says nothing. Their
hypotheses are those above.

**Only model-checked:** every liveness property, which is out of the prover's reach
with its fairness: BlockedWriterReturnsOrIsStranded, EveryWriteIsSentOrClosed,
SilentPeerIsReleased, KeptAliveIsReadAgain, EveryRequestIsSettled,
EveryConnectionIsServed, StopEndsThreads, ReadIsAnswered and
EndedHandlerReleasesSession. Session with several io threads and kept-alive
requests has the counterexample of `session_two_io`. The induction theorems of the library take an operator as a
parameter, which the provers cannot instantiate. The inductive invariants and the
TypeOK of most modules are stated in no run: the first are proved, the others say no
more than the types.

## Findings

* `wq_stuck_writer`: the error path answers the front package and leaves the rest
  of queue_write unanswered; a thread in write_blocking behind it never returns.
* `session_two_io`: read handlers are not wrapped by the strand, and
  decide_io_action_in_read looks at app_ctx after the request it started may
  have been replaced and read on.
* `session_stale_ctx`: run_handler detaches the container of a Context that
  its thread may have destroyed.
* `requests_limit`: max_header_size bounds all bytes of the connection.
* `server_stuck`: Compression's response has no yield_context, so send_file in an
  async route blocks inside the strand that must run its write.

## Not modelled, and why

* Several reads of one raw handler at once, a callback that starts another read after
  an error, and reads of a coroutine that is not the connection's handler.
* The ssl stream, which the inline read uses outside the strand while a write uses it
  inside: undefined in the library; an operation on a stream is atomic here.
* The inline reads and writes of SSL and Unix sessions, which repeat those of TCP.
* Failures of accept and allocation, socket options, logging: no state that the
  properties see.
* The rows of a directory's listing. For an entry that is gone, or a dangling link,
  the code shows what stat left there before, and for a directory below base_path it
  looks the names up in base_path (`StaticFiles.cpp:128`): plain in the code.
* In `IoService`, a wait of the timer that expired and runs after its operation has
  ended; Session and WriteQueue have those.
* The start of several async_accepts on one acceptor at once: a data race inside
  asio whose outcomes this code does not determine; taken as atomic.
* The middleware blamed for an exception (`Context.cpp:218`): pos_cur_handler is one
  past the one that threw. Plain in the code. So are a parse error that is not
  answered, max_requests_per_conn that is announced and never enforced, and the type
  of a response, which send_headers replaces by the member `type` whatever a
  middleware has put there (`Response.cpp:68`).
* Regular expressions, the HTML of pages, MIME and status tables, Base64 (a library
  that is not in the repository), local-time formats of dates: data.
* on(method) without use, which ends the program at the first such request.
* An expired timer handler that outlives its Session: the state is in `Session`
  (`expired`, `HasRefs`), no property is stated.

## Plan

1. Done: WriteQueue, OrderedStream, Session, RequestPath, ResponsePath, UserIO,
   IoService, Parsers and the machines of `values`, with a theorem for each safety
   property that a run checks.
2. A pipelining client and trailers in Parsers; Compression's choice of an encoding;
   the boundary in Mullet::set_headers.
3. Session with the transport as a constant (a close instead of a shutdown), and its
   expired timer handlers against the life of the object.
