-------------------------------- MODULE Values --------------------------------
(***************************************************************************)
(* The values that requests are read from and responses are made of.  Each *)
(* machine has constants and variables of its own and none knows of        *)
(* another, so a behaviour is one of one of them: which says of which.     *)
(* The names of Parsers are taken as they are, those of the others behind a *)
(* prefix.                                                                 *)
(***************************************************************************)
EXTENDS Integers, Sequences, Parsers

CONSTANTS DateTexts, Times,
          Tables, MaxLength,
          CookieNames, CookieValues, MaxCookies,
          Patterns, Urls, Captures, Methods, MaxRoutes, MaxUses,
          MaxChanges,
          StatusLengths, HeaderLengths, NumberLengths, MaxHeaders,
          Passable, CallersWait, MaxCalls

ASSUME TargetsAssumption ==
    /\ Captures \in [Patterns -> [Urls -> Seq(STRING)]]
    /\ "*" \notin Patterns /\ "ALL" \notin Methods

(* Of a cookie, only the value may be empty or hold a "=", and both may hold a blank
   in the middle, which is more than RFC 6265 lets a client send. *)
ASSUME CookiesAssumption ==
    /\ MaxCookies \in Nat
    /\ CookieNames \subseteq Seq(STRING) \ {<<>>} /\ CookieValues \subseteq Seq(STRING)
    /\ \A n \in CookieNames : \A i \in DOMAIN n : n[i] # "="
    /\ \A t \in CookieNames \cup CookieValues :
          /\ \A i \in DOMAIN t : t[i] # ";"
          /\ t # <<>> => t[1] # " " /\ t[Len(t)] # " "

VARIABLES which,
          date, meant,
          table, phase, src, dst, size, means,
          sent, left, cookies,
          route_mapping, route_global, log, stage, search, answer,
          request, what, seen, step, client, out,
          line, unwritten, keep, pos, length, kept,
          buf_write, chunk_end, memory, packages, wire, passed

reading == <<doc, at, hp, mp, taken>>
dates == <<date, meant>>
escapes == <<table, phase, src, dst, size, means>>
jar == <<sent, left, cookies>>
routes == <<route_mapping, route_global, log, stage, search, answer>>
files == <<request, what, seen, step, client, out>>
block == <<line, unwritten, keep, pos, length, kept>>
buffers == <<buf_write, chunk_end, memory, packages, wire, passed>>
all == <<which, reading, dates, escapes, jar, routes, files, block, buffers>>

DT == INSTANCE Dates WITH Texts <- DateTexts
UE == INSTANCE UrlEncoding
CK == INSTANCE Cookies WITH Names <- CookieNames, Values <- CookieValues
RT == INSTANCE Routing
SF == INSTANCE StaticFiles
HG == INSTANCE Generator WITH step <- line, left <- unwritten, Digits <- NumberLengths
BF == INSTANCE Buffers WITH Datas <- Passable

(* The variables of a machine that does not run. *)
NoReading == doc = 0 /\ at = 0 /\ hp = 0 /\ mp = 0 /\ taken = 0
NoDates == date = 0 /\ meant = 0
NoEscapes == table = 0 /\ phase = 0 /\ src = 0 /\ dst = 0 /\ size = 0 /\ means = 0
NoJar == sent = 0 /\ left = 0 /\ cookies = 0
NoRoutes ==
    /\ route_mapping = 0 /\ route_global = 0 /\ log = 0
    /\ stage = 0 /\ search = 0 /\ answer = 0
NoFiles ==
    /\ request = 0 /\ what = 0 /\ seen = 0 /\ step = 0 /\ client = 0 /\ out = 0
NoBlock == line = 0 /\ unwritten = 0 /\ keep = 0 /\ pos = 0 /\ length = 0 /\ kept = 0
NoBuffers ==
    /\ buf_write = 0 /\ chunk_end = 0 /\ memory = 0
    /\ packages = 0 /\ wire = 0 /\ passed = 0

ValuesInit ==
    /\ which \in {"Parsers", "Dates", "UrlEncoding", "Cookies", "Routing", "StaticFiles", "Generator",
                  "Buffers"}
    /\ IF which = "Parsers" THEN Init ELSE NoReading
    /\ IF which = "Dates" THEN DT!Init ELSE NoDates
    /\ IF which = "UrlEncoding" THEN UE!Init ELSE NoEscapes
    /\ IF which = "Cookies" THEN CK!Init ELSE NoJar
    /\ IF which = "Routing" THEN RT!Init ELSE NoRoutes
    /\ IF which = "StaticFiles" THEN SF!Init ELSE NoFiles
    /\ IF which = "Generator" THEN HG!Init ELSE NoBlock
    /\ IF which = "Buffers" THEN BF!Init ELSE NoBuffers

ValuesNext ==
    \/ /\ which = "Parsers" /\ Next
       /\ UNCHANGED <<which, dates, escapes, jar, routes, files, block, buffers>>
    \/ /\ which = "Dates" /\ DT!Next
       /\ UNCHANGED <<which, reading, escapes, jar, routes, files, block, buffers>>
    \/ /\ which = "UrlEncoding" /\ UE!Next
       /\ UNCHANGED <<which, reading, dates, jar, routes, files, block, buffers>>
    \/ /\ which = "Cookies" /\ CK!Next
       /\ UNCHANGED <<which, reading, dates, escapes, routes, files, block, buffers>>
    \/ /\ which = "Routing" /\ RT!Next
       /\ UNCHANGED <<which, reading, dates, escapes, jar, files, block, buffers>>
    \/ /\ which = "StaticFiles" /\ SF!Next
       /\ UNCHANGED <<which, reading, dates, escapes, jar, routes, block, buffers>>
    \/ /\ which = "Generator" /\ HG!Next
       /\ UNCHANGED <<which, reading, dates, escapes, jar, routes, files, buffers>>
    \/ /\ which = "Buffers" /\ BF!Next
       /\ UNCHANGED <<which, reading, dates, escapes, jar, routes, files, block>>

ValuesSpec == ValuesInit /\ [][ValuesNext]_all
-----------------------------------------------------------------------------
(* However the reads cut a request, what its middlewares find is what the client
   sent (HTTP1/Parser.cpp). *)
RequestArrives == which = "Parsers" => RequestIsAsSent

(* Each part of a body has the headers and data it was sent with (Mullet.cpp). *)
PartsArrive == which = "Parsers" => PartsAreAsSent

(* A Date tells the instant last assigned, whatever it held before (Date.cpp). *)
DateIsWhatWasAssigned == which = "Dates" => DT!DateIsWhatWasAssigned

(* A text that is escaped and read again is as it was, within the buffers of the
   loops (HTTP/Parser.cpp). *)
EscapesRoundTrip == which = "UrlEncoding" => UE!EscapesRoundTrip

(* A handler finds the client's cookies however blanks are set around them
   (RequestContext::cookies). *)
CookiesAreAsSent == which = "Cookies" => CK!CookiesAreAsSent

(* A request runs the middlewares the program's calls of route, on and use have
   asked for (App.cpp, Route.cpp, Context.cpp). *)
RequestIsServedByItsRoute == which = "Routing" => RT!RequestIsServedByItsRoute

(* StaticFiles gives one response, true of something that was at the path while
   the client waited. *)
AnswerIsTrue == which = "StaticFiles" => SF!AnswerIsTrue

(* The header block that is sent is the one that was written (HTTP1/Generator.cpp). *)
HeaderBlockIsWhole == which = "Generator" => HG!HeaderBlockIsWhole

(* The bytes on the wire are those passed to write and raw_write, in their chunks
   (Buffer.cpp, Response.cpp). *)
WireIsWhatWasPassed == which = "Buffers" => BF!WireIsWhatWasPassed
=============================================================================
