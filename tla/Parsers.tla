------------------------------- MODULE Parsers -------------------------------
(***************************************************************************)
(* What the callbacks of HTTP1::Parser (HTTP1/Parser.cpp) and of Mullet    *)
(* (Types/Mullet.cpp) keep of a request with a multipart body.  http_parser *)
(* and MultipartParser report a text (a URL, a name, a value, a part's     *)
(* data) in as many calls as the reads of the connection cut it into, so   *)
(* each callback must tell a new text from more of the same one.           *)
(*                                                                         *)
(* A text is a sequence of characters.  "A" is the capital of "a", and an  *)
(* escape such as %26 is one character.                                    *)
(***************************************************************************)
EXTENDS Utilities, TLC

CONSTANTS Names,      \* names of header fields
          Values,     \* their values
          Params,     \* parameters of a query: in their names and values
                      \* "?", "&" and "=" are escaped
          Datas,      \* data of the parts of a body
          MaxParts,   \* bound: parts of the body
          MaxLines    \* bound: parameters, headers and headers of parts, in all

ASSUME TextsAssumption ==
    /\ MaxParts \in Nat /\ MaxLines \in Nat
    /\ Names \subseteq Seq(STRING) \ {<<>>} /\ Values \subseteq Seq(STRING)
    /\ Params \subseteq Seq(STRING) \ {<<>>} /\ Datas \subseteq Seq(STRING)
    /\ \A p \in Params : /\ \A i \in DOMAIN p : p[i] \notin {"?", "&"}
                         /\ \A i, j \in DOMAIN p : p[i] = "=" /\ p[j] = "=" => i = j

VARIABLES
    doc,    \* the request: query, headers and parts of its body
    at,     \* the text the libraries report next, and what is left of it
    hp,     \* HTTP1::Parser
    mp,     \* Mullet
    taken   \* data the handler has taken out of each part

vars == <<doc, at, hp, mp, taken>>

Line == [field : Names, value : Values]
Lines(n) == UNION {[1..k -> Line] : k \in 0..n}
Queries(n) == UNION {[1..k -> Params] : k \in 0..n}

(* A name may repeat.  Parameters are as encodeURIComponent makes them: parse_url
   reads the first element of an empty vector for an empty one ("&&"), drops the
   query of a second "?", and the value of a parameter with a second "=". *)
Requests ==
    {d \in [query : Queries(MaxLines), headers : Lines(MaxLines),
            parts : UNION {[1..k -> [headers : Lines(MaxLines), data : Datas]]
                             : k \in 0..MaxParts}] :
        Len(d.query) + Len(d.headers)
          + Len(FlattenSeq([i \in DOMAIN d.parts |-> d.parts[i].headers])) <= MaxLines}

UrlText(d) ==
    <<"/">> \o (IF d.query = <<>> THEN <<>> ELSE <<"?">> \o JoinTexts(d.query, "&"))

-----------------------------------------------------------------------------
(* The calls of http_parser and of MultipartParser: which callback is next,
   for which line of the header of the request (part 0) or of a part. *)

At(cb, part, line, text) == [cb |-> cb, part |-> part, line |-> line, left |-> text]

LinesOf(part) == IF part = 0 THEN doc.headers ELSE doc.parts[part].headers

(* A line, or what follows the last one: data that is empty is not reported. *)
LineAt(part, line) ==
    IF line <= Len(LinesOf(part)) THEN At("field", part, line, LinesOf(part)[line].field)
    ELSE IF part = 0 THEN At("headers_complete", part, line, <<>>)
    ELSE IF doc.parts[part].data = <<>> THEN At("part_end", part, line, <<>>)
    ELSE At("data", part, line, doc.parts[part].data)

PartAt(part) == At(IF part <= Len(doc.parts) THEN "part_begin" ELSE "end", part, 0, <<>>)

Cuts == 0..Len(at.left)
Piece(n) == SubSeq(at.left, 1, n)

(* The callback cb is given n characters.  If a read ends where a text does, it
   may be called once more with none. *)
Reports(cb, n, next) ==
    /\ at.cb = cb /\ (n = 0 => at.left = <<>>)
    /\ \/ n = Len(at.left) /\ at' = next
       \/ /\ n # 0 /\ (n = Len(at.left) => cb # "data")
          /\ at' = At(cb, at.part, at.line, SubSeq(at.left, n + 1, Len(at.left)))

-----------------------------------------------------------------------------
(* Containers and texts *)

NoEntries == [k \in {} |-> <<>>]

(* unordered_map::insert leaves an entry that is there. *)
Insert(map, key, val) ==
    [k \in DOMAIN map \cup {key} |-> IF k \in DOMAIN map THEN map[k] ELSE val]

Lower(name) == [i \in DOMAIN name |-> IF name[i] = "A" THEN "a" ELSE name[i]]

Decode(text) ==
    [i \in DOMAIN text |-> CASE text[i] = "%26" -> "&" [] text[i] = "%3D" -> "="
                             [] OTHER -> text[i]]

KeyValue(param) ==
    LET kv == ExplodeZerocopy(param, "=")
    IN <<Decode(kv[1]), IF Len(kv) = 2 THEN Decode(kv[2]) ELSE <<>>>>

(* The map that inserting the pairs one after the other makes. *)
InsertAll(pairs) ==
    LET map[n \in 0..Len(pairs)] ==
            IF n = 0 THEN NoEntries ELSE Insert(map[n - 1], pairs[n][1], pairs[n][2])
    IN map[Len(pairs)]

ParseUrl(url_raw) ==
    LET cut == ExplodeZerocopy(url_raw, "?")
        params == IF Len(cut) = 2 THEN ExplodeZerocopy(cut[2], "&") ELSE <<>>
    IN [url |-> cut[1], query |-> InsertAll([i \in DOMAIN params |-> KeyValue(params[i])])]

(* The copies of a map under its keys in lower case: of keys that differ in
   case only, the one that comes first in the table. *)
LowerCopies(map) ==
    {m \in [{Lower(k) : k \in DOMAIN map} -> {map[k] : k \in DOMAIN map}] :
        \A l \in DOMAIN m : \E k \in DOMAIN map : Lower(k) = l /\ m[l] = map[k]}

-----------------------------------------------------------------------------
(* HTTP1::Parser *)

Init ==
    /\ doc \in Requests
    /\ at = At("url", 0, 0, UrlText(doc))
    /\ hp = [last_data_cb |-> "none", last_field |-> <<>>, last_value |-> <<>>,
             headers |-> NoEntries, headers_lowercase |-> NoEntries,
             url_raw |-> <<>>, url |-> <<>>, query |-> NoEntries, header_finished |-> FALSE]
    /\ mp = [last_handler |-> 0, last_field |-> <<>>, last_value |-> <<>>,
             parts |-> <<>>, done |-> FALSE]
    /\ taken = [i \in 1..MaxParts |-> <<>>]

CallbackUrl ==
    \E n \in Cuts :
        /\ Reports("url", n, LineAt(0, 1))
        /\ hp' = [hp EXCEPT !.url_raw = @ \o Piece(n)]
        /\ UNCHANGED <<doc, mp, taken>>

(* The field that ends is inserted; the strings moved out of are empty. *)
InsertLast(p) ==
    IF p.last_field = <<>> THEN p
    ELSE [p EXCEPT !.headers = Insert(@, p.last_field, p.last_value),
                   !.last_field = <<>>, !.last_value = <<>>]

HeaderField(x) ==
    IF hp.last_data_cb = "field" THEN [hp EXCEPT !.last_field = @ \o x]
    ELSE [InsertLast(hp) EXCEPT !.last_field = x, !.last_data_cb = "field"]

\* Mutant: a value that goes on replaces its beginning.
HeaderValueAssigned(x) == [hp EXCEPT !.last_value = x, !.last_data_cb = "value"]

HeaderValue(x) ==
    [hp EXCEPT !.last_value = IF hp.last_data_cb = "value" THEN @ \o x ELSE x,
               !.last_data_cb = "value"]

CallbackHeaderField ==
    \E n \in Cuts :
        /\ at.part = 0
        /\ Reports("field", n, At("value", 0, at.line, LinesOf(0)[at.line].value))
        /\ hp' = HeaderField(Piece(n))
        /\ UNCHANGED <<doc, mp, taken>>

CallbackHeaderValue ==
    \E n \in Cuts :
        /\ at.part = 0
        /\ Reports("value", n, LineAt(0, at.line + 1))
        /\ hp' = HeaderValue(Piece(n))
        /\ UNCHANGED <<doc, mp, taken>>

CallbackHeadersComplete ==
    /\ Reports("headers_complete", 0, PartAt(1))
    /\ LET p == InsertLast(hp)
           u == ParseUrl(hp.url_raw)
       IN \E lower \in LowerCopies(p.headers) :
             hp' = [p EXCEPT !.url = u.url, !.query = u.query,
                             !.headers_lowercase = lower, !.header_finished = TRUE]
    /\ UNCHANGED <<doc, mp, taken>>

-----------------------------------------------------------------------------
(* Mullet: last_handler is 2 for a field, 3 for a value and 4 for data. *)

EditBack(parts, part) == [parts EXCEPT ![Len(parts)] = part]
NewPart == [headers |-> NoEntries, headers_lowercase |-> NoEntries, data |-> <<>>,
            done |-> FALSE]


OnPartBegin ==
    /\ Reports("part_begin", 0, LineAt(at.part, 1))
    /\ mp' = [mp EXCEPT !.parts = Append(@, NewPart)]
    /\ UNCHANGED <<doc, hp, taken>>

(* The header that ends is inserted into the part at the back. *)
InsertLastInPart ==
    IF mp.last_handler # 3 THEN mp
    ELSE LET back == Last(mp.parts)
         IN [mp EXCEPT !.last_field = <<>>, !.last_value = <<>>,
                       !.parts = EditBack(@, [back EXCEPT
                           !.headers = Insert(@, mp.last_field, mp.last_value)])]

OnHeaderField ==
    \E n \in Cuts :
        /\ at.part # 0
        /\ Reports("field", n, At("value", at.part, at.line, LinesOf(at.part)[at.line].value))
        /\ mp' = IF mp.last_handler = 2 THEN [mp EXCEPT !.last_field = @ \o Piece(n)]
                 ELSE [InsertLastInPart EXCEPT !.last_handler = 2, !.last_field = Piece(n)]
        /\ UNCHANGED <<doc, hp, taken>>

OnHeaderValue ==
    \E n \in Cuts :
        /\ at.part # 0
        /\ Reports("value", n, LineAt(at.part, at.line + 1))
        /\ mp' = [mp EXCEPT !.last_handler = 3,
                            !.last_value = IF mp.last_handler = 3 THEN @ \o Piece(n)
                                           ELSE Piece(n)]
        /\ UNCHANGED <<doc, hp, taken>>

\* Mutant: the last header is inserted only when another one begins.
PartDataLosesHeader(x) ==
    LET back == Last(mp.parts)
    IN [mp EXCEPT !.last_handler = 4,
                  !.parts = EditBack(@, [back EXCEPT
                      !.data = IF mp.last_handler = 4 THEN @ \o x ELSE x])]

PartData(x) ==
    LET m == InsertLastInPart
        back == Last(m.parts)
    IN [m EXCEPT !.last_handler = 4,
                 !.parts = EditBack(@, [back EXCEPT
                     !.data = IF mp.last_handler = 4 THEN @ \o x ELSE x])]

OnPartData ==
    \E n \in Cuts :
        /\ Reports("data", n, At("part_end", at.part, at.line, <<>>))
        /\ mp' = PartData(Piece(n))
        /\ UNCHANGED <<doc, hp, taken>>

OnPartEnd ==
    /\ Reports("part_end", 0, PartAt(at.part + 1))
    /\ LET back == Last(mp.parts)
       IN \E lower \in LowerCopies(back.headers) :
             mp' = [mp EXCEPT !.parts =
                       EditBack(@, [back EXCEPT !.headers_lowercase = lower, !.done = TRUE])]
    /\ UNCHANGED <<doc, hp, taken>>

OnEnd ==
    /\ Reports("end", 0, At("none", at.part, 0, <<>>))
    /\ mp' = [mp EXCEPT !.done = TRUE]
    /\ UNCHANGED <<doc, hp, taken>>

(* Between two reads a handler may take the data that is there. *)
TakeData(i) ==
    /\ i <= Len(mp.parts) /\ mp.parts[i].data # <<>>
    /\ taken' = [taken EXCEPT ![i] = @ \o mp.parts[i].data]
    /\ mp' = [mp EXCEPT !.parts[i].data = <<>>]
    /\ UNCHANGED <<doc, at, hp>>

Next ==
    \/ CallbackUrl \/ CallbackHeaderField \/ CallbackHeaderValue \/ CallbackHeadersComplete
    \/ OnPartBegin \/ OnHeaderField \/ OnHeaderValue \/ OnPartData \/ OnPartEnd \/ OnEnd
    \/ \E i \in 1..MaxParts : TakeData(i)

Spec == Init /\ [][Next]_vars
-----------------------------------------------------------------------------
(* What a list of header lines means: for each name, its first value. *)
Meaning(lines) ==
    [f \in {lines[i].field : i \in DOMAIN lines} |->
        lines[CHOOSE i \in DOMAIN lines :
                 lines[i].field = f /\ \A j \in 1..(i - 1) : lines[j].field # f].value]

(* What a query means: for each name, the value of the first parameter that
   has it, both unescaped. *)
Equals(param) == SelectInSeq(param, LAMBDA c : c = "=")
Name(param) == Decode(IF Equals(param) = 0 THEN param ELSE SubSeq(param, 1, Equals(param) - 1))
Value(param) ==
    IF Equals(param) = 0 THEN <<>>
    ELSE Decode(SubSeq(param, Equals(param) + 1, Len(param)))
QueryMeaning(params) ==
    Meaning([i \in DOMAIN params |->
                [field |-> Name(params[i]), value |-> Value(params[i])]])

(* However the reads cut a request, what its middlewares find is what the
   client sent: each header with its whole name and its first whole value, under
   its name in lower case as well, the path, and the query unescaped. *)
RequestIsAsSent ==
    hp.header_finished =>
        /\ hp.headers = Meaning(doc.headers)
        /\ hp.headers_lowercase \in LowerCopies(Meaning(doc.headers))
        /\ hp.url = <<"/">> /\ hp.query = QueryMeaning(doc.query)

(* A part that is done has the headers and the data of that part of the body
   and of no other, counting what the handler has taken meanwhile, and when
   Mullet is done there is one for each. *)
PartsAreAsSent ==
    /\ \A i \in DOMAIN mp.parts : mp.parts[i].done =>
          /\ mp.parts[i].headers = Meaning(doc.parts[i].headers)
          /\ taken[i] \o mp.parts[i].data = doc.parts[i].data
    /\ mp.done => /\ Len(mp.parts) = Len(doc.parts)
                  /\ \A i \in DOMAIN mp.parts : mp.parts[i].done
=============================================================================
