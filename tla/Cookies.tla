------------------------------- MODULE Cookies -------------------------------
(***************************************************************************)
(* RequestContext::cookies (App/Request/Request.cpp): one pass over the    *)
(* field "cookie", kept for the next call.  A cookie is sent as a name, an *)
(* "=" and a value, each perhaps with blanks around it, and cookies are    *)
(* separated by ";".                                                       *)
(***************************************************************************)
EXTENDS Utilities

CONSTANTS Names,      \* of cookies
          Values,     \* and their values, which may hold a "="
          MaxCookies  \* bound: cookies of a request

VARIABLES sent,     \* the cookies of the client
          left,     \* the parts of the field not looked at yet
          cookies   \* the member __cookies

vars == <<sent, left, cookies>>

Blanks(b) == IF b THEN <<" ">> ELSE <<>>

(* The client's cookies.  A blank value is not among them: trimming it runs
   in front of its beginning. *)
Sendable ==
    {c \in [name : Names, value : Values, pad : [1..4 -> BOOLEAN]] :
        c.value = <<>> => ~c.pad[3] /\ ~c.pad[4]}

Part(c) ==
    Blanks(c.pad[1]) \o c.name \o Blanks(c.pad[2]) \o <<"=">>
      \o Blanks(c.pad[3]) \o c.value \o Blanks(c.pad[4])

Field(list) == JoinTexts([i \in DOMAIN list |-> Part(list[i])], ";")

Init ==
    /\ sent \in UNION {[1..k -> Sendable] : k \in 0..MaxCookies}
    /\ left = ExplodeZerocopy(Field(sent), ";")
    /\ cookies = [k \in {} |-> <<>>]

Used(text) == {i \in DOMAIN text : text[i] # " "}

\* Mutant: the blanks behind a text stay.
TrimFront(text) == IF Used(text) = {} THEN <<>> ELSE SubSeq(text, Min(Used(text)), Len(text))
Trim(text) == IF Used(text) = {} THEN <<>> ELSE SubSeq(text, Min(Used(text)), Max(Used(text)))

(* One part of the field: of two cookies of one name the later stays. *)
Look ==
    /\ left # <<>>
    /\ LET part == Head(left)
           equal == SelectInSeq(part, LAMBDA c : c = "=")
           key == IF equal = 0 THEN part ELSE Trim(SubSeq(part, 1, equal - 1))
           val == IF equal = 0 THEN <<>> ELSE Trim(SubSeq(part, equal + 1, Len(part)))
       IN cookies' = [k \in DOMAIN cookies \cup {key} |-> IF k = key THEN val ELSE cookies[k]]
    /\ left' = Tail(left)
    /\ UNCHANGED sent

Next == Look

Spec == Init /\ [][Next]_vars
-----------------------------------------------------------------------------
(* However the client sets its blanks, and whatever signs a value holds, a
   handler finds each cookie under its name, with the value sent last. *)
CookiesAreAsSent ==
    left = <<>> =>
        /\ DOMAIN cookies = {sent[i].name : i \in DOMAIN sent}
        /\ \A i \in DOMAIN sent :
              (\A j \in DOMAIN sent : j > i => sent[j].name # sent[i].name)
                => cookies[sent[i].name] = sent[i].value
=============================================================================
