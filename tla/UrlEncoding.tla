----------------------------- MODULE UrlEncoding -----------------------------
(***************************************************************************)
(* The escapes of Protocol::HTTP::Parser (Protocol/HTTP/Parser.cpp): two   *)
(* tables of the characters that stay, the loop that writes a text with    *)
(* one of them, and the loops that read it, each into a buffer whose size  *)
(* its caller has worked out from that of the text.                        *)
(*                                                                         *)
(* A client may escape more than the tables ask for, and a text of its     *)
(* own may look like an escape.                                            *)
(***************************************************************************)
EXTENDS Naturals, Sequences

CONSTANTS Tables,     \* "urlcomponent", "url"
          MaxLength   \* bound: characters of a text

VARIABLES
    table,   \* the table of this text
    phase,   \* the loop that runs: "encode" or "decode"
    src,     \* what it has not read
    dst,     \* what it has written
    size,    \* of its buffer
    means    \* what reading must give

vars == <<table, phase, src, dst, size, means>>

(* Some of the characters, and their escapes. *)
Chars == {"2", "5", "=", "&", "+", "%"}
Digits == {"2", "3", "5", "6", "B", "D"}
Hex == [c \in Chars |->
    IF c = "2" THEN <<"3", "2">> ELSE IF c = "5" THEN <<"3", "5">>
    ELSE IF c = "=" THEN <<"3", "D">> ELSE IF c = "&" THEN <<"2", "6">>
    ELSE IF c = "+" THEN <<"2", "B">> ELSE <<"2", "5">>]
Escape(c) == <<"%">> \o Hex[c]

Separators == {"=", "&", "+"}

\* Mutant: the "%" is one of the characters that stay.
KeepsPercent(t) == {"2", "5", "%"} \cup (IF t = "url" THEN Separators ELSE {})

(* encode_table_urlcomponent and encode_table_url: neither has the "%". *)
Keeps(t) == {"2", "5"} \cup (IF t = "url" THEN Separators ELSE {})

Init ==
    /\ table \in Tables
    /\ src \in UNION {[1..n -> Chars] : n \in 0..MaxLength}
    /\ phase = "encode" /\ dst = <<>> /\ size = 3 * Len(src) + 1 /\ means = <<>>

(* What the escape of c is read as: decodeURI leaves separators escaped, so
   that who splits the text at separators does not take them for his own. *)
Unescape(c) ==
    IF table = "url" /\ c \in Separators THEN Escape(c) ELSE <<c>>

(* url_encode, or a client that escapes what it likes. *)
Encode ==
    /\ phase = "encode" /\ src # <<>>
    /\ LET c == Head(src)
       IN \/ c \in Keeps(table) /\ dst' = Append(dst, c) /\ means' = Append(means, c)
          \/ /\ dst' = dst \o Escape(c)
             /\ means' = means \o (IF table = "url" /\ c \in Separators THEN Escape(c) ELSE <<c>>)
    /\ src' = Tail(src)
    /\ UNCHANGED <<table, phase, size>>

(* decodeURI and decodeURIComponent are called with the text. *)
Decode ==
    /\ phase = "encode" /\ src = <<>>
    /\ phase' = "decode" /\ src' = dst /\ dst' = <<>> /\ size' = Len(dst)
    /\ UNCHANGED <<table, means>>

AtEscape == Len(src) >= 3 /\ src[1] = "%" /\ src[2] \in Digits /\ src[3] \in Digits

DecodeEscape ==
    /\ phase = "decode" /\ AtEscape
    /\ \E c \in Chars :
          /\ Hex[c] = <<src[2], src[3]>>
          /\ dst' = dst \o Unescape(c)
    /\ src' = SubSeq(src, 4, Len(src))
    /\ UNCHANGED <<table, phase, size, means>>

DecodeOther ==
    /\ phase = "decode" /\ src # <<>> /\ ~AtEscape
    /\ dst' = Append(dst, Head(src)) /\ src' = Tail(src)
    /\ UNCHANGED <<table, phase, size, means>>

Next == Encode \/ Decode \/ DecodeEscape \/ DecodeOther

Spec == Init /\ [][Next]_vars
-----------------------------------------------------------------------------
(* A text that is escaped, by Marisa or by a client with other habits, is read
   again as it was, also when it holds what looks like an escape; decodeURI
   keeps the separators that were escaped apart from those that were not; and
   no loop writes past its buffer. *)
EscapesRoundTrip ==
    /\ phase = "decode" /\ src = <<>> => dst = means
    /\ Len(dst) <= size
=============================================================================
