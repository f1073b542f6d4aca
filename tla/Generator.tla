------------------------------ MODULE Generator ------------------------------
(***************************************************************************)
(* HTTP1::Generator::generate_headers (HTTP1/Generator.cpp), which writes  *)
(* a header block into a vector it resizes as it goes: what counts are the *)
(* lengths, and which bytes are in the vector when they are written and    *)
(* still in it, and not zeroed, at the end.                                *)
(***************************************************************************)
EXTENDS Integers, Sequences

CONSTANTS
    StatusLengths,  \* of the lines of http1_status_map, and 0 for no line
    HeaderLengths,  \* [field, value] of a header
    Digits,         \* of the two numbers of keepalive_config, 0 if it is off
    MaxHeaders      \* bound: headers of a response

VARIABLES
    step,     \* "status", "headers", "keepalive", "end", "done"
    left,     \* headers not written
    keep,     \* digits of the timeout and of the maximum
    pos,      \* written so far
    length,   \* size of the vector
    kept      \* the bytes of the vector's beginning that are as they were written

vars == <<step, left, keep, pos, length, kept>>

Init ==
    /\ step = "status"
    /\ left \in UNION {[1..n -> HeaderLengths] : n \in 0..MaxHeaders}
    /\ keep \in Digits \X (Digits \ {0})
    /\ pos = 0 /\ length = 50 /\ kept = 0

Least(a, b) == IF a < b THEN a ELSE b

(* n bytes are written to a vector that has been resized to size: those past
   its end are lost, zeroed by the next resize that makes it longer. *)
WriteAt(size, n) ==
    /\ length' = size
    /\ pos' = pos + n
    /\ kept' = IF kept = pos THEN Least(pos + n, size) ELSE Least(kept, size)

WriteStatus ==
    /\ step = "status"
    /\ \E n \in StatusLengths : WriteAt(length, n)
    /\ step' = "headers"
    /\ UNCHANGED <<left, keep>>

HeaderSize(h) == h.field + h.value + 2 + 2

\* Mutant: the room for a header leaves out its CR and LF.
RoomOfText(h) == pos + h.field + h.value + 2
RoomFor(h) == pos + HeaderSize(h)

WriteHeader ==
    /\ step = "headers" /\ left # <<>>
    /\ WriteAt(RoomFor(Head(left)), HeaderSize(Head(left)))
    /\ left' = Tail(left)
    /\ UNCHANGED <<step, keep>>

HeadersWritten ==
    /\ step = "headers" /\ left = <<>>
    /\ step' = IF keep[1] > 0 THEN "keepalive" ELSE "end"
    /\ UNCHANGED <<left, keep, pos, length, kept>>

(* "Connection: Keep-Alive\r\nKeep-Alive: timeout=", "%u, max=%u\r\n" *)
WriteKeepAlive ==
    /\ step = "keepalive"
    /\ WriteAt(pos + 64, 44 + keep[1] + 6 + keep[2] + 2)
    /\ step' = "end"
    /\ UNCHANGED <<left, keep>>

WriteEnd ==
    /\ step = "end"
    /\ WriteAt(pos + 2, 2)
    /\ step' = "done"
    /\ UNCHANGED <<left, keep>>

Next == WriteStatus \/ WriteHeader \/ HeadersWritten \/ WriteKeepAlive \/ WriteEnd

Spec == Init /\ [][Next]_vars
-----------------------------------------------------------------------------
(* What the lengths are taken to be: the longest line of the map has 46
   characters, and the two numbers of the configuration have 12 digits
   together at most. *)
LengthsFit ==
    /\ StatusLengths \subseteq 0..50
    /\ HeaderLengths \subseteq [field : Nat, value : Nat]
    /\ Digits \subseteq Nat /\ \A a, b \in Digits : a + b <= 12

(* The block that is sent holds every byte that was written and no others:
   for each status, any headers and numbers of the configuration's size, no
   write is past the vector and no resize cuts one off or zeroes it. *)
HeaderBlockIsWhole ==
    /\ kept = pos
    /\ step = "done" => length = pos
=============================================================================
