---------------------------- MODULE OrderedStream ----------------------------
(***************************************************************************)
(* What a Session promises to the middlewares that write to it: the writes *)
(* form one stream.  They reach the peer in the order in which they were   *)
(* posted until the stream breaks, and each is answered at most once, in   *)
(* that order: "ok" when the peer got it, "error" when the stream broke    *)
(* before that.  The stream does not promise that every write is answered. *)
(***************************************************************************)
EXTENDS Naturals, Sequences

CONSTANT MaxWrites   \* a natural number: writes ever posted

VARIABLES posted,   \* number of writes posted
          wire,     \* the writes the peer got
          promise,  \* the answer to each write
          broken    \* the stream has broken

vars == <<posted, wire, promise, broken>>

Init ==
    /\ posted = 0 /\ wire = << >> /\ broken = FALSE
    /\ promise = [k \in 1..MaxWrites |-> "none"]

Post ==
    /\ posted < MaxWrites
    /\ posted' = posted + 1
    /\ UNCHANGED <<wire, promise, broken>>

Transmit ==
    /\ ~broken /\ Len(wire) < posted
    /\ wire' = Append(wire, Len(wire) + 1)
    /\ UNCHANGED <<posted, promise, broken>>

Break ==
    /\ ~broken /\ broken' = TRUE
    /\ UNCHANGED <<posted, wire, promise>>

Answer(k) ==
    /\ k <= posted /\ promise[k] = "none"
    /\ \A j \in 1..(k - 1) : promise[j] # "none"
    /\ \/ k <= Len(wire) /\ promise' = [promise EXCEPT ![k] = "ok"]
       \/ /\ k > Len(wire) /\ broken
          /\ promise' = [promise EXCEPT ![k] = "error"]
    /\ UNCHANGED <<posted, wire, broken>>

Next == Post \/ Transmit \/ Break \/ \E k \in 1..MaxWrites : Answer(k)

Spec == Init /\ [][Next]_vars
=============================================================================
