------------------------------- MODULE Buffers -------------------------------
(***************************************************************************)
(* Who owns the bytes of a response (Server/Buffer.cpp, Response.cpp):     *)
(* write and raw_write put what they are given into the member buf_write,  *)
(* and move it, with the size and the end of a chunk around it, into       *)
(* packages that the strand writes to the socket later.  A package from a  *)
(* pointer is a view of its caller's memory.                               *)
(***************************************************************************)
EXTENDS Naturals, Sequences, SequencesExt

CONSTANTS
    Datas,           \* what is written: sequences of characters
    CallersWait,     \* does a caller leave its memory as it is until it is written?
    MaxCalls         \* bound: calls of write and raw_write

Null == <<"null">>
View(i) == <<"at", i>>

VARIABLES
    buf_write,    \* the member of the ResponseContext
    chunk_end,    \* the static Buffer of Response.cpp, copied for each chunk
    memory,       \* the text of chunk_end, and for each call its caller's memory
    packages,     \* posted and not written
    wire,         \* what async_write has read from the packages
    passed        \* ghost: what the calls were to put on the wire

vars == <<buf_write, chunk_end, memory, packages, wire, passed>>

(* A Buffer holds one of a string, a vector and a view, as its type says; each
   pointer is null or gives the bytes, or the number of the memory viewed. *)
Types == {"str", "vec", "sv"}
Buffer(type, x) ==
    [type |-> type, held |-> [t \in Types |-> IF t = type THEN x ELSE Null]]
NoBuffer == [type |-> "none", held |-> [t \in Types |-> Null]]

(* get and size: a null pointer they follow gives no bytes of the caller's. *)
Bytes(b, mem) ==
    CASE b.type = "none" -> <<>>
      [] b.type = "sv" /\ b.held.sv # Null -> mem[b.held.sv[2]]
      [] OTHER -> b.held[b.type]

(* assign of a new value frees no member of another type. *)
Assigned(b, type, x) == [type |-> type, held |-> [b.held EXCEPT ![type] = x]]

(* move_assign into a new Buffer, and what it leaves: the type stays. *)
Moved(b) == IF b.type = "none" THEN NoBuffer ELSE Buffer(b.type, b.held[b.type])
MovedFrom(b) == IF b.type = "none" THEN b ELSE [b EXCEPT !.held[b.type] = Null]

(* assign(const Buffer&), and what it leaves. *)
Copied(b) == Moved(b)

\* Mutant: a copy takes the pointer.
CopyTakes(b) == MovedFrom(b)
CopiedFrom(b) == b

ChunkHeader(size) == Buffer("vec", <<"size", size>>)
CRLF == <<"CR", "LF">>
Reused == <<"reused">>

Init ==
    /\ buf_write = NoBuffer
    /\ chunk_end = Buffer("sv", View(1)) /\ memory = <<CRLF>>
    /\ packages = <<>> /\ wire = <<>> /\ passed = <<>>

(* A call by value, or by a pointer to memory of the caller's. *)
Calls ==
    {[type |-> t, data |-> d, mem |-> Append(memory, d),
      buf |-> Assigned(buf_write, t, IF t = "sv" THEN View(Len(memory) + 1) ELSE d)] :
        t \in Types, d \in Datas}

MayCall == Len(memory) <= MaxCalls

Write ==
    /\ MayCall
    /\ \E call \in Calls :
          /\ packages' = packages \o
                <<ChunkHeader(Len(Bytes(call.buf, call.mem))), Moved(call.buf), Copied(chunk_end)>>
          /\ buf_write' = MovedFrom(call.buf) /\ memory' = call.mem
          /\ passed' = passed \o <<<<"size", Len(call.data)>>, call.data, CRLF>>
    /\ chunk_end' = CopiedFrom(chunk_end)
    /\ UNCHANGED wire

RawWrite ==
    /\ MayCall
    /\ \E call \in Calls :
          /\ packages' = Append(packages, Moved(call.buf))
          /\ buf_write' = MovedFrom(call.buf) /\ memory' = call.mem
          /\ passed' = Append(passed, call.data)
    /\ UNCHANGED <<chunk_end, wire>>

(* The strand writes the first of the packages to the socket. *)
Transmit ==
    /\ packages # <<>>
    /\ wire' = Append(wire, Bytes(Head(packages), memory)) /\ packages' = Tail(packages)
    /\ UNCHANGED <<buf_write, chunk_end, memory, passed>>

Views(i) == \E k \in DOMAIN packages : packages[k].held.sv = View(i)

(* A caller puts something else into its memory, or gives it back. *)
CallerReuses ==
    /\ \E i \in DOMAIN memory \ {1} :
          /\ CallersWait => ~Views(i)
          /\ memory[i] # Reused /\ memory' = [memory EXCEPT ![i] = Reused]
    /\ UNCHANGED <<buf_write, chunk_end, packages, wire, passed>>

Next == Write \/ RawWrite \/ Transmit \/ CallerReuses

Spec == Init /\ [][Next]_vars
-----------------------------------------------------------------------------
(* What is read from the packages in the end is what the calls were given,
   chunk by chunk with its size and its end: no move empties a Buffer that is
   used again, no chunk's size is of other data, and what is still in buf_write
   from an earlier call never goes out. *)
WireIsWhatWasPassed == IsPrefix(wire, passed)
=============================================================================
