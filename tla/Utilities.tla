------------------------------ MODULE Utilities ------------------------------
(* What Utilities.cpp does to texts, for the parsers of requests. *)
EXTENDS Naturals, Sequences, SequencesExt

(* The pieces that the separators make of the first n characters of text. *)
Pieces(text, sep) ==
    LET pieces[n \in 0..Len(text)] ==
            IF n = 0 THEN << <<>> >>
            ELSE LET before == pieces[n - 1]
                 IN IF text[n] = sep THEN Append(before, <<>>)
                    ELSE [before EXCEPT ![Len(before)] = Append(@, text[n])]
    IN pieces

(* explode_zerocopy and explode_zerocopy_sv: no piece if there is no text. *)
ExplodeZerocopy(text, sep) == IF text = <<>> THEN <<>> ELSE Pieces(text, sep)[Len(text)]

(* What a client does: the texts with a separator between each two. *)
JoinTexts(texts, sep) ==
    FlattenSeq([i \in DOMAIN texts |-> (IF i = 1 THEN <<>> ELSE <<sep>>) \o texts[i]])
=============================================================================
