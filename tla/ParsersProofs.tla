---------------------------- MODULE ParsersProofs ----------------------------
(***************************************************************************)
(* Theorems about Parsers, for requests of any number of headers and of    *)
(* parts, any texts, and any way to cut them into reads.                   *)
(***************************************************************************)
EXTENDS Parsers, SequenceTheorems, WellFoundedInduction, TLAPS

(* A set of numbers has a least one. *)
LEMMA LeastNatural ==
    ASSUME NEW T, T \subseteq Nat, T # {} PROVE \E x \in T : \A y \in T : x <= y
<1>1. IsWellFoundedOn(OpToRel(<, Nat), Nat)
  BY NatLessThanWellFounded
<1>2. \E x \in T : \A y \in T : ~(<<y, x>> \in OpToRel(<, Nat))
  BY <1>1, WFMin, Zenon
<1>3. \A x, y \in Nat : ~(<<y, x>> \in OpToRel(<, Nat)) => x <= y
  BY DEF OpToRel
<1> QED BY <1>2, <1>3

(* What holds of 0, and of n if of n - 1, holds of every number up to N. *)
LEMMA Induction ==
    ASSUME NEW N \in Nat, NEW T, 0 \in T, \A n \in 1..N : n - 1 \in T => n \in T
    PROVE  \A n \in 0..N : n \in T
<1> DEFINE Other == {n \in 0..N : n \notin T}
<1>1. SUFFICES ASSUME Other # {} PROVE FALSE
  OBVIOUS
<1>2. Other \subseteq Nat
  OBVIOUS
<1>3. PICK n \in Other : \A m \in Other : n <= m
  <2> HIDE DEF Other
  <2> QED BY <1>1, <1>2, LeastNatural
<1>4. n \in 0..N /\ n \notin T /\ n # 0
  BY <1>3
<1>5. n \in 1..N /\ n - 1 \in 0..N /\ n - 1 < n
  BY <1>4
<1>6. n - 1 \notin Other
  <2> HIDE DEF Other
  <2> QED BY <1>2, <1>3, <1>4, <1>5
<1>7. n - 1 \in T
  BY <1>5, <1>6
<1> QED BY <1>4, <1>5, <1>7

(* A function that is defined by recursion over 0..N exists. *)
StaysIn(S, N, step) == \A n \in 1..N : \A x \in S : step[n][x] \in S
Repeats(g, S, N, base, step) ==
    /\ g[0] = base /\ \A n \in 0..N : g[n] \in S
    /\ \A n \in 1..N : g[n] = step[n][g[n - 1]]

LEMMA Recursion ==
    ASSUME NEW N \in Nat, NEW S, NEW base \in S, NEW step, StaysIn(S, N, step)
    PROVE  \E g : Repeats(g, S, N, base, step)
<1>0. \A n \in 1..N : \A x \in S : step[n][x] \in S
  BY DEF StaysIn
<1> DEFINE Good(g, m) == /\ g[0] = base /\ \A i \in 0..m : g[i] \in S
                         /\ \A i \in 1..m : g[i] = step[i][g[i - 1]]
           T == {m \in 0..N : \E g : Good(g, m)}
<1>1. 0 \in T
  <2> DEFINE g == [i \in {0} |-> base]
  <2>1. 0 \in 0..N /\ 0..0 = {0} /\ 1..0 = {} /\ g[0] = base
    OBVIOUS
  <2> HIDE DEF g
  <2>2. Good(g, 0)
    BY <2>1
  <2> QED BY <2>1, <2>2
<1>2. ASSUME NEW m \in 1..N, m - 1 \in T PROVE m \in T
  <2>1. PICK h : Good(h, m - 1)
    BY <1>2
  <2> DEFINE e == step[m][h[m - 1]]
             g == [i \in 0..m |-> IF i = m THEN e ELSE h[i]]
  <2>2. m - 1 \in 0..(m - 1) /\ \A i \in 0..(m - 1) : i \in 0..m /\ i # m
    OBVIOUS
  <2>3. e \in S /\ h[0] = base
    BY <1>0, <2>1, <2>2
  <2>4. g[m] = e /\ \A i \in 0..(m - 1) : g[i] = h[i]
    <3> HIDE DEF e, T, Good
    <3> QED BY <2>2
  <2>5. 0 \in 0..(m - 1)
    OBVIOUS
  <2> HIDE DEF g, T
  <2>6. g[0] = base /\ \A i \in 0..m : g[i] \in S
    <3>1. \A i \in 0..m : i = m \/ i \in 0..(m - 1)
      OBVIOUS
    <3> QED BY <2>1, <2>3, <2>4, <2>5, <3>1
  <2>7. ASSUME NEW i \in 1..m PROVE g[i] = step[i][g[i - 1]]
    <3>1. CASE i = m
      BY <2>2, <2>4, <3>1
    <3>2. CASE i # m
      <4>1. i \in 1..(m - 1) /\ i \in 0..(m - 1) /\ i - 1 \in 0..(m - 1)
        BY <3>2
      <4>2. h[i] = step[i][h[i - 1]]
        BY <2>1, <4>1
      <4> QED BY <2>4, <4>1, <4>2
    <3> QED BY <3>1, <3>2
  <2> QED BY <2>6, <2>7 DEF T
<1>3. N \in T
  <2> HIDE DEF T
  <2>1. \A n \in 0..N : n \in T
    BY <1>1, <1>2, Induction
  <2> QED BY <2>1
<1> QED BY <1>3 DEF Repeats

(* Texts and lines *)

(* STRING with the constants that the model adds to a text: none of the provers
   knows that a string it is shown is in STRING.  Z3 is never shown the blank: it
   does not read a name with one. *)
Blank == " "
Chars == STRING \cup {"/", "?", "&", "=", ";", Blank, "a"}
Text == Seq(Chars)

LEMMA TextsAreTexts == Seq(STRING) \subseteq Text
BY SeqMonotonic DEF Text, Chars

LEMMA OneCharacter == ASSUME NEW c \in Chars PROVE <<c>> \in Text
<1>1. <<>> \in Seq(Chars) /\ Append(<<>>, c) = <<c>>
  OBVIOUS
<1> QED BY <1>1, AppendProperties DEF Text

(* FlattenSeq puts one text after the other. *)
PutTogether(g, s) ==
    /\ g[0] = <<>> /\ FlattenSeq(s) = g[Len(s)]
    /\ \A n \in 0..Len(s) : g[n] \in Text
    /\ \A n \in 1..Len(s) : g[n] = g[n - 1] \o s[n]

LEMMA Flattened == ASSUME NEW s \in Seq(Text) PROVE \E g : PutTogether(g, s)
<1> DEFINE N == Len(s)
           step == [n \in 1..N |-> [x \in Text |-> x \o s[n]]]
           Body(g) == [i \in 1..N |-> IF i = 1 THEN s[i] ELSE g[i - 1] \o s[i]]
           f == CHOOSE g : g = Body(g)
<1>1. N \in Nat /\ <<>> \in Text /\ \A i \in 1..N : s[i] \in Text
  BY EmptySeq DEF Text
<1>2. /\ \A n \in 1..N : \A x \in Text : x \o s[n] \in Text
      /\ \A n \in 1..N : <<>> \o s[n] = s[n]
  BY <1>1, ConcatProperties, ConcatEmptySeq DEF Text
<1>3. /\ \A n \in 1..N : \A x \in Text : step[n][x] = x \o s[n]
      /\ \A n \in 1..N : \A x \in Text : step[n][x] \in Text
  BY <1>2
<1> DEFINE none == <<>>
<1>a. none \in Text /\ \A n \in 1..N : none \o s[n] = s[n]
  BY <1>1, <1>2
<1> HIDE DEF N, step, none
<1>4. PICK g : /\ g[0] = none /\ \A n \in 0..N : g[n] \in Text
               /\ \A n \in 1..N : g[n] = step[n][g[n - 1]]
  <2>1. StaysIn(Text, N, step)
    BY <1>3 DEF StaysIn
  <2>2. \E g : Repeats(g, Text, N, none, step)
    BY <1>1, <1>a, <2>1, Recursion
  <2> QED BY <2>2 DEF Repeats
<1>5. \A n \in 1..N : n - 1 \in 0..N /\ n \in 0..N
  BY <1>1
<1>6. \A n \in 1..N : g[n] = g[n - 1] \o s[n]
  BY <1>3, <1>4, <1>5
<1>7. CASE N = 0
  <2>1. s = <<>> /\ FlattenSeq(s) = s
    BY <1>7, EmptySeq DEF FlattenSeq, N
  <2> QED BY <1>4, <1>5, <1>6, <1>7, <2>1 DEF PutTogether, N, none
<1>8. CASE N # 0
  <2> DEFINE b == [i \in 1..N |-> g[i]]
  <2>1. ASSUME NEW i \in 1..N PROVE b[i] = IF i = 1 THEN s[i] ELSE b[i - 1] \o s[i]
    <3>1. CASE i = 1
      <4>1. i - 1 = 0 /\ g[0] = none
        BY <1>4, <3>1
      <4>2. g[i] = g[i - 1] \o s[i]
        BY <1>6
      <4>3. g[i] = none \o s[i]
        BY <4>1, <4>2
      <4> QED BY <1>a, <3>1, <4>3
    <3>2. CASE i # 1
      <4>1. i - 1 \in 1..N
        BY <1>1, <3>2
      <4> QED BY <1>6, <3>2, <4>1
    <3> QED BY <3>1, <3>2
  <2>2. \A i \in 1..N : b[i] = g[i]
    OBVIOUS
  <2>3. b = [i \in 1..N |-> b[i]]
    OBVIOUS
  <2> HIDE DEF b
  <2>4. b = Body(b)
    BY <2>1, <2>3
  <2>5. f = Body(f)
    BY <2>4
  <2> HIDE DEF f
  <2>6. N \in 1..N /\ \A n \in 1..N : n = 1 \/ n - 1 \in 1..N
    BY <1>1, <1>8
  <2> DEFINE T == {n \in 0..N : n = 0 \/ f[n] = g[n]}
  <2>7. ASSUME NEW n \in 1..N, n - 1 \in T PROVE n \in T
    <3>1. f[n] = IF n = 1 THEN s[n] ELSE f[n - 1] \o s[n]
      BY <2>5
    <3>2. CASE n = 1
      <4>1. n - 1 = 0 /\ g[0] = none
        BY <1>4, <3>2
      <4>2. g[n] = g[n - 1] \o s[n]
        BY <1>6
      <4>3. g[n] = none \o s[n]
        BY <4>1, <4>2
      <4> QED BY <1>a, <1>5, <3>1, <3>2, <4>3
    <3>3. CASE n # 1
      <4>1. f[n - 1] = g[n - 1]
        BY <2>7, <3>3
      <4> QED BY <1>5, <1>6, <3>1, <3>3, <4>1
    <3> QED BY <3>2, <3>3
  <2>8. N \in T
    <3>1. 0 \in T
      BY <1>1
    <3> HIDE DEF T
    <3>2. \A n \in 0..N : n \in T
      BY <1>1, <2>7, <3>1, Induction
    <3> QED BY <1>1, <3>2
  <2>9. FlattenSeq(s) = f[N]
    BY <1>8, Zenon DEF FlattenSeq, f, N
  <2> QED BY <1>4, <1>5, <1>6, <1>8, <2>8, <2>9 DEF PutTogether, N, none
<1> QED BY <1>7, <1>8

LEMMA FlattenSeqType == ASSUME NEW s \in Seq(Text) PROVE FlattenSeq(s) \in Text
<1>1. Len(s) \in 0..Len(s)
  OBVIOUS
<1> QED BY <1>1, Flattened DEF PutTogether

(* What is reported of a text, and what is left of it. *)
LEMMA PieceAndRest ==
    ASSUME NEW t \in Text, NEW n \in 0..Len(t)
    PROVE  /\ SubSeq(t, 1, n) \in Text /\ SubSeq(t, n + 1, Len(t)) \in Text
           /\ SubSeq(t, 1, n) \o SubSeq(t, n + 1, Len(t)) = t
           /\ n = Len(t) => SubSeq(t, 1, n) = t
           /\ (SubSeq(t, 1, n) = <<>>) = (n = 0)
<1>1. Len(t) \in Nat /\ \A i \in 1..Len(t) : t[i] \in Chars
  BY DEF Text
<1>2. SubSeq(t, 1, n) \in Seq(Chars) /\ Len(SubSeq(t, 1, n)) = n
  BY <1>1, SubSeqProperties
<1>3. SubSeq(t, n + 1, Len(t)) \in Seq(Chars)
  BY <1>1, SubSeqProperties
<1>4. SubSeq(t, 1, n) \o SubSeq(t, n + 1, Len(t)) = SubSeq(t, 1, Len(t))
  <2>1. 1 \in 1..(Len(t) + 1) /\ n \in (1 - 1)..Len(t) /\ Len(t) \in n..Len(t)
    BY <1>1
  <2> QED BY <2>1, ConcatAdjacentSubSeq DEF Text
<1>5. SubSeq(t, 1, Len(t)) = t
  BY SubSeqFull DEF Text
<1>6. (SubSeq(t, 1, n) = <<>>) = (n = 0)
  BY <1>2, EmptySeq
<1> QED BY <1>2, <1>3, <1>4, <1>5, <1>6 DEF Text

LEMMA Joined ==
    ASSUME NEW a \in Text, NEW b \in Text, NEW c \in Text
    PROVE  /\ a \o b \in Text /\ (a \o b) \o c = a \o (b \o c)
           /\ a \o <<>> = a /\ <<>> \o a = a /\ <<>> \in Text
BY ConcatProperties, ConcatAssociative, ConcatEmptySeq DEF Text

LEMMA Associates == \A a, b, c \in Text : (a \o b) \o c = a \o (b \o c)
BY ConcatAssociative DEF Text

-----------------------------------------------------------------------------
(* The pieces of a text *)

(* One more character of a text: a new piece, or more of the last one. *)
Some == Seq(Text) \ {<<>>}
AddTo(p, c, sep) ==
    IF c = sep THEN Append(p, <<>>) ELSE [p EXCEPT ![Len(p)] = Append(@, c)]

LEMMA AddToType ==
    ASSUME NEW p \in Some, NEW c \in Chars, NEW sep
    PROVE  AddTo(p, c, sep) \in Some
<1>1. p \in Seq(Text) /\ Len(p) \in Nat /\ Len(p) \in 1..Len(p) /\ <<>> \in Text
  BY EmptySeq DEF Some, Text
<1>2. Append(p, <<>>) \in Some
  BY <1>1, AppendProperties DEF Some
<1>3. [p EXCEPT ![Len(p)] = Append(@, c)] \in Some
  <2>1. p[Len(p)] \in Text
    BY <1>1
  <2>2. Append(p[Len(p)], c) \in Text
    BY <2>1, AppendProperties DEF Text
  <2> DEFINE x == Append(p[Len(p)], c)
             q == [p EXCEPT ![Len(p)] = x]
  <2>3. x \in Text
    BY <2>2
  <2> HIDE DEF x
  <2>4. q \in Seq(Text) /\ Len(q) = Len(p)
    BY <1>1, <2>3, ExceptSeq
  <2>5. q # <<>>
    BY <1>1, <2>4
  <2> QED BY <2>4, <2>5 DEF Some, x
<1> QED BY <1>2, <1>3 DEF AddTo

LEMMA AddToLast ==
    ASSUME NEW Q \in Seq(Text), NEW x \in Text, NEW c \in Chars, NEW sep, c # sep
    PROVE  AddTo(Append(Q, x), c, sep) = Append(Q, Append(x, c))
<1> DEFINE y == Append(x, c)
           p == Append(Q, x)
           q == [p EXCEPT ![Len(p)] = y]
           r == Append(Q, y)
<1>1. y \in Text
  BY AppendProperties DEF Text
<1>2. /\ p \in Seq(Text) /\ Len(p) = Len(Q) + 1 /\ Len(Q) \in Nat /\ p[Len(p)] = x
      /\ \A i \in 1..Len(Q) : p[i] = Q[i]
  BY AppendProperties
<1>3. /\ r \in Seq(Text) /\ Len(r) = Len(Q) + 1 /\ r[Len(r)] = y
      /\ \A i \in 1..Len(Q) : r[i] = Q[i]
  BY <1>1, AppendProperties
<1>4. AddTo(p, c, sep) = q
  BY <1>2, Zenon DEF AddTo
<1> HIDE DEF y, p, r
<1>5. /\ q \in Seq(Text) /\ Len(q) = Len(p) /\ q[Len(p)] = y
      /\ \A i \in 1..Len(Q) : q[i] = p[i]
  BY <1>1, <1>2, ExceptSeq
<1> HIDE DEF q
<1>6. \A i \in 1..Len(q) : q[i] = r[i]
  <2>1. \A i \in 1..Len(q) : i = Len(p) \/ i \in 1..Len(Q)
    BY <1>2, <1>5
  <2> QED BY <1>2, <1>3, <1>5, <2>1
<1>7. q = r
  BY <1>2, <1>3, <1>5, <1>6, SeqEqual
<1> QED BY <1>4, <1>7 DEF p, r, y

LEMMA PiecesAre ==
    ASSUME NEW t \in Text, NEW sep
    PROVE  /\ Pieces(t, sep)[0] = << <<>> >>
           /\ \A n \in 0..Len(t) : Pieces(t, sep)[n] \in Some
           /\ \A n \in 1..Len(t) : Pieces(t, sep)[n] = AddTo(Pieces(t, sep)[n - 1], t[n], sep)
<1> DEFINE N == Len(t)
           base == << <<>> >>
           step == [n \in 1..N |-> [p \in Some |-> AddTo(p, t[n], sep)]]
           Body(f) == [n \in 0..N |-> IF n = 0 THEN base ELSE AddTo(f[n - 1], t[n], sep)]
           P == CHOOSE f : f = Body(f)
<1>1. N \in Nat /\ base \in Some /\ \A n \in 1..N : t[n] \in Chars
  BY DEF Text, Some
<1>2. \A n \in 1..N : \A p \in Some : AddTo(p, t[n], sep) \in Some
  BY <1>1, AddToType
<1>3. \A n \in 1..N : \A p \in Some : step[n][p] = AddTo(p, t[n], sep)
  OBVIOUS
<1>4. StaysIn(Some, N, step)
  BY <1>2, <1>3 DEF StaysIn
<1> HIDE DEF N, base, step
<1>5. PICK g : Repeats(g, Some, N, base, step)
  BY <1>1, <1>4, Recursion
<1>6. /\ g[0] = base /\ \A n \in 0..N : g[n] \in Some
      /\ \A n \in 1..N : g[n] = step[n][g[n - 1]]
  BY <1>5 DEF Repeats
<1>7. \A n \in 1..N : n \in 0..N /\ n - 1 \in 0..N /\ n # 0
  BY <1>1
<1>8. \A n \in 1..N : g[n] = AddTo(g[n - 1], t[n], sep)
  BY <1>3, <1>6, <1>7
<1>9. P = Body(P)
  <2> DEFINE b == [n \in 0..N |-> g[n]]
  <2>1. \A n \in 0..N : b[n] = g[n]
    OBVIOUS
  <2>2. b = [n \in 0..N |-> b[n]]
    OBVIOUS
  <2> HIDE DEF b
  <2>3. ASSUME NEW n \in 0..N PROVE b[n] = IF n = 0 THEN base ELSE AddTo(b[n - 1], t[n], sep)
    <3>1. n = 0 \/ (n \in 1..N /\ n - 1 \in 0..N)
      BY <1>1
    <3> QED BY <1>6, <1>7, <1>8, <2>1, <3>1
  <2>4. b = Body(b)
    BY <2>2, <2>3
  <2> QED BY <2>4
<1> HIDE DEF P
<1>10. P[0] = base /\ \A n \in 1..N : P[n] = AddTo(P[n - 1], t[n], sep)
  <2>1. 0 \in 0..N
    BY <1>1
  <2> QED BY <1>7, <1>9, <2>1
<1> DEFINE T == {n \in 0..N : P[n] \in Some}
<1>11. 0 \in T /\ \A n \in 1..N : n - 1 \in T => n \in T
  BY <1>1, <1>2, <1>7, <1>10
<1>12. \A n \in 0..N : P[n] \in Some
  <2> HIDE DEF T
  <2>1. \A n \in 0..N : n \in T
    BY <1>1, <1>11, Induction
  <2> QED BY <2>1 DEF T
<1>13. Pieces(t, sep) = P
  BY Zenon DEF Pieces, P, N, base, AddTo
<1> QED BY <1>10, <1>12, <1>13 DEF N, base

(* The pieces of the beginning of a text do not depend on the rest of it. *)
LEMMA PiecesOfBeginning ==
    ASSUME NEW t \in Text, NEW u \in Text, NEW sep, NEW m \in Nat,
           m <= Len(t), m <= Len(u), \A i \in 1..m : t[i] = u[i]
    PROVE  Pieces(t, sep)[m] = Pieces(u, sep)[m]
<1> DEFINE P == Pieces(t, sep)
           Q == Pieces(u, sep)
           T == {n \in 0..m : P[n] = Q[n]}
<1>1. \A n \in 1..m : n \in 1..Len(t) /\ n \in 1..Len(u) /\ n \in 0..m /\ n - 1 \in 0..m
  OBVIOUS
<1>2. P[0] = Q[0] /\ 0 \in 0..m /\ m \in 0..m
  <2>1. P[0] = << <<>> >> /\ Q[0] = << <<>> >>
    BY PiecesAre
  <2> QED BY <2>1
<1>3. \A n \in 1..m : P[n] = AddTo(P[n - 1], t[n], sep) /\ Q[n] = AddTo(Q[n - 1], u[n], sep)
  BY <1>1, PiecesAre
<1> HIDE DEF P, Q
<1>4. 0 \in T /\ \A n \in 1..m : n - 1 \in T => n \in T
  BY <1>1, <1>2, <1>3
<1> HIDE DEF T
<1>5. m \in T
  BY <1>2, <1>4, Induction
<1> QED BY <1>5 DEF T, P, Q

(* Characters that are no separators make one piece. *)
LEMMA OnePiece ==
    ASSUME NEW t \in Text, NEW sep, NEW m \in 0..Len(t), NEW Q \in Seq(Text),
           Pieces(t, sep)[m] = Append(Q, <<>>), \A i \in (m + 1)..Len(t) : t[i] # sep
    PROVE  Pieces(t, sep)[Len(t)] = Append(Q, SubSeq(t, m + 1, Len(t)))
<1> DEFINE N == Len(t) - m
           P == Pieces(t, sep)
           X(n) == SubSeq(t, m + 1, m + n)
           T == {n \in 0..N : P[m + n] = Append(Q, X(n))}
<1>1. Len(t) \in Nat /\ m \in Nat /\ N \in Nat /\ \A i \in 1..Len(t) : t[i] \in Chars
  BY DEF Text
<1>2. \A n \in 1..N : /\ m + n \in 1..Len(t) /\ (m + n) - 1 = m + (n - 1) /\ n - 1 \in 0..N
                        /\ n \in 0..N /\ m + n \in (m + 1)..Len(t)
  BY <1>1
<1>3. \A n \in 1..N : P[m + n] = AddTo(P[m + (n - 1)], t[m + n], sep)
  BY <1>2, PiecesAre
<1>4. X(0) = <<>> /\ P[m + 0] = Append(Q, <<>>)
  BY <1>1, SubSeqEmpty
<1>5. \A n \in 0..N : X(n) \in Text
  BY <1>1, SubSeqProperties DEF Text
<1>6. ASSUME NEW n \in 1..N PROVE X(n) = Append(X(n - 1), t[m + n])
  <2>1. m + 1 \in 1..Len(t) /\ m + n \in (m + 1)..Len(t) /\ (m + n) - 1 = m + (n - 1)
    BY <1>1, <1>2
  <2>2. X(n) = SubSeq(t, m + 1, (m + n) - 1) \o <<t[m + n]>>
    BY <2>1, SubSeqRecursiveSecond DEF Text
  <2>3. X(n) = X(n - 1) \o <<t[m + n]>>
    BY <2>1, <2>2
  <2>4. X(n - 1) \in Seq(Chars) /\ t[m + n] \in Chars
    BY <1>1, <1>2, <1>5 DEF Text
  <2> HIDE DEF X
  <2> QED BY <2>3, <2>4, AppendIsConcat
<1> HIDE DEF X, P, N
<1>7. 0 \in T
  BY <1>1, <1>4
<1>8. ASSUME NEW n \in 1..N, n - 1 \in T PROVE n \in T
  <2>1. P[m + (n - 1)] = Append(Q, X(n - 1)) /\ X(n - 1) \in Text
    BY <1>2, <1>5, <1>8
  <2>2. t[m + n] # sep /\ t[m + n] \in Chars
    BY <1>1, <1>2
  <2>3. AddTo(Append(Q, X(n - 1)), t[m + n], sep) = Append(Q, Append(X(n - 1), t[m + n]))
    BY <2>1, <2>2, AddToLast
  <2> QED BY <1>2, <1>3, <1>6, <2>1, <2>3
<1>9. N \in T
  <2> HIDE DEF T
  <2>1. \A n \in 0..N : n \in T
    BY <1>1, <1>7, <1>8, Induction
  <2> QED BY <1>1, <2>1
<1>10. m + N = Len(t)
  BY <1>1 DEF N
<1> QED BY <1>9, <1>10 DEF X, P

Free(t, c) == \A i \in 1..Len(t) : t[i] # c
AllPieces(t, sep) == Pieces(t, sep)[Len(t)]

LEMMA JoinedAre ==
    ASSUME NEW a \in Text, NEW b \in Text
    PROVE  /\ Len(a \o b) = Len(a) + Len(b) /\ Len(a) \in Nat /\ Len(b) \in Nat
           /\ a \o b \in Text
           /\ \A i \in 1..(Len(a) + Len(b)) :
                 (a \o b)[i] = IF i <= Len(a) THEN a[i] ELSE b[i - Len(a)]
BY ConcatProperties DEF Text

LEMMA FreeJoined ==
    ASSUME NEW a \in Text, NEW b \in Text, NEW c, Free(a, c), Free(b, c)
    PROVE  Free(a \o b, c)
<1>1. /\ Len(a \o b) = Len(a) + Len(b) /\ Len(a) \in Nat /\ Len(b) \in Nat
      /\ \A i \in 1..(Len(a) + Len(b)) : (a \o b)[i] = IF i <= Len(a) THEN a[i] ELSE b[i - Len(a)]
  BY JoinedAre
<1>2. \A i \in 1..(Len(a) + Len(b)) : i \in 1..Len(a) \/ (~(i <= Len(a)) /\ i - Len(a) \in 1..Len(b))
  BY <1>1
<1> QED BY <1>1, <1>2 DEF Free

LEMMA PiecesOfFree ==
    ASSUME NEW t \in Text, NEW sep, Free(t, sep) PROVE AllPieces(t, sep) = <<t>>
<1>1. 0 \in 0..Len(t) /\ <<>> \in Seq(Text) /\ Append(<<>>, <<>>) = << <<>> >>
  BY DEF Text
<1>2. Pieces(t, sep)[0] = Append(<<>>, <<>>)
  BY <1>1, PiecesAre
<1>3. \A i \in (0 + 1)..Len(t) : t[i] # sep
  BY DEF Free
<1>4. AllPieces(t, sep) = Append(<<>>, SubSeq(t, 0 + 1, Len(t)))
  BY <1>1, <1>2, <1>3, OnePiece DEF AllPieces
<1>5. SubSeq(t, 0 + 1, Len(t)) = t
  BY SubSeqFull DEF Text
<1> QED BY <1>4, <1>5

(* A separator and characters that are none add a piece. *)
LEMMA PiecesMore ==
    ASSUME NEW a \in Text, NEW b \in Text, NEW sep \in Chars, Free(b, sep)
    PROVE  AllPieces(a \o (<<sep>> \o b), sep) = Append(AllPieces(a, sep), b)
<1> DEFINE s == <<sep>> \o b
           t == a \o s
           m == Len(a) + 1
           Q == AllPieces(a, sep)
<1>1. /\ s \in Text /\ Len(s) = Len(b) + 1 /\ Len(b) \in Nat /\ s[1] = sep
      /\ \A i \in 1..Len(b) : s[i + 1] = b[i]
  <2>1. <<sep>> \in Text /\ Len(<<sep>>) = 1
    BY OneCharacter
  <2>2. \A i \in 1..Len(b) : i + 1 \in 1..(1 + Len(b)) /\ ~(i + 1 <= 1) /\ (i + 1) - 1 = i
    BY DEF Text
  <2>3. 1 \in 1..(1 + Len(b)) /\ 1 <= 1 /\ <<sep>>[1] = sep /\ Len(b) \in Nat
    BY DEF Text
  <2>4. /\ s \in Text /\ Len(s) = 1 + Len(b)
        /\ \A i \in 1..(1 + Len(b)) : s[i] = IF i <= 1 THEN <<sep>>[i] ELSE b[i - 1]
    BY <2>1, ConcatProperties DEF Text
  <2> HIDE DEF s
  <2> QED BY <2>2, <2>3, <2>4
<1> HIDE DEF s
<1>2. /\ t \in Text /\ Len(t) = Len(a) + Len(s) /\ Len(a) \in Nat
      /\ \A i \in 1..(Len(a) + Len(s)) : t[i] = IF i <= Len(a) THEN a[i] ELSE s[i - Len(a)]
  <2>1. s \in Text
    BY <1>1
  <2> QED BY <2>1, JoinedAre
<1> HIDE DEF t
<1>3. /\ m \in Nat /\ m - 1 = Len(a) /\ m \in 1..Len(t) /\ m \in 0..Len(t) /\ Len(a) <= Len(t)
      /\ ~(m <= Len(a)) /\ m - Len(a) = 1
  BY <1>1, <1>2
<1>4. t[m] = sep
  BY <1>1, <1>2, <1>3
<1>5. \A i \in 1..Len(a) : t[i] = a[i]
  <2>1. \A i \in 1..Len(a) : i <= Len(a) /\ i \in 1..(Len(a) + Len(s))
    BY <1>1, <1>2
  <2> QED BY <1>2, <2>1
<1>6. ASSUME NEW i \in (m + 1)..Len(t) PROVE t[i] = b[i - m] /\ i - m \in 1..Len(b)
  <2>1. /\ ~(i <= Len(a)) /\ i - Len(a) = (i - m) + 1 /\ i - m \in 1..Len(b)
        /\ i \in 1..(Len(a) + Len(s))
    BY <1>1, <1>2
  <2> HIDE DEF m
  <2> QED BY <1>1, <1>2, <2>1
<1>7. \A i \in (m + 1)..Len(t) : t[i] # sep
  BY <1>6 DEF Free
<1>8. Pieces(t, sep)[Len(a)] = Q
  <2>1. Len(a) \in Nat /\ Len(a) <= Len(t) /\ Len(a) <= Len(a) /\ t \in Text
    BY <1>2, <1>3
  <2>2. Pieces(t, sep)[Len(a)] = Pieces(a, sep)[Len(a)]
    BY <1>5, <2>1, PiecesOfBeginning
  <2> QED BY <2>2 DEF AllPieces
<1>9. Q \in Seq(Text)
  <2>1. Len(a) \in 0..Len(a)
    BY <1>2
  <2> QED BY <2>1, PiecesAre DEF AllPieces, Some
<1> HIDE DEF Q
<1>10. Pieces(t, sep)[m] = Append(Q, <<>>)
  <2>1. Pieces(t, sep)[m] = AddTo(Pieces(t, sep)[m - 1], t[m], sep)
    BY <1>2, <1>3, PiecesAre
  <2>2. Pieces(t, sep)[m] = AddTo(Q, sep, sep)
    BY <1>3, <1>4, <1>8, <2>1
  <2> QED BY <2>2, Zenon DEF AddTo
<1>11. AllPieces(t, sep) = Append(Q, SubSeq(t, m + 1, Len(t)))
  BY <1>2, <1>3, <1>7, <1>9, <1>10, OnePiece DEF AllPieces
<1>12. SubSeq(t, m + 1, Len(t)) = b
  <2> DEFINE u == SubSeq(t, m + 1, Len(t))
  <2>1. /\ u \in Seq(Chars) /\ Len(u) = Len(t) - m
        /\ \A i \in 1..(Len(t) - m) : u[i] = t[m + i]
    <3> DEFINE k == m + 1
               e == Len(t)
    <3>1. /\ k \in Int /\ e \in Int /\ k <= e + 1 /\ e - k + 1 = e - m
          /\ \A i \in k..e : t[i] \in Chars
      BY <1>1, <1>2, <1>3 DEF Text
    <3>2. \A i \in 1..(e - m) : k + i - 1 = m + i
      BY <1>2, <1>3
    <3> HIDE DEF k, e, m
    <3>3. /\ SubSeq(t, k, e) \in Seq(Chars)
          /\ Len(SubSeq(t, k, e)) = IF k <= e THEN e - k + 1 ELSE 0
          /\ \A i \in 1..(e - k + 1) : SubSeq(t, k, e)[i] = t[k + i - 1]
      BY <3>1, SubSeqProperties
    <3>4. Len(SubSeq(t, k, e)) = e - k + 1
      BY <3>1, <3>3
    <3> QED BY <3>1, <3>2, <3>3, <3>4 DEF k, e
  <2> HIDE DEF u
  <2>2. Len(t) - m = Len(b)
    BY <1>1, <1>2
  <2>3. ASSUME NEW i \in 1..Len(b) PROVE u[i] = b[i]
    <3>1. m + i \in (m + 1)..Len(t) /\ (m + i) - m = i
      BY <1>1, <1>2, <1>3, <2>2
    <3>2. t[m + i] = b[(m + i) - m]
      BY <1>6, <3>1
    <3> QED BY <2>1, <2>2, <3>1, <3>2
  <2>4. u = b
    BY <2>1, <2>2, <2>3, SeqEqual DEF Text
  <2> QED BY <2>4 DEF u
<1> QED BY <1>11, <1>12 DEF t, s, Q

(* What the client joins is found again, if no text is empty or has the separator. *)
LEMMA JoinExploded ==
    ASSUME NEW texts \in Seq(Text), NEW sep \in Chars,
           \A i \in 1..Len(texts) : texts[i] # <<>> /\ Free(texts[i], sep)
    PROVE  /\ JoinTexts(texts, sep) \in Text
           /\ ExplodeZerocopy(JoinTexts(texts, sep), sep) = texts
           /\ (JoinTexts(texts, sep) = <<>>) = (texts = <<>>)
           /\ \A c \in Chars \ {sep} :
                 (\A i \in 1..Len(texts) : Free(texts[i], c)) => Free(JoinTexts(texts, sep), c)
<1> DEFINE N == Len(texts)
           with(i) == (IF i = 1 THEN <<>> ELSE <<sep>>) \o texts[i]
           s == [i \in DOMAIN texts |-> with(i)]
           X(n) == SubSeq(texts, 1, n)
<1>1. /\ N \in Nat /\ DOMAIN texts = 1..N /\ <<>> \in Text /\ <<sep>> \in Text
      /\ \A i \in 1..N : texts[i] \in Text
  BY OneCharacter DEF Text
<1>2. \A i \in 1..N : with(i) \in Text
  BY <1>1, JoinedAre
<1>3. \A i \in 1..N : i # 1 => with(i) = <<sep>> \o texts[i]
  OBVIOUS
<1>4. 1 \in 1..N => with(1) = texts[1]
  BY <1>1, ConcatEmptySeq DEF Text
<1> HIDE DEF with
<1>5. s \in Seq(Text) /\ Len(s) = N /\ \A i \in 1..N : s[i] = with(i)
  BY <1>1, <1>2
<1>6. JoinTexts(texts, sep) = FlattenSeq(s)
  BY Zenon DEF JoinTexts, with
<1> HIDE DEF s
<1>7. PICK g : /\ g[0] = <<>> /\ FlattenSeq(s) = g[N]
               /\ \A n \in 0..N : g[n] \in Text
               /\ \A n \in 1..N : g[n] = g[n - 1] \o s[n]
  <2>1. PICK g : PutTogether(g, s)
    BY <1>5, Flattened
  <2> QED BY <1>5, <2>1 DEF PutTogether
<1>8. X(0) = <<>> /\ X(N) = texts
  BY SubSeqEmpty, SubSeqFull
<1>9. ASSUME NEW n \in 1..N PROVE X(n) = Append(X(n - 1), texts[n])
  <2>1. 1 \in 1..N /\ n \in 1..N /\ n - 1 \in 0..N
    BY <1>1
  <2>2. X(n) = X(n - 1) \o <<texts[n]>>
    BY <2>1, SubSeqRecursiveSecond
  <2>3. \A j \in 1..(n - 1) : texts[j] \in Text
    BY <1>1
  <2>4. X(n - 1) \in Seq(Text)
    BY <2>1, <2>3, SubSeqProperties
  <2> HIDE DEF X
  <2> QED BY <1>1, <2>2, <2>4, AppendIsConcat
<1> HIDE DEF N, X
<1>10. \A n \in 1..N : n \in 0..N /\ n - 1 \in 0..N
  BY <1>1
(* The first of the texts, and one more. *)
<1>11. ASSUME NEW n \in 1..N, n = 1 PROVE g[n] = texts[n]
  <2>1. n - 1 = 0 /\ g[0] = <<>>
    BY <1>7, <1>11
  <2>2. s[n] = texts[n]
    BY <1>4, <1>5, <1>11
  <2>3. g[n] = g[n - 1] \o s[n]
    BY <1>7
  <2>4. <<>> \o texts[n] = texts[n]
    BY <1>1, ConcatEmptySeq DEF Text
  <2> QED BY <2>1, <2>2, <2>3, <2>4
<1>12. ASSUME NEW n \in 1..N, n # 1 PROVE g[n] = g[n - 1] \o (<<sep>> \o texts[n])
  BY <1>3, <1>5, <1>7, <1>12
<1> DEFINE T == {n \in 0..N : n = 0 \/ AllPieces(g[n], sep) = X(n)}
<1>13. ASSUME NEW n \in 1..N, n - 1 \in T PROVE n \in T
  <2>1. CASE n = 1
    <3>1. AllPieces(texts[n], sep) = <<texts[n]>>
      BY <1>1, PiecesOfFree DEF N
    <3>2. X(n) = Append(<<>>, texts[n])
      <4>1. n - 1 = 0
        BY <2>1
      <4> QED BY <1>8, <1>9, <4>1
    <3>3. Append(<<>>, texts[n]) = <<texts[n]>>
      OBVIOUS
    <3> QED BY <1>10, <1>11, <2>1, <3>1, <3>2, <3>3
  <2>2. CASE n # 1
    <3>1. AllPieces(g[n - 1], sep) = X(n - 1)
      BY <1>1, <1>13, <2>2
    <3>2. g[n - 1] \in Text /\ texts[n] \in Text /\ Free(texts[n], sep)
      BY <1>1, <1>7, <1>10 DEF N
    <3>3. AllPieces(g[n], sep) = Append(AllPieces(g[n - 1], sep), texts[n])
      BY <1>12, <2>2, <3>2, PiecesMore
    <3> QED BY <1>9, <1>10, <3>1, <3>3
  <2> QED BY <2>1, <2>2
<1>14. N # 0 => AllPieces(g[N], sep) = texts
  <2>1. 0 \in T
    BY <1>1
  <2> HIDE DEF T
  <2>2. N \in T
    <3>1. \A n \in 0..N : n \in T
      BY <1>1, <1>13, <2>1, Induction
    <3> QED BY <1>1, <3>1
  <2> QED BY <1>8, <2>2 DEF T
<1>15. N # 0 => g[N] # <<>>
  <2>1. CASE N = 1
    BY <1>1, <1>11, <2>1 DEF N
  <2>2. CASE N # 1 /\ N # 0
    <3>1. N \in 1..N /\ N - 1 \in 0..N
      BY <1>1, <2>2
    <3> DEFINE u == <<sep>> \o texts[N]
    <3>2. g[N - 1] \in Text /\ texts[N] \in Text /\ N # 1
      BY <1>1, <1>7, <2>2, <3>1
    <3>3. u \in Text /\ Len(u) = 1 + Len(texts[N]) /\ Len(texts[N]) \in Nat
      <4>1. Len(<<sep>>) = 1
        OBVIOUS
      <4> QED BY <1>1, <3>2, <4>1, JoinedAre
    <3>a. g[N] = g[N - 1] \o u
      BY <1>12, <3>1, <3>2
    <3> HIDE DEF u
    <3> DEFINE v == g[N - 1]
    <3>b. v \in Text
      BY <3>2
    <3> HIDE DEF v
    <3>c. Len(v \o u) = Len(v) + Len(u) /\ Len(v) \in Nat
      BY <3>3, <3>b, JoinedAre
    <3>4. Len(g[N]) = Len(v) + (1 + Len(texts[N]))
      BY <3>3, <3>a, <3>c DEF v
    <3>5. Len(g[N]) # 0
      BY <3>3, <3>4, <3>c
    <3> QED BY <3>5
  <2> QED BY <2>1, <2>2
<1>16. (N = 0) = (texts = <<>>)
  BY EmptySeq DEF N
<1>17. /\ JoinTexts(texts, sep) \in Text /\ JoinTexts(texts, sep) = g[N]
       /\ (JoinTexts(texts, sep) = <<>>) = (texts = <<>>)
  <2>1. N \in 0..N
    BY <1>1
  <2>2. g[N] = <<>> <=> N = 0
    BY <1>7, <1>15
  <2> QED BY <1>6, <1>7, <1>16, <2>1, <2>2
<1>18. ExplodeZerocopy(JoinTexts(texts, sep), sep) = texts
  BY <1>14, <1>16, <1>17 DEF ExplodeZerocopy, AllPieces
<1>19. ASSUME NEW c \in Chars \ {sep}, \A i \in 1..N : Free(texts[i], c)
       PROVE  Free(g[N], c)
  <2>1. Free(<<sep>>, c) /\ Free(<<>>, c)
    BY <1>19 DEF Free
  <2> DEFINE F == {n \in 0..N : Free(g[n], c)}
  <2>2. 0 \in F
    BY <1>1, <1>7, <2>1
  <2>3. ASSUME NEW n \in 1..N, n - 1 \in F PROVE n \in F
    <3>1. Free(texts[n], c) /\ texts[n] \in Text
      BY <1>1, <1>19
    <3>2. CASE n = 1
      BY <1>10, <1>11, <3>1, <3>2
    <3>3. CASE n # 1
      <4>1. Free(g[n - 1], c) /\ g[n - 1] \in Text
        BY <1>7, <1>10, <2>3
      <4>2. Free(<<sep>> \o texts[n], c) /\ <<sep>> \o texts[n] \in Text
        BY <1>1, <2>1, <3>1, FreeJoined, JoinedAre
      <4>3. Free(g[n - 1] \o (<<sep>> \o texts[n]), c)
        BY <4>1, <4>2, FreeJoined
      <4> QED BY <1>10, <1>12, <3>3, <4>3
    <3> QED BY <3>2, <3>3
  <2> HIDE DEF F
  <2>4. \A n \in 0..N : n \in F
    BY <1>1, <2>2, <2>3, Induction
  <2> QED BY <1>1, <2>4 DEF F
<1> QED BY <1>17, <1>18, <1>19 DEF N

(* Where the first separator is. *)
SignAt(t, c) ==
    IF {i \in 1..Len(t) : t[i] = c} # {} THEN Min({i \in 1..Len(t) : t[i] = c}) ELSE 0

LEMMA FirstSign ==
    ASSUME NEW t \in Text, NEW c
    PROVE  \/ SignAt(t, c) = 0 /\ Free(t, c)
           \/ /\ SignAt(t, c) \in 1..Len(t) /\ t[SignAt(t, c)] = c
              /\ \A i \in 1..(SignAt(t, c) - 1) : t[i] # c
<1> DEFINE e == SignAt(t, c)
           I == {i \in 1..Len(t) : t[i] = c}
<1>1. Len(t) \in Nat /\ I \subseteq Nat /\ \A i \in I : i \in 1..Len(t) /\ t[i] = c
  BY DEF Text
<1>2. CASE I = {}
  <2>1. \A i \in 1..Len(t) : i \notin I
    BY <1>2
  <2> QED BY <1>2, <2>1 DEF Free, SignAt
<1>3. CASE I # {}
  <2>1. e = Min(I)
    BY <1>3 DEF SignAt
  <2>2. \A i \in 1..Len(t) : t[i] = c => i \in I
    OBVIOUS
  <2> HIDE DEF I, e
  <2>3. \E x \in I : \A y \in I : x <= y
    BY <1>1, <1>3, LeastNatural
  <2>4. e \in I /\ \A y \in I : e <= y
    BY <2>1, <2>3 DEF Min
  <2>5. e \in 1..Len(t) /\ t[e] = c
    BY <1>1, <2>4
  <2>6. ASSUME NEW i \in 1..(e - 1) PROVE t[i] # c
    <3>1. i \in 1..Len(t) /\ ~(e <= i)
      BY <1>1, <2>5
    <3> QED BY <2>2, <2>4, <3>1
  <2> QED BY <2>5, <2>6 DEF e
<1> QED BY <1>2, <1>3

(* A text is what is in front of a sign of it, the sign, and what is behind it. *)
LEMMA AroundSign ==
    ASSUME NEW t \in Text, NEW e \in 1..Len(t)
    PROVE  /\ SubSeq(t, 1, e - 1) \in Text /\ SubSeq(t, e + 1, Len(t)) \in Text
           /\ t = SubSeq(t, 1, e - 1) \o (<<t[e]>> \o SubSeq(t, e + 1, Len(t)))
           /\ \A c : (\A i \in 1..(e - 1) : t[i] # c) => Free(SubSeq(t, 1, e - 1), c)
           /\ \A c : (\A i \in (e + 1)..Len(t) : t[i] # c) => Free(SubSeq(t, e + 1, Len(t)), c)
<1> DEFINE a == SubSeq(t, 1, e - 1)
           b == SubSeq(t, e + 1, Len(t))
<1>1. Len(t) \in Nat /\ e \in Nat /\ e - 1 \in 0..Len(t) /\ e \in 0..Len(t) /\ (e - 1) + 1 = e
  BY DEF Text
<1>2. a \in Text /\ b \in Text /\ a \o SubSeq(t, e, Len(t)) = t
  <2> HIDE DEF Text
  <2>1. a \in Text /\ a \o SubSeq(t, (e - 1) + 1, Len(t)) = t
    BY <1>1, PieceAndRest
  <2>2. b \in Text
    BY <1>1, PieceAndRest
  <2> QED BY <1>1, <2>1, <2>2
<1>3. SubSeq(t, e, Len(t)) = <<t[e]>> \o b
  BY <1>1, SubSeqRecursiveFirst DEF Text
<1>4. /\ Len(a) = e - 1 /\ \A i \in 1..(e - 1) : a[i] = t[i]
      /\ Len(b) = Len(t) - e /\ \A i \in 1..(Len(t) - e) : b[i] = t[e + i]
  <2> DEFINE n == Len(t)
             k == e + 1
             m == e - 1
  <2>1. /\ \A i \in 1..m : t[i] \in Chars
        /\ \A i \in k..n : t[i] \in Chars
        /\ n \in Int /\ k \in Int /\ m \in Int /\ m - 1 + 1 = m /\ n - k + 1 = n - e
        /\ (1 <= m \/ m = 0) /\ (k <= n \/ n - e = 0)
        /\ \A i \in 1..(n - e) : k + i - 1 = e + i
        /\ \A i \in 1..m : 1 + i - 1 = i
    BY <1>1 DEF Text
  <2> HIDE DEF n, k, m
  <2>2. /\ Len(SubSeq(t, 1, m)) = IF 1 <= m THEN m - 1 + 1 ELSE 0
        /\ \A i \in 1..(m - 1 + 1) : SubSeq(t, 1, m)[i] = t[1 + i - 1]
    BY <2>1, SubSeqProperties
  <2>3. /\ Len(SubSeq(t, k, n)) = IF k <= n THEN n - k + 1 ELSE 0
        /\ \A i \in 1..(n - k + 1) : SubSeq(t, k, n)[i] = t[k + i - 1]
    BY <2>1, SubSeqProperties
  <2>4. Len(SubSeq(t, 1, m)) = m /\ \A i \in 1..m : SubSeq(t, 1, m)[i] = t[i]
    BY <2>1, <2>2
  <2>5. Len(SubSeq(t, k, n)) = n - e /\ \A i \in 1..(n - e) : SubSeq(t, k, n)[i] = t[e + i]
    BY <2>1, <2>3
  <2> QED BY <2>4, <2>5 DEF n, k, m
<1>5. \A i \in 1..(Len(t) - e) : e + i \in (e + 1)..Len(t)
  BY <1>1
<1> HIDE DEF a, b
<1>6. /\ \A c : (\A i \in 1..(e - 1) : t[i] # c) => Free(a, c)
      /\ \A c : (\A i \in (e + 1)..Len(t) : t[i] # c) => Free(b, c)
  BY <1>4, <1>5 DEF Free
<1> QED BY <1>2, <1>3, <1>6 DEF a, b

LEMMA DecodeType == ASSUME NEW t \in Text PROVE Decode(t) \in Text
<1>1. DOMAIN t = 1..Len(t) /\ Len(t) \in Nat /\ \A i \in 1..Len(t) : t[i] \in Chars
  BY DEF Text
<1> DEFINE d(i) == CASE t[i] = "%26" -> "&" [] t[i] = "%3D" -> "=" [] OTHER -> t[i]
<1>2. \A i \in 1..Len(t) : d(i) \in Chars
  BY <1>1 DEF Chars
<1> HIDE DEF d
<1>3. [i \in 1..Len(t) |-> d(i)] \in Seq(Chars)
  BY <1>1, <1>2
<1>4. Decode(t) = [i \in 1..Len(t) |-> d(i)]
  BY <1>1, Zenon DEF Decode, d
<1> QED BY <1>3, <1>4 DEF Text

(* What parse_url makes of a parameter is its name and its value. *)
LEMMA KeyValueIs ==
    ASSUME NEW p \in Text, p # <<>>,
           \A i, j \in 1..Len(p) : p[i] = "=" /\ p[j] = "=" => i = j
    PROVE  KeyValue(p) = <<Name(p), Value(p)>> /\ Name(p) \in Text /\ Value(p) \in Text
<1> DEFINE e == Equals(p)
           kv == ExplodeZerocopy(p, "=")
<1>1. \/ e = 0 /\ Free(p, "=")
      \/ e \in 1..Len(p) /\ p[e] = "=" /\ \A i \in 1..(e - 1) : p[i] # "="
  <2>1. e = SignAt(p, "=")
    BY DEF Equals, SelectInSeq, SignAt
  <2>2. \/ SignAt(p, "=") = 0 /\ Free(p, "=")
        \/ /\ SignAt(p, "=") \in 1..Len(p) /\ p[SignAt(p, "=")] = "="
           /\ \A i \in 1..(SignAt(p, "=") - 1) : p[i] # "="
    BY FirstSign
  <2> HIDE DEF e
  <2> QED BY <2>1, <2>2
<1>2. kv = AllPieces(p, "=")
  BY DEF ExplodeZerocopy, AllPieces
<1> HIDE DEF kv
<1>3. KeyValue(p) = <<Decode(kv[1]), IF Len(kv) = 2 THEN Decode(kv[2]) ELSE <<>>>>
  BY DEF KeyValue, kv
<1>4. CASE e = 0 /\ Free(p, "=")
  <2>1. kv = <<p>>
    BY <1>2, <1>4, PiecesOfFree
  <2>2. Name(p) = Decode(p) /\ Value(p) = <<>>
    BY <1>4 DEF Name, Value
  <2>3. kv[1] = p /\ Len(kv) = 1
    BY <2>1
  <2>4. <<>> \in Text
    BY DEF Text
  <2> QED BY <1>3, <2>2, <2>3, <2>4, DecodeType
<1>5. CASE e \in 1..Len(p) /\ p[e] = "=" /\ \A i \in 1..(e - 1) : p[i] # "="
  <2> DEFINE a == SubSeq(p, 1, e - 1)
             b == SubSeq(p, e + 1, Len(p))
  <2>1. e # 0 /\ e \in Nat /\ Len(p) \in Nat
    BY <1>5 DEF Text
  <2>2. Name(p) = Decode(a) /\ Value(p) = Decode(b)
    BY <2>1 DEF Name, Value
  <2> HIDE DEF e
  <2>3. \A i \in (e + 1)..Len(p) : p[i] # "="
    <3>1. \A i \in (e + 1)..Len(p) : i \in 1..Len(p) /\ i # e
      BY <2>1
    <3> QED BY <1>5, <3>1
  <2>4. a \in Text /\ b \in Text /\ Free(a, "=") /\ Free(b, "=") /\ p = a \o (<<"=">> \o b)
    BY <1>5, <2>3, AroundSign
  <2> HIDE DEF a, b
  <2>5. AllPieces(p, "=") = Append(AllPieces(a, "="), b)
    <3>1. "=" \in Chars
      BY DEF Chars
    <3> QED BY <2>4, <3>1, PiecesMore
  <2>6. kv = Append(<<a>>, b)
    BY <1>2, <2>4, <2>5, PiecesOfFree
  <2>7. kv[1] = a /\ Len(kv) = 2 /\ kv[2] = b
    BY <2>6
  <2> QED BY <1>3, <2>2, <2>4, <2>7, DecodeType
<1> QED BY <1>1, <1>4, <1>5

-----------------------------------------------------------------------------
(* Lists of lines *)

AnyLine == [field : Text, value : Text]

LEMMA LinesType ==
    ASSUME NEW L \in Lines(MaxLines)
    PROVE  L \in Seq(AnyLine) /\ \A i \in DOMAIN L : L[i] \in AnyLine /\ L[i].field # <<>>
<1>1. PICK k \in 0..MaxLines : L \in [1..k -> Line]
  BY DEF Lines
<1>2. k \in Nat
  BY <1>1, TextsAssumption
<1>3. \A i \in 1..k : L[i] \in Line
  BY <1>1
<1>4. Line \subseteq AnyLine /\ \A l \in Line : l.field # <<>>
  <2>1. Names \subseteq Text \ {<<>>} /\ Values \subseteq Text
    BY TextsAssumption, TextsAreTexts
  <2> QED BY <2>1 DEF Line, AnyLine
<1>5. L = [i \in 1..k |-> L[i]] /\ DOMAIN L = 1..k
  BY <1>1
<1>6. \A i \in 1..k : L[i] \in AnyLine /\ L[i].field # <<>>
  BY <1>3, <1>4
<1> QED BY <1>2, <1>5, <1>6

(* The first of the lines that have a name. *)
First(lines, f) ==
    CHOOSE i \in DOMAIN lines : lines[i].field = f /\ \A j \in 1..(i - 1) : lines[j].field # f

LEMMA FirstIs ==
    ASSUME NEW lines \in Seq(AnyLine), NEW f, NEW i \in DOMAIN lines,
           lines[i].field = f, \A j \in 1..(i - 1) : lines[j].field # f
    PROVE  First(lines, f) = i
<1>1. DOMAIN lines = 1..Len(lines) /\ Len(lines) \in Nat
  OBVIOUS
<1>2. ASSUME NEW k \in DOMAIN lines, lines[k].field = f, \A j \in 1..(k - 1) : lines[j].field # f
      PROVE  k = i
  <2>1. ~(k < i) /\ ~(i < k)
    BY <1>1, <1>2
  <2> QED BY <1>1, <2>1
<1> QED BY <1>2 DEF First

LEMMA FirstExists ==
    ASSUME NEW lines \in Seq(AnyLine), NEW k \in DOMAIN lines
    PROVE  \E i \in DOMAIN lines : /\ i <= k /\ lines[i].field = lines[k].field
                                   /\ \A j \in 1..(i - 1) : lines[j].field # lines[k].field
<1> DEFINE Same == {i \in DOMAIN lines : lines[i].field = lines[k].field}
<1>1. DOMAIN lines = 1..Len(lines) /\ Len(lines) \in Nat
  OBVIOUS
<1>2. Same \subseteq Nat /\ k \in Same
  BY <1>1
<1>3. PICK i \in Same : \A j \in Same : i <= j
  <2> HIDE DEF Same
  <2> QED BY <1>2, LeastNatural
<1>4. i \in 1..Len(lines) /\ i <= k /\ lines[i].field = lines[k].field
  BY <1>1, <1>2, <1>3
<1>5. ASSUME NEW j \in 1..(i - 1) PROVE lines[j].field # lines[k].field
  <2>1. j \in DOMAIN lines /\ j < i /\ j \in Nat /\ i \in Nat
    BY <1>1, <1>4
  <2>2. j \notin Same
    <3> HIDE DEF Same
    <3> QED BY <1>3, <2>1
  <2> QED BY <2>1, <2>2
<1> QED BY <1>1, <1>4, <1>5

NamesOf(lines) == {lines[i].field : i \in DOMAIN lines}

LEMMA MeaningIs ==
    \A lines : Meaning(lines) = [f \in NamesOf(lines) |-> lines[First(lines, f)].value]
BY DEF Meaning, NamesOf, First

(* One more line is inserted. *)
LEMMA MeaningMore ==
    ASSUME NEW lines \in Seq(AnyLine), NEW l \in AnyLine
    PROVE  Meaning(Append(lines, l)) = Insert(Meaning(lines), l.field, l.value)
<1> DEFINE more == Append(lines, l)
           n == Len(lines)
<1>1. /\ more \in Seq(AnyLine) /\ n \in Nat /\ DOMAIN lines = 1..n /\ DOMAIN more = 1..(n + 1)
      /\ \A i \in 1..n : more[i] = lines[i]
      /\ more[n + 1] = l
  BY AppendProperties
<1> HIDE DEF more, n
<1>2. NamesOf(more) = NamesOf(lines) \cup {l.field}
  <2>1. \A i \in 1..(n + 1) : i \in 1..n \/ i = n + 1
    BY <1>1
  <2>2. \A i \in 1..n : i \in 1..(n + 1)
    BY <1>1
  <2>3. n + 1 \in 1..(n + 1)
    BY <1>1
  <2> QED BY <1>1, <2>1, <2>2, <2>3 DEF NamesOf
<1>3. ASSUME NEW f \in NamesOf(lines)
      PROVE  more[First(more, f)].value = lines[First(lines, f)].value
  <2>1. PICK k \in DOMAIN lines : lines[k].field = f
    BY DEF NamesOf
  <2>2. PICK i \in DOMAIN lines : lines[i].field = f /\ \A j \in 1..(i - 1) : lines[j].field # f
    <3>1. \E i \in DOMAIN lines : /\ i <= k /\ lines[i].field = lines[k].field
                                   /\ \A j \in 1..(i - 1) : lines[j].field # lines[k].field
      BY FirstExists
    <3> QED BY <2>1, <3>1
  <2>3. First(lines, f) = i
    BY <2>2, FirstIs
  <2>4. i \in DOMAIN more /\ more[i] = lines[i] /\ \A j \in 1..(i - 1) : more[j] = lines[j]
    BY <1>1, <2>2
  <2>5. more[i].field = f /\ \A j \in 1..(i - 1) : more[j].field # f
    BY <2>2, <2>4
  <2>6. First(more, f) = i
    BY <1>1, <2>4, <2>5, FirstIs
  <2> QED BY <2>3, <2>4, <2>6
<1>4. ASSUME l.field \notin NamesOf(lines)
      PROVE  more[First(more, l.field)].value = l.value
  <2>1. \A j \in 1..((n + 1) - 1) : more[j].field # l.field
    BY <1>1, <1>4 DEF NamesOf
  <2>2. n + 1 \in DOMAIN more
    BY <1>1
  <2>3. First(more, l.field) = n + 1
    BY <1>1, <2>1, <2>2, FirstIs
  <2> QED BY <1>1, <2>3
<1>5. Meaning(more) = [f \in NamesOf(more) |-> more[First(more, f)].value]
  BY MeaningIs
<1>6. /\ DOMAIN Meaning(lines) = NamesOf(lines)
      /\ \A f \in NamesOf(lines) : Meaning(lines)[f] = lines[First(lines, f)].value
  BY MeaningIs
<1>7. Meaning(more) = Insert(Meaning(lines), l.field, l.value)
  BY <1>2, <1>3, <1>4, <1>5, <1>6 DEF Insert
<1> QED BY <1>7 DEF more

(* The meaning of the first lines of a list. *)
Upto(L, n) == SubSeq(L, 1, n)

LEMMA UptoMore ==
    ASSUME NEW L \in Seq(AnyLine), NEW i \in 1..Len(L)
    PROVE  Meaning(Upto(L, i)) = Insert(Meaning(Upto(L, i - 1)), L[i].field, L[i].value)
<1>1. Len(L) \in Nat /\ 1 \in 1..Len(L) /\ i \in 1..Len(L) /\ L[i] \in AnyLine
  OBVIOUS
<1>2. Upto(L, i) = Upto(L, i - 1) \o <<L[i]>>
  BY <1>1, SubSeqRecursiveSecond DEF Upto
<1>3. Upto(L, i - 1) \in Seq(AnyLine)
  <2>1. \A j \in 1..(i - 1) : L[j] \in AnyLine
    BY <1>1
  <2> QED BY <1>1, <2>1, SubSeqProperties DEF Upto
<1>4. Upto(L, i) = Append(Upto(L, i - 1), L[i])
  BY <1>1, <1>2, <1>3, AppendIsConcat
<1> QED BY <1>1, <1>3, <1>4, MeaningMore

LEMMA UptoEnds ==
    ASSUME NEW L \in Seq(AnyLine)
    PROVE  Meaning(Upto(L, 0)) = NoEntries /\ Upto(L, Len(L)) = L
<1>1. Upto(L, 0) = <<>>
  BY SubSeqEmpty DEF Upto
<1>2. Upto(L, Len(L)) = L
  BY SubSeqFull DEF Upto
<1>3. NamesOf(<<>>) = {}
  BY DEF NamesOf
<1>4. Meaning(<<>>) = NoEntries
  BY <1>3, MeaningIs DEF NoEntries
<1> QED BY <1>1, <1>2, <1>4

-----------------------------------------------------------------------------
(* The URL *)

PairsOf(q) == [i \in DOMAIN q |-> KeyValue(q[i])]
LinesOfQuery(q) == [i \in DOMAIN q |-> [field |-> Name(q[i]), value |-> Value(q[i])]]

(* To insert the pairs one after the other is to keep the first of each name. *)
LEMMA InsertAllIs ==
    ASSUME NEW L \in Seq(AnyLine), NEW pairs, DOMAIN pairs = 1..Len(L), Len(pairs) = Len(L),
           \A i \in 1..Len(L) : pairs[i] = <<L[i].field, L[i].value>>
    PROVE  InsertAll(pairs) = Meaning(L)
<1> DEFINE N == Len(L)
           M(n) == Meaning(Upto(L, n))
           Body(f) == [n \in 0..N |->
                          IF n = 0 THEN NoEntries ELSE Insert(f[n - 1], pairs[n][1], pairs[n][2])]
           f == CHOOSE g : g = Body(g)
           b == [n \in 0..N |-> M(n)]
<1>1. N \in Nat /\ Len(pairs) = N
  OBVIOUS
<1>2. M(0) = NoEntries /\ M(N) = Meaning(L)
  BY UptoEnds
<1>3. ASSUME NEW n \in 1..N
      PROVE  n \in 0..N /\ n - 1 \in 0..N /\ M(n) = Insert(M(n - 1), pairs[n][1], pairs[n][2])
  <2>1. n \in 1..Len(L) /\ pairs[n][1] = L[n].field /\ pairs[n][2] = L[n].value
    OBVIOUS
  <2>2. M(n) = Insert(M(n - 1), L[n].field, L[n].value)
    BY <2>1, UptoMore
  <2> HIDE DEF M
  <2> QED BY <1>1, <2>1, <2>2
<1> HIDE DEF M, N
<1>4. (\A n \in 0..N : b[n] = M(n)) /\ b = [n \in 0..N |-> b[n]]
  OBVIOUS
<1> HIDE DEF b
<1>5. ASSUME NEW n \in 0..N
      PROVE  b[n] = IF n = 0 THEN NoEntries ELSE Insert(b[n - 1], pairs[n][1], pairs[n][2])
  <2>1. n = 0 \/ n \in 1..N
    BY <1>1
  <2> QED BY <1>2, <1>3, <1>4, <2>1
<1>6. b = Body(b)
  BY <1>4, <1>5
<1>7. f = Body(f)
  BY <1>6
<1> HIDE DEF f
<1>8. f[0] = NoEntries /\ \A n \in 1..N : f[n] = Insert(f[n - 1], pairs[n][1], pairs[n][2])
  <2>1. 0 \in 0..N /\ \A n \in 1..N : n \in 0..N /\ n # 0
    BY <1>1
  <2> QED BY <1>7, <2>1
<1> DEFINE T == {n \in 0..N : f[n] = M(n)}
<1>9. 0 \in T /\ \A n \in 1..N : n - 1 \in T => n \in T
  <2>1. 0 \in T
    BY <1>1, <1>2, <1>8
  <2>2. ASSUME NEW n \in 1..N, n - 1 \in T PROVE n \in T
    <3>1. f[n - 1] = M(n - 1)
      BY <2>2
    <3>2. f[n] = Insert(M(n - 1), pairs[n][1], pairs[n][2])
      BY <1>8, <3>1
    <3> QED BY <1>3, <3>2
  <2> HIDE DEF T
  <2> QED BY <2>1, <2>2
<1>10. f[N] = M(N)
  <2> HIDE DEF T
  <2>1. \A n \in 0..N : n \in T
    BY <1>1, <1>9, Induction
  <2>2. N \in 0..N
    BY <1>1
  <2> QED BY <2>1, <2>2 DEF T
<1>11. InsertAll(pairs) = f[N]
  BY <1>1, Zenon DEF InsertAll, f
<1> QED BY <1>2, <1>10, <1>11

(* A parameter as encodeURIComponent makes it. *)
IsParam(p) ==
    /\ p \in Text /\ p # <<>> /\ Free(p, "?") /\ Free(p, "&")
    /\ \A i, j \in 1..Len(p) : p[i] = "=" /\ p[j] = "=" => i = j

LEMMA ParseUrlIs ==
    ASSUME NEW d, d.query \in Seq(Text), \A i \in 1..Len(d.query) : IsParam(d.query[i])
    PROVE  /\ UrlText(d) \in Text
           /\ ParseUrl(UrlText(d)) = [url |-> <<"/">>, query |-> QueryMeaning(d.query)]
<1> DEFINE q == d.query
           N == Len(q)
           L == LinesOfQuery(q)
           rest == JoinTexts(q, "&")
           t == UrlText(d)
           cut == ExplodeZerocopy(t, "?")
           params == IF Len(cut) = 2 THEN ExplodeZerocopy(cut[2], "&") ELSE <<>>
<1>1. /\ "/" \in Chars /\ "&" \in Chars /\ "?" \in Chars \ {"&"} /\ "?" \in Chars
      /\ <<"/">> \in Text /\ Free(<<"/">>, "?") /\ <<"/">> # <<>>
  <2>1. "/" \in Chars /\ "&" \in Chars /\ "?" \in Chars \ {"&"}
    BY DEF Chars
  <2>2. <<"/">> \in Text
    BY <2>1, OneCharacter
  <2>3. Free(<<"/">>, "?") /\ <<"/">> # <<>>
    BY DEF Free
  <2> QED BY <2>1, <2>2, <2>3
<1>2. /\ N \in Nat /\ DOMAIN q = 1..N /\ q \in Seq(Text)
      /\ \A i \in 1..N : q[i] \in Text /\ IsParam(q[i])
  OBVIOUS
<1>3. /\ rest \in Text /\ ExplodeZerocopy(rest, "&") = q /\ (rest = <<>>) = (q = <<>>)
      /\ Free(rest, "?")
  <2>1. \A i \in 1..N : q[i] # <<>> /\ Free(q[i], "&") /\ Free(q[i], "?")
    BY <1>2 DEF IsParam
  <2> QED BY <1>1, <1>2, <2>1, JoinExploded
<1> HIDE DEF rest
<1>4. t \in Text /\ cut[1] = <<"/">> /\ params = q
  <2>1. CASE q = <<>>
    <3>1. t = <<"/">>
      <4>1. t = <<"/">> \o <<>>
        BY <2>1 DEF UrlText
      <4> QED BY <1>1, <4>1, ConcatEmptySeq DEF Text
    <3>2. cut = <<<<"/">>>>
      BY <1>1, <3>1, PiecesOfFree DEF ExplodeZerocopy, AllPieces
    <3>3. cut[1] = <<"/">> /\ Len(cut) = 1
      BY <3>2
    <3> HIDE DEF cut
    <3> QED BY <1>1, <2>1, <3>1, <3>3
  <2>2. CASE q # <<>>
    <3>1. t = <<"/">> \o (<<"?">> \o rest)
      BY <2>2 DEF UrlText, rest
    <3>2. <<"?">> \o rest \in Text /\ Len(<<"?">> \o rest) = 1 + Len(rest)
      <4>1. <<"?">> \in Text /\ Len(<<"?">>) = 1
        BY <1>1, OneCharacter
      <4> QED BY <1>3, <4>1, JoinedAre
    <3>3. t \in Text /\ t # <<>>
      <4> DEFINE u == <<"?">> \o rest
                 v == <<"/">>
      <4>1. u \in Text /\ v \in Text /\ t = v \o u /\ Len(v) = 1
        BY <1>1, <3>1, <3>2
      <4> HIDE DEF t, u, v
      <4>2. t \in Text /\ Len(t) = Len(v) + Len(u) /\ Len(u) \in Nat
        BY <4>1, JoinedAre
      <4>3. Len(t) # 0
        BY <4>1, <4>2
      <4> QED BY <4>2, <4>3
    <3>4. AllPieces(t, "?") = Append(<<<<"/">>>>, rest)
      <4>1. AllPieces(<<"/">>, "?") = <<<<"/">>>>
        BY <1>1, PiecesOfFree
      <4> QED BY <1>1, <1>3, <3>1, <4>1, PiecesMore
    <3>5. cut = Append(<<<<"/">>>>, rest)
      BY <3>3, <3>4 DEF ExplodeZerocopy, AllPieces
    <3>6. cut[1] = <<"/">> /\ Len(cut) = 2 /\ cut[2] = rest
      BY <3>5
    <3> HIDE DEF cut, t
    <3> QED BY <1>3, <3>3, <3>6
  <2> QED BY <2>1, <2>2
<1>5. /\ L \in Seq(AnyLine) /\ Len(L) = N /\ DOMAIN PairsOf(q) = 1..N /\ Len(PairsOf(q)) = N
      /\ \A i \in 1..N : PairsOf(q)[i] = <<L[i].field, L[i].value>>
  <2>1. ASSUME NEW i \in 1..N
        PROVE  /\ KeyValue(q[i]) = <<Name(q[i]), Value(q[i])>>
               /\ [field |-> Name(q[i]), value |-> Value(q[i])] \in AnyLine
    <3>1. /\ KeyValue(q[i]) = <<Name(q[i]), Value(q[i])>>
          /\ Name(q[i]) \in Text /\ Value(q[i]) \in Text
      BY <1>2, KeyValueIs DEF IsParam
    <3> QED BY <3>1 DEF AnyLine
  <2> HIDE DEF q, N
  <2>2. L = [i \in 1..N |-> [field |-> Name(q[i]), value |-> Value(q[i])]]
    BY <1>2 DEF LinesOfQuery
  <2>3. PairsOf(q) = [i \in 1..N |-> KeyValue(q[i])]
    BY <1>2 DEF PairsOf
  <2> QED BY <1>2, <2>1, <2>2, <2>3
<1>6. InsertAll(PairsOf(q)) = Meaning(L)
  <2> HIDE DEF L, q, N
  <2> QED BY <1>5, InsertAllIs
<1>7. ParseUrl(t) = [url |-> cut[1], query |-> InsertAll(PairsOf(params))]
  BY Zenon DEF ParseUrl, PairsOf
<1>8. QueryMeaning(q) = Meaning(L)
  BY Zenon DEF QueryMeaning, LinesOfQuery
<1> HIDE DEF cut, params, q, L, t
<1>9. ParseUrl(t) = [url |-> <<"/">>, query |-> QueryMeaning(q)]
  BY <1>4, <1>6, <1>7, <1>8
<1> QED BY <1>4, <1>9 DEF q, t

-----------------------------------------------------------------------------
(* The request, and where the libraries are in it *)

IsLines(L) == L \in Seq(AnyLine) /\ \A i \in 1..Len(L) : L[i].field # <<>>

DocInv ==
    /\ UrlText(doc) \in Text /\ IsLines(doc.headers)
    /\ ParseUrl(UrlText(doc)) = [url |-> <<"/">>, query |-> QueryMeaning(doc.query)]
    /\ Len(doc.parts) \in 0..MaxParts
    /\ \A j \in 1..Len(doc.parts) :
          IsLines(doc.parts[j].headers) /\ doc.parts[j].data \in Datas

Parts == Len(doc.parts)
IsAt(a) ==
    /\ a.left \in Text /\ a.part \in 0..(Parts + 1) /\ a.line \in Nat
    /\ \/ a.cb = "url" /\ a.part = 0
       \/ /\ a.cb \in {"field", "value"} /\ a.part \in 0..Parts
          /\ a.line \in 1..Len(LinesOf(a.part))
       \/ a.cb = "headers_complete" /\ a.part = 0 /\ a.line = Len(LinesOf(0)) + 1
       \/ a.cb = "part_begin" /\ a.part \in 1..Parts
       \/ /\ a.cb \in {"data", "part_end"} /\ a.part \in 1..Parts
          /\ a.line = Len(LinesOf(a.part)) + 1
       \/ a.cb \in {"end", "none"} /\ a.part = Parts + 1
AtInv == DocInv /\ IsAt(at)

LEMMA RequestsType == ASSUME doc \in Requests PROVE DocInv
<1>1. /\ doc.query \in Queries(MaxLines) /\ doc.headers \in Lines(MaxLines)
      /\ doc.parts \in UNION {[1..k -> [headers : Lines(MaxLines), data : Datas]] : k \in 0..MaxParts}
  BY DEF Requests
<1>2. \A L \in Lines(MaxLines) : IsLines(L)
  BY LinesType DEF IsLines
<1>3. /\ UrlText(doc) \in Text
      /\ ParseUrl(UrlText(doc)) = [url |-> <<"/">>, query |-> QueryMeaning(doc.query)]
  <2>1. PICK k \in 0..MaxLines : doc.query \in [1..k -> Params]
    BY <1>1 DEF Queries
  <2>2. k \in Nat /\ DOMAIN doc.query = 1..k
    BY <2>1, TextsAssumption
  <2>3. ASSUME NEW p \in Params PROVE IsParam(p)
    <3>1. p \in Text /\ p # <<>> /\ DOMAIN p = 1..Len(p)
      BY TextsAssumption, TextsAreTexts DEF Text
    <3> QED BY <3>1, TextsAssumption DEF IsParam, Free
  <2>4. \A i \in 1..k : doc.query[i] \in Text /\ IsParam(doc.query[i])
    <3>1. \A i \in 1..k : doc.query[i] \in Params
      BY <2>1
    <3> QED BY <2>3, <3>1 DEF IsParam
  <2>5. doc.query = [i \in 1..k |-> doc.query[i]]
    BY <2>1
  <2>6. doc.query \in Seq(Text) /\ Len(doc.query) = k
    BY <2>2, <2>4, <2>5
  <2> QED BY <2>4, <2>6, ParseUrlIs
<1>4. PICK k \in 0..MaxParts : doc.parts \in [1..k -> [headers : Lines(MaxLines), data : Datas]]
  BY <1>1
<1>5. Len(doc.parts) = k
  BY <1>4, TextsAssumption
<1>6. \A j \in 1..k : doc.parts[j].headers \in Lines(MaxLines) /\ doc.parts[j].data \in Datas
  BY <1>4
<1> QED BY <1>1, <1>2, <1>3, <1>4, <1>5, <1>6 DEF DocInv

(* What a callback is given, and what the libraries report next. *)
LEMMA Reported ==
    ASSUME AtInv, NEW cb, NEW next, NEW n \in Cuts, Reports(cb, n, next)
    PROVE  /\ at.cb = cb /\ Piece(n) \in Text
           /\ \/ at' = next /\ Piece(n) = at.left
              \/ \E rest \in Text :
                    /\ Piece(n) # <<>> /\ Piece(n) \o rest = at.left
                    /\ at' = At(cb, at.part, at.line, rest)
<1>1. at.left \in Text /\ n \in 0..Len(at.left)
  BY DEF AtInv, IsAt, Cuts
<1> DEFINE rest == SubSeq(at.left, n + 1, Len(at.left))
<1>2. /\ Piece(n) \in Text /\ rest \in Text /\ Piece(n) \o rest = at.left
      /\ n = Len(at.left) => Piece(n) = at.left
      /\ (Piece(n) = <<>>) = (n = 0)
  BY <1>1, PieceAndRest DEF Piece
<1>3. \/ n = Len(at.left) /\ at' = next
      \/ n # 0 /\ at' = At(cb, at.part, at.line, rest)
  BY DEF Reports
<1>4. at.cb = cb
  BY DEF Reports
<1> HIDE DEF rest
<1> QED BY <1>2, <1>3, <1>4

LEMMA LinesOfType ==
    ASSUME DocInv, NEW part \in 0..Parts
    PROVE  /\ IsLines(LinesOf(part)) /\ Len(LinesOf(part)) \in Nat /\ Parts \in 0..MaxParts
           /\ MaxParts \in Nat /\ Parts \in Nat
           /\ \A i \in 1..Len(LinesOf(part)) :
                 /\ LinesOf(part)[i].field \in Text /\ LinesOf(part)[i].field # <<>>
                 /\ LinesOf(part)[i].value \in Text
           /\ part # 0 => doc.parts[part].data \in Text
<1>1. Parts \in 0..MaxParts /\ MaxParts \in Nat /\ Parts \in Nat
  BY TextsAssumption DEF DocInv, Parts
<1>2. part # 0 => part \in 1..Parts
  BY <1>1
<1>3. IsLines(LinesOf(part))
  BY <1>2 DEF DocInv, LinesOf, Parts
<1>4. Datas \subseteq Text
  BY TextsAssumption, TextsAreTexts
<1>5. part # 0 => doc.parts[part].data \in Text
  BY <1>2, <1>4 DEF DocInv, Parts
<1>6. \A L : IsLines(L) => /\ Len(L) \in Nat
                           /\ \A i \in 1..Len(L) : /\ L[i].field \in Text /\ L[i].field # <<>>
                                                   /\ L[i].value \in Text
  <2> SUFFICES ASSUME NEW L, IsLines(L)
      PROVE  /\ Len(L) \in Nat
             /\ \A i \in 1..Len(L) : L[i].field \in Text /\ L[i].field # <<>> /\ L[i].value \in Text
    OBVIOUS
  <2>1. L \in Seq(AnyLine) /\ \A i \in 1..Len(L) : L[i] \in AnyLine /\ L[i].field # <<>>
    BY DEF IsLines
  <2>2. \A l \in AnyLine : l.field \in Text /\ l.value \in Text
    BY DEF AnyLine
  <2> QED BY <2>1, <2>2
<1> QED BY <1>1, <1>3, <1>5, <1>6

LEMMA LineAtIs ==
    ASSUME DocInv, NEW part \in 0..Parts, NEW line \in 1..(Len(LinesOf(part)) + 1)
    PROVE  LET L == LinesOf(part)
               a == LineAt(part, line)
           IN /\ IsAt(a) /\ a.part = part /\ a.line = line
              /\ line <= Len(L) => a.cb = "field" /\ a.left = L[line].field
              /\ line = Len(L) + 1 /\ part = 0 => a.cb = "headers_complete"
              /\ line = Len(L) + 1 /\ part # 0 =>
                    IF doc.parts[part].data = <<>> THEN a.cb = "part_end"
                    ELSE a.cb = "data" /\ a.left = doc.parts[part].data
<1> DEFINE L == LinesOf(part)
           a == LineAt(part, line)
<1>1. /\ Len(L) \in Nat /\ Parts \in Nat /\ <<>> \in Text
      /\ \A i \in 1..Len(L) : L[i].field \in Text
      /\ part # 0 => doc.parts[part].data \in Text
  <2>1. <<>> \in Text
    BY EmptySeq DEF Text
  <2> QED BY <2>1, LinesOfType
<1>2. CASE line <= Len(L)
  <2>1. a = [cb |-> "field", part |-> part, line |-> line, left |-> L[line].field]
    BY <1>2 DEF LineAt, At
  <2>2. line \in 1..Len(L) /\ line \in Nat /\ L[line].field \in Text
    BY <1>1, <1>2
  <2> HIDE DEF a
  <2>3. a.cb = "field" /\ a.part = part /\ a.line = line /\ a.left = L[line].field
    BY <2>1
  <2> QED BY <1>1, <1>2, <2>2, <2>3 DEF IsAt, a
<1>3. CASE line = Len(L) + 1 /\ part = 0
  <2>1. a = [cb |-> "headers_complete", part |-> part, line |-> line, left |-> <<>>]
    BY <1>1, <1>3 DEF LineAt, At
  <2> HIDE DEF a
  <2>2. a.cb = "headers_complete" /\ a.part = part /\ a.line = line /\ a.left = <<>>
    BY <2>1
  <2> QED BY <1>1, <1>3, <2>2 DEF IsAt, a
<1>4. CASE line = Len(L) + 1 /\ part # 0 /\ doc.parts[part].data = <<>>
  <2>1. a = [cb |-> "part_end", part |-> part, line |-> line, left |-> <<>>]
    BY <1>1, <1>4 DEF LineAt, At
  <2> HIDE DEF a
  <2>2. a.cb = "part_end" /\ a.part = part /\ a.line = line /\ a.left = <<>>
    BY <2>1
  <2> QED BY <1>1, <1>4, <2>2 DEF IsAt, a
<1>5. CASE line = Len(L) + 1 /\ part # 0 /\ doc.parts[part].data # <<>>
  <2>1. a = [cb |-> "data", part |-> part, line |-> line, left |-> doc.parts[part].data]
    BY <1>1, <1>5 DEF LineAt, At
  <2> HIDE DEF a
  <2>2. a.cb = "data" /\ a.part = part /\ a.line = line /\ a.left = doc.parts[part].data
    BY <2>1
  <2> QED BY <1>1, <1>5, <2>2 DEF IsAt, a
<1> QED BY <1>1, <1>2, <1>3, <1>4, <1>5

LEMMA PartAtIs ==
    ASSUME DocInv, NEW part \in 1..(Parts + 1)
    PROVE  LET a == PartAt(part)
           IN /\ IsAt(a) /\ a.part = part
              /\ a.cb = IF part <= Parts THEN "part_begin" ELSE "end"
<1>1. Parts \in Nat /\ <<>> \in Text
  BY TextsAssumption DEF DocInv, Parts, Text
<1>2. PartAt(part) = [cb |-> IF part <= Parts THEN "part_begin" ELSE "end", part |-> part,
                      line |-> 0, left |-> <<>>]
  BY DEF PartAt, At, Parts
<1>3. /\ PartAt(part).cb = (IF part <= Parts THEN "part_begin" ELSE "end")
      /\ PartAt(part).part = part /\ PartAt(part).line = 0 /\ PartAt(part).left = <<>>
  BY <1>2
<1> QED BY <1>1, <1>3 DEF IsAt

(* More of the same text, or what comes next. *)
LEMMA ReportsKeeps ==
    ASSUME AtInv, NEW cb, NEW next, IsAt(next), NEW n \in Cuts, Reports(cb, n, next),
           UNCHANGED doc
    PROVE  AtInv'
<1>1. CASE at' = next
  BY <1>1 DEF AtInv, DocInv, IsAt, Parts, LinesOf
<1>2. CASE \E rest \in Text : at' = At(at.cb, at.part, at.line, rest)
  <2>1. /\ at'.cb = at.cb /\ at'.part = at.part /\ at'.line = at.line /\ at'.left \in Text
    BY <1>2 DEF At
  <2> QED BY <2>1 DEF AtInv, DocInv, IsAt, Parts, LinesOf
<1> QED BY <1>1, <1>2, Reported

LEMMA ZeroIsACut == AtInv => 0 \in Cuts
BY LenProperties DEF AtInv, IsAt, Cuts, Text

(* What each callback is followed by. *)
LEMMA NextAtInv == ASSUME AtInv, [Next]_vars PROVE AtInv'
<1>1. /\ DocInv /\ IsAt(at) /\ 0 \in Cuts /\ Parts \in Nat
      /\ \A part \in 0..Parts : Len(LinesOf(part)) \in Nat
  BY ZeroIsACut, LinesOfType, TextsAssumption DEF AtInv, DocInv, Parts
<1>2. \A part \in 0..Parts : \A line \in 1..(Len(LinesOf(part)) + 1) : IsAt(LineAt(part, line))
  BY <1>1, LineAtIs
<1>3. \A part \in 1..(Parts + 1) : IsAt(PartAt(part))
  BY <1>1, PartAtIs
<1>4. ASSUME at.cb = "field"
      PROVE  IsAt(At("value", at.part, at.line, LinesOf(at.part)[at.line].value))
  <2>1. at.part \in 0..Parts /\ at.line \in 1..Len(LinesOf(at.part)) /\ at.line \in Nat
    BY <1>1, <1>4 DEF IsAt
  <2>2. LinesOf(at.part)[at.line].value \in Text
    BY <1>1, <2>1, LinesOfType
  <2> DEFINE v == LinesOf(at.part)[at.line].value
             a == At("value", at.part, at.line, v)
  <2>3. a.cb = "value" /\ a.part = at.part /\ a.line = at.line /\ a.left = v
    BY DEF At
  <2>4. at.part \in 0..(Parts + 1)
    BY <1>1, <2>1
  <2> HIDE DEF a, v
  <2>5. IsAt(a)
    BY <2>1, <2>2, <2>3, <2>4 DEF IsAt, v
  <2> QED BY <2>5 DEF a, v
<1>5. ASSUME at.cb = "value" PROVE IsAt(LineAt(at.part, at.line + 1))
  <2>1. at.part \in 0..Parts /\ at.line \in 1..Len(LinesOf(at.part))
    BY <1>1, <1>5 DEF IsAt
  <2>2. at.line + 1 \in 1..(Len(LinesOf(at.part)) + 1)
    BY <1>1, <2>1
  <2> QED BY <1>2, <2>1, <2>2
<1>6. ASSUME at.cb = "data" PROVE IsAt(At("part_end", at.part, at.line, <<>>))
  <2> DEFINE a == At("part_end", at.part, at.line, <<>>)
  <2>1. a.cb = "part_end" /\ a.part = at.part /\ a.line = at.line /\ a.left = <<>>
    BY DEF At
  <2>2. <<>> \in Text
    BY DEF Text
  <2> HIDE DEF a
  <2>3. IsAt(a)
    BY <1>1, <1>6, <2>1, <2>2 DEF IsAt
  <2> QED BY <2>3 DEF a
<1>7. ASSUME at.cb = "end" PROVE IsAt(At("none", at.part, 0, <<>>))
  <2> DEFINE a == At("none", at.part, 0, <<>>)
  <2>1. a.cb = "none" /\ a.part = at.part /\ a.line = 0 /\ a.left = <<>>
    BY DEF At
  <2>2. <<>> \in Text
    BY DEF Text
  <2> HIDE DEF a
  <2>3. IsAt(a)
    BY <1>1, <1>7, <2>1, <2>2 DEF IsAt
  <2> QED BY <2>3 DEF a
<1>8. 0 \in 0..Parts /\ 1 \in 1..(Len(LinesOf(0)) + 1) /\ 1 \in 1..(Parts + 1)
  <2>1. 0 \in 0..Parts
    BY <1>1
  <2>2. Len(LinesOf(0)) \in Nat
    BY <1>1, <2>1
  <2> QED BY <1>1, <2>1, <2>2
<1>9. CASE CallbackUrl
  BY <1>2, <1>8, <1>9, ReportsKeeps DEF CallbackUrl
<1>10. CASE CallbackHeaderField
  <2>1. PICK n \in Cuts : /\ at.part = 0 /\ UNCHANGED doc
                          /\ Reports("field", n, At("value", 0, at.line, LinesOf(0)[at.line].value))
    BY <1>10 DEF CallbackHeaderField
  <2>2. at.cb = "field"
    BY <2>1 DEF Reports
  <2> QED BY <1>4, <2>1, <2>2, ReportsKeeps
<1>11. CASE CallbackHeaderValue
  <2>1. PICK n \in Cuts : /\ at.part = 0 /\ UNCHANGED doc
                          /\ Reports("value", n, LineAt(0, at.line + 1))
    BY <1>11 DEF CallbackHeaderValue
  <2>2. at.cb = "value"
    BY <2>1 DEF Reports
  <2> QED BY <1>5, <2>1, <2>2, ReportsKeeps
<1>12. CASE CallbackHeadersComplete
  BY <1>1, <1>3, <1>8, <1>12, ReportsKeeps DEF CallbackHeadersComplete
<1>13. CASE OnPartBegin
  <2>1. Reports("part_begin", 0, LineAt(at.part, 1)) /\ UNCHANGED doc
    BY <1>13 DEF OnPartBegin
  <2>2. at.part \in 1..Parts
    BY <1>1, <2>1 DEF Reports, IsAt
  <2>3. at.part \in 0..Parts /\ 1 \in 1..(Len(LinesOf(at.part)) + 1)
    <3>1. at.part \in 0..Parts
      BY <1>1, <2>2
    <3>2. Len(LinesOf(at.part)) \in Nat
      BY <1>1, <3>1
    <3> QED BY <3>1, <3>2
  <2> QED BY <1>1, <1>2, <2>1, <2>3, ReportsKeeps
<1>14. CASE OnHeaderField
  <2>1. PICK n \in Cuts :
          /\ UNCHANGED doc
          /\ Reports("field", n, At("value", at.part, at.line, LinesOf(at.part)[at.line].value))
    BY <1>14 DEF OnHeaderField
  <2>2. at.cb = "field"
    BY <2>1 DEF Reports
  <2> QED BY <1>4, <2>1, <2>2, ReportsKeeps
<1>15. CASE OnHeaderValue
  <2>1. PICK n \in Cuts : UNCHANGED doc /\ Reports("value", n, LineAt(at.part, at.line + 1))
    BY <1>15 DEF OnHeaderValue
  <2>2. at.cb = "value"
    BY <2>1 DEF Reports
  <2> QED BY <1>5, <2>1, <2>2, ReportsKeeps
<1>16. CASE OnPartData
  <2>1. PICK n \in Cuts : UNCHANGED doc /\ Reports("data", n, At("part_end", at.part, at.line, <<>>))
    BY <1>16 DEF OnPartData
  <2>2. at.cb = "data"
    BY <2>1 DEF Reports
  <2> QED BY <1>6, <2>1, <2>2, ReportsKeeps
<1>17. CASE OnPartEnd
  <2>1. Reports("part_end", 0, PartAt(at.part + 1)) /\ UNCHANGED doc
    BY <1>17 DEF OnPartEnd
  <2>2. at.part \in 1..Parts
    BY <1>1, <2>1 DEF Reports, IsAt
  <2>3. at.part + 1 \in 1..(Parts + 1)
    BY <1>1, <2>2
  <2> QED BY <1>1, <1>3, <2>1, <2>3, ReportsKeeps
<1>18. CASE OnEnd
  <2>1. Reports("end", 0, At("none", at.part, 0, <<>>)) /\ UNCHANGED doc
    BY <1>18 DEF OnEnd
  <2>2. at.cb = "end"
    BY <2>1 DEF Reports
  <2> QED BY <1>1, <1>7, <2>1, <2>2, ReportsKeeps
<1>19. CASE \E i \in 1..MaxParts : TakeData(i)
  BY <1>19 DEF TakeData, AtInv, DocInv, IsAt, Parts, LinesOf
<1>20. CASE UNCHANGED vars
  BY <1>20 DEF vars, AtInv, DocInv, IsAt, Parts, LinesOf
<1> QED
  BY <1>9, <1>10, <1>11, <1>12, <1>13, <1>14, <1>15, <1>16, <1>17, <1>18, <1>19, <1>20 DEF Next

LEMMA InitAtInv == ASSUME Init PROVE AtInv
<1>1. DocInv
  BY RequestsType DEF Init
<1>2. at.cb = "url" /\ at.part = 0 /\ at.line = 0 /\ at.left = UrlText(doc)
  BY DEF Init, At
<1>3. Parts \in Nat
  BY <1>1, TextsAssumption DEF DocInv, Parts
<1> QED BY <1>1, <1>2, <1>3 DEF AtInv, IsAt, DocInv

-----------------------------------------------------------------------------
(* HTTP1::Parser *)

IsParser(p) ==
    p = [last_data_cb |-> p.last_data_cb, last_field |-> p.last_field,
         last_value |-> p.last_value, headers |-> p.headers,
         headers_lowercase |-> p.headers_lowercase, url_raw |-> p.url_raw, url |-> p.url,
         query |-> p.query, header_finished |-> p.header_finished]

Headers == LinesOf(0)

(* The first k lines have been read, and the last of them is not inserted yet. *)
Held(p, k) ==
    IF k = 0 THEN p.headers = NoEntries /\ p.last_field = <<>>
    ELSE /\ p.headers = Meaning(Upto(Headers, k - 1))
         /\ p.last_field = Headers[k].field /\ p.last_value = Headers[k].value

AsSent(p) ==
    /\ p.headers = Meaning(doc.headers)
    /\ p.headers_lowercase \in LowerCopies(Meaning(doc.headers))
    /\ p.url = <<"/">> /\ p.query = QueryMeaning(doc.query)

ParserAt(p, a) ==
    /\ IsParser(p)
    /\ p.last_field \in Text /\ p.last_value \in Text /\ p.url_raw \in Text
    /\ a.part = 0 => p.header_finished = FALSE
    /\ a.cb = "url" =>
          p.last_data_cb = "none" /\ Held(p, 0) /\ p.url_raw \o a.left = UrlText(doc)
    /\ a.part = 0 /\ a.cb # "url" => p.url_raw = UrlText(doc)
    /\ a.part = 0 /\ a.cb = "field" =>
          IF p.last_data_cb = "field"
          THEN /\ p.headers = Meaning(Upto(Headers, a.line - 1))
               /\ p.last_field \o a.left = Headers[a.line].field
          ELSE Held(p, a.line - 1) /\ a.left = Headers[a.line].field
    /\ a.part = 0 /\ a.cb = "value" =>
          /\ p.headers = Meaning(Upto(Headers, a.line - 1))
          /\ p.last_field = Headers[a.line].field
          /\ IF p.last_data_cb = "value" THEN p.last_value \o a.left = Headers[a.line].value
             ELSE a.left = Headers[a.line].value
    /\ a.cb = "headers_complete" => Held(p, Len(Headers))
    /\ p.header_finished => AsSent(p)

ParserInv == AtInv /\ ParserAt(hp, at)

LEMMA HeadersType ==
    ASSUME DocInv
    PROVE  /\ Headers = doc.headers /\ Headers \in Seq(AnyLine) /\ Len(Headers) \in Nat
           /\ \A i \in 1..Len(Headers) : /\ Headers[i].field \in Text /\ Headers[i].field # <<>>
                                         /\ Headers[i].value \in Text
<1>1. 0 \in 0..Parts
  BY TextsAssumption DEF DocInv, Parts
<1> QED BY <1>1, LinesOfType DEF Headers, LinesOf, IsLines

(* The line that is held is inserted. *)
LEMMA HeldIsInserted ==
    ASSUME DocInv, NEW p, IsParser(p), NEW k \in 0..Len(Headers), Held(p, k)
    PROVE  LET q == InsertLast(p)
           IN /\ IsParser(q) /\ q.headers = Meaning(Upto(Headers, k)) /\ q.last_field = <<>>
              /\ q.last_value = p.last_value \/ q.last_value = <<>>
              /\ q.headers_lowercase = p.headers_lowercase /\ q.url_raw = p.url_raw
              /\ q.url = p.url /\ q.query = p.query /\ q.header_finished = p.header_finished
              /\ q.last_data_cb = p.last_data_cb
<1>1. CASE k = 0
  <2>1. p.last_field = <<>> /\ p.headers = Meaning(Upto(Headers, 0))
    BY <1>1, HeadersType, UptoEnds DEF Held
  <2> QED BY <1>1, <2>1 DEF InsertLast
<1>2. CASE k # 0
  <2>1. /\ k \in 1..Len(Headers) /\ p.headers = Meaning(Upto(Headers, k - 1))
        /\ p.last_field = Headers[k].field /\ p.last_value = Headers[k].value
        /\ p.last_field # <<>>
    BY <1>2, HeadersType DEF Held
  <2>2. Insert(p.headers, p.last_field, p.last_value) = Meaning(Upto(Headers, k))
    BY <2>1, HeadersType, UptoMore
  <2>3. InsertLast(p) = [p EXCEPT !.headers = Insert(p.headers, p.last_field, p.last_value),
                                  !.last_field = <<>>, !.last_value = <<>>]
    BY <2>1 DEF InsertLast
  <2>4. InsertLast(p) =
          [last_data_cb |-> p.last_data_cb, last_field |-> <<>>, last_value |-> <<>>,
           headers |-> Insert(p.headers, p.last_field, p.last_value),
           headers_lowercase |-> p.headers_lowercase, url_raw |-> p.url_raw, url |-> p.url,
           query |-> p.query, header_finished |-> p.header_finished]
    BY <2>3 DEF IsParser
  <2> QED BY <2>2, <2>4 DEF IsParser
<1> QED BY <1>1, <1>2

LEMMA InitParserInv == ASSUME Init PROVE ParserInv
<1>1. AtInv
  BY InitAtInv
<1>2. /\ IsParser(hp) /\ hp.last_data_cb = "none" /\ hp.last_field = <<>> /\ hp.last_value = <<>>
      /\ hp.headers = NoEntries /\ hp.url_raw = <<>> /\ hp.header_finished = FALSE
  BY DEF Init, IsParser
<1>3. at.cb = "url" /\ at.left = UrlText(doc)
  BY DEF Init, At
<1>4. <<>> \in Text /\ <<>> \o UrlText(doc) = UrlText(doc)
  BY <1>1, Joined DEF AtInv, DocInv
<1> QED BY <1>1, <1>2, <1>3, <1>4 DEF ParserInv, ParserAt, Held

LEMMA UrlKeepsParser ==
    ASSUME ParserInv, CallbackUrl PROVE ParserAt(hp', at')
<1>1. PICK n \in Cuts : Reports("url", n, LineAt(0, 1)) /\ hp' = [hp EXCEPT !.url_raw = @ \o Piece(n)]
  BY DEF CallbackUrl
<1> DEFINE x == Piece(n)
<1>2. /\ AtInv /\ DocInv /\ IsParser(hp) /\ hp.url_raw \in Text /\ UrlText(doc) \in Text
      /\ hp.last_field \in Text /\ hp.last_value \in Text /\ at.left \in Text
  BY DEF ParserInv, ParserAt, AtInv, IsAt, DocInv
<1>3. /\ at.cb = "url" /\ x \in Text
      /\ \/ at' = LineAt(0, 1) /\ x = at.left
         \/ \E rest \in Text : x # <<>> /\ x \o rest = at.left /\ at' = At("url", at.part, at.line, rest)
  BY <1>1, <1>2, Reported
<1>4. /\ at.part = 0 /\ hp.header_finished = FALSE /\ hp.last_data_cb = "none" /\ Held(hp, 0)
      /\ hp.url_raw \o at.left = UrlText(doc)
  BY <1>2, <1>3 DEF ParserInv, ParserAt, AtInv, IsAt
<1> HIDE DEF x
<1>5. hp' = [last_data_cb |-> hp.last_data_cb, last_field |-> hp.last_field,
             last_value |-> hp.last_value, headers |-> hp.headers,
             headers_lowercase |-> hp.headers_lowercase, url_raw |-> hp.url_raw \o x,
             url |-> hp.url, query |-> hp.query, header_finished |-> hp.header_finished]
  BY <1>1, <1>2 DEF IsParser, x
<1>6. /\ IsParser(hp') /\ hp'.url_raw = hp.url_raw \o x /\ hp'.last_field = hp.last_field
      /\ hp'.last_value = hp.last_value /\ hp'.headers = hp.headers
      /\ hp'.header_finished = FALSE /\ hp'.last_data_cb = "none" /\ hp'.url_raw \in Text
  BY <1>2, <1>3, <1>4, <1>5, Joined DEF IsParser
<1>7. Held(hp', 0)
  BY <1>4, <1>6 DEF Held
<1>8. CASE at' = LineAt(0, 1) /\ x = at.left
  <2>1. 0 \in 0..Parts /\ 1 \in 1..(Len(Headers) + 1) /\ Len(Headers) \in Nat
    BY <1>2, HeadersType, TextsAssumption DEF DocInv, Parts
  <2>2. /\ at'.part = 0 /\ at'.line = 1
        /\ 1 <= Len(Headers) => at'.cb = "field" /\ at'.left = Headers[1].field
        /\ 1 = Len(Headers) + 1 => at'.cb = "headers_complete"
    BY <1>2, <1>8, <2>1, LineAtIs DEF Headers
  <2>3. hp'.url_raw = UrlText(doc)
    BY <1>4, <1>6, <1>8
  <2>4. CASE 1 <= Len(Headers)
    BY <1>2, <1>6, <1>7, <2>2, <2>3, <2>4 DEF ParserAt
  <2>5. CASE 1 = Len(Headers) + 1
    BY <1>2, <1>6, <1>7, <2>1, <2>2, <2>3, <2>5 DEF ParserAt
  <2> QED BY <2>1, <2>4, <2>5
<1>9. ASSUME NEW rest \in Text, x \o rest = at.left, at' = At("url", at.part, at.line, rest)
      PROVE  ParserAt(hp', at')
  <2>1. at'.cb = "url" /\ at'.part = 0 /\ at'.left = rest
    BY <1>4, <1>9 DEF At
  <2>2. hp'.url_raw \o rest = UrlText(doc)
    <3>1. (hp.url_raw \o x) \o rest = hp.url_raw \o (x \o rest)
      <4>1. x \in Text /\ hp.url_raw \in Text /\ rest \in Text
        BY <1>2, <1>3
      <4> QED BY <4>1, Associates
    <3> QED BY <1>4, <1>6, <1>9, <3>1
  <2> QED BY <1>2, <1>6, <1>7, <2>1, <2>2 DEF ParserAt
<1> QED BY <1>3, <1>8, <1>9

LEMMA FieldKeepsParser ==
    ASSUME ParserInv, CallbackHeaderField PROVE ParserAt(hp', at')
<1> DEFINE i == at.line
<1>1. PICK n \in Cuts :
         /\ at.part = 0 /\ Reports("field", n, At("value", 0, i, LinesOf(0)[i].value))
         /\ hp' = HeaderField(Piece(n))
  BY DEF CallbackHeaderField
<1> DEFINE x == Piece(n)
<1>2. /\ AtInv /\ DocInv /\ IsParser(hp) /\ hp.url_raw \in Text /\ UrlText(doc) \in Text
      /\ hp.last_field \in Text /\ hp.last_value \in Text /\ at.left \in Text
  BY DEF ParserInv, ParserAt, AtInv, IsAt, DocInv
<1>3. /\ at.cb = "field" /\ x \in Text
      /\ \/ at' = At("value", 0, i, Headers[i].value) /\ x = at.left
         \/ \E rest \in Text : x # <<>> /\ x \o rest = at.left /\ at' = At("field", at.part, i, rest)
  BY <1>1, <1>2, Reported DEF Headers
<1>4. i \in 1..Len(Headers) /\ Len(Headers) \in Nat /\ i - 1 \in 0..Len(Headers)
      /\ Headers[i].field \in Text /\ Headers[i].value \in Text
  <2>1. i \in 1..Len(Headers)
    BY <1>1, <1>2, <1>3 DEF AtInv, IsAt, Headers
  <2>2. Len(Headers) \in Nat /\ Headers[i].field \in Text /\ Headers[i].value \in Text
    BY <1>2, <2>1, HeadersType
  <2> QED BY <2>1, <2>2
<1>5. hp.header_finished = FALSE /\ hp.url_raw = UrlText(doc)
  BY <1>1, <1>3 DEF ParserInv, ParserAt
<1> HIDE DEF x
<1>6. /\ IsParser(hp') /\ hp'.url_raw = UrlText(doc) /\ hp'.header_finished = FALSE
      /\ hp'.last_data_cb = "field" /\ hp'.headers = Meaning(Upto(Headers, i - 1))
      /\ hp'.last_field \in Text /\ hp'.last_value \in Text
      /\ \/ hp'.last_field = x /\ at.left = Headers[i].field
         \/ /\ hp'.last_field = hp.last_field \o x
            /\ hp.last_field \o at.left = Headers[i].field
  <2>1. CASE hp.last_data_cb = "field"
    <3>1. /\ hp.headers = Meaning(Upto(Headers, i - 1))
          /\ hp.last_field \o at.left = Headers[i].field
      BY <1>1, <1>3, <2>1 DEF ParserInv, ParserAt
    <3>2. hp' = [last_data_cb |-> hp.last_data_cb, last_field |-> hp.last_field \o x,
                 last_value |-> hp.last_value, headers |-> hp.headers,
                 headers_lowercase |-> hp.headers_lowercase, url_raw |-> hp.url_raw,
                 url |-> hp.url, query |-> hp.query, header_finished |-> hp.header_finished]
      BY <1>1, <1>2, <2>1 DEF IsParser, HeaderField, x
    <3>3. hp.last_field \o x \in Text
      BY <1>2, <1>3, Joined
    <3> QED BY <1>2, <1>5, <2>1, <3>1, <3>2, <3>3 DEF IsParser
  <2>2. CASE hp.last_data_cb # "field"
    <3>1. Held(hp, i - 1) /\ at.left = Headers[i].field
      BY <1>1, <1>3, <2>2 DEF ParserInv, ParserAt
    <3> DEFINE q == InsertLast(hp)
    <3>2. /\ IsParser(q) /\ q.headers = Meaning(Upto(Headers, i - 1))
          /\ q.last_value = hp.last_value \/ q.last_value = <<>>
          /\ q.url_raw = hp.url_raw /\ q.header_finished = hp.header_finished
      BY <1>2, <1>4, <3>1, HeldIsInserted
    <3>3. hp' = [q EXCEPT !.last_field = x, !.last_data_cb = "field"]
      BY <1>1, <2>2 DEF HeaderField, x
    <3> HIDE DEF q
    <3>4. hp' = [last_data_cb |-> "field", last_field |-> x,
                 last_value |-> q.last_value, headers |-> q.headers,
                 headers_lowercase |-> q.headers_lowercase, url_raw |-> q.url_raw,
                 url |-> q.url, query |-> q.query, header_finished |-> q.header_finished]
      BY <3>2, <3>3 DEF IsParser
    <3>5. q.last_value \in Text
      BY <1>2, <3>2, EmptySeq DEF Text
    <3>6. /\ IsParser(hp') /\ hp'.url_raw = q.url_raw /\ hp'.header_finished = q.header_finished
          /\ hp'.last_data_cb = "field" /\ hp'.headers = q.headers
          /\ hp'.last_field = x /\ hp'.last_value = q.last_value
      BY <3>4 DEF IsParser
    <3>7. x \in Text
      BY <1>3
    <3> QED BY <1>5, <3>1, <3>2, <3>5, <3>6, <3>7
  <2> QED BY <2>1, <2>2
<1> HIDE DEF i
<1>7. CASE at' = At("value", 0, i, Headers[i].value) /\ x = at.left
  <2>1. at'.cb = "value" /\ at'.part = 0 /\ at'.line = i /\ at'.left = Headers[i].value
    BY <1>7 DEF At
  <2>2. hp'.last_field = Headers[i].field
    BY <1>6, <1>7
  <2> QED BY <1>6, <2>1, <2>2, <1>2 DEF ParserAt
<1>8. ASSUME NEW rest \in Text, x \o rest = at.left, at' = At("field", at.part, i, rest)
      PROVE  ParserAt(hp', at')
  <2>1. at'.cb = "field" /\ at'.part = 0 /\ at'.line = i /\ at'.left = rest
    BY <1>1, <1>8 DEF At
  <2>2. hp'.last_field \o rest = Headers[i].field
    <3>1. (hp.last_field \o x) \o rest = hp.last_field \o (x \o rest)
      <4>1. x \in Text /\ hp.last_field \in Text /\ rest \in Text
        BY <1>2, <1>3
      <4> QED BY <4>1, Associates
    <3> QED BY <1>6, <1>8, <3>1
  <2> QED BY <1>2, <1>6, <2>1, <2>2 DEF ParserAt
<1> QED BY <1>3, <1>7, <1>8

LEMMA ValueKeepsParser ==
    ASSUME ParserInv, CallbackHeaderValue PROVE ParserAt(hp', at')
<1> DEFINE i == at.line
<1>1. PICK n \in Cuts :
         /\ at.part = 0 /\ Reports("value", n, LineAt(0, i + 1)) /\ hp' = HeaderValue(Piece(n))
  BY DEF CallbackHeaderValue
<1> DEFINE x == Piece(n)
<1>2. /\ AtInv /\ DocInv /\ IsParser(hp) /\ hp.url_raw \in Text /\ UrlText(doc) \in Text
      /\ hp.last_field \in Text /\ hp.last_value \in Text /\ at.left \in Text
  BY DEF ParserInv, ParserAt, AtInv, IsAt, DocInv
<1>3. /\ at.cb = "value" /\ x \in Text
      /\ \/ at' = LineAt(0, i + 1) /\ x = at.left
         \/ \E rest \in Text : x # <<>> /\ x \o rest = at.left /\ at' = At("value", at.part, i, rest)
  BY <1>1, <1>2, Reported
<1>4. /\ i \in 1..Len(Headers) /\ Len(Headers) \in Nat /\ i \in Nat
      /\ i + 1 \in 1..(Len(Headers) + 1)
  <2>1. i \in 1..Len(Headers)
    BY <1>1, <1>2, <1>3 DEF AtInv, IsAt, Headers
  <2>2. Len(Headers) \in Nat
    BY <1>2, HeadersType
  <2> QED BY <2>1, <2>2
<1>5. /\ hp.header_finished = FALSE /\ hp.url_raw = UrlText(doc)
      /\ hp.headers = Meaning(Upto(Headers, i - 1)) /\ hp.last_field = Headers[i].field
      /\ IF hp.last_data_cb = "value" THEN hp.last_value \o at.left = Headers[i].value
         ELSE at.left = Headers[i].value
  BY <1>1, <1>3 DEF ParserInv, ParserAt
<1> HIDE DEF x
<1> DEFINE v == IF hp.last_data_cb = "value" THEN hp.last_value \o x ELSE x
<1>6. hp' = [last_data_cb |-> "value", last_field |-> hp.last_field,
             last_value |-> v, headers |-> hp.headers,
             headers_lowercase |-> hp.headers_lowercase, url_raw |-> hp.url_raw,
             url |-> hp.url, query |-> hp.query, header_finished |-> hp.header_finished]
  BY <1>1, <1>2 DEF IsParser, HeaderValue, x
<1>7. v \in Text
  BY <1>2, <1>3, Joined
<1>8. x = at.left => v = Headers[i].value
  BY <1>5
<1>9. ASSUME NEW rest \in Text, x \o rest = at.left
      PROVE  v \o rest = Headers[i].value
  <2>1. (hp.last_value \o x) \o rest = hp.last_value \o (x \o rest)
    <3>1. x \in Text /\ hp.last_value \in Text /\ rest \in Text
      BY <1>2, <1>3
    <3> QED BY <3>1, Associates
  <2> QED BY <1>5, <1>9, <2>1
<1> HIDE DEF v, i
<1>10. /\ IsParser(hp') /\ hp'.url_raw = UrlText(doc) /\ hp'.header_finished = FALSE
       /\ hp'.last_data_cb = "value" /\ hp'.headers = Meaning(Upto(Headers, i - 1))
       /\ hp'.last_field = Headers[i].field /\ hp'.last_value = v
       /\ hp'.last_field \in Text /\ hp'.last_value \in Text
  BY <1>2, <1>5, <1>6, <1>7 DEF IsParser
<1>11. CASE at' = LineAt(0, i + 1) /\ x = at.left
  <2>1. 0 \in 0..Parts
    BY <1>2, TextsAssumption DEF DocInv, Parts
  <2>2. /\ at'.part = 0 /\ at'.line = i + 1
        /\ i + 1 <= Len(Headers) => at'.cb = "field" /\ at'.left = Headers[i + 1].field
        /\ i + 1 = Len(Headers) + 1 => at'.cb = "headers_complete"
    BY <1>2, <1>4, <1>11, <2>1, LineAtIs DEF Headers
  <2>3. Held(hp', i)
    BY <1>4, <1>8, <1>10, <1>11 DEF Held
  <2>4. CASE i + 1 <= Len(Headers)
    <3>1. (i + 1) - 1 = i
      BY <1>4
    <3> QED BY <1>2, <1>10, <2>2, <2>3, <2>4, <3>1 DEF ParserAt
  <2>5. CASE i + 1 = Len(Headers) + 1
    <3>1. i = Len(Headers)
      BY <1>4, <2>5
    <3> QED BY <1>2, <1>10, <2>2, <2>3, <2>5, <3>1 DEF ParserAt
  <2> QED BY <1>4, <2>4, <2>5
<1>12. ASSUME NEW rest \in Text, x \o rest = at.left, at' = At("value", at.part, i, rest)
       PROVE  ParserAt(hp', at')
  <2>1. at'.cb = "value" /\ at'.part = 0 /\ at'.line = i /\ at'.left = rest
    BY <1>1, <1>12 DEF At
  <2>2. hp'.last_value \o rest = Headers[i].value
    BY <1>9, <1>10, <1>12
  <2> QED BY <1>2, <1>10, <2>1, <2>2 DEF ParserAt
<1> QED BY <1>3, <1>11, <1>12

LEMMA CompleteKeepsParser ==
    ASSUME ParserInv, CallbackHeadersComplete PROVE ParserAt(hp', at')
<1>1. /\ Reports("headers_complete", 0, PartAt(1))
      /\ LET p == InsertLast(hp)
             u == ParseUrl(hp.url_raw)
         IN \E lower \in LowerCopies(p.headers) :
               hp' = [p EXCEPT !.url = u.url, !.query = u.query,
                               !.headers_lowercase = lower, !.header_finished = TRUE]
  BY DEF CallbackHeadersComplete
<1>2. AtInv /\ DocInv /\ IsParser(hp) /\ at.cb = "headers_complete" /\ 0 \in Cuts
  BY <1>1, ZeroIsACut DEF ParserInv, ParserAt, AtInv, Reports
<1>3. at.part = 0 /\ hp.url_raw = UrlText(doc) /\ Held(hp, Len(Headers)) /\ hp.url_raw \in Text
      /\ hp.last_value \in Text
  BY <1>2 DEF ParserInv, ParserAt, AtInv, IsAt
<1>4. at' = PartAt(1) /\ at'.part = 1 /\ at'.cb \in {"part_begin", "end"}
  <2>1. 1 \in 1..(Parts + 1)
    BY <1>2, TextsAssumption DEF DocInv, Parts
  <2>2. at' = PartAt(1)
    BY <1>1, <1>2 DEF Reports
  <2> QED BY <1>2, <2>1, <2>2, PartAtIs
<1> DEFINE p == InsertLast(hp)
           u == ParseUrl(hp.url_raw)
<1>5. /\ IsParser(p) /\ p.headers = Meaning(doc.headers) /\ p.last_field = <<>>
      /\ p.last_value \in Text /\ p.url_raw = hp.url_raw
  <2>1. Len(Headers) \in 0..Len(Headers) /\ Headers = doc.headers
    BY <1>2, HeadersType
  <2>2. Upto(Headers, Len(Headers)) = Headers
    BY <1>2, HeadersType, UptoEnds
  <2>3. <<>> \in Text
    BY DEF Text
  <2> QED BY <1>2, <1>3, <2>1, <2>2, <2>3, HeldIsInserted
<1>6. PICK lower \in LowerCopies(p.headers) :
        hp' = [p EXCEPT !.url = u.url, !.query = u.query,
                        !.headers_lowercase = lower, !.header_finished = TRUE]
  BY <1>1
<1> HIDE DEF p
<1> HIDE DEF u
<1>8. hp' = [last_data_cb |-> p.last_data_cb, last_field |-> p.last_field,
             last_value |-> p.last_value, headers |-> p.headers,
             headers_lowercase |-> lower, url_raw |-> p.url_raw,
             url |-> u.url, query |-> u.query, header_finished |-> TRUE]
  BY <1>5, <1>6 DEF IsParser
<1>9. /\ IsParser(hp') /\ hp'.headers = p.headers /\ hp'.headers_lowercase = lower
      /\ hp'.url = u.url /\ hp'.query = u.query /\ hp'.last_field = <<>>
      /\ hp'.last_value \in Text /\ hp'.url_raw \in Text
  BY <1>3, <1>5, <1>8 DEF IsParser
<1>10. AsSent(hp')
  <2>1. u = [url |-> <<"/">>, query |-> QueryMeaning(doc.query)]
    BY <1>2, <1>3 DEF u, DocInv
  <2> QED BY <1>5, <1>6, <1>9, <2>1 DEF AsSent
<1>11. hp'.last_field \in Text
  BY <1>9, EmptySeq DEF Text
<1>12. at'.part # 0 /\ at'.cb # "url" /\ at'.cb # "headers_complete"
  BY <1>4
<1> QED BY <1>9, <1>10, <1>11, <1>12 DEF ParserAt

(* What is read of the body is none of the parser's. *)
LEMMA BodyKeepsParser ==
    ASSUME ParserInv, AtInv', at.part # 0, at'.part # 0, UNCHANGED <<doc, hp>>
    PROVE  ParserAt(hp', at')
<1>1. at'.cb # "url" /\ at'.cb # "headers_complete"
  BY DEF AtInv, IsAt
<1>2. /\ IsParser(hp) /\ hp.last_field \in Text /\ hp.last_value \in Text /\ hp.url_raw \in Text
      /\ hp.header_finished => AsSent(hp)
  BY DEF ParserInv, ParserAt
<1> QED BY <1>1, <1>2 DEF ParserAt

LEMMA ReportsPart ==
    ASSUME NEW cb, NEW n, NEW next, Reports(cb, n, next), next.part # 0, at.part # 0
    PROVE  at'.part # 0
<1>1. CASE at' = next
  BY <1>1
<1>2. CASE \E rest : at' = At(cb, at.part, at.line, rest)
  BY <1>2 DEF At
<1> QED BY <1>1, <1>2 DEF Reports

LEMMA BodyStaysInBody ==
    ASSUME AtInv,
           OnPartBegin \/ OnHeaderField \/ OnHeaderValue \/ OnPartData \/ OnPartEnd \/ OnEnd
    PROVE  at.part # 0 /\ at'.part # 0 /\ UNCHANGED <<doc, hp>>
<1>1. /\ Parts \in Nat /\ at.part \in Nat
      /\ \A cb \in {"part_begin", "data", "part_end", "end"} : at.cb = cb => at.part # 0
  BY TextsAssumption DEF AtInv, DocInv, IsAt, Parts
<1>0. \A cb, n, next : Reports(cb, n, next) => at.cb = cb
  BY DEF Reports
<1>2. \A cb, line, text : At(cb, at.part, line, text).part = at.part
  BY DEF At
<1>3. ASSUME NEW line PROVE LineAt(at.part, line).part = at.part
  BY <1>2 DEF LineAt
<1>4. CASE OnPartBegin
  <2>1. Reports("part_begin", 0, LineAt(at.part, 1)) /\ at.part # 0 /\ UNCHANGED <<doc, hp>>
    BY <1>0, <1>1, <1>4 DEF OnPartBegin
  <2> QED BY <1>3, <2>1, ReportsPart
<1>5. CASE OnHeaderField
  <2>1. PICK n \in Cuts :
          /\ at.part # 0 /\ UNCHANGED <<doc, hp>>
          /\ Reports("field", n, At("value", at.part, at.line, LinesOf(at.part)[at.line].value))
    BY <1>5 DEF OnHeaderField
  <2> QED BY <1>2, <2>1, ReportsPart
<1>6. CASE OnHeaderValue
  <2>1. PICK n \in Cuts : /\ at.part # 0 /\ UNCHANGED <<doc, hp>>
                          /\ Reports("value", n, LineAt(at.part, at.line + 1))
    BY <1>6 DEF OnHeaderValue
  <2> QED BY <1>3, <2>1, ReportsPart
<1>7. CASE OnPartData
  <2>1. PICK n \in Cuts : /\ UNCHANGED <<doc, hp>>
                          /\ Reports("data", n, At("part_end", at.part, at.line, <<>>))
    BY <1>7 DEF OnPartData
  <2>2. at.part # 0
    BY <1>0, <1>1, <2>1
  <2> QED BY <1>2, <2>1, <2>2, ReportsPart
<1>8. CASE OnPartEnd
  <2>1. Reports("part_end", 0, PartAt(at.part + 1)) /\ UNCHANGED <<doc, hp>>
    BY <1>8 DEF OnPartEnd
  <2>2. PartAt(at.part + 1).part = at.part + 1
    BY DEF PartAt, At
  <2>3. at.part # 0 /\ at.part + 1 # 0
    BY <1>0, <1>1, <2>1
  <2> QED BY <2>1, <2>2, <2>3, ReportsPart
<1>9. CASE OnEnd
  <2>1. Reports("end", 0, At("none", at.part, 0, <<>>)) /\ UNCHANGED <<doc, hp>>
    BY <1>9 DEF OnEnd
  <2>2. at.part # 0
    BY <1>0, <1>1, <2>1
  <2> QED BY <1>2, <2>1, <2>2, ReportsPart
<1> QED BY <1>4, <1>5, <1>6, <1>7, <1>8, <1>9

LEMMA NextParserInv == ASSUME ParserInv, [Next]_vars PROVE ParserInv'
<1>1. AtInv /\ AtInv'
  BY NextAtInv DEF ParserInv
<1>2. ParserAt(hp', at') /\ UNCHANGED doc
  <2>1. CASE CallbackUrl
    BY <2>1, UrlKeepsParser DEF CallbackUrl
  <2>2. CASE CallbackHeaderField
    BY <2>2, FieldKeepsParser DEF CallbackHeaderField
  <2>3. CASE CallbackHeaderValue
    BY <2>3, ValueKeepsParser DEF CallbackHeaderValue
  <2>4. CASE CallbackHeadersComplete
    BY <2>4, CompleteKeepsParser DEF CallbackHeadersComplete
  <2>5. CASE OnPartBegin \/ OnHeaderField \/ OnHeaderValue \/ OnPartData \/ OnPartEnd \/ OnEnd
    BY <1>1, <2>5, BodyStaysInBody, BodyKeepsParser
  <2>6. CASE (\E i \in 1..MaxParts : TakeData(i)) \/ UNCHANGED vars
    <3>1. UNCHANGED <<doc, at, hp>>
      BY <2>6 DEF TakeData, vars
    <3> QED BY <3>1 DEF ParserInv
  <2> QED BY <2>1, <2>2, <2>3, <2>4, <2>5, <2>6 DEF Next
<1>3. ParserAt(hp, at)'
  BY <1>2 DEF ParserAt, IsParser, Held, AsSent, Headers, LinesOf
<1> QED BY <1>1, <1>3 DEF ParserInv

(* However the reads cut a request, the parser keeps every header of it whole, and reads
   its URL from the whole of it. *)
THEOREM RequestsAreAsSent == Spec => []RequestIsAsSent
<1>1. Init => ParserInv
  BY InitParserInv
<1>2. ParserInv /\ [Next]_vars => ParserInv'
  BY NextParserInv
<1>3. ParserInv => RequestIsAsSent
  BY DEF ParserInv, ParserAt, AsSent, RequestIsAsSent
<1> QED BY <1>1, <1>2, <1>3, PTL DEF Spec

-----------------------------------------------------------------------------
(* Mullet *)

Maps == UNION {[D -> Text] : D \in SUBSET Text}
AnyPart == [headers : Maps, headers_lowercase : Maps, data : Text, done : BOOLEAN]

IsMullet(m) ==
    /\ m = [last_handler |-> m.last_handler, last_field |-> m.last_field,
            last_value |-> m.last_value, parts |-> m.parts, done |-> m.done]
    /\ m.last_handler \in {0, 2, 3, 4} /\ m.last_field \in Text /\ m.last_value \in Text
    /\ m.parts \in Seq(AnyPart)

(* A part that has ended. *)
PartIs(m, t, j) ==
    /\ m.parts[j].done = TRUE /\ m.parts[j].headers = Meaning(LinesOf(j))
    /\ t[j] \o m.parts[j].data = doc.parts[j].data

Fresh(m, t, p) == m.parts[p].data = <<>> /\ t[p] = <<>>

(* k lines of the part have been read, and the last of them is not inserted yet. *)
HeldInPart(m, p, k) ==
    IF k = 0 THEN m.last_handler \in {0, 4} /\ m.parts[p].headers = NoEntries
    ELSE /\ m.last_handler = 3 /\ m.parts[p].headers = Meaning(Upto(LinesOf(p), k - 1))
         /\ m.last_field = LinesOf(p)[k].field /\ m.last_value = LinesOf(p)[k].value

FieldIs(m, t, p, i, text) ==
    /\ Fresh(m, t, p)
    /\ IF m.last_handler = 2
       THEN /\ m.parts[p].headers = Meaning(Upto(LinesOf(p), i - 1))
            /\ m.last_field \o text = LinesOf(p)[i].field
       ELSE HeldInPart(m, p, i - 1) /\ text = LinesOf(p)[i].field

ValueIs(m, t, p, i, text) ==
    /\ Fresh(m, t, p) /\ m.last_handler \in {2, 3}
    /\ m.parts[p].headers = Meaning(Upto(LinesOf(p), i - 1))
    /\ m.last_field = LinesOf(p)[i].field
    /\ IF m.last_handler = 3 THEN m.last_value \o text = LinesOf(p)[i].value
       ELSE text = LinesOf(p)[i].value

DataIs(m, t, p, text) ==
    IF m.last_handler = 3
    THEN /\ Fresh(m, t, p) /\ Len(LinesOf(p)) # 0 /\ HeldInPart(m, p, Len(LinesOf(p)))
         /\ text = doc.parts[p].data
    ELSE /\ m.last_handler \in {0, 4} /\ m.parts[p].headers = Meaning(LinesOf(p))
         /\ (t[p] \o m.parts[p].data) \o text = doc.parts[p].data
         /\ m.last_handler = 0 => m.parts[p].data = <<>>

EndIs(m, t, p) ==
    /\ m.last_handler = 4 /\ m.parts[p].headers = Meaning(LinesOf(p))
    /\ t[p] \o m.parts[p].data = doc.parts[p].data

(* The parts that are there. *)
Begun(a) ==
    IF a.part = 0 THEN 0
    ELSE IF a.cb \in {"part_begin", "end", "none"} THEN a.part - 1 ELSE a.part

MulletAt(m, t, a) ==
    /\ IsMullet(m) /\ t \in [1..MaxParts -> Text] /\ Len(m.parts) = Begun(a)
    /\ m.done \in BOOLEAN /\ (m.done => a.cb = "none")
    /\ \A j \in 1..Begun(a) : j < a.part => PartIs(m, t, j)
    /\ \A j \in 1..MaxParts : j > Begun(a) => t[j] = <<>>
    /\ a.part = 0 => m.last_handler = 0
    /\ a.cb = "part_begin" => m.last_handler \in {0, 4}
    /\ a.part # 0 /\ a.cb \in {"field", "value", "data", "part_end"} =>
          m.parts[a.part].done = FALSE
    /\ a.part # 0 /\ a.cb = "field" => FieldIs(m, t, a.part, a.line, a.left)
    /\ a.part # 0 /\ a.cb = "value" => ValueIs(m, t, a.part, a.line, a.left)
    /\ a.cb = "data" => DataIs(m, t, a.part, a.left)
    /\ a.cb = "part_end" => EndIs(m, t, a.part)

MulletInv == AtInv /\ MulletAt(mp, taken, at)

LEMMA MapsAre ==
    ASSUME NEW D, D \subseteq Text, NEW f, f \in [D -> Text] PROVE f \in Maps
BY DEF Maps

LEMMA MeaningType == ASSUME NEW L \in Seq(AnyLine) PROVE Meaning(L) \in Maps
<1>1. \A i \in DOMAIN L : L[i].field \in Text /\ L[i].value \in Text
  <2>1. \A i \in DOMAIN L : L[i] \in AnyLine
    OBVIOUS
  <2>2. \A l \in AnyLine : l.field \in Text /\ l.value \in Text
    BY DEF AnyLine
  <2> QED BY <2>1, <2>2
<1>2. NamesOf(L) \subseteq Text
  BY <1>1 DEF NamesOf
<1>3. ASSUME NEW f \in NamesOf(L) PROVE L[First(L, f)].value \in Text
  <2>1. PICK k \in DOMAIN L : L[k].field = f
    BY DEF NamesOf
  <2>2. PICK i \in DOMAIN L : /\ i <= k /\ L[i].field = L[k].field
                              /\ \A j \in 1..(i - 1) : L[j].field # L[k].field
    BY FirstExists
  <2>3. First(L, f) = i
    BY <2>1, <2>2, FirstIs
  <2> QED BY <1>1, <2>3
<1>4. Meaning(L) = [f \in NamesOf(L) |-> L[First(L, f)].value]
  BY MeaningIs
<1>5. Meaning(L) \in [NamesOf(L) -> Text]
  BY <1>3, <1>4
<1> QED BY <1>2, <1>5, MapsAre

LEMMA LowerType == ASSUME NEW map \in Maps, NEW m \in LowerCopies(map) PROVE m \in Maps
<1>1. PICK D \in SUBSET Text : map \in [D -> Text]
  BY DEF Maps
<1>2. ASSUME NEW k \in Text PROVE Lower(k) \in Text
  <2>1. k \in Seq(Chars) /\ DOMAIN k = 1..Len(k) /\ Len(k) \in Nat
    BY DEF Text
  <2> DEFINE c(i) == IF k[i] = "A" THEN "a" ELSE k[i]
  <2>2. \A i \in 1..Len(k) : c(i) \in Chars
    <3>1. "a" \in Chars
      BY DEF Chars
    <3>2. \A i \in 1..Len(k) : k[i] \in Chars
      BY <2>1
    <3> QED BY <3>1, <3>2
  <2>3. Lower(k) = [i \in 1..Len(k) |-> c(i)]
    BY <2>1 DEF Lower
  <2> HIDE DEF c
  <2>4. [i \in 1..Len(k) |-> c(i)] \in Seq(Chars)
    BY <2>1, <2>2
  <2> QED BY <2>3, <2>4 DEF Text
<1>3. m \in [{Lower(k) : k \in DOMAIN map} -> {map[k] : k \in DOMAIN map}]
  BY DEF LowerCopies
<1>4. {Lower(k) : k \in DOMAIN map} \subseteq Text /\ {map[k] : k \in DOMAIN map} \subseteq Text
  BY <1>1, <1>2
<1> DEFINE names == {Lower(k) : k \in DOMAIN map}
           vals == {map[k] : k \in DOMAIN map}
<1> HIDE DEF names, vals
<1>5. m \in [names -> vals] /\ names \subseteq Text /\ vals \subseteq Text
  BY <1>3, <1>4 DEF names, vals
<1>6. m \in [names -> Text]
  BY <1>5
<1> QED BY <1>5, <1>6, MapsAre

LEMMA NewPartType ==
    /\ NewPart \in AnyPart /\ NewPart.headers = NoEntries /\ NewPart.data = <<>>
    /\ NewPart.done = FALSE
<1>1. NoEntries \in [{} -> Text]
  BY DEF NoEntries
<1>2. NoEntries \in Maps
  BY <1>1, MapsAre
<1>3. <<>> \in Text
  BY DEF Text
<1> QED BY <1>2, <1>3 DEF NewPart, AnyPart

(* The part at the back is changed, and no other. *)
LEMMA EditBackIs ==
    ASSUME NEW parts \in Seq(AnyPart), Len(parts) # 0, NEW part \in AnyPart
    PROVE  LET q == EditBack(parts, part)
               n == Len(parts)
           IN /\ q \in Seq(AnyPart) /\ Len(q) = n /\ q[n] = part
              /\ \A j \in 1..n : j # n => q[j] = parts[j]
              /\ Last(parts) = parts[n] /\ parts[n] \in AnyPart
<1>1. Len(parts) \in Nat /\ Len(parts) \in 1..Len(parts)
  BY LenProperties
<1> QED BY <1>1, ExceptSeq, ElementOfSeq DEF EditBack, Last

(* The line that is held is inserted into the part at the back. *)
LEMMA HeldIsInsertedInPart ==
    ASSUME DocInv, IsMullet(mp), NEW p \in 1..Parts, Len(mp.parts) = p,
           NEW k \in 0..Len(LinesOf(p)), HeldInPart(mp, p, k)
    PROVE  LET m == InsertLastInPart
           IN /\ IsMullet(m) /\ Len(m.parts) = p
              /\ m.parts[p].headers = Meaning(Upto(LinesOf(p), k))
              /\ m.parts[p].data = mp.parts[p].data /\ m.parts[p].done = mp.parts[p].done
              /\ \A j \in 1..p : j # p => m.parts[j] = mp.parts[j]
              /\ m.done = mp.done /\ m.last_handler = mp.last_handler
<1> DEFINE L == LinesOf(p)
<1>1. /\ p \in Nat /\ p # 0 /\ L \in Seq(AnyLine) /\ p \in 1..p /\ mp.parts[p] \in AnyPart
      /\ mp.parts \in Seq(AnyPart)
  <2>1. Parts \in Nat
    BY TextsAssumption DEF DocInv, Parts
  <2>2. p \in Nat /\ p # 0 /\ p \in 0..Parts /\ p \in 1..p
    BY <2>1
  <2>3. IsLines(L)
    BY <2>2, LinesOfType
  <2> QED BY <2>2, <2>3 DEF IsLines, IsMullet
<1>2. CASE k = 0
  <2>1. mp.last_handler # 3 /\ mp.parts[p].headers = Meaning(Upto(L, 0))
    BY <1>1, <1>2, UptoEnds DEF HeldInPart
  <2> QED BY <1>2, <2>1 DEF InsertLastInPart
<1>3. CASE k # 0
  <2>1. /\ k \in 1..Len(L) /\ mp.last_handler = 3
        /\ mp.parts[p].headers = Meaning(Upto(L, k - 1))
        /\ mp.last_field = L[k].field /\ mp.last_value = L[k].value
    BY <1>1, <1>3, LenProperties DEF HeldInPart
  <2> DEFINE back == mp.parts[p]
             h == Insert(back.headers, mp.last_field, mp.last_value)
             new == [back EXCEPT !.headers = h]
             q == EditBack(mp.parts, new)
  <2>2. h = Meaning(Upto(L, k))
    BY <1>1, <2>1, UptoMore
  <2>3. h \in Maps
    <3>1. Upto(L, k) \in Seq(AnyLine)
      <4>1. \A j \in 1..k : L[j] \in AnyLine
        BY <1>1, <2>1
      <4> QED BY <2>1, <4>1, SubSeqProperties DEF Upto
    <3> QED BY <2>2, <3>1, MeaningType
  <2> HIDE DEF h
  <2>4. /\ new \in AnyPart /\ new.headers = h /\ new.data = back.data /\ new.done = back.done
    BY <1>1, <2>3 DEF AnyPart
  <2>5. InsertLastInPart = [mp EXCEPT !.last_field = <<>>, !.last_value = <<>>, !.parts = q]
    BY <2>1 DEF InsertLastInPart, Last, h
  <2> HIDE DEF new
  <2>6. /\ q \in Seq(AnyPart) /\ Len(q) = p /\ q[p] = new
        /\ \A j \in 1..p : j # p => q[j] = mp.parts[j]
    BY <1>1, <2>4, EditBackIs
  <2> HIDE DEF q
  <2>7. InsertLastInPart = [last_handler |-> mp.last_handler, last_field |-> <<>>,
                            last_value |-> <<>>, parts |-> q, done |-> mp.done]
    BY <2>5 DEF IsMullet
  <2>8. <<>> \in Text
    BY DEF Text
  <2>9. IsMullet(InsertLastInPart)
    BY <2>1, <2>6, <2>7, <2>8 DEF IsMullet
  <2> QED BY <2>2, <2>4, <2>6, <2>7, <2>9
<1> QED BY <1>2, <1>3

InPart == {"field", "value", "data", "part_end"}

(* What is known of the part that is read. *)
LEMMA CurrentPart ==
    ASSUME MulletInv, at.part # 0, at.cb \in InPart
    PROVE  LET p == at.part
               L == LinesOf(p)
           IN /\ AtInv /\ DocInv /\ IsMullet(mp) /\ p \in 1..Parts /\ p \in Nat /\ p \in 0..Parts
              /\ Parts \in 0..MaxParts /\ MaxParts \in Nat /\ p \in 1..p
              /\ Len(mp.parts) = p /\ mp.done = FALSE /\ mp.parts[p].done = FALSE
              /\ mp.parts[p] \in AnyPart /\ taken \in [1..MaxParts -> Text]
              /\ taken[p] \in Text /\ mp.parts[p].data \in Text
              /\ at.left \in Text /\ L \in Seq(AnyLine) /\ Len(L) \in Nat
              /\ at.cb \in {"field", "value"} => at.line \in 1..Len(L) /\ at.line \in Nat
              /\ at.cb \in {"data", "part_end"} => at.line = Len(L) + 1
<1> DEFINE p == at.part
<1>1. /\ AtInv /\ DocInv /\ IsMullet(mp) /\ at.left \in Text /\ Parts \in 0..MaxParts
      /\ MaxParts \in Nat /\ Parts \in Nat /\ p \in 0..(Parts + 1)
      /\ taken \in [1..MaxParts -> Text] /\ mp.parts \in Seq(AnyPart)
  BY TextsAssumption DEF MulletInv, MulletAt, AtInv, IsAt, DocInv, Parts, IsMullet
<1>2. p \in 1..Parts
  BY <1>1 DEF AtInv, IsAt, InPart
<1>3. p \in Nat /\ p \in 0..Parts /\ p \in 1..p /\ p \in 1..MaxParts
  BY <1>1, <1>2
<1>4. Len(mp.parts) = p /\ mp.parts[p].done = FALSE
  BY <1>3 DEF MulletInv, MulletAt, Begun, InPart
<1>5. mp.done = FALSE
  BY DEF MulletInv, MulletAt, InPart
<1>6. mp.parts[p] \in AnyPart
  BY <1>1, <1>3, <1>4, ElementOfSeq
<1>7. mp.parts[p].data \in Text
  BY <1>6 DEF AnyPart
<1>8. LinesOf(p) \in Seq(AnyLine) /\ Len(LinesOf(p)) \in Nat
  BY <1>1, <1>3, LinesOfType DEF IsLines
<1>9. /\ at.cb \in {"field", "value"} => at.line \in 1..Len(LinesOf(p)) /\ at.line \in Nat
      /\ at.cb \in {"data", "part_end"} => at.line = Len(LinesOf(p)) + 1
  BY <1>1 DEF AtInv, IsAt
<1>10. taken[p] \in Text
  BY <1>1, <1>3
<1> QED BY <1>1, <1>2, <1>3, <1>4, <1>5, <1>6, <1>7, <1>8, <1>9, <1>10

(* A step within a part leaves the parts before it. *)
LEMMA WithinPart ==
    ASSUME MulletInv, at.part # 0, at.cb \in InPart, NEW m, IsMullet(m), NEW a,
           a.part = at.part, a.cb \in InPart, Len(m.parts) = at.part,
           \A j \in 1..at.part : j # at.part => m.parts[j] = mp.parts[j],
           m.done = FALSE, m.parts[at.part].done = FALSE,
           a.cb = "field" => FieldIs(m, taken, a.part, a.line, a.left),
           a.cb = "value" => ValueIs(m, taken, a.part, a.line, a.left),
           a.cb = "data" => DataIs(m, taken, a.part, a.left),
           a.cb = "part_end" => EndIs(m, taken, a.part)
    PROVE  MulletAt(m, taken, a)
<1>1. Begun(at) = at.part /\ Begun(a) = at.part
  BY DEF Begun, InPart
<1>2. taken \in [1..MaxParts -> Text]
  BY DEF MulletInv, MulletAt
<1>3. \A j \in 1..Begun(a) : j < a.part => PartIs(m, taken, j)
  <2>1. at.part \in Nat
    BY CurrentPart
  <2>2. \A j \in 1..at.part : j < at.part => PartIs(mp, taken, j)
    BY <1>1 DEF MulletInv, MulletAt
  <2>3. ASSUME NEW j \in 1..Begun(a), j < a.part PROVE PartIs(m, taken, j)
    <3>1. j \in 1..at.part /\ j < at.part /\ j # at.part
      BY <1>1, <2>1, <2>3
    <3>2. m.parts[j] = mp.parts[j] /\ PartIs(mp, taken, j)
      BY <2>2, <3>1
    <3> QED BY <3>2 DEF PartIs
  <2> QED BY <2>3
<1>4. \A j \in 1..MaxParts : j > Begun(a) => taken[j] = <<>>
  BY <1>1 DEF MulletInv, MulletAt
<1>5. a.cb # "none" /\ a.cb # "part_begin" /\ a.part # 0
  BY DEF InPart
<1>6. m.done \in BOOLEAN /\ m.done = FALSE
  OBVIOUS
<1> QED BY <1>1, <1>2, <1>3, <1>4, <1>5, <1>6 DEF MulletAt

LEMMA FieldKeepsMullet ==
    ASSUME MulletInv, OnHeaderField PROVE MulletAt(mp', taken', at')
<1> DEFINE p == at.part
           i == at.line
           L == LinesOf(p)
<1>1. PICK n \in Cuts :
         /\ p # 0 /\ Reports("field", n, At("value", p, i, L[i].value)) /\ taken' = taken
         /\ mp' = IF mp.last_handler = 2 THEN [mp EXCEPT !.last_field = @ \o Piece(n)]
                  ELSE [InsertLastInPart EXCEPT !.last_handler = 2, !.last_field = Piece(n)]
  BY DEF OnHeaderField
<1> DEFINE x == Piece(n)
<1>2. at.cb = "field" /\ at.cb \in InPart
  BY <1>1 DEF Reports, InPart
<1>3. /\ AtInv /\ DocInv /\ IsMullet(mp) /\ p \in 1..Parts /\ p \in Nat /\ p \in 1..p
      /\ Len(mp.parts) = p /\ mp.done = FALSE /\ mp.parts[p].done = FALSE
      /\ i \in 1..Len(L) /\ Len(L) \in Nat /\ i \in Nat
  BY <1>1, <1>2, CurrentPart
<1>4. /\ x \in Text
      /\ \/ at' = At("value", p, i, L[i].value) /\ x = at.left
         \/ \E rest \in Text : x # <<>> /\ x \o rest = at.left /\ at' = At("field", p, i, rest)
  BY <1>1, <1>3, Reported
<1>5. FieldIs(mp, taken, p, i, at.left)
  BY <1>1, <1>2 DEF MulletInv, MulletAt
<1> HIDE DEF x
<1>6. /\ IsMullet(mp') /\ Len(mp'.parts) = p /\ mp'.last_handler = 2
      /\ mp'.parts[p].headers = Meaning(Upto(L, i - 1))
      /\ mp'.parts[p].data = mp.parts[p].data /\ mp'.parts[p].done = FALSE
      /\ \A j \in 1..p : j # p => mp'.parts[j] = mp.parts[j]
      /\ mp'.done = FALSE
      /\ \/ mp'.last_field = x /\ at.left = L[i].field
         \/ mp'.last_field = mp.last_field \o x /\ mp.last_field \o at.left = L[i].field
  <2>1. CASE mp.last_handler = 2
    <3>1. /\ mp.parts[p].headers = Meaning(Upto(L, i - 1))
          /\ mp.last_field \o at.left = L[i].field
      BY <1>5, <2>1 DEF FieldIs
    <3>2. mp' = [last_handler |-> mp.last_handler, last_field |-> mp.last_field \o x,
                 last_value |-> mp.last_value, parts |-> mp.parts, done |-> mp.done]
      BY <1>1, <1>3, <2>1 DEF IsMullet, x
    <3>3. mp.last_field \o x \in Text
      <4>1. mp.last_field \in Text
        BY <1>3 DEF IsMullet
      <4> QED BY <1>4, <4>1, Joined
    <3>4. IsMullet(mp')
      BY <1>3, <3>2, <3>3 DEF IsMullet
    <3> QED BY <1>3, <2>1, <3>1, <3>2, <3>4
  <2>2. CASE mp.last_handler # 2
    <3>1. HeldInPart(mp, p, i - 1) /\ at.left = L[i].field /\ i - 1 \in 0..Len(L)
      BY <1>3, <1>5, <2>2 DEF FieldIs
    <3> DEFINE m == InsertLastInPart
    <3>2. /\ IsMullet(m) /\ Len(m.parts) = p
          /\ m.parts[p].headers = Meaning(Upto(L, i - 1))
          /\ m.parts[p].data = mp.parts[p].data /\ m.parts[p].done = mp.parts[p].done
          /\ \A j \in 1..p : j # p => m.parts[j] = mp.parts[j]
          /\ m.done = mp.done
      BY <1>3, <3>1, HeldIsInsertedInPart
    <3>3. mp' = [m EXCEPT !.last_handler = 2, !.last_field = x]
      BY <1>1, <2>2 DEF x
    <3> HIDE DEF m
    <3>4. mp' = [last_handler |-> 2, last_field |-> x,
                 last_value |-> m.last_value, parts |-> m.parts, done |-> m.done]
      BY <3>2, <3>3 DEF IsMullet
    <3>5. x \in Text
      BY <1>4
    <3>6. IsMullet(mp')
      BY <3>2, <3>4, <3>5 DEF IsMullet
    <3> QED BY <1>3, <3>1, <3>2, <3>4, <3>6
  <2> QED BY <2>1, <2>2
<1>7. Fresh(mp', taken, p)
  BY <1>5, <1>6 DEF FieldIs, Fresh
<1>8. CASE at' = At("value", p, i, L[i].value) /\ x = at.left
  <2>1. at'.cb = "value" /\ at'.part = p /\ at'.line = i /\ at'.left = L[i].value
    BY <1>8 DEF At
  <2>2. mp'.last_field = L[i].field
    BY <1>6, <1>8
  <2>3. ValueIs(mp', taken, p, i, L[i].value)
    <3>1. /\ mp'.last_handler \in {2, 3} /\ mp'.last_handler # 3
          /\ mp'.parts[p].headers = Meaning(Upto(L, i - 1))
      BY <1>6
    <3> QED BY <1>7, <2>2, <3>1 DEF ValueIs
  <2>4. at'.cb \in InPart /\ at'.cb # "field" /\ at'.cb # "data" /\ at'.cb # "part_end"
    BY <2>1 DEF InPart
  <2> HIDE DEF L, i
  <2> QED BY <1>1, <1>2, <1>6, <2>1, <2>3, <2>4, WithinPart
<1>9. ASSUME NEW rest \in Text, x \o rest = at.left, at' = At("field", p, i, rest)
      PROVE  MulletAt(mp', taken', at')
  <2>1. at'.cb = "field" /\ at'.part = p /\ at'.line = i /\ at'.left = rest
    BY <1>9 DEF At
  <2>2. mp'.last_field \o rest = L[i].field
    <3>1. (mp.last_field \o x) \o rest = mp.last_field \o (x \o rest)
      <4>1. mp.last_field \in Text /\ x \in Text
        BY <1>3, <1>4 DEF IsMullet
      <4> QED BY <4>1, Associates
    <3> QED BY <1>6, <1>9, <3>1
  <2>3. FieldIs(mp', taken, p, i, rest)
    BY <1>6, <1>7, <2>2 DEF FieldIs
  <2>4. at'.cb \in InPart /\ at'.cb # "value" /\ at'.cb # "data" /\ at'.cb # "part_end"
    BY <2>1 DEF InPart
  <2> HIDE DEF L, i
  <2> QED BY <1>1, <1>2, <1>6, <2>1, <2>3, <2>4, WithinPart
<1> QED BY <1>4, <1>8, <1>9

(* A line or the data that follows the last one; no data is empty. *)
LEMMA NextLineIs ==
    ASSUME DocInv, <<>> \notin Datas, NEW p \in 1..Parts,
           NEW line \in 1..(Len(LinesOf(p)) + 1)
    PROVE  LET L == LinesOf(p)
               a == LineAt(p, line)
           IN /\ a.part = p /\ a.line = line
              /\ line <= Len(L) => a.cb = "field" /\ a.left = L[line].field
              /\ line = Len(L) + 1 => a.cb = "data" /\ a.left = doc.parts[p].data
<1>1. p \in 0..Parts /\ p # 0 /\ p \in 1..Len(doc.parts)
  BY TextsAssumption DEF DocInv, Parts
<1>2. doc.parts[p].data # <<>>
  BY <1>1 DEF DocInv
<1> QED BY <1>1, <1>2, LineAtIs

LEMMA ValueKeepsMullet ==
    ASSUME MulletInv, <<>> \notin Datas, OnHeaderValue PROVE MulletAt(mp', taken', at')
<1> DEFINE p == at.part
           i == at.line
           L == LinesOf(p)
<1>1. PICK n \in Cuts :
         /\ p # 0 /\ Reports("value", n, LineAt(p, i + 1)) /\ taken' = taken
         /\ mp' = [mp EXCEPT !.last_handler = 3,
                             !.last_value = IF mp.last_handler = 3 THEN @ \o Piece(n)
                                            ELSE Piece(n)]
  BY DEF OnHeaderValue
<1> DEFINE x == Piece(n)
<1>2. at.cb = "value" /\ at.cb \in InPart
  BY <1>1 DEF Reports, InPart
<1>3. /\ AtInv /\ DocInv /\ IsMullet(mp) /\ p \in 1..Parts /\ p \in Nat /\ p \in 1..p
      /\ Len(mp.parts) = p /\ mp.done = FALSE /\ mp.parts[p].done = FALSE
      /\ i \in 1..Len(L) /\ Len(L) \in Nat /\ i \in Nat
  BY <1>1, <1>2, CurrentPart
<1>4. /\ x \in Text
      /\ \/ at' = LineAt(p, i + 1) /\ x = at.left
         \/ \E rest \in Text : x # <<>> /\ x \o rest = at.left /\ at' = At("value", p, i, rest)
  BY <1>1, <1>3, Reported
<1>5. ValueIs(mp, taken, p, i, at.left)
  BY <1>1, <1>2 DEF MulletInv, MulletAt
<1> HIDE DEF x
<1> DEFINE v == IF mp.last_handler = 3 THEN mp.last_value \o x ELSE x
<1>6. v \in Text /\ mp.last_field \in Text /\ mp.last_value \in Text /\ x \in Text
  <2>1. mp.last_value \in Text /\ mp.last_field \in Text
    BY <1>3 DEF IsMullet
  <2> QED BY <1>4, <2>1, Joined
<1>7. mp' = [last_handler |-> 3, last_field |-> mp.last_field, last_value |-> v,
             parts |-> mp.parts, done |-> mp.done]
  BY <1>1, <1>3 DEF IsMullet, x
<1>8. x = at.left => v = L[i].value
  BY <1>5 DEF ValueIs
<1>9. ASSUME NEW rest \in Text, x \o rest = at.left
      PROVE  v \o rest = L[i].value
  <2>1. (mp.last_value \o x) \o rest = mp.last_value \o (x \o rest)
    <3>1. mp.last_value \in Text /\ x \in Text /\ rest \in Text
      BY <1>6
    <3> QED BY <3>1, Associates
  <2>2. IF mp.last_handler = 3 THEN mp.last_value \o at.left = L[i].value
        ELSE at.left = L[i].value
    BY <1>5 DEF ValueIs
  <2>3. CASE mp.last_handler = 3
    <3>1. v = mp.last_value \o x
      BY <2>3
    <3>2. (mp.last_value \o x) \o rest = mp.last_value \o at.left
      BY <1>9, <2>1
    <3> QED BY <2>2, <2>3, <3>1, <3>2
  <2>4. CASE mp.last_handler # 3
    BY <1>9, <2>2, <2>4
  <2> QED BY <2>3, <2>4
<1>10. /\ mp.parts[p].headers = Meaning(Upto(L, i - 1)) /\ mp.last_field = L[i].field
       /\ Fresh(mp, taken, p)
  BY <1>5 DEF ValueIs
<1> HIDE DEF v
<1>11. /\ IsMullet(mp') /\ mp'.last_handler = 3 /\ mp'.last_field = L[i].field
       /\ mp'.last_value = v /\ mp'.parts = mp.parts /\ mp'.done = FALSE
  BY <1>3, <1>6, <1>7, <1>10 DEF IsMullet
<1>12. Fresh(mp', taken, p)
  BY <1>10, <1>11 DEF Fresh
<1>13. CASE at' = LineAt(p, i + 1) /\ x = at.left
  <2>1. i + 1 \in 1..(Len(L) + 1) /\ (i + 1) - 1 = i /\ i # 0
    BY <1>3
  <2>2. HeldInPart(mp', p, i)
    <3>1. /\ mp'.last_handler = 3 /\ mp'.last_field = L[i].field
          /\ mp'.last_value = L[i].value
          /\ mp'.parts[p].headers = Meaning(Upto(L, i - 1))
      BY <1>8, <1>10, <1>11, <1>13
    <3> QED BY <2>1, <3>1 DEF HeldInPart
  <2>3. /\ at'.part = p /\ at'.line = i + 1
        /\ i + 1 <= Len(L) => at'.cb = "field" /\ at'.left = L[i + 1].field
        /\ i + 1 = Len(L) + 1 => at'.cb = "data" /\ at'.left = doc.parts[p].data
    <3>1. /\ LineAt(p, i + 1).part = p /\ LineAt(p, i + 1).line = i + 1
          /\ i + 1 <= Len(L) => /\ LineAt(p, i + 1).cb = "field"
                                /\ LineAt(p, i + 1).left = L[i + 1].field
          /\ i + 1 = Len(L) + 1 => /\ LineAt(p, i + 1).cb = "data"
                                   /\ LineAt(p, i + 1).left = doc.parts[p].data
      <4>1. DocInv /\ p \in 1..Parts
        BY <1>3
      <4> QED BY <2>1, <4>1, NextLineIs
    <3> QED BY <1>13, <3>1
  <2>4. CASE i + 1 <= Len(L)
    <3>1. FieldIs(mp', taken, p, i + 1, at'.left)
      <4>1. mp'.last_handler # 2 /\ at'.left = L[i + 1].field /\ HeldInPart(mp', p, (i + 1) - 1)
        BY <1>11, <2>1, <2>2, <2>3, <2>4
      <4> QED BY <1>12, <4>1 DEF FieldIs
    <3>2. /\ at'.cb = "field" /\ at'.cb \in InPart /\ at'.cb # "value" /\ at'.cb # "data"
          /\ at'.cb # "part_end" /\ mp'.parts[p].done = FALSE /\ Len(mp'.parts) = p
          /\ \A j \in 1..p : j # p => mp'.parts[j] = mp.parts[j]
      BY <1>3, <1>11, <2>3, <2>4 DEF InPart
    <3> HIDE DEF L, i
    <3> QED BY <1>1, <1>2, <1>11, <2>3, <3>1, <3>2, WithinPart
  <2>5. CASE i + 1 = Len(L) + 1
    <3>1. i = Len(L)
      BY <1>3, <2>5
    <3>2. DataIs(mp', taken, p, at'.left)
      BY <1>11, <1>12, <2>1, <2>2, <2>3, <2>5, <3>1 DEF DataIs
    <3>3. /\ at'.cb = "data" /\ at'.cb \in InPart /\ at'.cb # "value" /\ at'.cb # "field"
          /\ at'.cb # "part_end" /\ mp'.parts[p].done = FALSE /\ Len(mp'.parts) = p
          /\ \A j \in 1..p : j # p => mp'.parts[j] = mp.parts[j]
      BY <1>3, <1>11, <2>3, <2>5 DEF InPart
    <3> HIDE DEF L, i
    <3> QED BY <1>1, <1>2, <1>11, <2>3, <3>2, <3>3, WithinPart
  <2> QED BY <1>3, <2>4, <2>5
<1>14. ASSUME NEW rest \in Text, x \o rest = at.left, at' = At("value", p, i, rest)
       PROVE  MulletAt(mp', taken', at')
  <2>1. at'.cb = "value" /\ at'.part = p /\ at'.line = i /\ at'.left = rest
    BY <1>14 DEF At
  <2>2. ValueIs(mp', taken, p, i, rest)
    BY <1>9, <1>10, <1>11, <1>12, <1>14 DEF ValueIs
  <2>3. /\ at'.cb \in InPart /\ at'.cb # "field" /\ at'.cb # "data" /\ at'.cb # "part_end"
        /\ mp'.parts[p].done = FALSE /\ Len(mp'.parts) = p
        /\ \A j \in 1..p : j # p => mp'.parts[j] = mp.parts[j]
    BY <1>3, <1>11, <2>1 DEF InPart
  <2> HIDE DEF L, i
  <2> QED BY <1>1, <1>2, <1>11, <2>1, <2>2, <2>3, WithinPart
<1> QED BY <1>4, <1>13, <1>14

LEMMA EmptyText ==
    /\ <<>> \in Text
    /\ \A a \in Text : <<>> \o a = a /\ a \o <<>> = a
BY EmptySeq, ConcatEmptySeq DEF Text

(* The part at the back when data arrives: its last header is inserted. *)
LEMMA DataFinds ==
    ASSUME MulletInv, at.cb = "data"
    PROVE  LET p == at.part
               m == InsertLastInPart
               d == IF mp.last_handler = 4 THEN mp.parts[p].data ELSE <<>>
           IN /\ IsMullet(m) /\ Len(m.parts) = p /\ m.parts[p].headers = Meaning(LinesOf(p))
              /\ m.parts[p].data = mp.parts[p].data /\ m.parts[p].done = FALSE
              /\ \A j \in 1..p : j # p => m.parts[j] = mp.parts[j]
              /\ m.done = FALSE /\ d \in Text
              /\ (taken[p] \o d) \o at.left = doc.parts[p].data
<1> DEFINE p == at.part
           L == LinesOf(p)
           m == InsertLastInPart
<1>1. at.cb \in InPart /\ p # 0
  BY TextsAssumption DEF InPart, MulletInv, AtInv, IsAt, DocInv, Parts
<1>2. /\ DocInv /\ IsMullet(mp) /\ p \in 1..Parts /\ Len(mp.parts) = p /\ mp.done = FALSE
      /\ mp.parts[p].done = FALSE /\ L \in Seq(AnyLine) /\ Len(L) \in Nat
      /\ mp.parts[p].data \in Text /\ taken[p] \in Text /\ at.left \in Text
  BY <1>1, CurrentPart
<1>3. DataIs(mp, taken, p, at.left)
  BY DEF MulletInv, MulletAt
<1>4. CASE mp.last_handler = 3
  <2>1. /\ mp.parts[p].data = <<>> /\ taken[p] = <<>> /\ HeldInPart(mp, p, Len(L))
        /\ at.left = doc.parts[p].data
    BY <1>3, <1>4 DEF DataIs, Fresh
  <2>2. Len(L) \in 0..Len(L)
    BY <1>2
  <2>3. Upto(L, Len(L)) = L
    BY <1>2, UptoEnds
  <2>4. /\ IsMullet(m) /\ Len(m.parts) = p /\ m.parts[p].headers = Meaning(L)
        /\ m.parts[p].data = mp.parts[p].data /\ m.parts[p].done = mp.parts[p].done
        /\ \A j \in 1..p : j # p => m.parts[j] = mp.parts[j]
        /\ m.done = mp.done
    BY <1>2, <2>1, <2>2, <2>3, HeldIsInsertedInPart
  <2>5. (<<>> \o <<>>) \o at.left = at.left
    BY <1>2, EmptyText
  <2> HIDE DEF m
  <2> QED BY <1>2, <1>4, <2>1, <2>4, <2>5, EmptyText DEF m
<1>5. CASE mp.last_handler # 3
  <2>1. /\ mp.last_handler \in {0, 4} /\ mp.parts[p].headers = Meaning(L)
        /\ (taken[p] \o mp.parts[p].data) \o at.left = doc.parts[p].data
        /\ mp.last_handler = 0 => mp.parts[p].data = <<>>
    BY <1>3, <1>5 DEF DataIs
  <2>2. m = mp
    BY <1>5 DEF InsertLastInPart
  <2> HIDE DEF m
  <2> QED BY <1>2, <2>1, <2>2, EmptyText DEF m
<1> QED BY <1>4, <1>5

LEMMA DataKeepsMullet ==
    ASSUME MulletInv, OnPartData PROVE MulletAt(mp', taken', at')
<1> DEFINE p == at.part
           L == LinesOf(p)
           line == at.line
<1>1. PICK n \in Cuts :
         /\ Reports("data", n, At("part_end", p, at.line, <<>>)) /\ taken' = taken
         /\ mp' = PartData(Piece(n))
  BY DEF OnPartData
<1> DEFINE x == Piece(n)
<1>2. at.cb = "data" /\ at.cb \in InPart /\ p # 0
  BY <1>1, TextsAssumption DEF Reports, InPart, MulletInv, AtInv, IsAt, DocInv, Parts
<1>3. /\ AtInv /\ DocInv /\ IsMullet(mp) /\ p \in 1..Parts /\ p \in Nat /\ p \in 1..p
      /\ taken[p] \in Text
  BY <1>2, CurrentPart
<1>4. /\ x \in Text
      /\ \/ at' = At("part_end", p, at.line, <<>>) /\ x = at.left
         \/ \E rest \in Text :
               x # <<>> /\ x \o rest = at.left /\ at' = At("data", p, at.line, rest)
  BY <1>1, <1>3, Reported
<1> DEFINE m == InsertLastInPart
           d == IF mp.last_handler = 4 THEN mp.parts[p].data ELSE <<>>
           y == IF mp.last_handler = 4 THEN mp.parts[p].data \o x ELSE x
           new == [m.parts[p] EXCEPT !.data = y]
<1>5. /\ IsMullet(m) /\ Len(m.parts) = p /\ m.parts[p].headers = Meaning(L)
      /\ m.parts[p].data = mp.parts[p].data /\ m.parts[p].done = FALSE
      /\ \A j \in 1..p : j # p => m.parts[j] = mp.parts[j]
      /\ m.done = FALSE /\ d \in Text
      /\ (taken[p] \o d) \o at.left = doc.parts[p].data
  BY <1>2, DataFinds
<1>6. y = d \o x
  BY <1>4, EmptyText
<1>7. mp' = [m EXCEPT !.last_handler = 4, !.parts = EditBack(m.parts, new)]
  BY <1>1, <1>5 DEF PartData, Last, x
<1> HIDE DEF x, m, d, y
<1>8. y \in Text /\ d \in Text /\ x \in Text
  BY <1>4, <1>5, <1>6, Joined
<1>9. m.parts \in Seq(AnyPart) /\ m.parts[p] \in AnyPart /\ Len(m.parts) # 0
  BY <1>2, <1>3, <1>5, ElementOfSeq DEF IsMullet
<1>10. /\ new \in AnyPart /\ new.headers = m.parts[p].headers /\ new.data = y
       /\ new.done = m.parts[p].done
  BY <1>8, <1>9 DEF AnyPart
<1> HIDE DEF new
<1> DEFINE q == EditBack(m.parts, new)
<1>11. /\ q \in Seq(AnyPart) /\ Len(q) = p /\ q[p] = new
       /\ \A j \in 1..p : j # p => q[j] = m.parts[j]
  <2> DEFINE parts == m.parts
  <2>1. parts \in Seq(AnyPart) /\ Len(parts) = p /\ Len(parts) # 0 /\ new \in AnyPart
    BY <1>5, <1>9, <1>10
  <2> HIDE DEF parts
  <2>2. /\ EditBack(parts, new) \in Seq(AnyPart) /\ Len(EditBack(parts, new)) = Len(parts)
        /\ EditBack(parts, new)[Len(parts)] = new
        /\ \A j \in 1..Len(parts) : j # Len(parts) => EditBack(parts, new)[j] = parts[j]
    BY <2>1, EditBackIs
  <2> QED BY <2>1, <2>2 DEF parts
<1> HIDE DEF q
<1>12. mp' = [last_handler |-> 4, last_field |-> m.last_field, last_value |-> m.last_value,
              parts |-> q, done |-> m.done]
  BY <1>5, <1>7 DEF IsMullet, q
<1>13. /\ IsMullet(mp') /\ Len(mp'.parts) = p /\ mp'.last_handler = 4 /\ mp'.done = FALSE
       /\ mp'.parts[p].headers = Meaning(L) /\ mp'.parts[p].data = y
       /\ mp'.parts[p].done = FALSE
       /\ \A j \in 1..p : j # p => mp'.parts[j] = mp.parts[j]
  BY <1>3, <1>5, <1>10, <1>11, <1>12 DEF IsMullet
<1>14. taken[p] \o (d \o x) = (taken[p] \o d) \o x
  BY <1>3, <1>8, Associates
<1>15. CASE at' = At("part_end", p, at.line, <<>>) /\ x = at.left
  <2>1. at'.cb = "part_end" /\ at'.part = p
    BY <1>15 DEF At
  <2>2. EndIs(mp', taken, p)
    BY <1>5, <1>6, <1>13, <1>14, <1>15 DEF EndIs
  <2>3. at'.cb \in InPart /\ at'.cb # "field" /\ at'.cb # "value" /\ at'.cb # "data"
    BY <2>1 DEF InPart
  <2> HIDE DEF L
  <2> QED BY <1>1, <1>2, <1>13, <2>1, <2>2, <2>3, WithinPart
<1>16. ASSUME NEW rest \in Text, x \o rest = at.left, at' = At("data", p, at.line, rest)
       PROVE  MulletAt(mp', taken', at')
  <2>1. at'.cb = "data" /\ at'.part = p /\ at'.left = rest
    BY <1>16 DEF At
  <2>2. (taken[p] \o y) \o rest = doc.parts[p].data
    <3>1. taken[p] \o d \in Text
      BY <1>3, <1>8, Joined
    <3>2. ((taken[p] \o d) \o x) \o rest = (taken[p] \o d) \o (x \o rest)
      <4> DEFINE td == taken[p] \o d
      <4> HIDE DEF td
      <4>1. td \in Text
        BY <3>1 DEF td
      <4>2. (td \o x) \o rest = td \o (x \o rest)
        BY <1>8, <4>1, Associates
      <4> QED BY <4>2 DEF td
    <3> QED BY <1>5, <1>6, <1>14, <1>16, <3>2
  <2>3. DataIs(mp', taken, p, rest)
    BY <1>13, <2>2 DEF DataIs
  <2>4. at'.cb \in InPart /\ at'.cb # "field" /\ at'.cb # "value" /\ at'.cb # "part_end"
    BY <2>1 DEF InPart
  <2> HIDE DEF L
  <2> QED BY <1>1, <1>2, <1>13, <2>1, <2>3, <2>4, WithinPart
<1> QED BY <1>4, <1>15, <1>16

LEMMA PartBeginKeepsMullet ==
    ASSUME MulletInv, <<>> \notin Datas, OnPartBegin PROVE MulletAt(mp', taken', at')
<1> DEFINE p == at.part
           L == LinesOf(p)
<1>1. /\ Reports("part_begin", 0, LineAt(p, 1)) /\ taken' = taken
      /\ mp' = [mp EXCEPT !.parts = Append(mp.parts, NewPart)]
  BY DEF OnPartBegin
<1>2. AtInv /\ DocInv /\ at.cb = "part_begin" /\ 0 \in Cuts /\ IsMullet(mp)
  BY <1>1, ZeroIsACut DEF MulletInv, MulletAt, AtInv, Reports
<1>3. p \in 1..Parts /\ Parts \in 0..MaxParts /\ MaxParts \in Nat /\ p \in Nat /\ p # 0
  BY <1>2, TextsAssumption DEF AtInv, IsAt, DocInv, Parts
<1>4. /\ Begun(at) = p - 1 /\ Len(mp.parts) = p - 1 /\ mp.last_handler \in {0, 4}
      /\ mp.done = FALSE /\ taken \in [1..MaxParts -> Text]
      /\ \A j \in 1..(p - 1) : j < p => PartIs(mp, taken, j)
      /\ \A j \in 1..MaxParts : j > p - 1 => taken[j] = <<>>
  BY <1>2, <1>3 DEF MulletInv, MulletAt, Begun
<1>5. at' = LineAt(p, 1)
  BY <1>1, <1>2 DEF Reports
<1>6. L \in Seq(AnyLine) /\ Len(L) \in Nat /\ 1 \in 1..(Len(L) + 1)
  <2>1. p \in 0..Parts
    BY <1>3
  <2> QED BY <1>2, <2>1, LinesOfType DEF IsLines
<1>7. /\ at'.part = p /\ at'.line = 1
      /\ 1 <= Len(L) => at'.cb = "field" /\ at'.left = L[1].field
      /\ 1 = Len(L) + 1 => at'.cb = "data" /\ at'.left = doc.parts[p].data
  BY <1>2, <1>3, <1>5, <1>6, NextLineIs
<1> DEFINE q == Append(mp.parts, NewPart)
<1>8. /\ q \in Seq(AnyPart) /\ Len(q) = p /\ q[p] = NewPart
      /\ \A j \in 1..(p - 1) : q[j] = mp.parts[j]
  <2>1. mp.parts \in Seq(AnyPart) /\ NewPart \in AnyPart
    BY <1>2, NewPartType DEF IsMullet
  <2> QED BY <1>3, <1>4, <2>1, AppendProperties
<1>9. mp' = [last_handler |-> mp.last_handler, last_field |-> mp.last_field,
             last_value |-> mp.last_value, parts |-> q, done |-> mp.done]
  BY <1>1, <1>2 DEF IsMullet
<1> HIDE DEF q
<1>10. /\ IsMullet(mp') /\ mp'.last_handler = mp.last_handler /\ mp'.parts = q
       /\ mp'.done = FALSE /\ Len(mp'.parts) = p
  BY <1>2, <1>4, <1>8, <1>9 DEF IsMullet
<1>11. /\ mp'.parts[p].headers = NoEntries /\ mp'.parts[p].done = FALSE
       /\ Fresh(mp', taken, p)
  <2>1. p \in 1..MaxParts /\ p > p - 1
    BY <1>3
  <2>2. taken[p] = <<>>
    BY <1>4, <2>1
  <2> QED BY <1>8, <1>10, <2>2, NewPartType DEF Fresh
<1>12. ASSUME NEW j \in 1..p, j < p PROVE PartIs(mp', taken, j)
  <2>1. j \in 1..(p - 1)
    BY <1>3, <1>12
  <2>2. PartIs(mp, taken, j) /\ mp'.parts[j] = mp.parts[j]
    BY <1>4, <1>8, <1>10, <1>12, <2>1
  <2> QED BY <2>2 DEF PartIs
<1>13. at'.cb \in {"field", "data"} => Begun(at') = p
  BY <1>3, <1>7 DEF Begun
<1>14. \A j \in 1..MaxParts : j > p => taken[j] = <<>>
  BY <1>3, <1>4
<1>15. CASE 1 <= Len(L)
  <2>1. HeldInPart(mp', p, 0)
    BY <1>4, <1>10, <1>11 DEF HeldInPart
  <2>2. mp'.last_handler # 2 /\ 1 - 1 = 0
    BY <1>4, <1>10
  <2>3. FieldIs(mp', taken, p, 1, at'.left)
    BY <1>7, <1>11, <1>15, <2>1, <2>2 DEF FieldIs
  <2> HIDE DEF L
  <2>4. at'.cb = "field" /\ at'.part = p /\ at'.part # 0 /\ at'.line = 1
    BY <1>3, <1>7, <1>15
  <2> QED BY <1>1, <1>4, <1>10, <1>11, <1>12, <1>13, <1>14, <2>3, <2>4 DEF MulletAt
<1>16. CASE 1 = Len(L) + 1
  <2>1. Len(L) = 0
    BY <1>6, <1>16
  <2>2. Meaning(L) = NoEntries
    BY <1>6, <2>1, UptoEnds
  <2>3. at'.left \in Text
    <3>1. p \in 0..Parts
      BY <1>3
    <3> QED BY <1>2, <1>3, <1>7, <1>16, <3>1, LinesOfType
  <2>4. (<<>> \o <<>>) \o at'.left = doc.parts[p].data
    BY <1>7, <1>16, <2>3, EmptyText
  <2>5. DataIs(mp', taken, p, at'.left)
    BY <1>4, <1>10, <1>11, <2>2, <2>4 DEF DataIs, Fresh
  <2> HIDE DEF L
  <2>6. at'.cb = "data" /\ at'.part = p /\ at'.part # 0
    BY <1>3, <1>7, <1>16
  <2> QED BY <1>1, <1>4, <1>10, <1>11, <1>12, <1>13, <1>14, <2>5, <2>6 DEF MulletAt
<1> QED BY <1>6, <1>15, <1>16

LEMMA PartEndKeepsMullet ==
    ASSUME MulletInv, OnPartEnd PROVE MulletAt(mp', taken', at')
<1> DEFINE p == at.part
           back == Last(mp.parts)
<1>1. /\ Reports("part_end", 0, PartAt(p + 1)) /\ taken' = taken
      /\ \E lower \in LowerCopies(back.headers) :
            mp' = [mp EXCEPT !.parts =
                       EditBack(mp.parts, [back EXCEPT !.headers_lowercase = lower, !.done = TRUE])]
  BY DEF OnPartEnd
<1>2. at.cb = "part_end" /\ at.cb \in InPart /\ p # 0 /\ 0 \in Cuts
  BY <1>1, ZeroIsACut, TextsAssumption
  DEF Reports, InPart, MulletInv, AtInv, IsAt, DocInv, Parts
<1>3. /\ AtInv /\ DocInv /\ IsMullet(mp) /\ p \in 1..Parts /\ p \in Nat /\ p \in 1..p
      /\ Len(mp.parts) = p /\ mp.done = FALSE /\ mp.parts[p] \in AnyPart
      /\ Parts \in 0..MaxParts /\ MaxParts \in Nat /\ taken \in [1..MaxParts -> Text]
  BY <1>2, CurrentPart
<1>4. at' = PartAt(p + 1)
  BY <1>1, <1>2 DEF Reports
<1>5. at'.part = p + 1 /\ at'.cb \in {"part_begin", "end"}
  <2>1. p + 1 \in 1..(Parts + 1)
    BY <1>3
  <2> QED BY <1>3, <1>4, <2>1, PartAtIs
<1>6. EndIs(mp, taken, p)
  BY <1>2 DEF MulletInv, MulletAt
<1>7. mp.parts \in Seq(AnyPart) /\ back = mp.parts[p] /\ Len(mp.parts) # 0
  BY <1>2, <1>3 DEF IsMullet, Last
<1>8. PICK lower \in LowerCopies(back.headers) :
         mp' = [mp EXCEPT !.parts =
                    EditBack(mp.parts, [back EXCEPT !.headers_lowercase = lower, !.done = TRUE])]
  BY <1>1
<1> DEFINE new == [back EXCEPT !.headers_lowercase = lower, !.done = TRUE]
<1> HIDE DEF back
<1>9. /\ new \in AnyPart /\ new.headers = back.headers /\ new.data = back.data
      /\ new.done = TRUE
  <2>1. back \in AnyPart /\ back.headers \in Maps
    BY <1>3, <1>7 DEF AnyPart
  <2>2. lower \in Maps
    BY <1>8, <2>1, LowerType
  <2> QED BY <2>1, <2>2 DEF AnyPart
<1> HIDE DEF new
<1> DEFINE q == EditBack(mp.parts, new)
<1>10. /\ q \in Seq(AnyPart) /\ Len(q) = p /\ q[p] = new
       /\ \A j \in 1..p : j # p => q[j] = mp.parts[j]
  <2>1. /\ q \in Seq(AnyPart) /\ Len(q) = Len(mp.parts) /\ q[Len(mp.parts)] = new
        /\ \A j \in 1..Len(mp.parts) : j # Len(mp.parts) => q[j] = mp.parts[j]
    BY <1>7, <1>9, EditBackIs
  <2> HIDE DEF q
  <2> QED BY <1>3, <2>1
<1>11. mp' = [last_handler |-> mp.last_handler, last_field |-> mp.last_field,
              last_value |-> mp.last_value, parts |-> q, done |-> mp.done]
  BY <1>3, <1>8 DEF IsMullet, new
<1> HIDE DEF q
<1>12. /\ IsMullet(mp') /\ mp'.last_handler = 4 /\ mp'.parts = q /\ mp'.done = FALSE
       /\ Len(mp'.parts) = p
  BY <1>3, <1>6, <1>10, <1>11 DEF IsMullet, EndIs
<1>13. PartIs(mp', taken, p)
  BY <1>6, <1>7, <1>9, <1>10, <1>12 DEF PartIs, EndIs
<1>14. Begun(at) = p /\ Begun(at') = p
  BY <1>2, <1>3, <1>5 DEF Begun
<1>15. ASSUME NEW j \in 1..p PROVE PartIs(mp', taken, j)
  <2>1. CASE j = p
    BY <1>13, <2>1
  <2>2. CASE j # p
    <3>1. j < p
      BY <1>3, <2>2
    <3>2. PartIs(mp, taken, j) /\ mp'.parts[j] = mp.parts[j]
      BY <1>10, <1>12, <1>14, <2>2, <3>1 DEF MulletInv, MulletAt
    <3> QED BY <3>2 DEF PartIs
  <2> QED BY <2>1, <2>2
<1>16. \A j \in 1..MaxParts : j > p => taken[j] = <<>>
  BY <1>14 DEF MulletInv, MulletAt
<1>17. at'.part # 0 /\ at'.cb \notin InPart
  BY <1>3, <1>5 DEF InPart
<1> QED BY <1>1, <1>3, <1>5, <1>12, <1>14, <1>15, <1>16, <1>17 DEF MulletAt, InPart

LEMMA EndKeepsMullet ==
    ASSUME MulletInv, OnEnd PROVE MulletAt(mp', taken', at')
<1>1. /\ Reports("end", 0, At("none", at.part, 0, <<>>)) /\ taken' = taken
      /\ mp' = [mp EXCEPT !.done = TRUE]
  BY DEF OnEnd
<1>2. AtInv /\ at.cb = "end" /\ IsMullet(mp) /\ at.part # 0 /\ 0 \in Cuts
  BY <1>1, ZeroIsACut, TextsAssumption
  DEF Reports, MulletInv, MulletAt, AtInv, IsAt, DocInv, Parts
<1>3. at'.cb = "none" /\ at'.part = at.part
  BY <1>1, <1>2 DEF Reports, At
<1>4. mp' = [last_handler |-> mp.last_handler, last_field |-> mp.last_field,
             last_value |-> mp.last_value, parts |-> mp.parts, done |-> TRUE]
  BY <1>1, <1>2 DEF IsMullet
<1>5. IsMullet(mp') /\ mp'.parts = mp.parts /\ mp'.done = TRUE
  BY <1>2, <1>4 DEF IsMullet
<1>6. Begun(at') = Begun(at)
  BY <1>2, <1>3 DEF Begun
<1>7. \A j \in 1..Begun(at) : j < at.part => PartIs(mp', taken, j)
  BY <1>5 DEF MulletInv, MulletAt, PartIs
<1>8. /\ taken \in [1..MaxParts -> Text] /\ Len(mp.parts) = Begun(at)
      /\ \A j \in 1..MaxParts : j > Begun(at) => taken[j] = <<>>
  BY DEF MulletInv, MulletAt
<1> QED BY <1>1, <1>2, <1>3, <1>5, <1>6, <1>7, <1>8 DEF MulletAt

(* The header of the request is none of Mullet's. *)
LEMMA HeaderKeepsMullet ==
    ASSUME MulletInv, AtInv', at.part = 0, UNCHANGED <<doc, mp, taken>>,
           at'.part = 0 \/ (at'.part = 1 /\ at'.cb \in {"part_begin", "end"})
    PROVE  MulletAt(mp', taken', at')
<1>1. /\ Begun(at) = 0 /\ Len(mp.parts) = 0 /\ mp.last_handler = 0 /\ IsMullet(mp)
      /\ taken \in [1..MaxParts -> Text] /\ \A j \in 1..MaxParts : j > 0 => taken[j] = <<>>
  BY DEF MulletInv, MulletAt, Begun
<1>2. mp.done = FALSE
  BY TextsAssumption DEF MulletInv, MulletAt, AtInv, IsAt, DocInv, Parts
<1>3. Begun(at') = 0
  BY DEF Begun
<1>4. at'.part = 0 => at'.cb \notin {"part_begin", "data", "part_end"}
  BY DEF AtInv, IsAt
<1>5. UNCHANGED <<mp, taken>>
  OBVIOUS
<1>6. /\ IsMullet(mp') /\ taken' \in [1..MaxParts -> Text] /\ Len(mp'.parts) = Begun(at')
      /\ mp'.done = FALSE /\ \A j \in 1..Begun(at') : j < at'.part => PartIs(mp', taken', j)
      /\ \A j \in 1..MaxParts : j > Begun(at') => taken'[j] = <<>>
      /\ mp'.last_handler = 0
  BY <1>1, <1>2, <1>3, <1>5
<1>7. CASE at'.part = 0
  BY <1>4, <1>6, <1>7 DEF MulletAt
<1>8. CASE at'.part = 1 /\ at'.cb \in {"part_begin", "end"}
  <2>1. /\ at'.part # 0 /\ at'.cb # "field" /\ at'.cb # "value" /\ at'.cb # "data"
        /\ at'.cb # "part_end"
    BY <1>8
  <2> QED BY <1>6, <2>1 DEF MulletAt
<1> QED BY <1>7, <1>8

(* Data that a handler takes is counted in what it has taken. *)
LEMMA TakeKeepsMullet ==
    ASSUME MulletInv, NEW i \in 1..MaxParts, TakeData(i) PROVE MulletAt(mp', taken', at')
<1> DEFINE d == mp.parts[i].data
           new == [mp.parts[i] EXCEPT !.data = <<>>]
           q == [mp.parts EXCEPT ![i] = new]
<1>1. /\ i <= Len(mp.parts) /\ d # <<>> /\ taken' = [taken EXCEPT ![i] = taken[i] \o d]
      /\ mp' = [mp EXCEPT !.parts[i].data = <<>>] /\ at' = at
  BY DEF TakeData
<1>2. /\ IsMullet(mp) /\ mp.parts \in Seq(AnyPart) /\ taken \in [1..MaxParts -> Text]
      /\ Len(mp.parts) = Begun(at) /\ i \in Nat /\ Len(mp.parts) \in Nat
  BY TextsAssumption DEF MulletInv, MulletAt, IsMullet
<1>3. i \in 1..Len(mp.parts) /\ mp.parts[i] \in AnyPart
  BY <1>1, <1>2, ElementOfSeq
<1>4. d \in Text /\ taken[i] \in Text /\ <<>> \in Text
  BY <1>2, <1>3, EmptyText DEF AnyPart
<1>5. /\ new \in AnyPart /\ new.headers = mp.parts[i].headers /\ new.data = <<>>
      /\ new.done = mp.parts[i].done
  BY <1>3, <1>4 DEF AnyPart
<1>6. mp' = [mp EXCEPT !.parts = q]
  BY <1>1
<1> HIDE DEF new
<1>7. /\ q \in Seq(AnyPart) /\ Len(q) = Len(mp.parts) /\ q[i] = new
      /\ \A j \in 1..Len(mp.parts) : j # i => q[j] = mp.parts[j]
  BY <1>2, <1>3, <1>5, ExceptSeq
<1> HIDE DEF q
<1>8. mp' = [last_handler |-> mp.last_handler, last_field |-> mp.last_field,
             last_value |-> mp.last_value, parts |-> q, done |-> mp.done]
  BY <1>2, <1>6 DEF IsMullet
<1>9. /\ IsMullet(mp') /\ mp'.parts = q /\ mp'.last_handler = mp.last_handler
      /\ mp'.last_field = mp.last_field /\ mp'.last_value = mp.last_value /\ mp'.done = mp.done
  BY <1>2, <1>7, <1>8 DEF IsMullet
<1>10. taken[i] \o d \in Text
  BY <1>4, Joined
<1>11. /\ taken' \in [1..MaxParts -> Text] /\ taken'[i] = taken[i] \o d
       /\ \A j \in 1..MaxParts : j # i => taken'[j] = taken[j]
  BY <1>1, <1>2, <1>10
<1>12. taken'[i] \o <<>> = taken[i] \o d
  BY <1>10, <1>11, EmptyText
<1> HIDE DEF d
<1>13. /\ mp'.parts[i].data = <<>>
       /\ \A j \in 1..Len(mp.parts) : /\ mp'.parts[j].headers = mp.parts[j].headers
                                      /\ mp'.parts[j].done = mp.parts[j].done
       /\ \A j \in 1..Len(mp.parts) : j # i => mp'.parts[j] = mp.parts[j]
  BY <1>5, <1>7, <1>9
<1>14. ASSUME NEW j \in 1..Len(mp.parts)
       PROVE  taken'[j] \o mp'.parts[j].data = taken[j] \o mp.parts[j].data
  <2>1. CASE j = i
    BY <1>12, <1>13, <2>1 DEF d
  <2>2. CASE j # i
    <3>1. j \in 1..MaxParts
      BY <1>2, TextsAssumption DEF MulletInv, AtInv, IsAt, DocInv, Parts, Begun
    <3> QED BY <1>11, <1>13, <2>2, <3>1
  <2> QED BY <2>1, <2>2
<1>15. ASSUME NEW j \in 1..Len(mp.parts), Fresh(mp, taken, j) PROVE Fresh(mp', taken', j)
  <2>1. j # i
    BY <1>1, <1>15 DEF Fresh, d
  <2>2. j \in 1..MaxParts
    BY <1>2, TextsAssumption DEF MulletInv, AtInv, IsAt, DocInv, Parts, Begun
  <2> QED BY <1>11, <1>13, <1>15, <2>1, <2>2 DEF Fresh
<1>16. ASSUME NEW j \in 1..Len(mp.parts), NEW k \in Nat, HeldInPart(mp, j, k)
       PROVE  HeldInPart(mp', j, k)
  BY <1>9, <1>13, <1>16 DEF HeldInPart, LinesOf
<1> DEFINE p == at.part
<1>17. ASSUME p # 0, at.cb \in InPart
       PROVE  p \in 1..Len(mp.parts) /\ Len(LinesOf(p)) \in Nat /\ p \in Nat
  BY <1>17, CurrentPart
<1>18. ASSUME p # 0, at.cb = "field" PROVE FieldIs(mp', taken', p, at.line, at.left)
  <2>1. at.cb \in InPart /\ at.cb \in {"field", "value"}
    BY <1>18 DEF InPart
  <2>2. at.line \in 1..Len(LinesOf(p)) /\ at.line \in Nat
    BY <1>18, <2>1, CurrentPart
  <2>3. p \in 1..Len(mp.parts) /\ FieldIs(mp, taken, p, at.line, at.left)
    BY <1>17, <1>18, <2>1 DEF MulletInv, MulletAt
  <2>4. at.line - 1 \in Nat
    BY <2>2
  <2>5. Fresh(mp', taken', p)
    BY <1>15, <2>3 DEF FieldIs
  <2> QED BY <1>9, <1>13, <1>16, <2>3, <2>4, <2>5 DEF FieldIs
<1>19. ASSUME p # 0, at.cb = "value" PROVE ValueIs(mp', taken', p, at.line, at.left)
  <2>1. p \in 1..Len(mp.parts) /\ ValueIs(mp, taken, p, at.line, at.left)
    BY <1>17, <1>19 DEF MulletInv, MulletAt, InPart
  <2>2. Fresh(mp', taken', p)
    BY <1>15, <2>1 DEF ValueIs
  <2> QED BY <1>9, <1>13, <2>1, <2>2 DEF ValueIs
<1>20. at.cb \in {"data", "part_end"} => p # 0
  BY TextsAssumption DEF MulletInv, AtInv, IsAt, DocInv, Parts
<1>21. ASSUME at.cb = "data" PROVE DataIs(mp', taken', p, at.left)
  <2>1. /\ p \in 1..Len(mp.parts) /\ DataIs(mp, taken, p, at.left)
        /\ Len(LinesOf(p)) \in Nat
    BY <1>17, <1>20, <1>21 DEF MulletInv, MulletAt, InPart
  <2>2. CASE mp.last_handler = 3
    <3>1. Fresh(mp', taken', p)
      BY <1>15, <2>1, <2>2 DEF DataIs
    <3>2. HeldInPart(mp', p, Len(LinesOf(p)))
      BY <1>16, <2>1, <2>2 DEF DataIs
    <3> QED BY <1>9, <2>1, <2>2, <3>1, <3>2 DEF DataIs
  <2>3. CASE mp.last_handler # 3
    <3>1. taken'[p] \o mp'.parts[p].data = taken[p] \o mp.parts[p].data
      BY <1>14, <2>1
    <3>2. mp.parts[p].data = <<>> => mp'.parts[p].data = <<>>
      BY <1>13, <2>1
    <3> QED BY <1>9, <1>13, <2>1, <2>3, <3>1, <3>2 DEF DataIs
  <2> QED BY <2>2, <2>3
<1>22. ASSUME at.cb = "part_end" PROVE EndIs(mp', taken', p)
  <2>1. p \in 1..Len(mp.parts) /\ EndIs(mp, taken, p)
    BY <1>17, <1>20, <1>22 DEF MulletInv, MulletAt, InPart
  <2> QED BY <1>9, <1>13, <1>14, <2>1 DEF EndIs
<1>23. ASSUME NEW j \in 1..Begun(at), j < p PROVE PartIs(mp', taken', j)
  <2>1. PartIs(mp, taken, j) /\ j \in 1..Len(mp.parts)
    BY <1>2, <1>23 DEF MulletInv, MulletAt
  <2> QED BY <1>13, <1>14, <2>1 DEF PartIs
<1>24. ASSUME NEW j \in 1..MaxParts, j > Begun(at) PROVE taken'[j] = <<>>
  <2>1. taken[j] = <<>> /\ j # i
    BY <1>2, <1>3, <1>24 DEF MulletInv, MulletAt
  <2> QED BY <1>11, <2>1
<1>25. /\ mp'.done \in BOOLEAN /\ (mp'.done => at.cb = "none")
       /\ p = 0 => mp'.last_handler = 0
       /\ at.cb = "part_begin" => mp'.last_handler \in {0, 4}
  BY <1>9 DEF MulletInv, MulletAt
<1>26. p # 0 /\ at.cb \in {"field", "value", "data", "part_end"} => mp'.parts[p].done = FALSE
  BY <1>13, <1>17 DEF MulletInv, MulletAt, InPart
<1>27. Len(mp'.parts) = Begun(at)
  BY <1>2, <1>7, <1>9
<1> QED
  BY <1>1, <1>9, <1>11, <1>18, <1>19, <1>21, <1>22, <1>23, <1>24, <1>25, <1>26, <1>27
  DEF MulletAt

LEMMA InitMulletInv == ASSUME Init PROVE MulletInv
<1>1. /\ mp = [last_handler |-> 0, last_field |-> <<>>, last_value |-> <<>>,
               parts |-> <<>>, done |-> FALSE]
      /\ taken = [i \in 1..MaxParts |-> <<>>] /\ at.cb = "url" /\ at.part = 0
  BY DEF Init, At
<1>2. <<>> \in Text /\ Len(<<>>) = 0 /\ <<>> \in Seq(AnyPart)
  BY EmptyText
<1>3. /\ IsMullet(mp) /\ mp.last_handler = 0 /\ mp.done = FALSE /\ Len(mp.parts) = 0
      /\ taken \in [1..MaxParts -> Text]
  BY <1>1, <1>2 DEF IsMullet
<1>4. Begun(at) = 0
  BY <1>1 DEF Begun
<1>5. \A j \in 1..MaxParts : taken[j] = <<>>
  BY <1>1
<1> QED BY <1>1, <1>3, <1>4, <1>5, InitAtInv DEF MulletInv, MulletAt

(* The callbacks of HTTP1::Parser end in the header, or where the body begins. *)
LEMMA HeaderStaysInHeader ==
    ASSUME AtInv, CallbackUrl \/ CallbackHeaderField \/ CallbackHeaderValue
                    \/ CallbackHeadersComplete
    PROVE  /\ at.part = 0 /\ UNCHANGED <<doc, mp, taken>>
           /\ at'.part = 0 \/ (at'.part = 1 /\ at'.cb \in {"part_begin", "end"})
<1>1. \A cb, line, text : At(cb, 0, line, text).part = 0
  BY DEF At
<1>2. \A line : LineAt(0, line).part = 0
  BY <1>1 DEF LineAt
<1>3. ASSUME NEW cb, NEW n, NEW next, Reports(cb, n, next), at.part = 0, next.part = 0
      PROVE  at'.part = 0
  <2>1. at' = next \/ at' = At(cb, at.part, at.line, SubSeq(at.left, n + 1, Len(at.left)))
    BY <1>3 DEF Reports
  <2> QED BY <1>1, <1>3, <2>1
<1>4. at.cb \in {"url", "headers_complete"} => at.part = 0
  BY DEF AtInv, IsAt
<1>5. CASE CallbackUrl
  <2>1. PICK n \in Cuts : Reports("url", n, LineAt(0, 1)) /\ UNCHANGED <<doc, mp, taken>>
    BY <1>5 DEF CallbackUrl
  <2>2. at.part = 0
    BY <1>4, <2>1 DEF Reports
  <2> QED BY <1>2, <1>3, <2>1, <2>2
<1>6. CASE CallbackHeaderField
  <2>1. PICK n \in Cuts :
          /\ at.part = 0 /\ UNCHANGED <<doc, mp, taken>>
          /\ Reports("field", n, At("value", 0, at.line, LinesOf(0)[at.line].value))
    BY <1>6 DEF CallbackHeaderField
  <2> QED BY <1>1, <1>3, <2>1
<1>7. CASE CallbackHeaderValue
  <2>1. PICK n \in Cuts : /\ at.part = 0 /\ UNCHANGED <<doc, mp, taken>>
                          /\ Reports("value", n, LineAt(0, at.line + 1))
    BY <1>7 DEF CallbackHeaderValue
  <2> QED BY <1>2, <1>3, <2>1
<1>8. CASE CallbackHeadersComplete
  <2>1. Reports("headers_complete", 0, PartAt(1)) /\ UNCHANGED <<doc, mp, taken>>
    BY <1>8 DEF CallbackHeadersComplete
  <2>2. at.part = 0 /\ at' = PartAt(1)
    <3>1. at.cb = "headers_complete" /\ 0 \in Cuts
      BY <2>1, ZeroIsACut DEF Reports
    <3> QED BY <1>4, <2>1, <3>1 DEF Reports
  <2>3. 1 \in 1..(Parts + 1)
    BY TextsAssumption DEF AtInv, DocInv, Parts
  <2>4. at'.part = 1 /\ at'.cb \in {"part_begin", "end"}
    BY <2>2, <2>3, PartAtIs DEF AtInv
  <2> QED BY <2>1, <2>2, <2>4
<1> QED BY <1>5, <1>6, <1>7, <1>8

LEMMA NextMulletInv ==
    ASSUME MulletInv, <<>> \notin Datas, [Next]_vars PROVE MulletInv'
<1>1. AtInv /\ AtInv'
  BY NextAtInv DEF MulletInv
<1>2. MulletAt(mp', taken', at') /\ UNCHANGED doc
  <2>1. CASE CallbackUrl \/ CallbackHeaderField \/ CallbackHeaderValue \/ CallbackHeadersComplete
    BY <1>1, <2>1, HeaderStaysInHeader, HeaderKeepsMullet
  <2>2. CASE OnPartBegin
    BY <2>2, PartBeginKeepsMullet DEF OnPartBegin
  <2>3. CASE OnHeaderField
    BY <2>3, FieldKeepsMullet DEF OnHeaderField
  <2>4. CASE OnHeaderValue
    BY <2>4, ValueKeepsMullet DEF OnHeaderValue
  <2>5. CASE OnPartData
    BY <2>5, DataKeepsMullet DEF OnPartData
  <2>6. CASE OnPartEnd
    BY <2>6, PartEndKeepsMullet DEF OnPartEnd
  <2>7. CASE OnEnd
    BY <2>7, EndKeepsMullet DEF OnEnd
  <2>8. CASE \E i \in 1..MaxParts : TakeData(i)
    BY <2>8, TakeKeepsMullet DEF TakeData
  <2>9. CASE UNCHANGED vars
    BY <2>9 DEF vars, MulletInv
  <2> QED BY <2>1, <2>2, <2>3, <2>4, <2>5, <2>6, <2>7, <2>8, <2>9 DEF Next
<1>3. MulletAt(mp, taken, at)'
  BY <1>2 DEF MulletAt, IsMullet, PartIs, FieldIs, ValueIs, DataIs, EndIs, Fresh, HeldInPart,
              Begun, LinesOf
<1> QED BY <1>1, <1>3 DEF MulletInv

LEMMA MulletKeepsParts == ASSUME MulletInv PROVE PartsAreAsSent
<1>1. /\ Len(mp.parts) = Begun(at) /\ mp.parts \in Seq(AnyPart) /\ Len(mp.parts) \in Nat
      /\ at.part \in 0..(Parts + 1) /\ Parts \in Nat
      /\ \A j \in 1..Begun(at) : j < at.part => PartIs(mp, taken, j)
  BY TextsAssumption DEF MulletInv, MulletAt, IsMullet, AtInv, IsAt, DocInv, Parts
<1>2. ASSUME NEW i \in 1..Begun(at), mp.parts[i].done \/ i < at.part PROVE PartIs(mp, taken, i)
  <2>1. CASE i < at.part
    BY <1>1, <2>1
  <2>2. CASE ~ (i < at.part)
    <3>1. at.part # 0 /\ at.cb \notin {"part_begin", "end", "none"} /\ i = at.part
      BY <1>1, <2>2 DEF Begun
    <3>2. at.cb \in {"field", "value", "data", "part_end"}
      BY <3>1 DEF MulletInv, AtInv, IsAt
    <3>3. mp.parts[i].done = FALSE
      BY <3>1, <3>2 DEF MulletInv, MulletAt
    <3> QED BY <1>2, <2>2, <3>3
  <2> QED BY <2>1, <2>2
<1>3. ASSUME NEW i \in 1..Begun(at), PartIs(mp, taken, i)
      PROVE  /\ mp.parts[i].headers = Meaning(doc.parts[i].headers)
             /\ taken[i] \o mp.parts[i].data = doc.parts[i].data
             /\ mp.parts[i].done = TRUE
  BY <1>3 DEF PartIs, LinesOf
<1>4. DOMAIN mp.parts = 1..Begun(at)
  BY <1>1
<1>5. ASSUME mp.done PROVE Begun(at) = Len(doc.parts) /\ \A i \in 1..Begun(at) : i < at.part
  <2>1. at.cb = "none"
    BY <1>5 DEF MulletInv, MulletAt
  <2>2. at.part = Parts + 1
    BY <2>1 DEF MulletInv, AtInv, IsAt
  <2> QED BY <1>1, <2>1, <2>2 DEF Begun, Parts
<1> QED BY <1>1, <1>2, <1>3, <1>4, <1>5 DEF PartsAreAsSent

(* However the reads cut a body, and whatever a handler takes of it meanwhile, each part
   that is done has its own headers and data.  A part without data, of which Mullet loses
   the last header, is left out. *)
THEOREM PartsOfBodiesAreAsSent ==
    ASSUME <<>> \notin Datas PROVE Spec => []PartsAreAsSent
<1>1. Init => MulletInv
  BY InitMulletInv
<1>2. MulletInv /\ [Next]_vars => MulletInv'
  BY NextMulletInv
<1>3. MulletInv => PartsAreAsSent
  BY MulletKeepsParts
<1> QED BY <1>1, <1>2, <1>3, PTL DEF Spec
=============================================================================
