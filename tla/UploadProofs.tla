---- MODULE UploadProofs ----
(***************************************************************************)
(* What an upload that is acknowledged has stored: for any contents and    *)
(* chunks, any sizes a harmed header may claim, and any cut into pieces.   *)
(***************************************************************************)
EXTENDS Upload, SequenceTheorems, WellFoundedInduction, TLAPS

(***************************************************************************)
(* Induction over the natural numbers, in the form of a set that contains  *)
(* them.                                                                   *)
(***************************************************************************)

\* A set that contains 0 and, with a number, the next one contains all numbers.
LEMMA SetInduction ==
  ASSUME NEW S, 0 \in S, \A n \in Nat : n \in S => n + 1 \in S
  PROVE  Nat \subseteq S
<1> DEFINE T == Nat \ S
           R == {p \in Nat \X Nat : p[1] < p[2]}
<1>1. CASE T # {}
  <2>1. PICK m \in T : \A y \in T : ~ (<<y, m>> \in R)
    <3>1. IsWellFoundedOn(R, Nat)
      BY NatLessThanWellFounded DEF OpToRel
    <3>2. T \in SUBSET Nat
      OBVIOUS
    <3> HIDE DEF R, T
    <3>3. QED
      BY <1>1, <3>1, <3>2, WFMin
  <2>2. m # 0 /\ m - 1 \in Nat
    BY <2>1
  <2>3. <<m - 1, m>> \in R
    BY <2>2
  <2>4. m - 1 \in S
    <3> HIDE DEF R
    <3>1. QED
      BY <2>1, <2>2, <2>3
  <2>5. QED
    BY <2>1, <2>2, <2>4
<1>2. QED
  BY <1>1

(***************************************************************************)
(* A call of push, token by token.                                         *)
(***************************************************************************)

\* The decoder before the piece and after each of its tokens.
IsRun(h, d, piece, n) ==
  h = [j \in 0 .. n |-> IF j = 0 THEN d ELSE Decode(h[j - 1], piece[j])]


\* The function that FoldLeft defines on the sets of positions in 1 .. n.
IsFold(f, d, piece, n) ==
  f = [s \in SUBSET (1 .. n) |-> IF s = {} THEN d ELSE Decode(f[s \ {Max(s)}], piece[Max(s)])]

LEMMA MaxOfInterval ==
  ASSUME NEW n \in Nat, NEW s \in SUBSET (1 .. n + 1), n + 1 \in s
  PROVE  Max(s) = n + 1
<1>1. \A y \in s : n + 1 >= y
  OBVIOUS
<1>2. \A x \in s : (\A y \in s : x >= y) => x = n + 1
  OBVIOUS
<1>3. QED
  BY <1>1, <1>2 DEF Max

LEMMA FoldExists ==
  ASSUME NEW d, NEW piece
  PROVE  \A n \in Nat : \E f : IsFold(f, d, piece, n)
<1> DEFINE S == {n \in Nat : \E f : IsFold(f, d, piece, n)}
<1>1. 0 \in S
  <2>1. IsFold([s \in SUBSET (1 .. 0) |-> d], d, piece, 0)
    <3>1. SUBSET (1 .. 0) = {{}}
      OBVIOUS
    <3>2. QED
      BY <3>1 DEF IsFold
  <2>2. QED
    BY <2>1
<1>2. ASSUME NEW n \in Nat, n \in S
      PROVE  n + 1 \in S
  <2>1. PICK f : IsFold(f, d, piece, n)
    BY <1>2
  <2>2. \A s \in SUBSET (1 .. n) :
          f[s] = IF s = {} THEN d ELSE Decode(f[s \ {Max(s)}], piece[Max(s)])
    BY <2>1, Zenon DEF IsFold
  <2> DEFINE g == [s \in SUBSET (1 .. n + 1) |->
                     IF n + 1 \in s THEN Decode(f[s \ {n + 1}], piece[n + 1]) ELSE f[s]]
  <2>3. ASSUME NEW s \in SUBSET (1 .. n + 1)
        PROVE  g[s] = IF s = {} THEN d ELSE Decode(g[s \ {Max(s)}], piece[Max(s)])
    <3>1. CASE n + 1 \in s
      <4>1. Max(s) = n + 1
        BY <3>1, MaxOfInterval
      <4>2. s # {}
        BY <3>1
      <4>3. g[s \ {n + 1}] = f[s \ {n + 1}]
        OBVIOUS
      <4>4. g[s] = Decode(f[s \ {n + 1}], piece[n + 1])
        BY <3>1
      <4> HIDE DEF g
      <4>5. QED
        BY <4>1, <4>2, <4>3, <4>4
    <3>2. CASE n + 1 \notin s
      <4>1. s \in SUBSET (1 .. n)
        BY <3>2
      <4>2. g[s] = f[s]
        BY <3>2
      <4>3. g[s \ {Max(s)}] = f[s \ {Max(s)}]
        BY <3>2
      <4> HIDE DEF g
      <4>4. QED
        BY <2>2, <4>1, <4>2, <4>3
    <3>3. QED
      BY <3>1, <3>2
  <2>4. g = [s \in SUBSET (1 .. n + 1) |-> g[s]]
    OBVIOUS
  <2> HIDE DEF g
  <2>5. IsFold(g, d, piece, n + 1)
    BY <2>3, <2>4, Zenon DEF IsFold
  <2>6. QED
    BY <2>5
<1>3. Nat \subseteq S
  <2> HIDE DEF S
  <2>1. QED
    BY <1>1, <1>2, SetInduction
<1>4. QED
  BY <1>3

\* Push is the end of a run.
LEMMA FoldIsRun ==
  ASSUME NEW d, NEW piece, NEW n \in Nat, DOMAIN piece = 1 .. n
  PROVE  \E h : IsRun(h, d, piece, n) /\ FoldLeft(Decode, d, piece) = h[n]
<1> DEFINE G(f) == f = [s \in SUBSET (DOMAIN piece) |->
                          IF s = {} THEN d ELSE Decode(f[s \ {Max(s)}], piece[Max(s)])]
           fold == CHOOSE f : G(f)
           h == [j \in 0 .. n |-> fold[1 .. j]]
<1>1. FoldLeft(Decode, d, piece) = fold[DOMAIN piece]
  BY Zenon DEF FoldLeft, MapThenFoldSet
<1>2. \E f : G(f)
  <2>1. PICK f : IsFold(f, d, piece, n)
    BY FoldExists
  <2>2. f = [s \in SUBSET (DOMAIN piece) |->
               IF s = {} THEN d ELSE Decode(f[s \ {Max(s)}], piece[Max(s)])]
    BY <2>1, Zenon DEF IsFold
  <2>3. QED
    BY <2>2, Zenon
<1>3. \A s \in SUBSET (1 .. n) :
        fold[s] = IF s = {} THEN d ELSE Decode(fold[s \ {Max(s)}], piece[Max(s)])
  <2>1. G(fold)
    BY <1>2, Zenon
  <2> HIDE DEF fold
  <2>2. QED
    BY <2>1, Zenon
<1> HIDE DEF G, fold
<1>4. ASSUME NEW j \in 0 .. n
      PROVE  h[j] = IF j = 0 THEN d ELSE Decode(h[j - 1], piece[j])
  <2>1. CASE j = 0
    <3>1. 1 .. j = {} /\ {} \in SUBSET (1 .. n)
      BY <2>1
    <3>2. h[j] = fold[{}]
      BY <3>1
    <3>3. fold[{}] = d
      BY <1>3, <3>1
    <3> HIDE DEF h
    <3>4. QED
      BY <2>1, <3>2, <3>3
  <2>2. CASE j # 0
    <3>1. /\ j - 1 \in Nat /\ j - 1 \in 0 .. n
          /\ 1 .. j \in SUBSET (1 .. n) /\ 1 .. j # {}
          /\ (1 .. j) \ {j} = 1 .. (j - 1)
      BY <2>2
    <3>2. Max(1 .. j) = j
      <4>1. PICK i \in Nat : j = i + 1
        BY <3>1
      <4>2. QED
        BY <4>1, MaxOfInterval
    <3>3. fold[1 .. j] = Decode(fold[1 .. (j - 1)], piece[j])
      BY <1>3, <3>1, <3>2
    <3>4. h[j] = fold[1 .. j] /\ h[j - 1] = fold[1 .. (j - 1)]
      BY <3>1
    <3> HIDE DEF h
    <3>5. QED
      BY <2>2, <3>3, <3>4
  <2>3. QED
    BY <2>1, <2>2
<1>5. h = [j \in 0 .. n |-> h[j]] /\ h[n] = fold[1 .. n]
  OBVIOUS
<1> HIDE DEF h
<1>6. IsRun(h, d, piece, n)
  BY <1>4, <1>5, Zenon DEF IsRun
<1>7. QED
  BY <1>1, <1>5, <1>6

\* What a run begins with and every token leaves as it should be holds at its end.
LEMMA RunKeeps ==
  ASSUME NEW d, NEW piece, NEW n \in Nat, NEW h, IsRun(h, d, piece, n), NEW Good,
         <<0, d>> \in Good,
         \A j \in 1 .. n : <<j - 1, h[j - 1]>> \in Good => <<j, Decode(h[j - 1], piece[j])>> \in Good
  PROVE  <<n, h[n]>> \in Good
<1> DEFINE S == {j \in Nat : j <= n => <<j, h[j]>> \in Good}
<1>1. \A j \in 0 .. n : h[j] = IF j = 0 THEN d ELSE Decode(h[j - 1], piece[j])
  BY Zenon DEF IsRun
<1>2. 0 \in S
  BY <1>1
<1>3. ASSUME NEW j \in Nat, j \in S
      PROVE  j + 1 \in S
  <2>1. SUFFICES ASSUME j + 1 <= n PROVE <<j + 1, h[j + 1]>> \in Good
    OBVIOUS
  <2>2. PICK i \in 1 .. n : i = j + 1 /\ i - 1 = j /\ i # 0 /\ i \in 0 .. n
    BY <2>1
  <2>3. <<i - 1, h[i - 1]>> \in Good
    BY <1>3, <2>1, <2>2
  <2>4. h[i] = Decode(h[i - 1], piece[i])
    BY <1>1, <2>2
  <2>5. QED
    BY <2>2, <2>3, <2>4
<1>4. Nat \subseteq S
  <2> HIDE DEF S
  <2>1. QED
    BY <1>2, <1>3, SetInduction
<1>5. QED
  BY <1>4

(***************************************************************************)
(* A flattened sequence, one element after the other.                      *)
(***************************************************************************)

\* The function that FlattenSeq defines.
IsFlat(f, seqs, n) == f = [i \in 1 .. n |-> IF i = 1 THEN seqs[i] ELSE f[i - 1] \o seqs[i]]

LEMMA FlatExists ==
  ASSUME NEW seqs
  PROVE  \A n \in Nat : \E f : IsFlat(f, seqs, n)
<1> DEFINE S == {n \in Nat : \E f : IsFlat(f, seqs, n)}
<1>1. 0 \in S
  <2>1. IsFlat([i \in 1 .. 0 |-> 0], seqs, 0)
    BY DEF IsFlat
  <2>2. QED
    BY <2>1
<1>2. ASSUME NEW n \in Nat, n \in S
      PROVE  n + 1 \in S
  <2>1. PICK f : IsFlat(f, seqs, n)
    BY <1>2
  <2>2. \A i \in 1 .. n : f[i] = IF i = 1 THEN seqs[i] ELSE f[i - 1] \o seqs[i]
    BY <2>1, Zenon DEF IsFlat
  <2> DEFINE new == IF n = 0 THEN seqs[1] ELSE f[n] \o seqs[n + 1]
             g == [i \in 1 .. n + 1 |-> IF i = n + 1 THEN new ELSE f[i]]
  <2>3. ASSUME NEW i \in 1 .. n + 1
        PROVE  g[i] = IF i = 1 THEN seqs[i] ELSE g[i - 1] \o seqs[i]
    <3> HIDE DEF new
    <3>1. CASE i = n + 1
      <4>1. g[i] = new
        BY <3>1
      <4>2. CASE n = 0
        BY <3>1, <4>1, <4>2 DEF new
      <4>3. CASE n # 0
        <5>1. new = f[n] \o seqs[n + 1]
          BY <4>3 DEF new
        <5>2. g[i - 1] = f[n] /\ i # 1
          BY <3>1, <4>3
        <5> HIDE DEF g
        <5>3. QED
          BY <3>1, <4>1, <5>1, <5>2
      <4>4. QED
        BY <4>2, <4>3
    <3>2. CASE i # n + 1
      <4>1. i \in 1 .. n /\ g[i] = f[i]
        BY <3>2
      <4>2. i # 1 => g[i - 1] = f[i - 1]
        BY <3>2
      <4> HIDE DEF g
      <4>3. QED
        BY <2>2, <4>1, <4>2
    <3>3. QED
      BY <3>1, <3>2
  <2>4. g = [i \in 1 .. n + 1 |-> g[i]]
    OBVIOUS
  <2> HIDE DEF g
  <2>5. IsFlat(g, seqs, n + 1)
    BY <2>3, <2>4, Zenon DEF IsFlat
  <2>6. QED
    BY <2>5
<1>3. Nat \subseteq S
  <2> HIDE DEF S
  <2>1. QED
    BY <1>1, <1>2, SetInduction
<1>4. QED
  BY <1>3

LEMMA FlattenIsFlat ==
  ASSUME NEW seqs, Len(seqs) \in Nat, Len(seqs) # 0
  PROVE  \E f : IsFlat(f, seqs, Len(seqs)) /\ FlattenSeq(seqs) = f[Len(seqs)]
<1> DEFINE G(f) == f = [i \in 1 .. Len(seqs) |-> IF i = 1 THEN seqs[i] ELSE f[i - 1] \o seqs[i]]
           flat == CHOOSE f : G(f)
<1>1. FlattenSeq(seqs) = flat[Len(seqs)]
  BY Zenon DEF FlattenSeq
<1>2. \E f : G(f)
  BY FlatExists, Zenon DEF IsFlat
<1>3. G(flat)
  BY <1>2, Zenon
<1> HIDE DEF flat
<1>4. IsFlat(flat, seqs, Len(seqs))
  BY <1>3, Zenon DEF IsFlat
<1>5. QED
  BY <1>1, <1>4

\* What is flattened so far does not depend on what follows.
LEMMA FlatAgree ==
  ASSUME NEW seqs, NEW more, NEW n \in Nat, NEW m \in Nat, NEW f, NEW g,
         IsFlat(f, seqs, n), IsFlat(g, more, m), n <= m,
         \A i \in 1 .. n : seqs[i] = more[i]
  PROVE  \A i \in 1 .. n : f[i] = g[i]
<1> DEFINE S == {i \in Nat : i \in 1 .. n => f[i] = g[i]}
<1>1. \A i \in 1 .. n : f[i] = IF i = 1 THEN seqs[i] ELSE f[i - 1] \o seqs[i]
  BY Zenon DEF IsFlat
<1>2. \A i \in 1 .. m : g[i] = IF i = 1 THEN more[i] ELSE g[i - 1] \o more[i]
  BY Zenon DEF IsFlat
<1>3. ASSUME NEW i \in Nat, i \in S
      PROVE  i + 1 \in S
  <2>1. SUFFICES ASSUME i + 1 \in 1 .. n PROVE f[i + 1] = g[i + 1]
    OBVIOUS
  <2>2. PICK j \in 1 .. n : j = i + 1 /\ j \in 1 .. m /\ j - 1 = i
    BY <2>1
  <2>3. j # 1 => f[j - 1] = g[j - 1]
    BY <1>3, <2>2
  <2>4. f[j] = g[j]
    BY <1>1, <1>2, <2>2, <2>3
  <2>5. QED
    BY <2>2, <2>4
<1>4. Nat \subseteq S
  <2> HIDE DEF S
  <2>1. 0 \in S
    BY DEF S
  <2>2. QED
    BY <2>1, <1>3, SetInduction
<1>5. QED
  BY <1>4

\* The same, with one more to follow.
LEMMA FlatBefore ==
  ASSUME NEW n \in Nat, n # 0, NEW seqs, NEW more, NEW f, NEW g,
         IsFlat(f, seqs, n), IsFlat(g, more, n + 1), \A i \in 1 .. n : seqs[i] = more[i]
  PROVE  f[n] = g[n]
<1> DEFINE m == n + 1
<1>1. m \in Nat /\ n <= m
  OBVIOUS
<1> HIDE DEF m
<1>2. IsFlat(g, more, m)
  BY DEF m
<1>3. \A i \in 1 .. n : f[i] = g[i]
  BY <1>1, <1>2, FlatAgree
<1>4. QED
  BY <1>3

LEMMA FlattenEmpty == FlattenSeq(<<>>) = <<>>
BY DEF FlattenSeq

\* One more sequence comes at the end.
LEMMA FlattenAppend ==
  ASSUME NEW T, NEW seqs \in Seq(Seq(T)), NEW s \in Seq(T)
  PROVE  FlattenSeq(seqs) \in Seq(T) => FlattenSeq(Append(seqs, s)) = FlattenSeq(seqs) \o s
<1>1. SUFFICES ASSUME FlattenSeq(seqs) \in Seq(T)
               PROVE  FlattenSeq(Append(seqs, s)) = FlattenSeq(seqs) \o s
  OBVIOUS
<1>2. PICK n, more : n = Len(seqs) /\ more = Append(seqs, s)
  OBVIOUS
<1>3. /\ n \in Nat /\ Len(more) = n + 1 /\ more[n + 1] = s
      /\ \A i \in 1 .. n : seqs[i] = more[i]
  BY <1>2
<1>4. PICK g : IsFlat(g, more, n + 1) /\ FlattenSeq(more) = g[n + 1]
  <2>1. Len(more) \in Nat /\ Len(more) # 0
    BY <1>3
  <2>2. PICK g : IsFlat(g, more, Len(more)) /\ FlattenSeq(more) = g[Len(more)]
    BY <2>1, FlattenIsFlat
  <2>3. QED
    BY <1>3, <2>2
<1>5. \A i \in 1 .. n + 1 : g[i] = IF i = 1 THEN more[i] ELSE g[i - 1] \o more[i]
  BY <1>4, Zenon DEF IsFlat
<1>6. CASE n = 0
  <2>1. g[1] = s
    BY <1>3, <1>5, <1>6
  <2>2. FlattenSeq(seqs) = <<>>
    <3>1. seqs = <<>>
      BY <1>2, <1>6, EmptySeq
    <3>2. QED
      BY <3>1, FlattenEmpty
  <2>3. FlattenSeq(more) = s /\ <<>> \o s = s
    BY <1>4, <1>6, <2>1
  <2>4. QED
    BY <1>2, <2>2, <2>3
<1>7. CASE n # 0
  <2>1. PICK f : IsFlat(f, seqs, n) /\ FlattenSeq(seqs) = f[n]
    BY <1>2, <1>3, <1>7, FlattenIsFlat
  <2>2. f[n] = g[n]
    <3>1. /\ n \in Nat /\ n # 0 /\ IsFlat(f, seqs, n) /\ IsFlat(g, more, n + 1)
          /\ \A i \in 1 .. n : seqs[i] = more[i]
      BY <1>3, <1>4, <1>7, <2>1
    <3>2. QED
      BY <3>1, FlatBefore
  <2>3. g[n + 1] = g[n] \o s
    <3>1. n \in Nat
      BY <1>3
    <3>2. PICK i \in 1 .. n + 1 : i = n + 1 /\ i # 1 /\ i - 1 = n
      BY <1>7, <3>1
    <3>3. g[i] = g[i - 1] \o more[i]
      BY <1>5, <3>2
    <3>4. QED
      BY <1>3, <3>2, <3>3
  <2>4. FlattenSeq(more) = FlattenSeq(seqs) \o s
    BY <1>4, <2>1, <2>2, <2>3
  <2>5. QED
    BY <1>2, <2>4
<1>8. QED
  BY <1>6, <1>7

\* A sequence up to an element is the one before it and that element.
LEMMA PrefixAppend ==
  ASSUME NEW T, NEW s \in Seq(T), NEW i \in Nat, i < Len(s)
  PROVE  SubSeq(s, 1, i + 1) = Append(SubSeq(s, 1, i), s[i + 1])
<1>1. SubSeq(s, 1, i + 1) \in Seq(T) /\ Len(SubSeq(s, 1, i + 1)) = i + 1
  OBVIOUS
<1>2. SubSeq(s, 1, i) \in Seq(T) /\ Len(SubSeq(s, 1, i)) = i /\ s[i + 1] \in T
  OBVIOUS
<1>3. /\ Append(SubSeq(s, 1, i), s[i + 1]) \in Seq(T)
      /\ Len(Append(SubSeq(s, 1, i), s[i + 1])) = i + 1
  BY <1>2
<1>4. \A j \in 1 .. i + 1 : SubSeq(s, 1, i + 1)[j] = Append(SubSeq(s, 1, i), s[i + 1])[j]
  BY <1>2
<1>5. QED
  BY <1>1, <1>3, <1>4, SeqEqual

LEMMA FlattenType ==
  ASSUME NEW T, NEW seqs \in Seq(Seq(T))
  PROVE  \A i \in 0 .. Len(seqs) : FlattenSeq(SubSeq(seqs, 1, i)) \in Seq(T)
<1> DEFINE S == {i \in Nat : i <= Len(seqs) => FlattenSeq(SubSeq(seqs, 1, i)) \in Seq(T)}
<1>1. 0 \in S
  <2>1. SubSeq(seqs, 1, 0) = <<>>
    OBVIOUS
  <2>2. FlattenSeq(SubSeq(seqs, 1, 0)) = <<>>
    BY <2>1, FlattenEmpty
  <2>3. <<>> \in Seq(T)
    OBVIOUS
  <2>4. QED
    BY <2>2, <2>3
<1>2. ASSUME NEW i \in Nat, i \in S
      PROVE  i + 1 \in S
  <2>1. SUFFICES ASSUME i + 1 <= Len(seqs) PROVE FlattenSeq(SubSeq(seqs, 1, i + 1)) \in Seq(T)
    OBVIOUS
  <2>2. SubSeq(seqs, 1, i) \in Seq(Seq(T)) /\ seqs[i + 1] \in Seq(T)
    BY <2>1
  <2>3. FlattenSeq(SubSeq(seqs, 1, i)) \in Seq(T)
    BY <1>2, <2>1
  <2>4. SubSeq(seqs, 1, i + 1) = Append(SubSeq(seqs, 1, i), seqs[i + 1])
    <3>1. i < Len(seqs)
      BY <2>1
    <3>2. QED
      BY <3>1, PrefixAppend
  <2>5. FlattenSeq(SubSeq(seqs, 1, i + 1)) = FlattenSeq(SubSeq(seqs, 1, i)) \o seqs[i + 1]
    BY <2>2, <2>3, <2>4, FlattenAppend
  <2> DEFINE before == FlattenSeq(SubSeq(seqs, 1, i))
  <2>6. before \o seqs[i + 1] \in Seq(T)
    <3> HIDE DEF before
    <3>1. ASSUME NEW x \in Seq(T), NEW y \in Seq(T)
          PROVE  x \o y \in Seq(T)
      OBVIOUS
    <3>2. before \in Seq(T)
      BY <2>3 DEF before
    <3>3. QED
      BY <2>2, <3>1, <3>2
  <2>7. QED
    BY <2>5, <2>6
<1>3. Nat \subseteq S
  <2> HIDE DEF S
  <2>1. QED
    BY <1>1, <1>2, SetInduction
<1>4. QED
  BY <1>3

\* The first i sequences, flattened, and the next.
LEMMA FlattenNext ==
  ASSUME NEW T, NEW seqs \in Seq(Seq(T)), NEW i \in Nat, i < Len(seqs)
  PROVE  /\ FlattenSeq(SubSeq(seqs, 1, i)) \in Seq(T)
         /\ FlattenSeq(SubSeq(seqs, 1, i + 1)) = FlattenSeq(SubSeq(seqs, 1, i)) \o seqs[i + 1]
<1>1. SubSeq(seqs, 1, i) \in Seq(Seq(T)) /\ seqs[i + 1] \in Seq(T) /\ i \in 0 .. Len(seqs)
  OBVIOUS
<1>2. FlattenSeq(SubSeq(seqs, 1, i)) \in Seq(T)
  BY <1>1, FlattenType
<1>3. QED
  BY <1>1, <1>2, PrefixAppend, FlattenAppend

\* What is flattened first stays at the beginning.
LEMMA FlattenPrefix ==
  ASSUME NEW T, NEW seqs \in Seq(Seq(T)), NEW i \in 0 .. Len(seqs)
  PROVE  \A m \in i .. Len(seqs) :
           /\ Len(FlattenSeq(SubSeq(seqs, 1, i))) <= Len(FlattenSeq(SubSeq(seqs, 1, m)))
           /\ \A j \in 1 .. Len(FlattenSeq(SubSeq(seqs, 1, i))) :
                FlattenSeq(SubSeq(seqs, 1, m))[j] = FlattenSeq(SubSeq(seqs, 1, i))[j]
<1> DEFINE F(m) == FlattenSeq(SubSeq(seqs, 1, m))
           Starts(m) == /\ Len(F(i)) <= Len(F(m))
                        /\ \A j \in 1 .. Len(F(i)) : F(m)[j] = F(i)[j]
           S == {m \in Nat : m \in i .. Len(seqs) => Starts(m)}
<1>1. Len(seqs) \in Nat /\ i \in Nat
  OBVIOUS
<1>2. \A m \in 0 .. Len(seqs) : F(m) \in Seq(T) /\ Len(F(m)) \in Nat
  BY FlattenType, LenProperties
<1>3. ASSUME NEW m \in Nat, m \in i .. Len(seqs) - 1
      PROVE  F(m + 1) = F(m) \o seqs[m + 1] /\ seqs[m + 1] \in Seq(T)
  <2>1. m < Len(seqs)
    BY <1>1, <1>3
  <2>2. FlattenSeq(SubSeq(seqs, 1, m + 1)) = FlattenSeq(SubSeq(seqs, 1, m)) \o seqs[m + 1]
    BY <2>1, FlattenNext
  <2>3. seqs[m + 1] \in Seq(T)
    BY <2>1
  <2>4. QED
    BY <2>2, <2>3
<1> HIDE DEF F
<1>4. 0 \in S
  <2>1. SUFFICES ASSUME 0 \in i .. Len(seqs) PROVE Starts(0)
    BY DEF S
  <2>2. i = 0
    BY <1>1, <2>1
  <2>3. Len(F(0)) \in Nat
    BY <1>1, <1>2
  <2>4. QED
    BY <2>2, <2>3
<1>5. ASSUME NEW m \in Nat, m \in S
      PROVE  m + 1 \in S
  <2>1. SUFFICES ASSUME m + 1 \in i .. Len(seqs) PROVE Starts(m + 1)
    BY DEF S
  <2>2. CASE m + 1 = i
    <3>1. Len(F(i)) \in Nat
      BY <1>1, <1>2
    <3>2. QED
      BY <2>2, <3>1
  <2>3. CASE m + 1 # i
    <3>1. m \in i .. Len(seqs) - 1 /\ m \in i .. Len(seqs) /\ m \in 0 .. Len(seqs)
      BY <1>1, <2>1, <2>3
    <3>2. Starts(m)
      BY <1>5, <3>1
    <3>3. F(m + 1) = F(m) \o seqs[m + 1] /\ seqs[m + 1] \in Seq(T)
      BY <1>3, <3>1
    <3>4. F(m) \in Seq(T) /\ F(i) \in Seq(T) /\ Len(F(i)) \in Nat
      BY <1>1, <1>2, <3>1
    <3>5. /\ Len(F(m)) <= Len(F(m + 1))
          /\ \A j \in 1 .. Len(F(m)) : F(m + 1)[j] = F(m)[j]
      BY <3>3, <3>4
    <3>6. Len(F(m)) \in Nat /\ Len(F(m + 1)) \in Nat
      BY <1>1, <1>2, <2>1, <3>1
    <3>7. QED
      BY <3>2, <3>4, <3>5, <3>6
  <2>4. QED
    BY <2>2, <2>3
<1>6. Nat \subseteq S
  <2> HIDE DEF S
  <2>1. QED
    BY <1>4, <1>5, SetInduction
<1>7. \A m \in i .. Len(seqs) : Starts(m)
  BY <1>1, <1>6
<1>8. QED
  BY <1>7 DEF F

\* Where the elements of each sequence are in the end.
LEMMA FlattenAt ==
  ASSUME NEW T, NEW seqs \in Seq(Seq(T)), NEW i \in Nat, i < Len(seqs)
  PROVE  /\ Len(FlattenSeq(SubSeq(seqs, 1, i))) \in Nat
         /\ Len(FlattenSeq(SubSeq(seqs, 1, i + 1))) =
              Len(FlattenSeq(SubSeq(seqs, 1, i))) + Len(seqs[i + 1])
         /\ Len(FlattenSeq(SubSeq(seqs, 1, i))) + Len(seqs[i + 1]) <= Len(FlattenSeq(seqs))
         /\ \A k \in 1 .. Len(seqs[i + 1]) :
              FlattenSeq(seqs)[Len(FlattenSeq(SubSeq(seqs, 1, i))) + k] = seqs[i + 1][k]
<1> DEFINE x == FlattenSeq(SubSeq(seqs, 1, i))
           y == FlattenSeq(SubSeq(seqs, 1, i + 1))
           z == FlattenSeq(seqs)
           s == seqs[i + 1]
<1>1. x \in Seq(T) /\ y = x \o s
  BY FlattenNext
<1>2. s \in Seq(T)
  OBVIOUS
<1>3. Len(y) <= Len(z) /\ \A j \in 1 .. Len(y) : z[j] = y[j]
  <2> DEFINE n == i + 1
             l == Len(seqs)
  <2>1. n \in 0 .. l /\ l \in n .. l
    OBVIOUS
  <2>2. SubSeq(seqs, 1, l) = seqs
    OBVIOUS
  <2> HIDE DEF n
  <2>3. /\ Len(FlattenSeq(SubSeq(seqs, 1, n))) <= Len(FlattenSeq(SubSeq(seqs, 1, l)))
        /\ \A j \in 1 .. Len(FlattenSeq(SubSeq(seqs, 1, n))) :
             FlattenSeq(SubSeq(seqs, 1, l))[j] = FlattenSeq(SubSeq(seqs, 1, n))[j]
    BY <2>1, FlattenPrefix
  <2>4. QED
    BY <2>2, <2>3 DEF n
<1> HIDE DEF x, y, z, s
<1>4. Len(x) \in Nat /\ Len(s) \in Nat /\ Len(y) = Len(x) + Len(s)
  BY <1>1, <1>2
<1>5. ASSUME NEW k \in 1 .. Len(s)
      PROVE  z[Len(x) + k] = s[k]
  <2>1. Len(x) + k \in 1 .. Len(y)
    BY <1>4
  <2>2. y[Len(x) + k] = s[k]
    BY <1>1, <1>2, <1>4
  <2>3. QED
    BY <1>3, <2>1, <2>2
<1>6. QED
  BY <1>3, <1>4, <1>5 DEF x, y, z, s

(***************************************************************************)
(* What the client sends.                                                  *)
(***************************************************************************)
Chunks == Seq(Seq(Byte) \ {<<>>})
ByteTokens == {Token(b) : b \in Byte}
Signatures == Seq(Seq(ByteTokens))

\* The data of chunk i, the last one, which is empty, included.
DataAt(chunks, i) == IF i > Len(chunks) THEN <<>> ELSE Data(chunks[i])

\* All that may be on the wire: a chunk header may claim any size, and have the signature
\* of any chunk or of none.
Tokens(chunks) == ByteTokens \cup {Opening, Garbled, CR, LF}
                  \cup {Line(size, Chain(chunks, i)) : size \in Int, i \in 0 .. Len(chunks) + 1}

LEMMA DataIs ==
  ASSUME NEW chunk \in Seq(Byte)
  PROVE  /\ Data(chunk) \in Seq(ByteTokens) /\ Len(Data(chunk)) = Len(chunk)
         /\ \A i \in 1 .. Len(chunk) : Data(chunk)[i] = Token(chunk[i])
<1>1. DOMAIN chunk = 1 .. Len(chunk) /\ Len(chunk) \in Nat
  OBVIOUS
<1>2. \A i \in 1 .. Len(chunk) : Token(chunk[i]) \in ByteTokens
  BY DEF ByteTokens
<1>3. QED
  BY <1>1, <1>2 DEF Data

LEMMA DataAtIs ==
  ASSUME NEW chunks \in Chunks, NEW i \in Nat, i # 0
  PROVE  /\ DataAt(chunks, i) \in Seq(ByteTokens)
         /\ DataAt(chunks, i) = <<>> <=> i > Len(chunks)
         /\ i <= Len(chunks) => /\ chunks[i] \in Seq(Byte)
                                /\ Len(DataAt(chunks, i)) = Len(chunks[i])
                                /\ Len(chunks[i]) > 0
<1>1. CASE i > Len(chunks)
  BY <1>1 DEF DataAt, Chunks
<1>2. CASE ~(i > Len(chunks))
  <2>1. i \in 1 .. Len(chunks)
    BY <1>2 DEF Chunks
  <2>2. chunks[i] \in Seq(Byte) /\ chunks[i] # <<>>
    BY <2>1 DEF Chunks
  <2>3. Len(chunks[i]) > 0
    BY <2>2, EmptySeq
  <2>4. Data(chunks[i]) \in Seq(ByteTokens) /\ Len(Data(chunks[i])) = Len(chunks[i])
    BY <2>2, DataIs
  <2>5. Data(chunks[i]) # <<>>
    BY <2>3, <2>4
  <2>6. QED
    BY <1>2, <2>2, <2>3, <2>4, <2>5 DEF DataAt
<1>3. QED
  BY <1>1, <1>2

\* A signature stands for as many chunks as its number says.
LEMMA ChainIs ==
  ASSUME NEW chunks \in Chunks, NEW i \in Nat
  PROVE  /\ Chain(chunks, i) \in Signatures /\ Len(Chain(chunks, i)) = i
         /\ \A j \in 1 .. i : Chain(chunks, i)[j] = DataAt(chunks, j)
<1>1. Chain(chunks, i) = [j \in 1 .. i |-> DataAt(chunks, j)]
  BY Zenon DEF Chain, DataAt
<1>2. \A j \in 1 .. i : DataAt(chunks, j) \in Seq(ByteTokens)
  BY DataAtIs
<1>3. QED
  BY <1>1, <1>2 DEF Signatures

LEMMA ChainNext ==
  ASSUME NEW chunks \in Chunks, NEW i \in Nat
  PROVE  Chain(chunks, i + 1) = Append(Chain(chunks, i), DataAt(chunks, i + 1))
<1> DEFINE c == Chain(chunks, i)
           n == Chain(chunks, i + 1)
<1>1. c \in Signatures /\ Len(c) = i /\ \A j \in 1 .. i : c[j] = DataAt(chunks, j)
  BY ChainIs
<1>2. n \in Signatures /\ Len(n) = i + 1 /\ \A j \in 1 .. i + 1 : n[j] = DataAt(chunks, j)
  <2>1. i + 1 \in Nat
    OBVIOUS
  <2>2. QED
    BY <2>1, ChainIs
<1>3. DataAt(chunks, i + 1) \in Seq(ByteTokens)
  BY DataAtIs
<1> HIDE DEF c, n
<1>4. n = Append(c, DataAt(chunks, i + 1))
  BY <1>1, <1>2, <1>3 DEF Signatures
<1>5. QED
  BY <1>4 DEF c, n

\* The only signature that verifies after that of chunk i is that of the next, and only
\* with the data of the next.
LEMMA ChainOnly ==
  ASSUME NEW chunks \in Chunks, NEW i \in Nat, NEW k \in Nat, NEW T, NEW data \in Seq(T),
         Chain(chunks, k) = Append(Chain(chunks, i), data)
  PROVE  k = i + 1 /\ data = DataAt(chunks, i + 1)
<1> DEFINE c == Chain(chunks, i)
           n == Chain(chunks, k)
<1>1. c \in Signatures /\ Len(c) = i
  BY ChainIs
<1>2. n \in Signatures /\ Len(n) = k /\ \A j \in 1 .. k : n[j] = DataAt(chunks, j)
  BY ChainIs
<1>3. n = Append(c, data)
  OBVIOUS
<1> HIDE DEF c, n
<1>4. Len(n) = i + 1 /\ n[i + 1] = data
  BY <1>1, <1>3 DEF Signatures
<1>5. k = i + 1
  BY <1>2, <1>4
<1>6. QED
  BY <1>2, <1>4, <1>5

LEMMA ContentsNext ==
  ASSUME NEW chunks \in Chunks
  PROVE  /\ Contents(SubSeq(chunks, 1, 0)) = <<>>
         /\ Contents(SubSeq(chunks, 1, Len(chunks))) = Contents(chunks)
         /\ \A i \in 0 .. Len(chunks) : Contents(SubSeq(chunks, 1, i)) \in Seq(ByteTokens)
         /\ \A i \in 0 .. Len(chunks) - 1 :
              Contents(SubSeq(chunks, 1, i + 1)) =
                Contents(SubSeq(chunks, 1, i)) \o DataAt(chunks, i + 1)
<1> DEFINE all == [i \in DOMAIN chunks |-> Data(chunks[i])]
<1>1. Len(chunks) \in Nat /\ DOMAIN chunks = 1 .. Len(chunks)
  BY DEF Chunks
<1>2. \A i \in 1 .. Len(chunks) : /\ Data(chunks[i]) \in Seq(ByteTokens)
                                  /\ Data(chunks[i]) = DataAt(chunks, i)
  BY <1>1, DataAtIs DEF DataAt
<1>3. all \in Seq(Seq(ByteTokens)) /\ Len(all) = Len(chunks)
  BY <1>1, <1>2
<1>4. ASSUME NEW i \in 0 .. Len(chunks)
      PROVE  Contents(SubSeq(chunks, 1, i)) = FlattenSeq(SubSeq(all, 1, i))
  <2> DEFINE some == SubSeq(chunks, 1, i)
             cut == SubSeq(all, 1, i)
  <2>1. i \in Nat /\ DOMAIN some = 1 .. i /\ \A j \in 1 .. i : some[j] = chunks[j]
    BY <1>1 DEF Chunks
  <2>2. cut = [j \in 1 .. i |-> Data(chunks[j])]
    <3>1. \A j \in 1 .. i : all[j] = Data(chunks[j])
      BY <1>1
    <3> HIDE DEF all
    <3>2. cut = [j \in 1 .. i |-> all[j]]
      BY <1>3, <2>1
    <3> HIDE DEF cut
    <3>3. QED
      BY <3>1, <3>2
  <2> HIDE DEF all, cut, some
  <2>3. [j \in DOMAIN some |-> Data(some[j])] = cut
    BY <2>1, <2>2
  <2>4. Contents(some) = FlattenSeq(cut)
    BY <2>3, Zenon DEF Contents
  <2>5. QED
    BY <2>4 DEF some, cut
<1>5. \A i \in 1 .. Len(chunks) : all[i] = DataAt(chunks, i)
  BY <1>1, <1>2
<1> HIDE DEF all
<1>6. Contents(SubSeq(chunks, 1, 0)) = <<>>
  <2>1. 0 \in 0 .. Len(chunks)
    BY <1>1
  <2>2. SubSeq(all, 1, 0) = <<>>
    BY <1>3
  <2>3. Contents(SubSeq(chunks, 1, 0)) = FlattenSeq(SubSeq(all, 1, 0))
    BY <1>4, <2>1
  <2>4. QED
    BY <2>2, <2>3, FlattenEmpty
<1>7. SubSeq(chunks, 1, Len(chunks)) = chunks
  BY DEF Chunks
<1>8. \A i \in 0 .. Len(chunks) : Contents(SubSeq(chunks, 1, i)) \in Seq(ByteTokens)
  BY <1>3, <1>4, FlattenType
<1>9. ASSUME NEW i \in 0 .. Len(chunks) - 1
      PROVE  Contents(SubSeq(chunks, 1, i + 1)) =
               Contents(SubSeq(chunks, 1, i)) \o DataAt(chunks, i + 1)
  <2>1. i \in Nat /\ i < Len(all) /\ i \in 0 .. Len(chunks) /\ i + 1 \in 0 .. Len(chunks)
        /\ i + 1 \in 1 .. Len(chunks)
    BY <1>1, <1>3
  <2>2. FlattenSeq(SubSeq(all, 1, i + 1)) = FlattenSeq(SubSeq(all, 1, i)) \o all[i + 1]
    BY <1>3, <2>1, FlattenNext
  <2>3. QED
    BY <1>4, <1>5, <2>1, <2>2
<1>10. QED
  BY <1>6, <1>7, <1>8, <1>9

(***************************************************************************)
(* What the decoder lets through.                                          *)
(***************************************************************************)
Decoder(chunks) ==
  [state : {"header", "chunk", "trailer", "done"}, buf : Seq(Tokens(chunks)), remaining : Nat,
   pending : Signatures, data : Seq(Tokens(chunks)), prev : Signatures, finished : BOOLEAN,
   error : BOOLEAN, out : Seq(Tokens(chunks))]

\* It has verified i chunks and passed them on, and the data it is reading.
HasRead(d, chunks, total, i) ==
  /\ i \in 0 .. Len(chunks)
  /\ total = Contents(SubSeq(chunks, 1, i)) \o d.data
  /\ d.state # "chunk" => d.data = <<>>
  /\ IF d.finished THEN i = Len(chunks) ELSE d.prev = Chain(chunks, i)

\* What holds of a decoder whatever comes: total is all it has yielded.
Sound(d, chunks, total) ==
  /\ d \in Decoder(chunks)
  /\ d.finished <=> d.state = "done"
  /\ ~d.error => /\ \E i \in Nat : HasRead(d, chunks, total, i)
                 /\ d.state = "chunk" => /\ d.remaining > 0
                                         /\ \E k \in Nat : d.pending = Chain(chunks, k)

LEMMA TokenKinds ==
  ASSUME NEW chunks, NEW t \in Tokens(chunks)
  PROVE  /\ t.kind = "line" => /\ t.size \in Int
                               /\ \E k \in 0 .. Len(chunks) + 1 : t.sig = Chain(chunks, k)
         /\ t.kind # "line" => t \in ByteTokens \cup {Opening, Garbled, CR, LF}
BY DEF Tokens, ByteTokens, Token, Opening, Garbled, CR, LF, Line

LEMMA FailIsSound ==
  ASSUME NEW chunks, NEW total, NEW d \in Decoder(chunks), d.finished <=> d.state = "done"
  PROVE  Sound(Fail(d), chunks, total)
BY DEF Sound, Fail, Decoder

\* What there is to read of a header, if it is one, ends with its line.
LEMMA ReadLine ==
  ASSUME NEW chunks, NEW t \in Tokens(chunks), NEW text, text = <<Opening, t>>, ~Waits(text)
  PROVE  t.kind = "line" /\ t.size \in Int
<1>1. Len(text) = 2 /\ text[1] = Opening /\ text[2] = t /\ DOMAIN text = 1 .. 2
  OBVIOUS
<1>2. PICK i \in 1 .. 2 : text[i].kind = "line" \/ (i > 1 /\ <<text[i - 1], text[i]>> = <<CR, LF>>)
  BY <1>1 DEF Waits
<1>3. Opening.kind # "line" /\ Opening # CR
  BY DEF Opening, CR
<1>4. t.kind = "line"
  <2>1. CASE i = 1
    BY <1>1, <1>2, <1>3, <2>1
  <2>2. CASE i = 2
    BY <1>1, <1>2, <1>3, <2>2
  <2>3. QED
    BY <2>1, <2>2
<1>5. QED
  BY <1>4, TokenKinds

\* A header that has been read, and the last one.
Claimed(d, t) == [d EXCEPT !.buf = <<>>, !.pending = t.sig, !.remaining = t.size]
LastClaimed(d, t) == [Claimed(d, t) EXCEPT !.state = "done", !.finished = TRUE]

LEMMA HeaderCases ==
  ASSUME NEW d, NEW t, ~Waits(Append(d.buf, t))
  PROVE  /\ ~(Append(d.buf, t) = <<Opening, t>> /\ t.size >= 0) => ReadHeader(d, t) = Fail(d)
         /\ Append(d.buf, t) = <<Opening, t>> /\ t.size >= 0 /\ t.size > 0 =>
              ReadHeader(d, t) = [Claimed(d, t) EXCEPT !.state = "chunk"]
         /\ Append(d.buf, t) = <<Opening, t>> /\ t.size >= 0 /\ t.size = 0 =>
              ReadHeader(d, t) = IF Verified(LastClaimed(d, t), <<>>)
                                 THEN [LastClaimed(d, t) EXCEPT !.prev = t.sig]
                                 ELSE Fail(LastClaimed(d, t))
<1>1. ReadHeader(d, t) = IF Waits(Append(d.buf, t)) THEN [d EXCEPT !.buf = Append(d.buf, t)]
                         ELSE IF ~(Append(d.buf, t) = <<Opening, t>> /\ t.size >= 0) THEN Fail(d)
                         ELSE IF t.size > 0 THEN [Claimed(d, t) EXCEPT !.state = "chunk"]
                         ELSE IF Verified(LastClaimed(d, t), <<>>) THEN [LastClaimed(d, t) EXCEPT !.prev = t.sig]
                         ELSE Fail(LastClaimed(d, t))
  BY Zenon DEF ReadHeader, Claimed, LastClaimed
<1>2. t.size = 0 => ~(t.size > 0)
  OBVIOUS
<1>3. QED
  BY <1>1, <1>2, Zenon

LEMMA ReadHeaderIsSound ==
  ASSUME NEW chunks \in Chunks, NEW total, NEW d, NEW t \in Tokens(chunks),
         Sound(d, chunks, total), ~d.error, d.state = "header"
  PROVE  Sound(ReadHeader(d, t), chunks, total) /\ ReadHeader(d, t).out = d.out
<1> DEFINE p == Claimed(d, t)
           text == Append(d.buf, t)
           read == ~Waits(text) /\ text = <<Opening, t>> /\ t.size >= 0
<1>1. d \in Decoder(chunks) /\ ~d.finished
  BY DEF Sound
<1>2. PICK i \in Nat : HasRead(d, chunks, total, i)
  BY DEF Sound
<1>3. read => t.kind = "line" /\ t.size \in Int
  BY ReadLine
<1>4. CASE Waits(text)
  <2> DEFINE e == [d EXCEPT !.buf = text]
  <2>1. ReadHeader(d, t) = e
    BY <1>4, Zenon DEF ReadHeader
  <2>2. e \in Decoder(chunks) /\ e.state = "header" /\ e.out = d.out
    <3>1. d.buf \in Seq(Tokens(chunks))
      BY <1>1 DEF Decoder
    <3>2. Append(d.buf, t) \in Seq(Tokens(chunks))
      BY <3>1, AppendProperties
    <3>3. QED
      BY <1>1, <3>2 DEF Decoder
  <2>3. HasRead(e, chunks, total, i) /\ ~e.finished
    BY <1>1, <1>2 DEF HasRead, Decoder
  <2> HIDE DEF e
  <2>4. Sound(e, chunks, total)
    BY <2>2, <2>3 DEF Sound
  <2>5. QED
    BY <2>1, <2>2, <2>4
<1> HIDE DEF text, read
<1>5. CASE ~Waits(text) /\ ~read
  <2>1. ReadHeader(d, t) = Fail(d)
    BY <1>5, HeaderCases DEF text, read
  <2>2. Fail(d).out = d.out
    BY <1>1 DEF Fail, Decoder
  <2>3. Sound(Fail(d), chunks, total)
    BY <1>1, FailIsSound DEF Sound
  <2>4. QED
    BY <2>1, <2>2, <2>3
<1>6. ASSUME read
      PROVE  /\ p \in Decoder(chunks) /\ p.state = "header" /\ p.out = d.out
             /\ p.remaining = t.size /\ p.pending = t.sig /\ p.prev = d.prev
             /\ HasRead(p, chunks, total, i) /\ ~p.finished
             /\ \E k \in Nat : p.pending = Chain(chunks, k)
  <2>1. t.size \in Nat
    BY <1>3, <1>6 DEF read
  <2>2. PICK k \in Nat : t.sig = Chain(chunks, k)
    <3>1. PICK j \in 0 .. Len(chunks) + 1 : t.sig = Chain(chunks, j)
      BY <1>3, <1>6, TokenKinds
    <3>2. Len(chunks) \in Nat
      BY DEF Chunks
    <3>3. QED
      BY <3>1, <3>2
  <2>3. t.sig \in Signatures
    BY <2>2, ChainIs
  <2>4. p \in Decoder(chunks)
    <3>1. <<>> \in Seq(Tokens(chunks))
      OBVIOUS
    <3>2. QED
      BY <1>1, <2>1, <2>3, <3>1 DEF Decoder, Claimed
  <2>5. /\ p.state = "header" /\ p.out = d.out /\ p.remaining = t.size /\ p.pending = t.sig
        /\ ~p.finished /\ p.prev = d.prev /\ p.data = d.data
    BY <1>1 DEF Decoder, Claimed
  <2>6. HasRead(p, chunks, total, i)
    <3> HIDE DEF p
    <3>1. QED
      BY <1>1, <1>2, <2>5 DEF HasRead
  <2> HIDE DEF p
  <2>7. QED
    BY <2>2, <2>4, <2>5, <2>6
<1>7. CASE read /\ t.size > 0
  <2> DEFINE e == [p EXCEPT !.state = "chunk"]
  <2>1. ReadHeader(d, t) = e
    BY <1>7, HeaderCases DEF text, read
  <2> HIDE DEF p
  <2>2. /\ e \in Decoder(chunks) /\ e.state = "chunk" /\ e.out = d.out /\ e.remaining > 0
        /\ ~e.finished /\ \E k \in Nat : e.pending = Chain(chunks, k)
    BY <1>6, <1>7 DEF Decoder
  <2>3. HasRead(e, chunks, total, i)
    BY <1>6, <1>7 DEF HasRead, Decoder
  <2> HIDE DEF e
  <2>4. Sound(e, chunks, total)
    BY <2>2, <2>3 DEF Sound
  <2>5. QED
    BY <2>1, <2>2, <2>4
<1>8. CASE read /\ t.size = 0
  <2> DEFINE l == LastClaimed(d, t)
             e == [l EXCEPT !.prev = t.sig]
  <2>1. ReadHeader(d, t) = IF Verified(l, <<>>) THEN e ELSE Fail(l)
    BY <1>8, HeaderCases DEF text, read
  <2> HIDE DEF p
  <2>2. /\ l \in Decoder(chunks) /\ l.state = "done" /\ l.finished /\ l.out = d.out
        /\ l.pending = p.pending /\ l.prev = p.prev /\ l.data = p.data
    BY <1>6, <1>8 DEF Decoder, LastClaimed, p
  <2> HIDE DEF l
  <2>3. CASE Verified(l, <<>>)
    <3>1. PICK k \in Nat : p.pending = Chain(chunks, k)
      BY <1>6, <1>8
    <3>2. p.prev = Chain(chunks, i) /\ i \in 0 .. Len(chunks)
      BY <1>6, <1>8 DEF HasRead
    <3>3. <<>> = DataAt(chunks, i + 1)
      <4>1. Chain(chunks, k) = Append(Chain(chunks, i), <<>>)
        BY <2>3, <2>2, <3>1, <3>2 DEF Verified
      <4>2. <<>> \in Seq(ByteTokens)
        OBVIOUS
      <4>3. QED
        BY <4>1, <4>2, ChainOnly
    <3>4. i = Len(chunks)
      <4>1. i + 1 \in Nat /\ i + 1 # 0 /\ Len(chunks) \in Nat
        BY DEF Chunks
      <4>2. i + 1 > Len(chunks)
        BY <3>3, <4>1, DataAtIs
      <4>3. QED
        BY <3>2, <4>1, <4>2
    <3>5. /\ e \in Decoder(chunks) /\ e.state = "done" /\ e.finished /\ e.out = d.out
          /\ e.data = p.data
      <4>1. t.sig \in Signatures
        BY <1>6, <1>8 DEF Decoder
      <4>2. e \in Decoder(chunks)
        BY <2>2, <4>1 DEF Decoder
      <4>3. e.state = "done" /\ e.finished /\ e.out = d.out /\ e.data = p.data
        BY <2>2 DEF Decoder
      <4> HIDE DEF e
      <4>4. QED
        BY <4>2, <4>3
    <3>6. HasRead(e, chunks, total, i)
      <4>1. p.data = <<>> /\ total = Contents(SubSeq(chunks, 1, i)) \o p.data
        <5>1. HasRead(p, chunks, total, i) /\ p.state = "header"
          BY <1>6, <1>8
        <5> HIDE DEF e
        <5>2. QED
          BY <5>1 DEF HasRead
      <4> HIDE DEF e
      <4>2. QED
        BY <3>2, <3>4, <3>5, <4>1 DEF HasRead
    <3> HIDE DEF e
    <3>7. Sound(e, chunks, total)
      BY <3>5, <3>6 DEF Sound
    <3>8. QED
      BY <2>1, <2>3, <3>5, <3>7
  <2>4. CASE ~Verified(l, <<>>)
    <3>1. Fail(l).out = d.out
      BY <2>2 DEF Fail, Decoder
    <3>2. Sound(Fail(l), chunks, total)
      BY <2>2, FailIsSound
    <3>3. QED
      BY <2>1, <2>4, <3>1, <3>2
  <2>5. QED
    BY <2>3, <2>4
<1>9. read => t.size > 0 \/ t.size = 0
  BY <1>3 DEF read
<1>10. Waits(text) \/ (~Waits(text) /\ ~read) \/ read
  OBVIOUS
<1>11. QED
  BY <1>4, <1>5, <1>7, <1>8, <1>9, <1>10 DEF text

LEMMA AppendToOne ==
  ASSUME NEW T, NEW a \in T, NEW b \in T
  PROVE  Append(<<a>>, b) = <<a, b>>
<1> DEFINE x == Append(<<a>>, b)
           y == <<a, b>>
<1>1. x \in Seq(T) /\ Len(x) = 2 /\ x[1] = a /\ x[2] = b
  <2>1. <<a>> \in Seq(T) /\ Len(<<a>>) = 1 /\ <<a>>[1] = a
    OBVIOUS
  <2> DEFINE one == <<a>>
  <2> HIDE DEF one
  <2>2. one \in Seq(T) /\ Len(one) = 1 /\ one[1] = a
    BY <2>1 DEF one
  <2>3. Append(one, b) \in Seq(T) /\ Len(Append(one, b)) = 2 /\ Append(one, b)[1] = a /\ Append(one, b)[2] = b
    <3>1. Append(one, b) \in Seq(T) /\ Len(Append(one, b)) = Len(one) + 1
      BY <2>2, AppendProperties
    <3>2. Append(one, b)[Len(one) + 1] = b
      BY <2>2, AppendProperties
    <3>3. 1 \in 1 .. Len(one)
      BY <2>2
    <3>4. Append(one, b)[1] = one[1]
      <4>1. \A i \in 1 .. Len(one) : Append(one, b)[i] = one[i]
        BY <2>2, AppendProperties
      <4>2. QED
        BY <3>3, <4>1
    <3>5. Len(one) + 1 = 2
      BY <2>2
    <3>6. QED
      BY <2>2, <3>1, <3>2, <3>4, <3>5
  <2>4. QED
    BY <2>3 DEF one
<1>2. y \in Seq(T) /\ Len(y) = 2 /\ y[1] = a /\ y[2] = b
  OBVIOUS
<1> HIDE DEF x, y
<1>3. \A j \in 1 .. 2 : x[j] = y[j]
  BY <1>1, <1>2
<1>4. x = y
  BY <1>1, <1>2, <1>3, SeqEqual
<1>5. QED
  BY <1>4 DEF x, y

LEMMA AppendConcat ==
  ASSUME NEW T, NEW s \in Seq(T), NEW u \in Seq(T), NEW t \in T
  PROVE  s \o Append(u, t) = (s \o u) \o <<t>>
<1>1. <<t>> \in Seq(T) /\ Append(u, t) = u \o <<t>>
  BY AppendIsConcat
<1>2. QED
  BY <1>1, ConcatAssociative

LEMMA ReadChunkIsSound ==
  ASSUME NEW chunks \in Chunks, NEW T, T = Tokens(chunks), NEW before \in Seq(T), NEW d, NEW t \in T,
         Sound(d, chunks, before \o d.out), ~d.error, d.state = "chunk"
  PROVE  Sound(ReadChunk(d, t), chunks, before \o ReadChunk(d, t).out)
<1> DEFINE p == [d EXCEPT !.data = Append(@, t), !.out = Append(@, t), !.remaining = @ - 1]
           e == [p EXCEPT !.state = "trailer", !.prev = d.pending, !.data = <<>>]
           total == before \o d.out
<1>1. d \in Decoder(chunks) /\ ~d.finished /\ d.remaining > 0
  BY DEF Sound
<1>2. PICK i \in Nat : HasRead(d, chunks, total, i)
  BY DEF Sound
<1>3. PICK k \in Nat : d.pending = Chain(chunks, k)
  BY DEF Sound
<1>4. /\ d.data \in Seq(T) /\ d.out \in Seq(T) /\ d.remaining \in Nat
      /\ Append(d.data, t) \in Seq(T) /\ Append(d.data, t) # <<>> /\ Append(d.out, t) \in Seq(T)
  <2>1. d.data \in Seq(T) /\ d.out \in Seq(T) /\ d.remaining \in Nat
    BY <1>1 DEF Decoder
  <2>2. QED
    BY <2>1, AppendProperties
<1>5. p \in Decoder(chunks)
  <2>1. d.remaining - 1 \in Nat
    BY <1>1, <1>4
  <2>2. QED
    BY <1>1, <1>4, <2>1 DEF Decoder
<1>6. /\ p.state = "chunk" /\ p.pending = d.pending /\ p.prev = d.prev /\ ~p.finished /\ ~p.error
      /\ p.data = Append(d.data, t) /\ p.out = Append(d.out, t) /\ p.remaining = d.remaining - 1
  BY <1>1 DEF Decoder
<1>7. i \in 0 .. Len(chunks) /\ d.prev = Chain(chunks, i)
  BY <1>1, <1>2 DEF HasRead
<1> DEFINE c == Contents(SubSeq(chunks, 1, i))
<1>8. c \in Seq(T) /\ before \o p.out = c \o p.data
  <2>1. c \in Seq(ByteTokens)
    BY <1>7, ContentsNext
  <2>2. ByteTokens \subseteq T
    BY DEF Tokens
  <2> HIDE DEF c, p
  <2>3. c \in Seq(T)
    BY <2>1, <2>2, SeqMonotonic
  <2>4. before \o p.out = (before \o d.out) \o <<t>>
    <3>1. before \o Append(d.out, t) = (before \o d.out) \o <<t>>
      BY <1>4, AppendConcat
    <3>2. QED
      BY <1>6, <3>1
  <2>5. c \o p.data = (c \o d.data) \o <<t>>
    <3>1. c \o Append(d.data, t) = (c \o d.data) \o <<t>>
      BY <1>4, <2>3, AppendConcat, SMTT(20)
    <3>2. QED
      BY <1>6, <3>1
  <2>6. before \o d.out = c \o d.data
    BY <1>2 DEF HasRead, c
  <2>7. QED
    BY <2>3, <2>4, <2>5, <2>6
<1>9. ReadChunk(d, t) = IF p.remaining > 0 THEN p ELSE IF Verified(d, p.data) THEN e ELSE Fail(p)
  BY Zenon DEF ReadChunk
<1>10. p.remaining \in Nat
  BY <1>5 DEF Decoder
<1> HIDE DEF p
<1>11. CASE p.remaining > 0
  <2>1. ReadChunk(d, t) = p
    BY <1>9, <1>11
  <2>2. HasRead(p, chunks, before \o p.out, i)
    BY <1>6, <1>7, <1>8 DEF HasRead
  <2>3. Sound(p, chunks, before \o p.out)
    BY <1>3, <1>5, <1>6, <1>11, <2>2 DEF Sound
  <2>4. QED
    BY <2>1, <2>3
<1>12. CASE p.remaining = 0 /\ Verified(d, p.data)
  <2>1. ReadChunk(d, t) = e
    BY <1>9, <1>12
  <2>2. p.data = DataAt(chunks, i + 1)
    <3>1. Chain(chunks, k) = Append(Chain(chunks, i), p.data)
      BY <1>3, <1>7, <1>12 DEF Verified
    <3>2. p.data \in Seq(T)
      BY <1>4, <1>6
    <3>3. QED
      BY <3>1, <3>2, ChainOnly
  <2>3. d.pending = Chain(chunks, i + 1)
    <3>1. Chain(chunks, k) = Append(Chain(chunks, i), p.data)
      BY <1>3, <1>7, <1>12 DEF Verified
    <3>2. QED
      BY <1>3, <2>2, <3>1, ChainNext
  <2>4. i + 1 \in 0 .. Len(chunks) /\ i \in 0 .. Len(chunks) - 1
    <3>1. i + 1 \in Nat /\ i + 1 # 0 /\ Len(chunks) \in Nat
      BY DEF Chunks
    <3>2. ~(i + 1 > Len(chunks))
      BY <1>4, <1>6, <2>2, <3>1, DataAtIs
    <3>3. QED
      BY <3>1, <3>2
  <2>5. before \o p.out = Contents(SubSeq(chunks, 1, i + 1)) \o <<>>
    <3> DEFINE n == Contents(SubSeq(chunks, 1, i + 1))
    <3>1. n = c \o p.data
      BY <2>2, <2>4, ContentsNext
    <3>2. n \in Seq(ByteTokens)
      BY <2>4, ContentsNext
    <3> HIDE DEF n, c
    <3>3. n \o <<>> = n
      BY <3>2, ConcatEmptySeq
    <3>4. before \o p.out = n \o <<>>
      BY <1>8, <3>1, <3>3
    <3>5. QED
      BY <3>4 DEF n
  <2>6. e \in Decoder(chunks)
    <3>1. d.pending \in Signatures /\ <<>> \in Seq(Tokens(chunks))
      BY <1>1 DEF Decoder
    <3>2. QED
      BY <1>5, <3>1 DEF Decoder
  <2>7. /\ e.state = "trailer" /\ ~e.finished /\ e.data = <<>> /\ e.out = p.out
        /\ e.prev = d.pending
    BY <1>5, <1>6 DEF Decoder
  <2> HIDE DEF e
  <2>8. HasRead(e, chunks, before \o e.out, i + 1)
    BY <2>3, <2>4, <2>5, <2>7 DEF HasRead
  <2>9. Sound(e, chunks, before \o e.out)
    <3>1. i + 1 \in Nat
      OBVIOUS
    <3>2. QED
      BY <2>6, <2>7, <2>8, <3>1 DEF Sound
  <2>10. QED
    BY <2>1, <2>9
<1>13. CASE ~(p.remaining > 0) /\ ~Verified(d, p.data)
  <2>1. ReadChunk(d, t) = Fail(p)
    BY <1>9, <1>13
  <2>2. Sound(Fail(p), chunks, before \o Fail(p).out)
    BY <1>5, <1>6, FailIsSound
  <2>3. QED
    BY <2>1, <2>2
<1>14. QED
  BY <1>10, <1>11, <1>12, <1>13

LEMMA ReadTrailerIsSound ==
  ASSUME NEW chunks \in Chunks, NEW total, NEW d, NEW t \in Tokens(chunks),
         Sound(d, chunks, total), ~d.error, d.state = "trailer"
  PROVE  Sound(ReadTrailer(d, t), chunks, total) /\ ReadTrailer(d, t).out = d.out
<1>1. d \in Decoder(chunks) /\ ~d.finished
  BY DEF Sound
<1>2. PICK i \in Nat : HasRead(d, chunks, total, i)
  BY DEF Sound
<1>3. CASE d.buf = <<>>
  <2> DEFINE e == [d EXCEPT !.buf = <<t>>]
  <2>1. ReadTrailer(d, t) = e
    BY <1>3 DEF ReadTrailer
  <2>2. e \in Decoder(chunks)
    <3>1. <<t>> \in Seq(Tokens(chunks))
      OBVIOUS
    <3>2. QED
      BY <1>1, <3>1 DEF Decoder
  <2>3. /\ e.state = "trailer" /\ e.out = d.out /\ ~e.finished /\ e.data = d.data
        /\ e.prev = d.prev
    BY <1>1 DEF Decoder
  <2> HIDE DEF e
  <2>4. HasRead(e, chunks, total, i)
    BY <1>1, <1>2, <2>3 DEF HasRead
  <2>5. Sound(e, chunks, total)
    BY <2>2, <2>3, <2>4 DEF Sound
  <2>6. QED
    BY <2>1, <2>3, <2>5
<1>4. CASE d.buf # <<>> /\ <<d.buf[1], t>> = <<CR, LF>>
  <2> DEFINE e == [d EXCEPT !.state = "header", !.buf = <<>>]
  <2>1. ReadTrailer(d, t) = e
    BY <1>4 DEF ReadTrailer
  <2>2. e \in Decoder(chunks)
    <3>1. <<>> \in Seq(Tokens(chunks))
      OBVIOUS
    <3>2. QED
      BY <1>1, <3>1 DEF Decoder
  <2>3. /\ e.state = "header" /\ e.out = d.out /\ ~e.finished /\ e.data = d.data
        /\ e.prev = d.prev
    BY <1>1 DEF Decoder
  <2>4. d.data = <<>>
    BY <1>2 DEF HasRead
  <2> HIDE DEF e
  <2>5. HasRead(e, chunks, total, i)
    BY <1>1, <1>2, <2>3, <2>4 DEF HasRead
  <2>6. Sound(e, chunks, total)
    BY <2>2, <2>3, <2>5 DEF Sound
  <2>7. QED
    BY <2>1, <2>3, <2>6
<1>5. CASE d.buf # <<>> /\ <<d.buf[1], t>> # <<CR, LF>>
  <2>1. ReadTrailer(d, t) = Fail(d)
    BY <1>5 DEF ReadTrailer
  <2>2. Fail(d).out = d.out
    BY <1>1 DEF Fail, Decoder
  <2>3. Sound(Fail(d), chunks, total)
    BY <1>1, FailIsSound DEF Sound
  <2>4. QED
    BY <2>1, <2>2, <2>3
<1>6. QED
  BY <1>3, <1>4, <1>5

\* The decoder stays sound with every token.
LEMMA DecodeIsSound ==
  ASSUME NEW chunks \in Chunks, NEW before \in Seq(Tokens(chunks)), NEW d,
         NEW t \in Tokens(chunks), Sound(d, chunks, before \o d.out)
  PROVE  Sound(Decode(d, t), chunks, before \o Decode(d, t).out)
<1>1. CASE d.error \/ d.finished
  <2>1. Decode(d, t) = d
    BY <1>1 DEF Decode
  <2>2. QED
    BY <2>1
<1>2. CASE ~d.error /\ ~d.finished /\ d.state = "header"
  <2>1. Decode(d, t) = ReadHeader(d, t)
    BY <1>2 DEF Decode
  <2>2. /\ Sound(ReadHeader(d, t), chunks, before \o d.out)
        /\ ReadHeader(d, t).out = d.out
    BY <1>2, ReadHeaderIsSound
  <2>3. QED
    BY <2>1, <2>2
<1>3. CASE ~d.error /\ ~d.finished /\ d.state = "chunk"
  <2>1. Decode(d, t) = ReadChunk(d, t)
    BY <1>3 DEF Decode
  <2>2. Sound(ReadChunk(d, t), chunks, before \o ReadChunk(d, t).out)
    BY <1>3, ReadChunkIsSound
  <2>3. QED
    BY <2>1, <2>2
<1>4. CASE ~d.error /\ ~d.finished /\ d.state = "trailer"
  <2>1. Decode(d, t) = ReadTrailer(d, t)
    BY <1>4 DEF Decode
  <2>2. /\ Sound(ReadTrailer(d, t), chunks, before \o d.out)
        /\ ReadTrailer(d, t).out = d.out
    BY <1>4, ReadTrailerIsSound
  <2>3. QED
    BY <2>1, <2>2
<1>5. d.state \in {"header", "chunk", "trailer", "done"} /\ (d.state = "done" => d.finished)
  BY DEF Sound, Decoder
<1>6. QED
  BY <1>1, <1>2, <1>3, <1>4, <1>5

(***************************************************************************)
(* Frames on the wire.                                                     *)
(***************************************************************************)

LEMMA KindsDiffer ==
  /\ Opening.kind = "open" /\ Garbled.kind = "garbled" /\ CR.kind = "cr" /\ LF.kind = "lf"
  /\ \A t \in ByteTokens : t.kind = "byte"
  /\ \A size, sig : Line(size, sig).kind = "line"
BY DEF Opening, Garbled, CR, LF, Line, ByteTokens, Token

LEMMA FrameIs ==
  ASSUME NEW chunks \in Chunks, NEW i \in 1 .. Len(chunks) + 1, NEW n, n = Len(DataAt(chunks, i))
  PROVE  /\ n \in Nat
         /\ Frame(chunks, i) \in Seq(Tokens(chunks)) /\ Len(Frame(chunks, i)) = n + 4
         /\ Frame(chunks, i)[1] = Opening /\ Frame(chunks, i)[2] = Line(n, Chain(chunks, i))
         /\ \A j \in 1 .. n : Frame(chunks, i)[j + 2] = DataAt(chunks, i)[j]
         /\ Frame(chunks, i)[n + 3] = CR /\ Frame(chunks, i)[n + 4] = LF
<1> DEFINE data == DataAt(chunks, i)
           line == Line(n, Chain(chunks, i))
           T == Tokens(chunks)
<1>1. i \in Nat /\ i # 0 /\ Len(chunks) \in Nat
  BY DEF Chunks
<1>2. data \in Seq(ByteTokens)
  BY <1>1, DataAtIs
<1>3. n = IF i > Len(chunks) THEN 0 ELSE Len(chunks[i])
  <2>1. CASE i > Len(chunks)
    <3>1. data = <<>>
      BY <1>1, <2>1, DataAtIs
    <3>2. QED
      BY <2>1, <3>1
  <2>2. CASE ~(i > Len(chunks))
    BY <1>1, <2>2, DataAtIs
  <2>3. QED
    BY <2>1, <2>2
<1>4. Frame(chunks, i) = <<Opening, line>> \o data \o <<CR, LF>>
  BY <1>3 DEF Frame, DataAt
<1>5. n \in Nat /\ n = Len(data)
  BY <1>2
<1>6. line \in T /\ Opening \in T /\ CR \in T /\ LF \in T
  BY <1>1, <1>5 DEF Tokens
<1>7. data \in Seq(T)
  <2>1. ByteTokens \subseteq T
    BY DEF Tokens
  <2> HIDE DEF data, T
  <2>2. QED
    BY <1>2, <2>1, SeqMonotonic
<1> DEFINE f == <<Opening, line>> \o data \o <<CR, LF>>
<1> HIDE DEF data, line, T
<1>8. <<Opening, line>> \in Seq(T) /\ <<CR, LF>> \in Seq(T)
  BY <1>6
<1>9. /\ f \in Seq(T) /\ Len(f) = n + 4 /\ f[1] = Opening /\ f[2] = line
      /\ \A j \in 1 .. n : f[j + 2] = data[j]
      /\ f[n + 3] = CR /\ f[n + 4] = LF
  BY <1>5, <1>7, <1>8
<1>10. QED
  BY <1>4, <1>5, <1>9 DEF data, line, T

LEMMA FramedTyped ==
  ASSUME NEW chunks \in Chunks, NEW order \in Seq(1 .. Len(chunks) + 1)
  PROVE  Framed(chunks, order) \in Seq(Tokens(chunks))
<1> DEFINE T == Tokens(chunks)
           frames == [i \in DOMAIN order |-> Frame(chunks, order[i])]
<1>1. Len(order) \in Nat /\ DOMAIN order = 1 .. Len(order)
  OBVIOUS
<1>2. \A i \in 1 .. Len(order) : Frame(chunks, order[i]) \in Seq(T)
  <2>1. \A i \in 1 .. Len(order) : order[i] \in 1 .. Len(chunks) + 1
    OBVIOUS
  <2> HIDE DEF T
  <2>2. \A j \in 1 .. Len(chunks) + 1 : Frame(chunks, j) \in Seq(T)
    BY FrameIs DEF T
  <2>3. QED
    BY <2>1, <2>2
<1>3. frames \in Seq(Seq(T)) /\ Len(frames) = Len(order)
  BY <1>1, <1>2
<1>4. Framed(chunks, order) = FlattenSeq(frames)
  BY Zenon DEF Framed
<1> HIDE DEF T, frames
<1>5. FlattenSeq(SubSeq(frames, 1, Len(frames))) \in Seq(T)
  BY <1>1, <1>3, FlattenType
<1>6. QED
  BY <1>3, <1>4, <1>5, SubSeqFull DEF T

\* A harmed body is made of tokens.
LEMMA HarmedIs ==
  ASSUME NEW chunks \in Chunks, NEW T, T = Tokens(chunks), NEW body \in Seq(T),
         NEW w \in Harmed(body, chunks)
  PROVE  w \in Seq(T)
<1>1. Len(body) \in Nat /\ DOMAIN body = 1 .. Len(body) /\ Len(chunks) \in Nat
  BY DEF Chunks
<1>2. \A i \in 1 .. Len(body), u \in T : [body EXCEPT ![i] = u] \in Seq(T)
  OBVIOUS
<1>3. Garbled \in T /\ CR \in T /\ LF \in T /\ \A b \in Byte : Token(b) \in T
  BY DEF Tokens, ByteTokens
<1>4. \A size \in Int, i \in 0 .. Len(chunks) + 1 : Line(size, Chain(chunks, i)) \in T
  BY DEF Tokens
<1>5. ASSUME NEW j \in At(body, {"line"})
      PROVE  \E size \in Int, k \in 0 .. Len(chunks) + 1 : body[j] = Line(size, Chain(chunks, k))
  <2>1. body[j] \in T /\ body[j].kind = "line"
    BY <1>1 DEF At
  <2>2. QED
    BY <2>1, KindsDiffer DEF Tokens
<1>6. CASE w \in {SubSeq(body, 1, n) : n \in 0 .. Len(body)}
  BY <1>1, <1>6
<1>7. CASE w \in {RemoveAt(body, i) : i \in At(body, {"byte", "cr", "lf"})}
  <2>1. PICK i \in 1 .. Len(body) : w = RemoveAt(body, i)
    BY <1>1, <1>7 DEF At
  <2>2. w = SubSeq(body, 1, i - 1) \o SubSeq(body, i + 1, Len(body))
    BY <2>1, Zenon DEF RemoveAt
  <2>3. SubSeq(body, 1, i - 1) \in Seq(T) /\ SubSeq(body, i + 1, Len(body)) \in Seq(T)
    BY <1>1
  <2>4. QED
    BY <2>2, <2>3, ConcatProperties
<1>8. CASE w \in {[body EXCEPT ![p[1]] = Token(p[2])] : p \in At(body, {"byte"}) \X Byte}
  <2>1. PICK p \in At(body, {"byte"}) \X Byte : w = [body EXCEPT ![p[1]] = Token(p[2])]
    BY <1>8
  <2>2. p[1] \in 1 .. Len(body) /\ Token(p[2]) \in T
    BY <1>1, <1>3 DEF At
  <2>3. QED
    BY <1>2, <2>1, <2>2
<1>9. CASE w \in {[body EXCEPT ![p[1]].size = p[2]] : p \in At(body, {"line"}) \X (Claims \cup {-1})}
  <2>1. PICK p \in At(body, {"line"}) \X (Claims \cup {-1}) : w = [body EXCEPT ![p[1]].size = p[2]]
    BY <1>9
  <2>2. p[1] \in 1 .. Len(body) /\ p[1] \in At(body, {"line"}) /\ p[2] \in Int
    <3>1. Claims \cup {-1} \subseteq Int
      BY ClaimsAssumption
    <3>2. p[1] \in At(body, {"line"}) /\ p[2] \in Claims \cup {-1}
      OBVIOUS
    <3>3. p[2] \in Int
      BY <3>1, <3>2
    <3>4. QED
      BY <1>1, <3>2, <3>3 DEF At
  <2>3. PICK size \in Int, k \in 0 .. Len(chunks) + 1 : body[p[1]] = Line(size, Chain(chunks, k))
    BY <1>5, <2>2
  <2>4. [body[p[1]] EXCEPT !.size = p[2]] = Line(p[2], Chain(chunks, k))
    BY <2>3 DEF Line
  <2>5. w = [body EXCEPT ![p[1]] = Line(p[2], Chain(chunks, k))]
    BY <2>1, <2>4
  <2>6. QED
    BY <1>2, <1>4, <2>2, <2>5
<1>10. CASE w \in {[body EXCEPT ![p[1]].sig = p[2]] : p \in At(body, {"line"}) \X SignaturesOf(chunks)}
  <2>1. PICK p \in At(body, {"line"}) \X SignaturesOf(chunks) : w = [body EXCEPT ![p[1]].sig = p[2]]
    BY <1>10
  <2>2. p[1] \in 1 .. Len(body) /\ p[1] \in At(body, {"line"})
    BY <1>1 DEF At
  <2>3. PICK i \in 0 .. Len(chunks) + 1 : p[2] = Chain(chunks, i)
    BY DEF SignaturesOf
  <2>4. PICK size \in Int, k \in 0 .. Len(chunks) + 1 : body[p[1]] = Line(size, Chain(chunks, k))
    BY <1>5, <2>2
  <2>5. [body[p[1]] EXCEPT !.sig = p[2]] = Line(size, Chain(chunks, i))
    BY <2>3, <2>4 DEF Line
  <2>6. w = [body EXCEPT ![p[1]] = Line(size, Chain(chunks, i))]
    BY <2>1, <2>5
  <2>7. QED
    BY <1>2, <1>4, <2>2, <2>6
<1>11. CASE w \in {[body EXCEPT ![i] = Garbled] : i \in At(body, {"open"})}
  BY <1>1, <1>2, <1>3, <1>11 DEF At
<1>12. CASE w \in {[body EXCEPT ![i] = CR, ![i + 1] = LF] : i \in At(body, {"open"})}
  <2>1. PICK i \in 1 .. Len(body) : w = [body EXCEPT ![i] = CR, ![i + 1] = LF]
    BY <1>1, <1>12 DEF At
  <2> DEFINE half == [body EXCEPT ![i] = CR]
  <2>2. half \in Seq(T) /\ Len(half) = Len(body)
    BY <1>1, <1>3
  <2>3. w = [half EXCEPT ![i + 1] = LF]
    BY <2>1
  <2> HIDE DEF half
  <2>4. \A j \in Nat : [half EXCEPT ![j] = LF] \in Seq(T)
    <3>1. half \in [1 .. Len(body) -> T]
      BY <1>1, <2>2
    <3>2. \A j \in Nat : [half EXCEPT ![j] = LF] \in [1 .. Len(body) -> T]
      BY <1>3, <3>1
    <3>3. QED
      BY <1>1, <3>2
  <2>5. i + 1 \in Nat
    BY <1>1
  <2>6. QED
    BY <2>3, <2>4, <2>5
<1>13. QED
  BY <1>6, <1>7, <1>8, <1>9, <1>10, <1>11, <1>12 DEF Harmed

(***************************************************************************)
(* What the decoder holds back.                                            *)
(***************************************************************************)

\* Nothing of a chunk, and half a CRLF at the most.
Tidy(d) == /\ d.state = "chunk" => d.buf = <<>>
           /\ d.state = "trailer" => Len(d.buf) <= 1

LEMMA DecodeIsTidy ==
  ASSUME NEW chunks \in Chunks, NEW d \in Decoder(chunks), NEW t \in Tokens(chunks), Tidy(d),
         d.state = "done" => d.finished
  PROVE  Tidy(Decode(d, t))
<1>1. CASE d.error \/ d.finished
  <2>1. Decode(d, t) = d
    BY <1>1, Zenon DEF Decode
  <2>2. QED
    BY <2>1
<1>2. CASE ~d.error /\ ~d.finished /\ d.state = "header"
  <2> DEFINE p == Claimed(d, t)
             l == LastClaimed(d, t)
             text == Append(d.buf, t)
             read == ~Waits(text) /\ text = <<Opening, t>> /\ t.size >= 0
  <2>1. Decode(d, t) = ReadHeader(d, t)
    BY <1>2, Zenon DEF Decode
  <2>2. CASE Waits(text)
    <3>1. ReadHeader(d, t) = [d EXCEPT !.buf = text]
      BY <2>2, Zenon DEF ReadHeader
    <3>2. [d EXCEPT !.buf = text].state = "header"
      BY <1>2 DEF Decoder
    <3>3. QED
      BY <2>1, <3>1, <3>2 DEF Tidy
  <2>3. CASE ~Waits(text) /\ ~read
    <3>1. ReadHeader(d, t) = Fail(d)
      <4> HIDE DEF text
      <4>1. QED
        BY <2>3, HeaderCases DEF text
    <3>2. Fail(d).state = "header"
      BY <1>2 DEF Fail, Decoder
    <3>3. QED
      BY <2>1, <3>1, <3>2 DEF Tidy
  <2>4. CASE read /\ t.size > 0
    <3>1. ReadHeader(d, t) = [p EXCEPT !.state = "chunk"]
      <4> HIDE DEF text
      <4>1. QED
        BY <2>4, HeaderCases DEF text
    <3>2. [p EXCEPT !.state = "chunk"].state = "chunk" /\ [p EXCEPT !.state = "chunk"].buf = <<>>
      BY DEF Decoder, Claimed
    <3>3. QED
      BY <2>1, <3>1, <3>2 DEF Tidy
  <2>5. CASE read /\ t.size = 0
    <3>1. ReadHeader(d, t) = IF Verified(l, <<>>) THEN [l EXCEPT !.prev = t.sig] ELSE Fail(l)
      <4> HIDE DEF text
      <4>1. QED
        BY <2>5, HeaderCases DEF text
    <3>2. [l EXCEPT !.prev = t.sig].state = "done" /\ Fail(l).state = "done"
      BY DEF Decoder, Fail, Claimed, LastClaimed
    <3>3. QED
      BY <2>1, <3>1, <3>2 DEF Tidy
  <2>6. read => t.size > 0 \/ t.size = 0
    BY ReadLine
  <2> HIDE DEF read
  <2>7. QED
    BY <2>2, <2>3, <2>4, <2>5, <2>6 DEF read
<1>3. CASE ~d.error /\ ~d.finished /\ d.state = "chunk"
  <2> DEFINE p == [d EXCEPT !.data = Append(@, t), !.out = Append(@, t), !.remaining = @ - 1]
             e == [p EXCEPT !.state = "trailer", !.prev = d.pending, !.data = <<>>]
  <2>1. Decode(d, t) = ReadChunk(d, t)
    BY <1>3, Zenon DEF Decode
  <2>2. ReadChunk(d, t) \in {p, e, Fail(p)}
    BY DEF ReadChunk
  <2>3. p.buf = <<>> /\ e.buf = <<>> /\ Fail(p).buf = <<>> /\ Len(<<>>) <= 1
    BY <1>3 DEF Tidy, Decoder, Fail
  <2>4. QED
    BY <2>1, <2>2, <2>3 DEF Tidy
<1>4. CASE ~d.error /\ ~d.finished /\ d.state = "trailer"
  <2>1. Decode(d, t) = ReadTrailer(d, t)
    BY <1>4, Zenon DEF Decode
  <2>2. ReadTrailer(d, t) \in {[d EXCEPT !.buf = <<t>>], [d EXCEPT !.state = "header", !.buf = <<>>], Fail(d)}
    BY DEF ReadTrailer
  <2>3. /\ [d EXCEPT !.buf = <<t>>].state = "trailer" /\ Len([d EXCEPT !.buf = <<t>>].buf) <= 1
        /\ [d EXCEPT !.state = "header", !.buf = <<>>].state = "header"
        /\ Fail(d).state = "trailer" /\ Len(Fail(d).buf) <= 1
    BY <1>4 DEF Tidy, Decoder, Fail
  <2>4. QED
    BY <2>1, <2>2, <2>3 DEF Tidy
<1>5. QED
  BY <1>1, <1>2, <1>3, <1>4 DEF Decoder

(***************************************************************************)
(* A body that arrives as it was sent.                                     *)
(***************************************************************************)
Frames(chunks) == [i \in 1 .. Len(chunks) + 1 |-> Frame(chunks, i)]

\* The number of tokens in the first i frames.
Before(chunks, i) == Len(FlattenSeq(SubSeq(Frames(chunks), 1, i)))

LEMMA FramesAre ==
  ASSUME NEW chunks \in Chunks, NEW w, w = FlattenSeq(Frames(chunks))
  PROVE  /\ w = Framed(chunks, [i \in 1 .. Len(chunks) + 1 |-> i])
         /\ w \in Seq(Tokens(chunks))
         /\ Before(chunks, 0) = 0 /\ Before(chunks, Len(chunks) + 1) = Len(w)
         /\ \A i \in 0 .. Len(chunks) :
              /\ Before(chunks, i) \in Nat
              /\ Before(chunks, i + 1) = Before(chunks, i) + Len(DataAt(chunks, i + 1)) + 4
              /\ Before(chunks, i + 1) <= Len(w)
              /\ \A k \in 1 .. Len(DataAt(chunks, i + 1)) + 4 :
                   w[Before(chunks, i) + k] = Frame(chunks, i + 1)[k]
<1> DEFINE T == Tokens(chunks)
           f == Frames(chunks)
<1>1. PICK l \in Nat : l = Len(chunks) + 1
  BY DEF Chunks
<1>2. \A i \in 1 .. l : /\ Frame(chunks, i) \in Seq(T)
                        /\ Len(Frame(chunks, i)) = Len(DataAt(chunks, i)) + 4
                        /\ Len(DataAt(chunks, i)) \in Nat
  BY <1>1, FrameIs
<1>3. f = [i \in 1 .. l |-> Frame(chunks, i)]
  BY <1>1 DEF Frames
<1>4. f \in Seq(Seq(T)) /\ Len(f) = l /\ \A i \in 1 .. l : f[i] = Frame(chunks, i)
  BY <1>2, <1>3
<1>5. w = Framed(chunks, [i \in 1 .. Len(chunks) + 1 |-> i])
  <2> DEFINE order == [i \in 1 .. Len(chunks) + 1 |-> i]
  <2>1. [i \in DOMAIN order |-> Frame(chunks, order[i])] = f
    BY DEF Frames
  <2> HIDE DEF order, f
  <2>2. Framed(chunks, order) = FlattenSeq(f)
    BY <2>1, Zenon DEF Framed
  <2>3. QED
    BY <2>2 DEF order, f
<1> HIDE DEF T, f
<1>6. w = FlattenSeq(f)
  BY DEF f
<1>7. w \in Seq(T)
  <2>1. SubSeq(f, 1, l) = f /\ l \in 0 .. Len(f)
    BY <1>1, <1>4, SubSeqFull
  <2>2. FlattenSeq(SubSeq(f, 1, l)) \in Seq(T)
    BY <1>4, <2>1, FlattenType
  <2>3. QED
    BY <1>6, <2>1, <2>2
<1>8. Before(chunks, 0) = 0
  <2>1. SubSeq(f, 1, 0) = <<>>
    BY <1>4
  <2>2. FlattenSeq(SubSeq(f, 1, 0)) = <<>>
    BY <2>1, FlattenEmpty
  <2>3. Len(FlattenSeq(SubSeq(f, 1, 0))) = 0
    BY <2>2
  <2>4. QED
    BY <2>3 DEF Before, f
<1>9. Before(chunks, Len(chunks) + 1) = Len(w)
  <2>1. SubSeq(f, 1, l) = f
    BY <1>4, SubSeqFull
  <2>2. Len(FlattenSeq(SubSeq(f, 1, l))) = Len(w)
    BY <1>6, <2>1
  <2>3. QED
    BY <1>1, <2>2 DEF Before, f
<1>10. ASSUME NEW i \in 0 .. Len(chunks)
       PROVE  /\ Before(chunks, i) \in Nat
              /\ Before(chunks, i + 1) = Before(chunks, i) + Len(DataAt(chunks, i + 1)) + 4
              /\ Before(chunks, i + 1) <= Len(w)
              /\ \A k \in 1 .. Len(DataAt(chunks, i + 1)) + 4 :
                   w[Before(chunks, i) + k] = Frame(chunks, i + 1)[k]
  <2> DEFINE b == Len(FlattenSeq(SubSeq(f, 1, i)))
             c == Len(FlattenSeq(SubSeq(f, 1, i + 1)))
             s == f[i + 1]
  <2>1. i \in Nat /\ i < Len(f) /\ i + 1 \in 1 .. l
    BY <1>1, <1>4
  <2>2. /\ b \in Nat /\ c = b + Len(s) /\ b + Len(s) <= Len(w)
        /\ \A k \in 1 .. Len(s) : w[b + k] = s[k]
    <3> DEFINE v == FlattenSeq(f)
    <3>1. /\ b \in Nat /\ c = b + Len(s) /\ b + Len(s) <= Len(v)
          /\ \A k \in 1 .. Len(s) : v[b + k] = s[k]
      BY <1>4, <2>1, FlattenAt
    <3>2. v = w
      BY <1>6
    <3> HIDE DEF b, c, s, v
    <3>3. QED
      BY <3>1, <3>2
  <2>3. s = Frame(chunks, i + 1) /\ Len(s) = Len(DataAt(chunks, i + 1)) + 4
        /\ Len(DataAt(chunks, i + 1)) \in Nat
    BY <1>2, <1>4, <2>1
  <2>4. b = Before(chunks, i) /\ c = Before(chunks, i + 1)
    BY DEF Before, f
  <2> HIDE DEF b, c, s
  <2>5. c = b + Len(DataAt(chunks, i + 1)) + 4
    BY <2>2, <2>3, SMTT(20)
  <2>6. QED
    BY <2>2, <2>3, <2>4, <2>5
<1>11. QED
  BY <1>5, <1>7, <1>8, <1>9, <1>10 DEF T

LEMMA FrameAt ==
  ASSUME NEW chunks \in Chunks, NEW w, w = FlattenSeq(Frames(chunks)),
         NEW i \in 0 .. Len(chunks), NEW k \in 1 .. Len(DataAt(chunks, i + 1)) + 4
  PROVE  w[Before(chunks, i) + k] = Frame(chunks, i + 1)[k]
BY FramesAre, Zenon

\* After i chunks and k tokens of the next frame.
IsAt(d, chunks, i, k) ==
  LET n == Len(DataAt(chunks, i + 1))
  IN  \/ /\ k \in {0, 1} /\ d.state = "header" /\ d.buf = IF k = 0 THEN <<>> ELSE <<Opening>>
         /\ d.prev = Chain(chunks, i) /\ d.data = <<>>
      \/ /\ k \in 2 .. n + 1 /\ d.state = "chunk" /\ d.buf = <<>> /\ d.remaining = n + 2 - k
         /\ d.prev = Chain(chunks, i) /\ d.pending = Chain(chunks, i + 1)
         /\ d.data = SubSeq(DataAt(chunks, i + 1), 1, k - 2)
      \/ /\ k \in n + 2 .. n + 3 /\ d.state = "trailer" /\ d.buf = IF k = n + 2 THEN <<>> ELSE <<CR>>
         /\ d.prev = Chain(chunks, i + 1) /\ d.data = <<>> /\ i < Len(chunks)

\* What holds of a decoder that has read the first p tokens of the frames.
InStep(d, chunks, p) ==
  /\ ~d.error
  /\ d.finished \/ \E i \in 0 .. Len(chunks), k \in Nat :
                     IsAt(d, chunks, i, k) /\ p = Before(chunks, i) + k

LEMMA ReadHeaderInStep ==
  ASSUME NEW chunks \in Chunks, NEW i \in 0 .. Len(chunks), NEW k \in {0, 1},
         NEW d \in Decoder(chunks), ~d.error, d.state = "header",
         d.buf = IF k = 0 THEN <<>> ELSE <<Opening>>,
         d.prev = Chain(chunks, i), d.data = <<>>,
         NEW e, e = ReadHeader(d, Frame(chunks, i + 1)[k + 1])
  PROVE  ~e.error /\ (e.finished \/ IsAt(e, chunks, i, k + 1))
<1> DEFINE t == Frame(chunks, i + 1)[k + 1]
           n == Len(DataAt(chunks, i + 1))
           p == Claimed(d, t)
           last == LastClaimed(d, t)
           text == Append(d.buf, t)
           read == ~Waits(text) /\ text = <<Opening, t>> /\ t.size >= 0
<1>1. i + 1 \in 1 .. Len(chunks) + 1 /\ i \in Nat
  BY DEF Chunks
<1>2. /\ n \in Nat /\ Frame(chunks, i + 1)[1] = Opening
      /\ Frame(chunks, i + 1)[2] = Line(n, Chain(chunks, i + 1))
  BY <1>1, FrameIs
<1>3. CASE k = 0
  <2> DEFINE q == [d EXCEPT !.buf = text]
  <2>1. t = Opening
    BY <1>2, <1>3
  <2>2. text = <<Opening>>
    BY <1>3, <2>1
  <2>3. Waits(text)
    <3>1. DOMAIN text = 1 .. 1 /\ Len(text) = 1 /\ text[1] = Opening
      <4>1. DOMAIN <<Opening>> = 1 .. 1 /\ Len(<<Opening>>) = 1 /\ <<Opening>>[1] = Opening
        OBVIOUS
      <4> HIDE DEF text
      <4>2. QED
        BY <2>2, <4>1
    <3> HIDE DEF text
    <3>2. QED
      BY <3>1, KindsDiffer DEF Waits
  <2>4. e = q
    BY <2>3, Zenon DEF ReadHeader
  <2>5. /\ ~q.error /\ q.state = "header" /\ q.buf = <<Opening>> /\ q.prev = d.prev
        /\ q.data = <<>>
    BY <2>2 DEF Decoder
  <2> HIDE DEF q
  <2>6. QED
    BY <1>3, <2>4, <2>5 DEF IsAt
<1>4. CASE k = 1
  <2>1. t = Line(n, Chain(chunks, i + 1))
    BY <1>2, <1>4
  <2>2. t.kind = "line" /\ t.size = n /\ t.sig = Chain(chunks, i + 1)
    BY <2>1 DEF Line
  <2>3. /\ ~p.error /\ p.buf = <<>> /\ p.pending = Chain(chunks, i + 1) /\ p.remaining = n
        /\ p.prev = Chain(chunks, i) /\ p.data = <<>>
    BY <2>2 DEF Decoder, Claimed
  <2>4. read
    <3>1. text = <<Opening, t>>
      <4>1. d.buf = <<Opening>>
        BY <1>4
      <4>2. Append(<<Opening>>, t) = <<Opening, t>>
        <5> DEFINE T == {Opening, t}
        <5>1. Opening \in T /\ t \in T
          OBVIOUS
        <5> HIDE DEF t, T
        <5>2. QED
          BY <5>1, AppendToOne
      <4>3. QED
        BY <4>1, <4>2
    <3>2. /\ Len(text) = 2 /\ DOMAIN text = 1 .. 2 /\ text[1] = Opening /\ text[2] = t
          /\ 2 \in DOMAIN text
      <4> DEFINE pair == <<Opening, t>>
      <4> HIDE DEF t, text
      <4>1. /\ Len(pair) = 2 /\ DOMAIN pair = 1 .. 2 /\ pair[1] = Opening /\ pair[2] = t
            /\ 2 \in DOMAIN pair
        OBVIOUS
      <4> HIDE DEF pair
      <4>2. text = pair
        BY <3>1 DEF pair
      <4>3. QED
        BY <4>1, <4>2
    <3>3. Opening # Garbled /\ Opening # CR
      BY KindsDiffer
    <3> HIDE DEF text, t
    <3>4. <<text[1], text[2]>> # <<CR, LF>>
      BY <3>2, <3>3
    <3>5. ~Waits(text)
      BY <2>2, <3>2, <3>3, <3>4 DEF Waits
    <3>6. QED
      BY <1>2, <2>2, <3>1, <3>5
  <2>5. CASE n = 0
    <3> DEFINE q == [last EXCEPT !.prev = t.sig]
    <3>1. DataAt(chunks, i + 1) = <<>>
      <4>1. i + 1 \in Nat /\ i + 1 # 0
        BY <1>1
      <4>2. DataAt(chunks, i + 1) \in Seq(ByteTokens)
        BY <4>1, DataAtIs
      <4>3. QED
        BY <2>5, <4>2, EmptySeq
    <3>2. Chain(chunks, i + 1) = Append(Chain(chunks, i), <<>>)
      BY <1>1, <3>1, ChainNext
    <3>3. e = IF Verified(last, <<>>) THEN q ELSE Fail(last)
      <4>1. read /\ t.size = 0
        BY <2>2, <2>5, <2>4
      <4> HIDE DEF text, t
      <4>2. ReadHeader(d, t) = IF Verified(last, <<>>) THEN q ELSE Fail(last)
        BY <4>1, HeaderCases DEF text
      <4>3. QED
        BY <4>2 DEF t
    <3>4. ~q.error /\ q.finished /\ last.pending = p.pending /\ last.prev = p.prev
      BY DEF Decoder, Claimed, LastClaimed
    <3> HIDE DEF p, q, last
    <3>5. Verified(last, <<>>)
      BY <2>3, <3>2, <3>4 DEF Verified
    <3>6. QED
      BY <3>3, <3>4, <3>5
  <2>6. CASE n > 0
    <3> DEFINE q == [p EXCEPT !.state = "chunk"]
    <3>1. e = q
      <4>1. read /\ t.size > 0
        BY <2>2, <2>6, <2>4
      <4> HIDE DEF text, t
      <4>2. ReadHeader(d, t) = q
        BY <4>1, HeaderCases DEF text
      <4>3. QED
        BY <4>2 DEF t
    <3>2. /\ ~q.error /\ q.state = "chunk" /\ q.buf = <<>> /\ q.remaining = n
          /\ q.prev = Chain(chunks, i) /\ q.pending = Chain(chunks, i + 1) /\ q.data = <<>>
      BY <2>3 DEF Decoder
    <3>3. 2 \in 2 .. n + 1 /\ n = n + 2 - 2
      BY <1>2, <2>6
    <3>4. SubSeq(DataAt(chunks, i + 1), 1, 2 - 2) = <<>>
      <4>1. i + 1 \in Nat /\ i + 1 # 0
        BY <1>1
      <4>2. DataAt(chunks, i + 1) \in Seq(ByteTokens)
        BY <4>1, DataAtIs
      <4>3. QED
        BY <4>2
    <3>5. k + 1 = 2
      BY <1>4
    <3> HIDE DEF q
    <3>6. IsAt(q, chunks, i, 2)
      BY <3>2, <3>3, <3>4 DEF IsAt
    <3>7. QED
      BY <3>1, <3>2, <3>5, <3>6
  <2>7. QED
    BY <1>2, <2>5, <2>6
<1>5. QED
  BY <1>3, <1>4

LEMMA ReadChunkInStep ==
  ASSUME NEW chunks \in Chunks, NEW i \in 0 .. Len(chunks),
         NEW n, n = Len(DataAt(chunks, i + 1)), NEW k \in 2 .. n + 1,
         NEW d \in Decoder(chunks), ~d.error, d.state = "chunk", d.buf = <<>>,
         d.remaining = n + 2 - k,
         d.prev = Chain(chunks, i), d.pending = Chain(chunks, i + 1),
         d.data = SubSeq(DataAt(chunks, i + 1), 1, k - 2),
         NEW e, e = ReadChunk(d, Frame(chunks, i + 1)[k + 1])
  PROVE  ~e.error /\ IsAt(e, chunks, i, k + 1)
<1> DEFINE t == Frame(chunks, i + 1)[k + 1]
           data == DataAt(chunks, i + 1)
           p == [d EXCEPT !.data = Append(@, t), !.out = Append(@, t), !.remaining = @ - 1]
           q == [p EXCEPT !.state = "trailer", !.prev = d.pending, !.data = <<>>]
<1>1. i + 1 \in 1 .. Len(chunks) + 1 /\ i \in Nat /\ i + 1 \in Nat /\ i + 1 # 0 /\ Len(chunks) \in Nat
  BY DEF Chunks
<1>2. n \in Nat /\ \A j \in 1 .. n : Frame(chunks, i + 1)[j + 2] = data[j]
  BY <1>1, FrameIs
<1>3. data \in Seq(ByteTokens) /\ Len(data) = n
  BY <1>1, DataAtIs
<1>4. t = data[k - 1]
  <2>1. k - 1 \in 1 .. n /\ (k - 1) + 2 = k + 1
    BY <1>2
  <2>2. QED
    BY <1>2, <2>1
<1>5. i < Len(chunks)
  <2>1. n > 0
    BY <1>2
  <2>2. data # <<>>
    BY <1>3, <2>1
  <2>3. ~(i + 1 > Len(chunks))
    BY <1>1, <2>2, DataAtIs
  <2>4. QED
    BY <1>1, <2>3
<1>6. Append(d.data, t) = SubSeq(data, 1, k - 1)
  <2>1. k - 2 \in Nat /\ k - 2 < Len(data) /\ (k - 2) + 1 = k - 1
    BY <1>2, <1>3
  <2> DEFINE m == k - 2
  <2> HIDE DEF data, m
  <2>2. m \in Nat /\ m < Len(data)
    BY <2>1 DEF m
  <2>3. SubSeq(data, 1, m + 1) = Append(SubSeq(data, 1, m), data[m + 1])
    BY <1>3, <2>2, PrefixAppend
  <2>4. QED
    BY <1>4, <2>1, <2>3 DEF m, data
<1>7. /\ ~p.error /\ p.state = "chunk" /\ p.buf = <<>> /\ p.prev = d.prev /\ p.pending = d.pending
      /\ p.data = SubSeq(data, 1, k - 1)
  BY <1>6 DEF Decoder
<1>8. p.remaining = n + 1 - k /\ n + 1 - k \in Nat
  <2>1. p.remaining = d.remaining - 1
    BY DEF Decoder
  <2> HIDE DEF p
  <2>2. QED
    BY <1>2, <2>1
<1>9. e = IF p.remaining > 0 THEN p ELSE IF Verified(d, p.data) THEN q ELSE Fail(p)
  BY Zenon DEF ReadChunk
<1>10. CASE k <= n
  <2>1. e = p
    BY <1>2, <1>8, <1>9, <1>10
  <2>2. k + 1 \in 2 .. n + 1 /\ n + 1 - k = n + 2 - (k + 1) /\ (k + 1) - 2 = k - 1
    BY <1>2, <1>10
  <2> HIDE DEF p, q, t, data
  <2>3. IsAt(p, chunks, i, k + 1)
    BY <1>7, <1>8, <2>2 DEF IsAt, data
  <2>4. QED
    BY <1>7, <2>1, <2>3
<1>11. CASE k = n + 1
  <2>1. p.remaining = 0
    BY <1>2, <1>8, <1>11
  <2>2. p.data = data
    <3>1. SubSeq(data, 1, n) = data
      BY <1>3, SubSeqFull
    <3>2. k - 1 = n
      BY <1>2, <1>11
    <3>3. QED
      BY <1>7, <3>1, <3>2
  <2>3. Chain(chunks, i + 1) = Append(Chain(chunks, i), data)
    BY <1>1, ChainNext
  <2>4. Verified(d, p.data)
    BY <2>2, <2>3 DEF Verified
  <2>5. e = q
    BY <1>9, <2>1, <2>4
  <2>6. /\ ~q.error /\ q.state = "trailer" /\ q.buf = <<>> /\ q.prev = Chain(chunks, i + 1)
        /\ q.data = <<>>
    BY DEF Decoder
  <2>7. k + 1 \in n + 2 .. n + 3 /\ k + 1 = n + 2
    BY <1>2, <1>11
  <2> HIDE DEF q
  <2>8. IsAt(q, chunks, i, k + 1)
    BY <1>5, <2>6, <2>7 DEF IsAt
  <2>9. QED
    BY <2>5, <2>6, <2>8
<1>12. QED
  BY <1>2, <1>10, <1>11

LEMMA ReadTrailerInStep ==
  ASSUME NEW chunks \in Chunks, NEW i \in 0 .. Len(chunks), i < Len(chunks),
         NEW n, n = Len(DataAt(chunks, i + 1)), NEW k \in n + 2 .. n + 3,
         NEW d \in Decoder(chunks), ~d.error, d.state = "trailer",
         d.buf = IF k = n + 2 THEN <<>> ELSE <<CR>>,
         d.prev = Chain(chunks, i + 1), d.data = <<>>,
         NEW e, e = ReadTrailer(d, Frame(chunks, i + 1)[k + 1])
  PROVE  ~e.error /\ IF k = n + 2 THEN IsAt(e, chunks, i, k + 1) ELSE IsAt(e, chunks, i + 1, 0)
<1> DEFINE t == Frame(chunks, i + 1)[k + 1]
<1>1. i + 1 \in 1 .. Len(chunks) + 1
  BY DEF Chunks
<1>2. n \in Nat /\ Frame(chunks, i + 1)[n + 3] = CR /\ Frame(chunks, i + 1)[n + 4] = LF
  BY <1>1, FrameIs
<1>3. CASE k = n + 2
  <2> DEFINE q == [d EXCEPT !.buf = <<t>>]
  <2>1. k + 1 = n + 3 /\ k + 1 \in n + 2 .. n + 3 /\ k + 1 # n + 2
    BY <1>2, <1>3
  <2>2. t = CR /\ d.buf = <<>>
    BY <1>2, <1>3, <2>1
  <2>3. e = q
    BY <2>2 DEF ReadTrailer
  <2>4. ~q.error /\ q.state = "trailer" /\ q.buf = <<CR>> /\ q.prev = d.prev /\ q.data = <<>>
    BY <2>2 DEF Decoder
  <2> HIDE DEF q
  <2>5. IsAt(q, chunks, i, k + 1)
    BY <2>1, <2>4 DEF IsAt
  <2>6. QED
    BY <1>3, <2>3, <2>4, <2>5
<1>4. CASE k = n + 3
  <2> DEFINE q == [d EXCEPT !.state = "header", !.buf = <<>>]
  <2>1. k + 1 = n + 4 /\ k # n + 2
    BY <1>2, <1>4
  <2>2. t = LF /\ d.buf = <<CR>>
    BY <1>2, <1>4, <2>1
  <2>3. d.buf # <<>> /\ <<d.buf[1], t>> = <<CR, LF>>
    <3>1. <<CR>> # <<>> /\ <<CR>>[1] = CR
      OBVIOUS
    <3>2. QED
      BY <2>2, <3>1, Zenon
  <2>4. e = q
    BY <2>3 DEF ReadTrailer
  <2>5. ~q.error /\ q.state = "header" /\ q.buf = <<>> /\ q.prev = d.prev /\ q.data = <<>>
    BY DEF Decoder
  <2> HIDE DEF q
  <2>6. IsAt(q, chunks, i + 1, 0)
    BY <2>5 DEF IsAt
  <2>7. QED
    BY <2>1, <2>4, <2>5, <2>6
<1>5. QED
  BY <1>2, <1>3, <1>4

\* The next token of the body leaves the decoder in step.
LEMMA DecodeInStep ==
  ASSUME NEW chunks \in Chunks, NEW w, w = FlattenSeq(Frames(chunks)), NEW d \in Decoder(chunks),
         d.finished <=> d.state = "done",
         NEW p \in Nat, p < Len(w), InStep(d, chunks, p)
  PROVE  InStep(Decode(d, w[p + 1]), chunks, p + 1)
<1> DEFINE e == Decode(d, w[p + 1])
<1>1. ~d.error
  BY DEF InStep
<1>2. CASE d.finished
  <2>1. e = d
    BY <1>2 DEF Decode
  <2>2. QED
    BY <1>1, <1>2, <2>1 DEF InStep
<1>3. CASE ~d.finished
  <2>1. PICK i \in 0 .. Len(chunks), k \in Nat : IsAt(d, chunks, i, k) /\ p = Before(chunks, i) + k
    BY <1>3 DEF InStep
  <2> DEFINE n == Len(DataAt(chunks, i + 1))
             t == Frame(chunks, i + 1)[k + 1]
  <2>2. n \in Nat /\ i + 1 \in 1 .. Len(chunks) + 1 /\ i \in Nat /\ Len(chunks) \in Nat
    <3>1. i + 1 \in 1 .. Len(chunks) + 1 /\ i \in Nat /\ Len(chunks) \in Nat
      BY DEF Chunks
    <3>2. QED
      BY <3>1, FrameIs
  <2>3. /\ Before(chunks, i) \in Nat
        /\ Before(chunks, i + 1) = Before(chunks, i) + n + 4
        /\ Before(chunks, i + 1) <= Len(w)
    BY FramesAre, Zenon
  <2>4. k + 1 \in 1 .. n + 4
    BY <2>1, <2>2 DEF IsAt
  <2>5. w[p + 1] = t
    <3>1. p + 1 = Before(chunks, i) + (k + 1)
      BY <2>1, <2>3
    <3>2. w[Before(chunks, i) + (k + 1)] = Frame(chunks, i + 1)[k + 1]
      BY <2>4, FrameAt
    <3>3. QED
      BY <3>1, <3>2
  <2>6. ASSUME ~e.error, e.finished \/ IsAt(e, chunks, i, k + 1)
        PROVE  InStep(e, chunks, p + 1)
    <3>1. p + 1 = Before(chunks, i) + (k + 1) /\ k + 1 \in Nat
      BY <2>1, <2>3
    <3> HIDE DEF e
    <3>2. QED
      BY <2>6, <3>1 DEF InStep
  <2>7. CASE /\ k \in {0, 1} /\ d.state = "header" /\ d.buf = IF k = 0 THEN <<>> ELSE <<Opening>>
             /\ d.prev = Chain(chunks, i) /\ d.data = <<>>
    <3>1. e = ReadHeader(d, t)
      BY <1>1, <1>3, <2>5, <2>7 DEF Decode
    <3>2. ~e.error /\ (e.finished \/ IsAt(e, chunks, i, k + 1))
      <4> HIDE DEF e
      <4>1. QED
        BY <1>1, <2>7, <3>1, ReadHeaderInStep
    <3>3. QED
      BY <2>6, <3>2
  <2>8. CASE /\ k \in 2 .. n + 1 /\ d.state = "chunk" /\ d.buf = <<>> /\ d.remaining = n + 2 - k
             /\ d.prev = Chain(chunks, i) /\ d.pending = Chain(chunks, i + 1)
             /\ d.data = SubSeq(DataAt(chunks, i + 1), 1, k - 2)
    <3>1. e = ReadChunk(d, t)
      BY <1>1, <1>3, <2>5, <2>8 DEF Decode
    <3>2. ~e.error /\ IsAt(e, chunks, i, k + 1)
      <4> HIDE DEF e
      <4>1. QED
        BY <1>1, <2>8, <3>1, ReadChunkInStep
    <3>3. QED
      BY <2>6, <3>2
  <2>9. CASE /\ k \in n + 2 .. n + 3 /\ d.state = "trailer" /\ d.buf = IF k = n + 2 THEN <<>> ELSE <<CR>>
             /\ d.prev = Chain(chunks, i + 1) /\ d.data = <<>> /\ i < Len(chunks)
    <3>1. e = ReadTrailer(d, t)
      BY <1>1, <1>3, <2>5, <2>9 DEF Decode
    <3>2. /\ ~e.error
          /\ IF k = n + 2 THEN IsAt(e, chunks, i, k + 1) ELSE IsAt(e, chunks, i + 1, 0)
      <4> HIDE DEF e
      <4>1. QED
        BY <1>1, <2>9, <3>1, ReadTrailerInStep
    <3>3. CASE k = n + 2
      BY <2>6, <3>2, <3>3
    <3>4. CASE k = n + 3
      <4>1. p + 1 = Before(chunks, i + 1) + 0 /\ i + 1 \in 0 .. Len(chunks)
        BY <2>1, <2>2, <2>3, <2>9, <3>4, SMTT(20)
      <4>2. ~e.error /\ IsAt(e, chunks, i + 1, 0)
        BY <2>2, <3>2, <3>4
      <4> HIDE DEF e
      <4>3. PICK j \in 0 .. Len(chunks), q \in Nat : j = i + 1 /\ q = 0
        BY <4>1
      <4>4. IsAt(e, chunks, j, q) /\ p + 1 = Before(chunks, j) + q
        BY <4>1, <4>2, <4>3
      <4>5. \E g \in 0 .. Len(chunks), h \in Nat : IsAt(e, chunks, g, h) /\ p + 1 = Before(chunks, g) + h
        BY <4>4, Zenon
      <4>6. InStep(e, chunks, p + 1)
        BY <4>2, <4>5, Zenon DEF InStep
      <4>7. QED
        BY <4>6 DEF e
    <3>5. QED
      BY <2>2, <2>9, <3>3, <3>4
  <2>10. QED
    <3> HIDE DEF e
    <3>1. QED
      BY <2>1, <2>7, <2>8, <2>9 DEF IsAt
<1>4. QED
  BY <1>2, <1>3

\* A body is in step at its beginning, and complete at its end.
LEMMA InStepToTheEnd ==
  ASSUME NEW chunks \in Chunks, NEW w, w = FlattenSeq(Frames(chunks))
  PROVE  /\ InStep(NewDecoder, chunks, 0)
         /\ \A d : InStep(d, chunks, Len(w)) => d.finished
<1>1. Len(chunks) \in Nat /\ 0 \in 0 .. Len(chunks) /\ 0 \in Nat
  BY DEF Chunks
<1>2. InStep(NewDecoder, chunks, 0)
  <2>1. Chain(chunks, 0) = <<>>
    <3>1. Chain(chunks, 0) \in Signatures /\ Len(Chain(chunks, 0)) = 0
      BY ChainIs
    <3>2. QED
      BY <3>1, EmptySeq DEF Signatures
  <2>2. IsAt(NewDecoder, chunks, 0, 0)
    BY <2>1 DEF IsAt, NewDecoder
  <2>3. 0 = Before(chunks, 0) + 0
    <3>1. Before(chunks, 0) = 0
      BY FramesAre, Zenon
    <3>2. QED
      BY <3>1
  <2>4. ~NewDecoder.error
    BY DEF NewDecoder
  <2>5. QED
    BY <1>1, <2>2, <2>3, <2>4 DEF InStep
<1>3. ASSUME NEW d, InStep(d, chunks, Len(w)), ~d.finished
      PROVE  FALSE
  <2>1. PICK i \in 0 .. Len(chunks), k \in Nat :
               IsAt(d, chunks, i, k) /\ Len(w) = Before(chunks, i) + k
    BY <1>3 DEF InStep
  <2> DEFINE n == Len(DataAt(chunks, i + 1))
  <2>2. n \in Nat
    <3>1. i + 1 \in 1 .. Len(chunks) + 1
      BY <1>1
    <3>2. QED
      BY <3>1, FrameIs
  <2>3. k <= n + 3
    BY <2>1, <2>2 DEF IsAt
  <2>4. /\ Before(chunks, i) \in Nat
        /\ Before(chunks, i + 1) = Before(chunks, i) + n + 4
        /\ Before(chunks, i + 1) <= Len(w)
    BY FramesAre, Zenon
  <2> HIDE DEF n
  <2>5. QED
    BY <2>1, <2>2, <2>3, <2>4
<1>4. QED
  BY <1>2, <1>3

(***************************************************************************)
(* A piece of the body.                                                    *)
(***************************************************************************)

\* Only the type and what it has yielded depend on what a decoder has put out.
LEMMA OutDoesNotMatter ==
  ASSUME NEW chunks \in Chunks, NEW total, NEW d, Sound(d, chunks, total),
         NEW e, e = [d EXCEPT !.out = <<>>]
  PROVE  /\ Sound(e, chunks, total)
         /\ e.out = <<>> /\ e.error = d.error /\ e.finished = d.finished /\ e.state = d.state
         /\ Tidy(d) => Tidy(e)
         /\ \A p : InStep(d, chunks, p) => InStep(e, chunks, p)
<1>1. d \in Decoder(chunks) /\ <<>> \in Seq(Tokens(chunks))
  BY DEF Sound
<1>2. /\ e \in Decoder(chunks)
      /\ e.out = <<>> /\ e.error = d.error /\ e.finished = d.finished /\ e.state = d.state
      /\ e.buf = d.buf /\ e.remaining = d.remaining /\ e.pending = d.pending
      /\ e.data = d.data /\ e.prev = d.prev
  BY <1>1 DEF Decoder
<1>3. \A i : HasRead(d, chunks, total, i) => HasRead(e, chunks, total, i)
  BY <1>2 DEF HasRead
<1>4. Sound(e, chunks, total)
  BY <1>2, <1>3 DEF Sound
<1>5. Tidy(d) => Tidy(e)
  BY <1>2 DEF Tidy
<1>6. \A i, k : IsAt(d, chunks, i, k) => IsAt(e, chunks, i, k)
  BY <1>2 DEF IsAt
<1>7. ASSUME NEW p, InStep(d, chunks, p)
      PROVE  InStep(e, chunks, p)
  BY <1>2, <1>6, <1>7, Zenon DEF InStep
<1>8. QED
  BY <1>2, <1>4, <1>5, <1>7

\* A piece of any length leaves the decoder sound and tidy and, if it is the next of a
\* body that arrives as it was sent, in step.
LEMMA PushKeeps ==
  ASSUME NEW chunks \in Chunks, NEW T, T = Tokens(chunks),
         NEW w \in Seq(T), NEW n \in 0 .. Len(w), NEW before \in Seq(T),
         NEW d, Sound(d, chunks, before), Tidy(d), ~d.error,
         NEW honest \in BOOLEAN, NEW p \in Nat, NEW body, body = FlattenSeq(Frames(chunks)),
         honest => /\ InStep(d, chunks, p) /\ p + n <= Len(body)
                   /\ \A j \in 1 .. n : body[p + j] = w[j],
         NEW e, e = Push(d, SubSeq(w, 1, n))
  PROVE  Sound(e, chunks, before \o e.out) /\ Tidy(e) /\ (honest => InStep(e, chunks, p + n))
<1> DEFINE piece == SubSeq(w, 1, n)
           start == [d EXCEPT !.out = <<>>]
           Good == {g \in (0 .. n) \X Decoder(chunks) :
                      /\ Sound(g[2], chunks, before \o g[2].out)
                      /\ Tidy(g[2])
                      /\ honest => InStep(g[2], chunks, p + g[1])}
<1>1. n \in Nat /\ DOMAIN piece = 1 .. n /\ \A j \in 1 .. n : piece[j] = w[j]
  OBVIOUS
<1>2. <<0, start>> \in Good
  <2>1. /\ Sound(start, chunks, before) /\ start.out = <<>> /\ Tidy(start)
        /\ honest => InStep(start, chunks, p)
    BY OutDoesNotMatter
  <2> HIDE DEF start
  <2>2. before \o start.out = before
    BY <2>1, ConcatEmptySeq
  <2>3. start \in Decoder(chunks)
    BY <2>1 DEF Sound
  <2>4. p + 0 = p /\ 0 \in 0 .. n
    BY <1>1
  <2>5. QED
    BY <2>1, <2>2, <2>3, <2>4
<1>3. PICK h : IsRun(h, start, piece, n) /\ FoldLeft(Decode, start, piece) = h[n]
  <2> HIDE DEF start, piece
  <2>1. QED
    BY <1>1, FoldIsRun
<1>4. ASSUME NEW j \in 1 .. n, <<j - 1, h[j - 1]>> \in Good
      PROVE  <<j, Decode(h[j - 1], piece[j])>> \in Good
  <2> DEFINE c == h[j - 1]
  <2>1. /\ c \in Decoder(chunks) /\ Sound(c, chunks, before \o c.out) /\ Tidy(c)
        /\ honest => InStep(c, chunks, p + (j - 1))
    BY <1>4
  <2> HIDE DEF c
  <2>2. PICK i \in Nat : i = j - 1 /\ i < Len(w) /\ i + 1 = j
    BY <1>1
  <2>3. piece[j] = w[i + 1] /\ w[i + 1] \in T
    BY <1>1, <2>2
  <2> DEFINE b == Decode(c, w[i + 1])
  <2>4. Sound(b, chunks, before \o b.out)
    BY <2>1, <2>3, DecodeIsSound
  <2>5. Tidy(b)
    <3>1. c.state = "done" => c.finished
      BY <2>1 DEF Sound
    <3> HIDE DEF b
    <3>2. Tidy(Decode(c, w[i + 1]))
      BY <2>1, <2>3, <3>1, DecodeIsTidy
    <3>3. QED
      BY <3>2 DEF b
  <2>6. honest => InStep(b, chunks, p + j)
    <3>1. SUFFICES ASSUME honest PROVE InStep(b, chunks, p + j)
      OBVIOUS
    <3>2. PICK q \in Nat : q = p + i
      BY <2>2
    <3>3. q < Len(body) /\ body[q + 1] = w[i + 1]
      <4>1. q + 1 = p + j /\ q + 1 <= p + n
        BY <1>1, <2>2, <3>2
      <4>2. body[p + j] = w[j]
        BY <3>1
      <4>3. Len(body) \in Nat
        BY FramesAre
      <4>4. QED
        BY <2>2, <3>1, <3>2, <4>1, <4>2, <4>3
    <3>4. InStep(c, chunks, q)
      BY <2>1, <2>2, <3>1, <3>2
    <3>5. c \in Decoder(chunks) /\ (c.finished <=> c.state = "done")
      BY <2>1 DEF Sound
    <3>6. InStep(Decode(c, body[q + 1]), chunks, q + 1)
      <4> HIDE DEF b
      <4>1. QED
        BY <3>3, <3>4, <3>5, DecodeInStep
    <3>7. q + 1 = p + j
      BY <2>2, <3>2
    <3>8. QED
      BY <3>3, <3>6, <3>7
  <2>7. b \in Decoder(chunks)
    BY <2>4 DEF Sound
  <2> HIDE DEF b
  <2>8. <<j, b>> \in Good
    BY <1>1, <2>4, <2>5, <2>6, <2>7
  <2>9. b = Decode(h[j - 1], piece[j])
    BY <2>3 DEF b, c
  <2>10. QED
    BY <2>8, <2>9
<1>5. <<n, h[n]>> \in Good
  <2> HIDE DEF Good, start, piece
  <2>1. QED
    BY <1>1, <1>2, <1>3, <1>4, RunKeeps
<1>6. CASE ~d.finished
  <2>1. e = h[n]
    BY <1>3, <1>6 DEF Push
  <2>2. QED
    BY <1>5, <2>1
<1>7. CASE d.finished
  <2>1. d \in Decoder(chunks)
    BY DEF Sound
  <2>2. [d EXCEPT !.out = <<>>, !.error = FALSE] = start
    BY <2>1 DEF Decoder
  <2>3. e = start
    BY <1>7, <2>2 DEF Push
  <2>4. /\ Sound(start, chunks, before \o start.out) /\ Tidy(start) /\ start.finished
        /\ ~start.error
    <3>1. start.finished /\ ~start.error
      BY <1>7, OutDoesNotMatter
    <3> HIDE DEF start
    <3>2. QED
      BY <1>2, <3>1
  <2>5. InStep(start, chunks, p + n)
    <3> HIDE DEF start
    <3>1. QED
      BY <2>4 DEF InStep
  <2>6. QED
    BY <2>3, <2>4, <2>5
<1>8. QED
  BY <1>6, <1>7

(***************************************************************************)
(* The invariant.                                                          *)
(***************************************************************************)
Answers == {"none", "receiving", "installed", "OK", "Digest", "InvalidArgument",
            "SignatureOrArgument", "InternalError"}

\* What has been received and stored, and the decoder where there is one.
StreamInv ==
  /\ sent \in Chunks /\ header \in Headers /\ md5 \in BOOLEAN /\ faulty \in BOOLEAN
  /\ wire \in Seq(Tokens(sent)) /\ received \in Seq(Tokens(sent)) /\ stored \in Seq(Tokens(sent))
  /\ decoder.out = <<>>
  /\ Mode(header) = "StreamingSigned" => Sound(decoder, sent, stored) /\ Tidy(decoder)
  /\ Mode(header) # "StreamingSigned" => decoder = NewDecoder /\ stored = received
  /\ ~faulty => received \o wire = Body(sent, header)
  /\ ~faulty /\ Mode(header) = "StreamingSigned" => InStep(decoder, sent, Len(received))

\* What each answer says.
AnswerInv ==
  /\ answer \in Answers
  /\ decoder.error <=> answer = "SignatureOrArgument"
  /\ answer \in {"installed", "OK", "Digest"} => wire = <<>>
  /\ answer = "OK" => Checked(Mode(header))
  /\ answer = "Digest" => ~Checked(Mode(header))
  /\ answer = "InvalidArgument" => Mode(header) = "InvalidArgument"
  /\ answer = "InternalError" => faulty

UploadInv == StreamInv /\ AnswerInv

LEMMA BodyIs ==
  ASSUME NEW chunks \in Chunks, NEW T, T = Tokens(chunks)
  PROVE  /\ \A h : ~IsFramed(h) => Body(chunks, h) = Contents(chunks)
         /\ \A h : IsFramed(h) => Body(chunks, h) = FlattenSeq(Frames(chunks))
         /\ Contents(chunks) \in Seq(T) /\ FlattenSeq(Frames(chunks)) \in Seq(T)
         /\ Contents(<<>>) = <<>>
<1> DEFINE order == [i \in 1 .. Len(chunks) + 1 |-> i]
<1>1. Len(chunks) \in Nat /\ Len(chunks) \in 0 .. Len(chunks)
  BY DEF Chunks
<1>2. FlattenSeq(Frames(chunks)) = Framed(chunks, order) /\ FlattenSeq(Frames(chunks)) \in Seq(T)
  BY FramesAre
<1>3. Contents(chunks) \in Seq(T)
  <2>1. Contents(chunks) \in Seq(ByteTokens)
    <3>1. Contents(SubSeq(chunks, 1, Len(chunks))) \in Seq(ByteTokens)
      BY <1>1, ContentsNext
    <3>2. QED
      BY <3>1, ContentsNext
  <2>2. ByteTokens \subseteq T
    BY DEF Tokens
  <2>3. QED
    BY <2>1, <2>2, SeqMonotonic
<1>4. Contents(<<>>) = <<>>
  <2>1. <<>> \in Chunks /\ SubSeq(<<>>, 1, 0) = <<>>
    BY DEF Chunks
  <2>2. Contents(SubSeq(<<>>, 1, 0)) = <<>>
    BY <2>1, ContentsNext
  <2>3. QED
    BY <2>1, <2>2
<1>5. QED
  BY <1>2, <1>3, <1>4 DEF Body

LEMMA WireIs ==
  ASSUME NEW chunks \in Chunks, NEW T, T = Tokens(chunks), NEW h \in Headers,
         NEW w \in Harmed(Body(chunks, h), chunks) \cup (IF IsFramed(h) THEN Misordered(chunks) ELSE {})
  PROVE  w \in Seq(T)
<1>1. Body(chunks, h) \in Seq(T)
  BY BodyIs
<1>2. CASE w \in Harmed(Body(chunks, h), chunks)
  BY <1>1, <1>2, HarmedIs
<1>3. CASE IsFramed(h) /\ w \in Misordered(chunks)
  <2>1. PICK n \in 1 .. Len(chunks) + 1 : \E order \in [1 .. n -> 1 .. Len(chunks) + 1] :
               w = Framed(chunks, order)
    BY <1>3 DEF Misordered
  <2>2. PICK order \in [1 .. n -> 1 .. Len(chunks) + 1] : w = Framed(chunks, order)
    BY <2>1
  <2>3. order \in Seq(1 .. Len(chunks) + 1)
    <3>1. n \in Nat
      BY DEF Chunks
    <3>2. QED
      BY <3>1
  <2>4. QED
    BY <2>2, <2>3, FramedTyped
<1>4. QED
  BY <1>2, <1>3

LEMMA NewDecoderIs ==
  ASSUME NEW chunks \in Chunks
  PROVE  Sound(NewDecoder, chunks, <<>>)
<1>1. NewDecoder \in Decoder(chunks)
  <2>1. <<>> \in Seq(Tokens(chunks)) /\ <<>> \in Signatures /\ 0 \in Nat
    BY DEF Signatures
  <2>2. QED
    BY <2>1 DEF NewDecoder, Decoder
<1>2. HasRead(NewDecoder, chunks, <<>>, 0)
  <2>1. 0 \in 0 .. Len(chunks)
    BY DEF Chunks
  <2>2. Chain(chunks, 0) = <<>>
    <3>1. Chain(chunks, 0) \in Signatures /\ Len(Chain(chunks, 0)) = 0
      BY ChainIs
    <3>2. QED
      BY <3>1, EmptySeq DEF Signatures
  <2>3. Contents(SubSeq(chunks, 1, 0)) = <<>>
    BY ContentsNext
  <2>4. <<>> = <<>> \o <<>>
    OBVIOUS
  <2>5. QED
    BY <2>1, <2>2, <2>3, <2>4 DEF HasRead, NewDecoder
<1>3. QED
  BY <1>1, <1>2 DEF Sound, NewDecoder

LEMMA UploadInitInv == UploadInit => UploadInv
<1> SUFFICES ASSUME UploadInit PROVE UploadInv
  OBVIOUS
<1> DEFINE T == Tokens(sent)
<1>1. sent \in Chunks
  <2>1. sent \in Seq(Seq(Byte) \ {<<>>})
    BY ChunkedAssumption DEF UploadInit
  <2>2. QED
    BY <2>1 DEF Chunks
<1>2. header \in Headers /\ md5 \in BOOLEAN /\ received = <<>> /\ decoder = NewDecoder /\ stored = <<>>
      /\ answer = "none" /\ faulty = (wire # Body(sent, header))
  BY DEF UploadInit
<1>3. wire \in Seq(T)
  BY <1>1, <1>2, WireIs DEF UploadInit
<1>4. <<>> \in Seq(T)
  OBVIOUS
<1>5. NewDecoder.buf = <<>> /\ NewDecoder.out = <<>> /\ NewDecoder.state = "header" /\ ~NewDecoder.error
  BY DEF NewDecoder
<1>6. Tidy(NewDecoder)
  BY <1>5 DEF Tidy
<1>7. <<>> \o wire = wire
  BY <1>3, ConcatEmptySeq
<1>8. ~faulty => received \o wire = Body(sent, header)
  BY <1>2, <1>7
<1>9. InStep(NewDecoder, sent, Len(received))
  <2>1. Len(received) = 0
    BY <1>2
  <2>2. InStep(NewDecoder, sent, 0)
    BY <1>1, InStepToTheEnd
  <2>3. QED
    BY <2>1, <2>2
<1>10. Sound(NewDecoder, sent, <<>>)
  BY <1>1, NewDecoderIs
<1>11. faulty \in BOOLEAN
  BY <1>2
<1>12. StreamInv
  BY <1>1, <1>2, <1>3, <1>4, <1>5, <1>6, <1>8, <1>9, <1>10, <1>11 DEF StreamInv
<1>13. AnswerInv
  BY <1>2, <1>5 DEF AnswerInv, Answers
<1>14. QED
  BY <1>12, <1>13 DEF UploadInv

LEMMA PollInv ==
  ASSUME UploadInv, Poll
  PROVE  UploadInv'
<1> DEFINE T == Tokens(sent)
<1>1. PICK n \in 1 .. Len(wire) : \E piece \in {SubSeq(wire, 1, n)} : \E d \in {NextDecoder(piece)} :
         /\ wire' = SubSeq(wire, n + 1, Len(wire))
         /\ received' = received \o piece
         /\ decoder' = [d EXCEPT !.out = <<>>]
         /\ answer' = IF d.error THEN "SignatureOrArgument" ELSE answer
         /\ stored' = CASE Mode(header) # "StreamingSigned" -> stored \o piece
                        [] Mode(header) = "StreamingSigned" /\ ~d.error -> stored \o d.out
                        [] OTHER -> stored
  BY DEF Poll
<1> DEFINE piece == SubSeq(wire, 1, n)
           d == NextDecoder(piece)
<1>2. /\ wire' = SubSeq(wire, n + 1, Len(wire))
      /\ received' = received \o piece
      /\ decoder' = [d EXCEPT !.out = <<>>]
      /\ answer' = IF d.error THEN "SignatureOrArgument" ELSE answer
      /\ Mode(header) # "StreamingSigned" => stored' = stored \o piece
      /\ Mode(header) = "StreamingSigned" => stored' = IF d.error THEN stored ELSE stored \o d.out
  BY <1>1
<1>3. /\ answer = "receiving" /\ wire # <<>>
      /\ sent' = sent /\ header' = header /\ md5' = md5 /\ faulty' = faulty
  BY DEF Poll
<1>4. StreamInv /\ AnswerInv
  BY DEF UploadInv
<1>5. sent \in Chunks /\ wire \in Seq(T) /\ received \in Seq(T) /\ stored \in Seq(T) /\ ~decoder.error
  BY <1>3, <1>4 DEF StreamInv, AnswerInv
<1>6. /\ piece \in Seq(T) /\ Len(piece) = n /\ n \in 0 .. Len(wire) /\ n \in Nat
      /\ \A j \in 1 .. n : piece[j] = wire[j]
  BY <1>5
<1> DEFINE rest == SubSeq(wire, n + 1, Len(wire))
<1>7. wire' = rest /\ rest \in Seq(T)
  <2>1. rest \in Seq(T)
    BY <1>5, <1>6
  <2>2. QED
    BY <1>2, <2>1
<1>8. received' \in Seq(T) /\ Len(received') = Len(received) + n /\ Len(received) \in Nat
  BY <1>2, <1>5, <1>6, ConcatProperties, LenProperties
<1>9. received' \o wire' = received \o wire
  <2>1. wire = piece \o rest
    <3>1. SubSeq(wire, 1, n) \o SubSeq(wire, n + 1, Len(wire)) = SubSeq(wire, 1, Len(wire))
      <4>1. 1 \in 1 .. Len(wire) + 1 /\ n \in 0 .. Len(wire) /\ Len(wire) \in 0 .. Len(wire)
        BY <1>5, <1>6
      <4>2. QED
        BY <1>5, <4>1, ConcatAdjacentSubSeq
    <3>2. QED
      BY <1>5, <3>1, SubSeqFull
  <2> HIDE DEF piece, rest
  <2>2. (received \o piece) \o rest = received \o (piece \o rest)
    <3>1. received \in Seq(T) /\ piece \in Seq(T) /\ rest \in Seq(T)
      BY <1>5, <1>6, <1>7
    <3> HIDE DEF T
    <3>2. QED
      BY <3>1, ConcatAssociative
  <2>3. QED
    BY <1>2, <1>7, <2>1, <2>2
<1>10. ~faulty' => received' \o wire' = Body(sent', header')
  BY <1>3, <1>4, <1>9 DEF StreamInv
<1>11. CASE Mode(header) # "StreamingSigned"
  <2>1. decoder = NewDecoder /\ stored = received /\ decoder.out = <<>>
    BY <1>4, <1>11 DEF StreamInv
  <2>2. d = NewDecoder
    BY <1>11, <2>1 DEF NextDecoder
  <2>3. ~NewDecoder.error /\ [NewDecoder EXCEPT !.out = <<>>] = NewDecoder /\ NewDecoder.out = <<>>
    BY DEF NewDecoder
  <2> HIDE DEF d, piece
  <2>4. decoder' = NewDecoder /\ answer' = answer /\ stored' = received'
    BY <1>2, <1>11, <2>1, <2>2, <2>3
  <2>5. StreamInv'
    BY <1>3, <1>4, <1>7, <1>8, <1>10, <1>11, <2>3, <2>4 DEF StreamInv
  <2>6. AnswerInv'
    BY <1>3, <1>4, <2>3, <2>4 DEF AnswerInv, Answers
  <2>7. QED
    BY <2>5, <2>6 DEF UploadInv
<1>12. CASE Mode(header) = "StreamingSigned"
  <2>1. Sound(decoder, sent, stored) /\ Tidy(decoder)
    BY <1>4, <1>12 DEF StreamInv
  <2>2. d = Push(decoder, SubSeq(wire, 1, n))
    BY <1>12 DEF NextDecoder
  <2>3. IsFramed(header)
    BY <1>4, <1>12 DEF StreamInv, Mode, Headers, IsFramed
  <2> DEFINE body == FlattenSeq(Frames(sent))
             p == Len(received)
  <2>4. ~faulty => /\ InStep(decoder, sent, p) /\ p + n <= Len(body)
                   /\ \A j \in 1 .. n : body[p + j] = wire[j]
    <3>1. SUFFICES ASSUME ~faulty
                   PROVE  /\ InStep(decoder, sent, p) /\ p + n <= Len(body)
                          /\ \A j \in 1 .. n : body[p + j] = wire[j]
      OBVIOUS
    <3>2. InStep(decoder, sent, p) /\ received \o wire = body
      BY <1>4, <1>5, <1>12, <2>3, <3>1, BodyIs DEF StreamInv
    <3>3. Len(body) = p + Len(wire) /\ \A j \in 1 .. Len(wire) : body[p + j] = wire[j]
      <4>1. /\ Len(received \o wire) = p + Len(wire)
            /\ \A j \in 1 .. Len(wire) : (received \o wire)[p + j] = wire[j]
        BY <1>5
      <4>2. QED
        BY <3>2, <4>1, Zenon
    <3> HIDE DEF body, p
    <3>4. n \in 1 .. Len(wire) /\ Len(wire) \in Nat /\ p \in Nat
      BY <1>5, <1>8 DEF p
    <3>5. p + n <= Len(body)
      BY <3>3, <3>4
    <3>6. \A j \in 1 .. n : body[p + j] = wire[j]
      BY <3>3, <3>4
    <3>7. QED
      BY <3>2, <3>5, <3>6
  <2>5. /\ Sound(d, sent, stored \o d.out) /\ Tidy(d)
        /\ ~faulty => InStep(d, sent, p + n)
    <3> DEFINE honest == ~faulty
    <3>1. honest \in BOOLEAN /\ p \in Nat
      BY <1>8
    <3> HIDE DEF d, p, body
    <3>2. honest => /\ InStep(decoder, sent, p) /\ p + n <= Len(body)
                    /\ \A j \in 1 .. n : body[p + j] = wire[j]
      BY <2>4
    <3> HIDE DEF honest
    <3>3. body = FlattenSeq(Frames(sent))
      BY DEF body
    <3>4. Sound(d, sent, stored \o d.out) /\ Tidy(d) /\ (honest => InStep(d, sent, p + n))
      BY <1>5, <1>6, <2>1, <2>2, <3>1, <3>2, <3>3, PushKeeps
    <3>5. QED
      BY <3>4 DEF honest
  <2> DEFINE e == [d EXCEPT !.out = <<>>]
  <2>6. /\ Sound(e, sent, stored \o d.out) /\ e.out = <<>> /\ e.error = d.error
        /\ Tidy(e) /\ (~faulty => InStep(e, sent, p + n))
    <3> HIDE DEF d, p
    <3>1. QED
      BY <1>5, <2>5, OutDoesNotMatter
  <2>7. decoder' = e
    BY <1>2
  <2>8. /\ Sound(e, sent, stored') /\ stored' \in Seq(T)
    <3>1. d.out \in Seq(T)
      BY <2>5 DEF Sound, Decoder
    <3>2. stored \o d.out \in Seq(T)
      BY <1>5, <3>1, ConcatProperties
    <3>3. stored' = IF d.error THEN stored ELSE stored \o d.out
      BY <1>2, <1>12
    <3> HIDE DEF d, e
    <3>4. e.error => Sound(e, sent, stored)
      BY <2>6 DEF Sound
    <3>5. QED
      BY <1>5, <2>6, <3>2, <3>3, <3>4
  <2>9. answer' = IF e.error THEN "SignatureOrArgument" ELSE "receiving"
    BY <1>2, <1>3, <2>6
  <2>10. ~faulty => InStep(e, sent, Len(received'))
    BY <1>8, <2>6
  <2> HIDE DEF d, e, p, body
  <2>11. Sound(decoder', sent', stored') /\ Tidy(decoder')
    BY <1>3, <2>1, <2>6, <2>7, <2>8
  <2>12. e.error \in BOOLEAN
    BY <2>8 DEF Sound, Decoder
  <2>13. StreamInv'
    BY <1>3, <1>4, <1>7, <1>8, <1>10, <1>12, <2>6, <2>7, <2>8, <2>10, <2>11 DEF StreamInv
  <2>14. AnswerInv'
    BY <1>3, <2>7, <2>9, <2>12 DEF AnswerInv, Answers
  <2>15. QED
    BY <2>13, <2>14 DEF UploadInv
<1>13. QED
  BY <1>11, <1>12

LEMMA UploadStepInv == UploadInv /\ [UploadNext]_upload => UploadInv'
<1> SUFFICES ASSUME UploadInv, [UploadNext]_upload PROVE UploadInv'
  OBVIOUS
<1>1. StreamInv /\ AnswerInv
  BY DEF UploadInv
<1>2. ASSUME UNCHANGED <<sent, header, md5, wire, received, decoder, stored, faulty>>
      PROVE  StreamInv'
  BY <1>1, <1>2 DEF StreamInv
<1>3. CASE Authenticate
  <2>1. StreamInv'
    BY <1>2, <1>3 DEF Authenticate
  <2>2. AnswerInv'
    BY <1>1, <1>3 DEF AnswerInv, Answers, Authenticate
  <2>3. QED
    BY <2>1, <2>2 DEF UploadInv
<1>4. CASE Poll
  BY <1>4, PollInv
<1>5. CASE Break
  <2>1. StreamInv'
    BY <1>1, <1>5 DEF StreamInv, Break
  <2>2. AnswerInv'
    BY <1>1, <1>5 DEF AnswerInv, Answers, Break
  <2>3. QED
    BY <2>1, <2>2 DEF UploadInv
<1>6. CASE Install
  <2>1. StreamInv'
    BY <1>2, <1>6 DEF Install
  <2>2. AnswerInv'
    BY <1>1, <1>6 DEF AnswerInv, Answers, Install
  <2>3. QED
    BY <2>1, <2>2 DEF UploadInv
<1>7. CASE Check
  <2>1. StreamInv'
    BY <1>2, <1>7 DEF Check
  <2>2. AnswerInv'
    BY <1>1, <1>7 DEF AnswerInv, Answers, Check, Checked
  <2>3. QED
    BY <2>1, <2>2 DEF UploadInv
<1>8. CASE UNCHANGED upload
  <2>1. StreamInv'
    BY <1>2, <1>8 DEF upload
  <2>2. AnswerInv'
    BY <1>1, <1>8 DEF AnswerInv, upload, Checked
  <2>3. QED
    BY <2>1, <2>2 DEF UploadInv
<1>9. QED
  BY <1>3, <1>4, <1>5, <1>6, <1>7, <1>8 DEF UploadNext

(***************************************************************************)
(* What the invariant says.                                                *)
(***************************************************************************)
LEMMA UploadInvTypes == UploadInv => UploadTypeOK
<1> SUFFICES ASSUME UploadInv PROVE UploadTypeOK
  OBVIOUS
<1>1. StreamInv /\ AnswerInv
  BY DEF UploadInv
<1>2. CASE Mode(header) = "StreamingSigned"
  <2>1. Sound(decoder, sent, stored) /\ Tidy(decoder)
    BY <1>1, <1>2 DEF StreamInv
  <2>2. /\ decoder.state \in {"header", "chunk", "trailer", "done"}
        /\ decoder.remaining \in Nat /\ (decoder.finished <=> decoder.state = "done")
    BY <2>1 DEF Sound, Decoder
  <2>3. QED
    BY <1>1, <2>1, <2>2 DEF StreamInv, AnswerInv, Answers, UploadTypeOK, Tidy
<1>3. CASE Mode(header) # "StreamingSigned"
  <2>1. decoder = NewDecoder
    BY <1>1, <1>3 DEF StreamInv
  <2>2. /\ decoder.state = "header" /\ decoder.remaining \in Nat
        /\ (decoder.finished <=> decoder.state = "done")
    BY <2>1 DEF NewDecoder
  <2>3. QED
    BY <1>1, <2>2 DEF StreamInv, AnswerInv, Answers, UploadTypeOK
<1>4. QED
  BY <1>2, <1>3

\* A decoder that has seen the last chunk, without an error, has yielded everything.
LEMMA FinishedIsWhole ==
  ASSUME NEW chunks \in Chunks, NEW d, NEW total, Sound(d, chunks, total), ~d.error, d.finished
  PROVE  total = Contents(chunks)
<1>1. PICK i \in Nat : HasRead(d, chunks, total, i)
  BY DEF Sound
<1>2. i = Len(chunks) /\ d.data = <<>> /\ total = Contents(SubSeq(chunks, 1, i)) \o d.data
  BY <1>1 DEF Sound, HasRead
<1>3. Contents(SubSeq(chunks, 1, i)) = Contents(chunks)
  BY <1>2, ContentsNext
<1>4. Contents(chunks) \o <<>> = Contents(chunks)
  <2>1. Contents(chunks) \in Seq(Tokens(chunks))
    BY BodyIs
  <2>2. QED
    BY <2>1, ConcatEmptySeq
<1>5. QED
  BY <1>2, <1>3, <1>4

LEMMA UploadInvWhole == UploadInv => SignedUploadsAreWhole
<1> SUFFICES ASSUME UploadInv, answer = "OK", Mode(header) = "SignedFull" \/ md5 \/ decoder.finished
             PROVE  stored = Contents(sent)
  BY DEF SignedUploadsAreWhole
<1>1. StreamInv /\ AnswerInv
  BY DEF UploadInv
<1>2. Checked(Mode(header)) /\ ~decoder.error /\ sent \in Chunks
  BY <1>1 DEF StreamInv, AnswerInv
<1>3. CASE md5
  BY <1>2, <1>3 DEF Checked
<1>4. CASE Mode(header) = "SignedFull"
  BY <1>1, <1>2, <1>4 DEF Checked, StreamInv
<1>5. CASE decoder.finished
  <2>1. Mode(header) = "StreamingSigned"
    BY <1>1, <1>5 DEF StreamInv, NewDecoder
  <2>2. Sound(decoder, sent, stored)
    BY <1>1, <2>1 DEF StreamInv
  <2>3. QED
    BY <1>2, <1>5, <2>2, FinishedIsWhole
<1>6. QED
  BY <1>3, <1>4, <1>5

LEMMA UploadInvPrefix == UploadInv => VerifiedIsPrefix
<1> SUFFICES ASSUME UploadInv, Mode(header) = "StreamingSigned", ~decoder.error
             PROVE  \E i \in 0 .. Len(sent) : stored = Contents(SubSeq(sent, 1, i)) \o decoder.data
  BY DEF VerifiedIsPrefix
<1>1. Sound(decoder, sent, stored)
  BY DEF UploadInv, StreamInv
<1>2. PICK i \in Nat : HasRead(decoder, sent, stored, i)
  BY <1>1 DEF Sound
<1>3. QED
  BY <1>2 DEF HasRead

LEMMA UploadInvHonest == UploadInv => HonestUploadsSucceed
<1> SUFFICES ASSUME UploadInv, ~faulty, Mode(header) \notin {"StreamingUnsigned", "InvalidArgument"}
             PROVE  /\ answer \in {"none", "receiving", "installed", "OK"}
                    /\ answer = "OK" => stored = Contents(sent)
  BY DEF HonestUploadsSucceed
<1>1. StreamInv /\ AnswerInv
  BY DEF UploadInv
<1>2. sent \in Chunks /\ header \in Headers /\ received \in Seq(Tokens(sent))
      /\ received \o wire = Body(sent, header)
  BY <1>1 DEF StreamInv
<1>3. ~decoder.error
  BY <1>1 DEF StreamInv, InStep, NewDecoder
<1>4. ASSUME wire = <<>>
      PROVE  stored = Contents(sent) /\ (Mode(header) = "SignedFull" => received = Contents(sent))
  <2>1. received = Body(sent, header)
    <3>1. received \o <<>> = received
      BY <1>2, ConcatEmptySeq
    <3>2. QED
      BY <1>2, <1>4, <3>1
  <2>2. CASE Mode(header) = "StreamingSigned"
    <3> DEFINE body == FlattenSeq(Frames(sent))
    <3>1. IsFramed(header)
      BY <1>2, <2>2 DEF Mode, Headers, IsFramed
    <3>2. received = body
      BY <1>2, <2>1, <3>1, BodyIs
    <3>3. InStep(decoder, sent, Len(body)) /\ Sound(decoder, sent, stored)
      BY <1>1, <2>2, <3>2 DEF StreamInv
    <3>4. decoder.finished
      BY <1>2, <3>3, InStepToTheEnd
    <3>5. stored = Contents(sent)
      BY <1>2, <1>3, <3>3, <3>4, FinishedIsWhole
    <3>6. QED
      BY <2>2, <3>5
  <2>3. CASE Mode(header) # "StreamingSigned"
    <3>1. ~IsFramed(header)
      BY <1>2, <2>3 DEF Mode, Headers, IsFramed
    <3>2. received = Contents(sent)
      BY <1>2, <2>1, <3>1, BodyIs
    <3>3. QED
      BY <1>1, <2>3, <3>2 DEF StreamInv
  <2>4. QED
    BY <2>2, <2>3
<1>5. answer # "Digest"
  <2>1. SUFFICES ASSUME answer = "Digest" PROVE FALSE
    OBVIOUS
  <2>2. wire = <<>> /\ ~Checked(Mode(header))
    BY <1>1, <2>1 DEF AnswerInv
  <2>3. QED
    BY <1>4, <2>2 DEF Checked
<1>6. answer \in {"none", "receiving", "installed", "OK"}
  BY <1>1, <1>3, <1>5 DEF AnswerInv, Answers
<1>7. answer = "OK" => stored = Contents(sent)
  BY <1>1, <1>4 DEF AnswerInv
<1>8. QED
  BY <1>6, <1>7

LEMMA UploadAlways == UploadSpec => []UploadInv
<1>1. UploadInit => UploadInv
  BY UploadInitInv
<1>2. UploadInv /\ [UploadNext]_upload => UploadInv'
  BY UploadStepInv
<1>3. QED
  BY <1>1, <1>2, PTL DEF UploadSpec

(***************************************************************************)
(* The theorems.                                                           *)
(***************************************************************************)

\* What an acknowledged upload has stored is what the client meant, if its payload was
\* signed as a whole, it gave a Content-MD5, or the decoder saw the last signed chunk.
THEOREM AcknowledgedIsWhole == UploadSpec => []SignedUploadsAreWhole
BY UploadAlways, UploadInvWhole, PTL

\* What is stored of signed chunks begins with whole chunks of the client, in order.
THEOREM VerifiedPrefix == UploadSpec => []VerifiedIsPrefix
BY UploadAlways, UploadInvPrefix, PTL

\* A body that arrives as it was sent is accepted and stored whole, in any pieces.
THEOREM HonestSucceed == UploadSpec => []HonestUploadsSucceed
BY UploadAlways, UploadInvHonest, PTL
====
