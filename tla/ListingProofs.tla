---- MODULE ListingProofs ----
(***************************************************************************)
(* What one page of a listing holds, for any keys and any query: the       *)
(* byte order is a total order that groups respect, and the loop of        *)
(* list_objects keeps to it.                                               *)
(***************************************************************************)
EXTENDS Listing, FiniteSetTheorems, SequenceTheorems, WellFoundedInduction, TLAPS

(***************************************************************************)
(* Induction over the natural numbers, in the form of a set that contains  *)
(* them: NatInduction with a set for its operator parameter.               *)
(***************************************************************************)

\* A set of natural numbers has a least element.
LEMMA Least ==
  ASSUME NEW S \in SUBSET Nat, S # {}
  PROVE  \E m \in S : \A n \in S : m <= n
<1> DEFINE R == {p \in Nat \X Nat : p[1] < p[2]}
<1>1. PICK x \in S : \A y \in S : ~ (<<y, x>> \in R)
  <2>1. IsWellFoundedOn(R, Nat)
    BY NatLessThanWellFounded DEF OpToRel
  <2> HIDE DEF R
  <2>2. QED
    BY <2>1, WFMin
<1>2. \A y \in S : ~(y < x)
  BY <1>1
<1>3. QED
  BY <1>2

\* A set that contains 0 and, with a number, the next one contains all numbers.
LEMMA SetInduction ==
  ASSUME NEW S, 0 \in S, \A n \in Nat : n \in S => n + 1 \in S
  PROVE  Nat \subseteq S
<1> DEFINE T == Nat \ S
<1>1. CASE T # {}
  <2>1. PICK m \in T : \A n \in T : m <= n
    <3>1. T \in SUBSET Nat
      OBVIOUS
    <3> HIDE DEF T
    <3>2. QED
      BY <1>1, <3>1, Least
  <2>2. m # 0 /\ m - 1 \in Nat
    BY <2>1
  <2>3. m - 1 \in S
    BY <2>1, <2>2
  <2>4. QED
    BY <2>1, <2>2, <2>3
<1>2. QED
  BY <1>1

(***************************************************************************)
(* The byte order.                                                         *)
(***************************************************************************)
String == Seq(Nat)

\* The strings differ first at i: there s ends, or has the smaller byte.
FirstLess(s, t, i) ==
  /\ i \in 1 .. Len(s) + 1 /\ i <= Len(t)
  /\ \A j \in 1 .. i - 1 : s[j] = t[j]
  /\ i <= Len(s) => s[i] < t[i]

\* Strings agree on their first n bytes if they agree on each.
LEMMA SamePrefix ==
  ASSUME NEW s \in String, NEW t \in String, NEW n \in Nat, n <= Len(s), n <= Len(t)
  PROVE  SubSeq(s, 1, n) = SubSeq(t, 1, n) <=> \A j \in 1 .. n : s[j] = t[j]
<1>1. /\ Len(SubSeq(s, 1, n)) = n /\ SubSeq(s, 1, n) \in Seq(Nat)
      /\ \A j \in 1 .. n : SubSeq(s, 1, n)[j] = s[j]
  BY DEF String
<1>2. /\ Len(SubSeq(t, 1, n)) = n /\ SubSeq(t, 1, n) \in Seq(Nat)
      /\ \A j \in 1 .. n : SubSeq(t, 1, n)[j] = t[j]
  BY DEF String
<1>3. ASSUME \A j \in 1 .. n : s[j] = t[j]
      PROVE  SubSeq(s, 1, n) = SubSeq(t, 1, n)
  <2>1. \A j \in 1 .. Len(SubSeq(s, 1, n)) : SubSeq(s, 1, n)[j] = SubSeq(t, 1, n)[j]
    BY <1>1, <1>2, <1>3
  <2>2. QED
    BY <1>1, <1>2, <2>1, SeqEqual
<1>4. ASSUME SubSeq(s, 1, n) = SubSeq(t, 1, n), NEW j \in 1 .. n
      PROVE  s[j] = t[j]
  BY <1>1, <1>2, <1>4
<1>5. QED
  BY <1>3, <1>4

LEMMA PrefixBytes ==
  ASSUME NEW s \in String, NEW p \in String
  PROVE  StartsWith(s, p) <=> Len(p) <= Len(s) /\ \A j \in 1 .. Len(p) : s[j] = p[j]
<1>1. SubSeq(p, 1, Len(p)) = p /\ Len(p) \in Nat
  BY SubSeqFull DEF String
<1>2. CASE Len(p) <= Len(s)
  BY <1>1, <1>2, SamePrefix DEF StartsWith
<1>3. QED
  BY <1>2 DEF StartsWith

LEMMA LessBytes ==
  ASSUME NEW s \in String, NEW t \in String
  PROVE  Less(s, t) <=> \E i \in Nat : FirstLess(s, t, i)
<1> USE DEF String
<1>1. ASSUME StartsWith(t, s), s # t
      PROVE  \E i \in Nat : FirstLess(s, t, i)
  <2>1. Len(s) <= Len(t) /\ \A j \in 1 .. Len(s) : t[j] = s[j]
    BY <1>1, PrefixBytes
  <2>2. Len(s) # Len(t)
    BY <1>1, <2>1, SeqEqual
  <2>3. FirstLess(s, t, Len(s) + 1)
    BY <2>1, <2>2 DEF FirstLess
  <2>4. QED
    BY <2>3
<1>2. ASSUME NEW i \in 1 .. Len(s), i <= Len(t), s[i] < t[i],
             SubSeq(s, 1, i - 1) = SubSeq(t, 1, i - 1)
      PROVE  FirstLess(s, t, i)
  <2>1. i - 1 \in Nat /\ i - 1 <= Len(s) /\ i - 1 <= Len(t)
    BY <1>2
  <2>2. \A j \in 1 .. i - 1 : s[j] = t[j]
    BY <1>2, <2>1, SamePrefix
  <2>3. QED
    BY <1>2, <2>2 DEF FirstLess
<1>3. ASSUME NEW i \in Nat, FirstLess(s, t, i)
      PROVE  Less(s, t)
  <2>1. CASE i = Len(s) + 1
    <3>1. StartsWith(t, s)
      BY <1>3, <2>1, PrefixBytes DEF FirstLess
    <3>2. s # t
      BY <1>3, <2>1 DEF FirstLess
    <3>3. QED
      BY <3>1, <3>2 DEF Less
  <2>2. CASE i # Len(s) + 1
    <3>1. i \in 1 .. Len(s) /\ i <= Len(t) /\ s[i] < t[i] /\ \A j \in 1 .. i - 1 : s[j] = t[j]
      BY <1>3, <2>2 DEF FirstLess
    <3>2. i - 1 \in Nat /\ i - 1 <= Len(s) /\ i - 1 <= Len(t)
      BY <3>1
    <3>3. SubSeq(s, 1, i - 1) = SubSeq(t, 1, i - 1)
      BY <3>1, <3>2, SamePrefix
    <3>4. QED
      BY <3>1, <3>3 DEF Less
  <2>3. QED
    BY <2>1, <2>2
<1>4. QED
  BY <1>1, <1>2, <1>3 DEF Less

\* No string is less than itself.
LEMMA LessIrreflexive ==
  ASSUME NEW s \in String
  PROVE  ~Less(s, s)
<1>1. \A i \in Nat : ~FirstLess(s, s, i)
  BY DEF FirstLess, String
<1>2. QED
  BY <1>1, LessBytes

LEMMA LessTransitive ==
  ASSUME NEW s \in String, NEW t \in String, NEW u \in String, Less(s, t), Less(t, u)
  PROVE  Less(s, u)
<1>1. PICK i \in Nat : FirstLess(s, t, i)
  BY LessBytes
<1>2. PICK j \in Nat : FirstLess(t, u, j)
  BY LessBytes
<1>3. Len(s) \in Nat /\ Len(t) \in Nat /\ Len(u) \in Nat
  BY DEF String
<1>4. CASE i < j
  <2>1. \A k \in 1 .. i - 1 : s[k] = u[k]
    BY <1>1, <1>2, <1>4 DEF FirstLess
  <2>2. i <= Len(u) /\ t[i] = u[i]
    BY <1>1, <1>2, <1>3, <1>4 DEF FirstLess
  <2>3. FirstLess(s, u, i)
    BY <1>1, <2>1, <2>2 DEF FirstLess
  <2>4. QED
    BY <2>3, LessBytes
<1>5. CASE j < i
  <2>1. \A k \in 1 .. j - 1 : s[k] = u[k]
    BY <1>1, <1>2, <1>5 DEF FirstLess
  <2>2. j <= Len(s) /\ s[j] = t[j] /\ j <= Len(t)
    BY <1>1, <1>2, <1>3, <1>5 DEF FirstLess
  <2>3. FirstLess(s, u, j)
    BY <1>2, <1>3, <2>1, <2>2 DEF FirstLess
  <2>4. QED
    BY <2>3, LessBytes
<1>6. CASE i = j
  <2>1. \A k \in 1 .. i - 1 : s[k] = u[k]
    BY <1>1, <1>2, <1>6 DEF FirstLess
  <2>2. i <= Len(t) /\ t[i] < u[i]
    BY <1>1, <1>2, <1>6 DEF FirstLess
  <2>3. i <= Len(s) => s[i] < u[i]
    <3>1. SUFFICES ASSUME i <= Len(s) PROVE s[i] < u[i]
      OBVIOUS
    <3>2. i \in 1 .. Len(s) /\ i \in 1 .. Len(t) /\ i \in 1 .. Len(u) /\ s[i] < t[i]
      BY <1>1, <1>2, <1>3, <1>6, <2>2, <3>1 DEF FirstLess
    <3>3. s[i] \in Nat /\ t[i] \in Nat /\ u[i] \in Nat
      BY <3>2, SMTT(20) DEF String
    <3>4. QED
      BY <2>2, <3>2, <3>3
  <2>4. FirstLess(s, u, i)
    BY <1>1, <1>2, <1>6, <2>1, <2>3 DEF FirstLess
  <2>5. QED
    BY <2>4, LessBytes
<1>7. QED
  BY <1>4, <1>5, <1>6

LEMMA LessTotal ==
  ASSUME NEW s \in String, NEW t \in String
  PROVE  s = t \/ Less(s, t) \/ Less(t, s)
<1> USE DEF String
<1> DEFINE D == {i \in Nat : i >= 1 /\ (i > Len(s) \/ i > Len(t) \/ s[i] # t[i])}
<1>1. SUFFICES ASSUME s # t PROVE Less(s, t) \/ Less(t, s)
  OBVIOUS
<1>2. Len(s) \in Nat /\ Len(t) \in Nat
  OBVIOUS
<1>3. Len(s) + 1 \in D
  BY <1>2
<1>4. PICK i \in D : \A j \in D : i <= j
  <2>1. D \in SUBSET Nat /\ D # {}
    BY <1>3
  <2> HIDE DEF D
  <2>2. QED
    BY <2>1, Least
<1>5. i \in Nat /\ i >= 1 /\ i <= Len(s) + 1
  BY <1>2, <1>3, <1>4
<1>6. \A j \in 1 .. i - 1 : j <= Len(s) /\ j <= Len(t) /\ s[j] = t[j]
  <2>1. SUFFICES ASSUME NEW j \in 1 .. i - 1 PROVE j <= Len(s) /\ j <= Len(t) /\ s[j] = t[j]
    OBVIOUS
  <2>2. j \notin D /\ j \in Nat /\ j >= 1
    BY <1>4, <1>5, <2>1
  <2>3. QED
    BY <1>2, <2>2
<1>7. i <= Len(t) + 1
  <2>1. Len(t) + 1 \in D
    BY <1>2
  <2>2. QED
    BY <1>4, <2>1
<1>8. ~(i > Len(s) /\ i > Len(t))
  <2>1. SUFFICES ASSUME i > Len(s), i > Len(t) PROVE FALSE
    OBVIOUS
  <2>2. Len(s) = i - 1 /\ Len(t) = i - 1
    BY <1>2, <1>5, <1>7, <2>1
  <2>3. QED
    BY <1>1, <1>6, <2>2, SeqEqual
<1>9. CASE i > Len(s)
  <2>1. FirstLess(s, t, i)
    BY <1>2, <1>5, <1>6, <1>8, <1>9 DEF FirstLess
  <2>2. QED
    BY <2>1, LessBytes
<1>10. CASE i > Len(t)
  <2>1. FirstLess(t, s, i)
    BY <1>2, <1>5, <1>6, <1>7, <1>8, <1>10 DEF FirstLess
  <2>2. QED
    BY <2>1, LessBytes
<1>11. CASE i <= Len(s) /\ i <= Len(t)
  <2>1. s[i] # t[i] /\ s[i] \in Nat /\ t[i] \in Nat
    BY <1>2, <1>4, <1>5, <1>11
  <2>2. CASE s[i] < t[i]
    <3>1. FirstLess(s, t, i)
      BY <1>2, <1>5, <1>6, <1>11, <2>2 DEF FirstLess
    <3>2. QED
      BY <3>1, LessBytes
  <2>3. CASE t[i] < s[i]
    <3>1. FirstLess(t, s, i)
      BY <1>2, <1>5, <1>6, <1>11, <2>3 DEF FirstLess
    <3>2. QED
      BY <3>1, LessBytes
  <2>4. QED
    BY <2>1, <2>2, <2>3
<1>12. QED
  BY <1>2, <1>5, <1>9, <1>10, <1>11

\* A string is not before its prefix.
LEMMA PrefixAtMost ==
  ASSUME NEW s \in String, NEW p \in String, StartsWith(s, p)
  PROVE  AtMost(p, s)
BY DEF AtMost, Less

\* What lies between a string and an extension of it is an extension too.
LEMMA PrefixBetween ==
  ASSUME NEW p \in String, NEW s \in String, NEW t \in String,
         StartsWith(t, p), AtMost(p, s), AtMost(s, t)
  PROVE  StartsWith(s, p)
<1>1. Len(p) \in Nat /\ Len(s) \in Nat /\ Len(t) \in Nat
  BY DEF String
<1>2. Len(p) <= Len(t) /\ \A j \in 1 .. Len(p) : t[j] = p[j]
  BY PrefixBytes
<1>3. CASE p = s
  BY <1>1, <1>3, PrefixBytes
<1>4. CASE s = t
  BY <1>4
<1>5. CASE Less(p, s) /\ Less(s, t)
  <2>1. PICK i \in Nat : FirstLess(p, s, i)
    BY <1>5, LessBytes
  <2>2. CASE i = Len(p) + 1
    BY <1>1, <2>1, <2>2, PrefixBytes DEF FirstLess
  <2>3. CASE i <= Len(p)
    <3>1. FirstLess(t, s, i)
      BY <1>1, <1>2, <2>1, <2>3 DEF FirstLess
    <3>2. Less(t, s)
      BY <3>1, LessBytes
    <3>3. QED
      BY <1>5, <3>2, LessTransitive, LessIrreflexive
  <2>4. QED
    BY <1>1, <2>1, <2>2, <2>3 DEF FirstLess
<1>6. QED
  BY <1>3, <1>4, <1>5 DEF AtMost

(***************************************************************************)
(* Groups.                                                                 *)
(***************************************************************************)
Asked == [api : {"v1", "v2"}, prefix : String, delimiter : String, after : String, max : Nat]

LEMMA EndsInKey ==
  ASSUME NEW k \in String, NEW q \in Asked, NEW j
  PROVE  j \in Ends(k, q) <=> /\ j \in Nat /\ Len(q.prefix) + Len(q.delimiter) <= j /\ j <= Len(k)
                              /\ SubSeq(k, j - Len(q.delimiter) + 1, j) = q.delimiter
<1> DEFINE low == Len(q.prefix) + Len(q.delimiter)
           high == Len(k)
           at == SubSeq(k, j - Len(q.delimiter) + 1, j) = q.delimiter
<1>1. low \in Nat /\ high \in Nat
  BY DEF Asked, String
<1>2. j \in Ends(k, q) <=> j \in low .. high /\ at
  BY Zenon DEF Ends
<1> HIDE DEF low, high, at
<1>3. j \in low .. high <=> j \in Nat /\ low <= j /\ j <= high
  BY <1>1
<1>4. QED
  BY <1>2, <1>3 DEF low, high, at

LEMMA EndsBytes ==
  ASSUME NEW k \in String, NEW q \in Asked, NEW j \in Nat
  PROVE  j \in Ends(k, q) <=>
           /\ Len(q.prefix) + Len(q.delimiter) <= j /\ j <= Len(k)
           /\ \A i \in 1 .. Len(q.delimiter) : k[j - Len(q.delimiter) + i] = q.delimiter[i]
<1> DEFINE d == q.delimiter
<1>1. d \in Seq(Nat) /\ Len(d) \in Nat /\ Len(q.prefix) \in Nat /\ Len(k) \in Nat /\ k \in Seq(Nat)
  BY DEF Asked, String
<1>2. SUFFICES ASSUME Len(q.prefix) + Len(d) <= j, j <= Len(k)
               PROVE  SubSeq(k, j - Len(d) + 1, j) = d
                        <=> \A i \in 1 .. Len(d) : k[j - Len(d) + i] = d[i]
  BY <1>1, EndsInKey
<1> HIDE DEF d
<1> DEFINE u == SubSeq(k, j - Len(d) + 1, j)
<1>3. j - Len(d) + 1 \in Int /\ j \in Int /\ \A i \in j - Len(d) + 1 .. j : k[i] \in Nat
  BY <1>1, <1>2, SMTT(20)
<1>4. u \in Seq(Nat) /\ Len(u) = Len(d) /\ \A i \in 1 .. Len(d) : u[i] = k[j - Len(d) + i]
  <2>1. /\ u \in Seq(Nat)
        /\ Len(u) = IF j - Len(d) + 1 <= j THEN j - (j - Len(d) + 1) + 1 ELSE 0
        /\ \A i \in 1 .. j - (j - Len(d) + 1) + 1 : u[i] = k[j - Len(d) + 1 + i - 1]
    BY <1>3, SubSeqProperties
  <2> HIDE DEF u
  <2>2. QED
    BY <1>1, <2>1
<1> HIDE DEF u
<1>5. u = d <=> \A i \in 1 .. Len(d) : u[i] = d[i]
  BY <1>1, <1>4, SeqEqual
<1>6. QED
  BY <1>4, <1>5 DEF u

\* The group of a key is its shortest extension of the prefix that ends in the delimiter.
LEMMA GroupEnd ==
  ASSUME NEW k \in String, NEW q \in Asked, Grouped(k, q)
  PROVE  \E e \in Ends(k, q) : /\ e \in Nat /\ Len(q.prefix) < e /\ e <= Len(k)
                               /\ \A i \in Ends(k, q) : e <= i
                               /\ Group(k, q) = SubSeq(k, 1, e)
                               /\ Group(k, q) \in String /\ Len(Group(k, q)) = e
                               /\ \A i \in 1 .. e : Group(k, q)[i] = k[i]
<1>1. q.delimiter \in Seq(Nat) /\ Len(q.delimiter) \in Nat /\ Len(q.prefix) \in Nat /\ Len(k) \in Nat
  BY DEF Asked, String
<1>2. Len(q.delimiter) > 0
  BY <1>1, EmptySeq DEF Grouped
<1>3. Ends(k, q) \in SUBSET Nat /\ Ends(k, q) # {}
  BY EndsInKey DEF Grouped
<1>4. \E e \in Ends(k, q) : \A i \in Ends(k, q) : e <= i
  BY <1>3, Least
<1> DEFINE e == CHOOSE j \in Ends(k, q) : \A i \in Ends(k, q) : j <= i
<1>5. e \in Ends(k, q) /\ \A i \in Ends(k, q) : e <= i
  BY <1>4
<1>6. Group(k, q) = SubSeq(k, 1, e)
  BY DEF Group
<1> HIDE DEF e
<1>7. e \in Nat /\ Len(q.prefix) < e /\ e <= Len(k)
  <2>1. e \in Nat /\ Len(q.prefix) + Len(q.delimiter) <= e /\ e <= Len(k)
    BY <1>5, EndsInKey
  <2> DEFINE m == Len(q.prefix)
             n == Len(q.delimiter)
  <2>2. m \in Nat /\ n \in Nat /\ n > 0 /\ m + n <= e
    BY <1>1, <1>2, <2>1
  <2> HIDE DEF m, n
  <2>3. m < e
    BY <2>1, <2>2
  <2>4. QED
    BY <2>1, <2>3 DEF m
<1>8. /\ SubSeq(k, 1, e) \in Seq(Nat) /\ Len(SubSeq(k, 1, e)) = e
      /\ \A i \in 1 .. e : SubSeq(k, 1, e)[i] = k[i]
  BY <1>1, <1>7 DEF String
<1>9. QED
  BY <1>5, <1>6, <1>7, <1>8 DEF String

LEMMA GroupIsPrefix ==
  ASSUME NEW k \in String, NEW q \in Asked, Grouped(k, q)
  PROVE  /\ Group(k, q) \in String
         /\ StartsWith(k, Group(k, q))
         /\ AtMost(Group(k, q), k)
<1>1. PICK e \in Nat : /\ e <= Len(k) /\ Group(k, q) \in String /\ Len(Group(k, q)) = e
                       /\ \A i \in 1 .. e : Group(k, q)[i] = k[i]
  BY GroupEnd
<1>2. StartsWith(k, Group(k, q))
  BY <1>1, PrefixBytes
<1>3. QED
  BY <1>1, <1>2, PrefixAtMost

\* Whatever starts with a group is in the group.
LEMMA GroupShared ==
  ASSUME NEW k \in String, NEW x \in String, NEW q \in Asked, Grouped(k, q),
         StartsWith(x, Group(k, q))
  PROVE  Grouped(x, q) /\ Group(x, q) = Group(k, q)
<1> DEFINE d == q.delimiter
<1>1. PICK e \in Ends(k, q) : /\ e \in Nat /\ Len(q.prefix) < e /\ e <= Len(k)
                              /\ \A i \in Ends(k, q) : e <= i
                              /\ Group(k, q) = SubSeq(k, 1, e)
                              /\ Group(k, q) \in String /\ Len(Group(k, q)) = e
                              /\ \A i \in 1 .. e : Group(k, q)[i] = k[i]
  BY GroupEnd
<1>2. e <= Len(x) /\ \A i \in 1 .. e : x[i] = k[i]
  BY <1>1, PrefixBytes
<1>3. Len(d) \in Nat /\ Len(q.prefix) \in Nat /\ Len(k) \in Nat /\ Len(x) \in Nat
  BY DEF Asked, String
<1>4. ASSUME NEW j \in 1 .. e
      PROVE  j \in Ends(x, q) <=> j \in Ends(k, q)
  <2>1. j \in Nat /\ j <= Len(x) /\ j <= Len(k)
    BY <1>1, <1>2, <1>3
  <2>2. ASSUME Len(q.prefix) + Len(d) <= j, NEW i \in 1 .. Len(d)
        PROVE  x[j - Len(d) + i] = k[j - Len(d) + i]
    <3> DEFINE n == Len(d)
    <3>1. n \in Nat /\ Len(q.prefix) \in Nat /\ Len(q.prefix) + n <= j /\ i \in 1 .. n
      BY <1>3, <2>2
    <3> HIDE DEF n
    <3>2. j - n + i \in 1 .. e
      BY <1>1, <3>1
    <3>3. QED
      BY <1>2, <3>2 DEF n
  <2> HIDE DEF d
  <2>3. /\ j \in Ends(x, q) <=> /\ Len(q.prefix) + Len(d) <= j /\ j <= Len(x)
                                /\ \A i \in 1 .. Len(d) : x[j - Len(d) + i] = d[i]
        /\ j \in Ends(k, q) <=> /\ Len(q.prefix) + Len(d) <= j /\ j <= Len(k)
                                /\ \A i \in 1 .. Len(d) : k[j - Len(d) + i] = d[i]
    BY <2>1, EndsBytes DEF d
  <2>4. QED
    BY <2>1, <2>2, <2>3
<1>5. e \in Ends(x, q)
  BY <1>1, <1>3, <1>4
<1>6. Grouped(x, q)
  BY <1>5 DEF Grouped
<1>7. PICK f \in Ends(x, q) : /\ f \in Nat /\ Len(q.prefix) < f /\ f <= Len(x)
                              /\ \A i \in Ends(x, q) : f <= i
                              /\ Group(x, q) = SubSeq(x, 1, f)
  BY <1>6, GroupEnd
<1>8. f = e
  <2>1. f <= e /\ f \in 1 .. e
    BY <1>1, <1>3, <1>5, <1>7
  <2>2. f \in Ends(k, q)
    BY <1>4, <1>7, <2>1
  <2>3. QED
    BY <1>1, <1>7, <2>1, <2>2
<1>9. SubSeq(x, 1, e) = SubSeq(k, 1, e)
  BY <1>1, <1>2, SamePrefix
<1>10. QED
  BY <1>1, <1>6, <1>7, <1>8, <1>9

\* A group starts with the prefix asked for and ends in the delimiter.
LEMMA GroupShape ==
  ASSUME NEW k \in String, NEW q \in Asked, Grouped(k, q), StartsWith(k, q.prefix)
  PROVE  StartsWith(Group(k, q), q.prefix) /\ EndsWith(Group(k, q), q.delimiter)
<1> DEFINE d == q.delimiter
           g == Group(k, q)
<1>1. PICK e \in Ends(k, q) : /\ e \in Nat /\ Len(q.prefix) < e /\ e <= Len(k)
                              /\ g \in String /\ Len(g) = e
                              /\ \A i \in 1 .. e : g[i] = k[i]
  BY GroupEnd
<1>2. Len(d) \in Nat /\ Len(q.prefix) \in Nat /\ Len(k) \in Nat /\ q.prefix \in String /\ d \in String
  BY DEF Asked, String
<1>3. \A j \in 1 .. Len(q.prefix) : k[j] = q.prefix[j]
  BY <1>2, PrefixBytes
<1> HIDE DEF g
<1>4. StartsWith(g, q.prefix)
  BY <1>1, <1>2, <1>3, PrefixBytes
<1>5. Len(q.prefix) + Len(d) <= e /\ \A i \in 1 .. Len(d) : k[e - Len(d) + i] = d[i]
  BY <1>1, EndsBytes
<1> HIDE DEF d
<1>6. e \in Ends(g, q)
  <2>1. ASSUME NEW i \in 1 .. Len(d) PROVE g[e - Len(d) + i] = d[i]
    <3> DEFINE n == Len(d)
    <3>1. /\ n \in Nat /\ Len(q.prefix) \in Nat /\ Len(q.prefix) + n <= e /\ i \in 1 .. n
          /\ k[e - n + i] = d[i]
      BY <1>2, <1>5
    <3> HIDE DEF n
    <3>2. e - n + i \in 1 .. e
      BY <1>1, <3>1
    <3>3. QED
      BY <1>1, <3>1, <3>2 DEF n
  <2>2. e <= Len(g) /\ q.delimiter = d /\ e \in Nat
    BY <1>1 DEF d
  <2>3. QED
    BY <1>1, <1>5, <2>1, <2>2, EndsBytes
<1>7. EndsWith(g, d)
  <2>1. SubSeq(g, e - Len(d) + 1, e) = d
    BY <1>1, <1>6, EndsInKey DEF d
  <2>2. Len(d) <= e
    BY <1>1, <1>2, <1>5
  <2>3. QED
    BY <1>1, <2>1, <2>2 DEF EndsWith
<1>8. QED
  BY <1>4, <1>7 DEF g, d

(***************************************************************************)
(* Items.                                                                  *)
(***************************************************************************)
Items == {"key", "group"} \X String

LEMMA ItemOfKey ==
  ASSUME NEW k \in String, NEW q \in Asked
  PROVE  /\ Item(k, q) \in Items
         /\ Item(k, q)[2] \in String
         /\ AtMost(Item(k, q)[2], k)
<1>1. CASE Grouped(k, q)
  BY <1>1, GroupIsPrefix DEF Item, Items
<1>2. CASE ~Grouped(k, q)
  BY <1>2 DEF Item, Items, AtMost
<1>3. QED
  BY <1>1, <1>2

\* Keys in order have items in order, or share their group.
LEMMA ItemsInOrder ==
  ASSUME NEW a \in String, NEW b \in String, NEW q \in Asked, Less(a, b)
  PROVE  Item(a, q) = Item(b, q) \/ Less(Item(a, q)[2], Item(b, q)[2])
<1>1. Item(a, q)[2] \in String /\ AtMost(Item(a, q)[2], a)
  BY ItemOfKey
<1>2. CASE ~Grouped(b, q)
  <2>1. Item(b, q)[2] = b
    BY <1>2 DEF Item
  <2>2. QED
    BY <1>1, <2>1, LessTransitive DEF AtMost
<1>3. CASE Grouped(b, q)
  <2> DEFINE g == Group(b, q)
  <2>1. Item(b, q) = <<"group", g>> /\ g \in String /\ StartsWith(b, g)
    BY <1>3, GroupIsPrefix DEF Item
  <2> HIDE DEF g
  <2>2. CASE Less(a, g)
    BY <1>1, <2>1, <2>2, LessTransitive DEF AtMost
  <2>3. CASE AtMost(g, a)
    <3>1. StartsWith(a, g)
      BY <2>1, <2>3, PrefixBetween DEF AtMost
    <3>2. Grouped(a, q) /\ Group(a, q) = g
      BY <1>3, <3>1, GroupShared DEF g
    <3>3. QED
      BY <2>1, <3>2 DEF Item
  <2>4. QED
    BY <2>1, <2>2, <2>3, LessTotal DEF AtMost
<1>4. QED
  BY <1>2, <1>3

\* The item of a key beyond a position is beyond it too, unless the position is in
\* the key's group.
LEMMA ItemBeyond ==
  ASSUME NEW k \in String, NEW q \in Asked, NEW p \in String, Less(p, k)
  PROVE  \/ Less(p, Item(k, q)[2])
         \/ Grouped(k, q) /\ AtMost(Group(k, q), p) /\ StartsWith(p, Group(k, q))
<1>1. CASE ~Grouped(k, q)
  BY <1>1 DEF Item
<1>2. CASE Grouped(k, q)
  <2>1. Item(k, q)[2] = Group(k, q) /\ Group(k, q) \in String /\ StartsWith(k, Group(k, q))
    BY <1>2, GroupIsPrefix DEF Item
  <2>2. CASE AtMost(Group(k, q), p)
    BY <1>2, <2>1, <2>2, PrefixBetween DEF AtMost
  <2>3. QED
    BY <2>1, <2>2, LessTotal DEF AtMost
<1>3. QED
  BY <1>1, <1>2

(***************************************************************************)
(* The keys in byte order.                                                 *)
(***************************************************************************)

\* Sorted enumerates a finite set of keys in byte order.
LEMMA SortedInOrder ==
  ASSUME NEW keys \in SUBSET String, IsFiniteSet(keys)
  PROVE  /\ Sorted(keys) \in Seq(keys) /\ Len(Sorted(keys)) \in Nat
         /\ \A i \in 1 .. Len(Sorted(keys)) : Sorted(keys)[i] \in keys
         /\ \A i, j \in 1 .. Len(Sorted(keys)) : i < j => Less(Sorted(keys)[i], Sorted(keys)[j])
         /\ \A k \in keys : \E i \in 1 .. Len(Sorted(keys)) : Sorted(keys)[i] = k
<1> DEFINE Below(k) == {j \in keys : Less(j, k)}
           Rank(k) == Cardinality(Below(k))
           n == Cardinality(keys)
           all == Sorted(keys)
<1>1. n \in Nat
  BY FS_CardinalityType
<1>2. ASSUME NEW k \in keys
      PROVE  IsFiniteSet(Below(k)) /\ Rank(k) \in Nat /\ Rank(k) < n
  <2>1. Below(k) \in SUBSET keys /\ k \notin Below(k)
    BY LessIrreflexive
  <2> HIDE DEF Below
  <2>2. IsFiniteSet(Below(k)) /\ Rank(k) <= n /\ Rank(k) # n
    BY <2>1, FS_Subset
  <2>3. Rank(k) \in Nat
    BY <2>2, FS_CardinalityType
  <2> HIDE DEF Rank, n
  <2>4. QED
    BY <1>1, <2>2, <2>3
<1>3. ASSUME NEW a \in keys, NEW b \in keys, Less(a, b)
      PROVE  Rank(a) < Rank(b)
  <2>1. Below(a) \in SUBSET Below(b)
    <3>1. ASSUME NEW j \in keys, Less(j, a) PROVE Less(j, b)
      BY <1>3, <3>1, LessTransitive
    <3>2. QED
      BY <3>1
  <2>2. a \in Below(b) /\ a \notin Below(a)
    BY <1>3, LessIrreflexive
  <2>3. IsFiniteSet(Below(b)) /\ Rank(a) \in Nat /\ Rank(b) \in Nat
    BY <1>2
  <2> HIDE DEF Below
  <2>4. Rank(a) <= Rank(b) /\ Rank(a) # Rank(b)
    BY <2>1, <2>2, <2>3, FS_Subset
  <2> HIDE DEF Rank
  <2>5. QED
    BY <2>3, <2>4
<1> DEFINE r == [k \in keys |-> Rank(k) + 1]
<1>4. ASSUME NEW a \in keys, NEW b \in keys, Rank(a) = Rank(b)
      PROVE  a = b
  <2>1. Rank(a) \in Nat /\ Rank(b) \in Nat
    BY <1>2
  <2>2. ~Less(a, b) /\ ~Less(b, a)
    <3> HIDE DEF Rank
    <3>1. QED
      BY <1>3, <1>4, <2>1
  <2>3. QED
    BY <2>2, LessTotal
<1>5. \A i \in 1 .. n : \E k \in keys : Rank(k) = i - 1
  <2> HIDE DEF Rank
  <2>1. r \in [keys -> 1 .. n]
    <3> HIDE DEF n
    <3>1. ASSUME NEW k \in keys PROVE Rank(k) + 1 \in 1 .. n
      <4> DEFINE m == Rank(k)
      <4>1. m \in Nat /\ m < n
        BY <1>2
      <4> HIDE DEF m
      <4>2. m + 1 \in 1 .. n
        BY <1>1, <4>1
      <4>3. QED
        BY <4>2 DEF m
    <3>2. QED
      BY <3>1
  <2>2. \A a, b \in keys : r[a] = r[b] => a = b
    <3>1. ASSUME NEW a \in keys, NEW b \in keys, Rank(a) + 1 = Rank(b) + 1
          PROVE  Rank(a) = Rank(b)
      <4> DEFINE m == Rank(a)
                 o == Rank(b)
      <4>1. m \in Nat /\ o \in Nat /\ m + 1 = o + 1
        BY <1>2, <3>1
      <4> HIDE DEF m, o
      <4>2. m = o
        BY <4>1
      <4>3. QED
        BY <4>2 DEF m, o
    <3>2. QED
      BY <1>4, <3>1
  <2>3. r \in Injection(keys, 1 .. n)
    <3> HIDE DEF r
    <3>1. QED
      BY <2>1, <2>2 DEF Injection, IsInjective
  <2>4. IsFiniteSet(1 .. n) /\ Cardinality(1 .. n) = n
    <3> HIDE DEF n
    <3>1. QED
      BY <1>1, FS_Interval
  <2>5. r \in Surjection(keys, 1 .. n)
    <3> HIDE DEF r
    <3>1. QED
      BY <2>3, <2>4, FS_Injection
  <2>6. \A i \in 1 .. n : \E k \in keys : r[k] = i
    <3> HIDE DEF r, n
    <3>1. QED
      BY <2>5 DEF Surjection
  <2>7. ASSUME NEW i \in 1 .. n PROVE \E k \in keys : Rank(k) = i - 1
    <3>1. PICK k \in keys : Rank(k) + 1 = i
      BY <2>6
    <3> DEFINE m == Rank(k)
    <3>2. m \in Nat /\ m + 1 = i
      BY <1>2, <3>1
    <3> HIDE DEF m
    <3>3. m = i - 1
      BY <3>2
    <3>4. QED
      BY <3>3 DEF m
  <2>8. QED
    BY <2>7
<1>6. all = [i \in 1 .. n |-> CHOOSE k \in keys : Rank(k) = i - 1]
  BY DEF Sorted
<1> HIDE DEF Rank, all
<1>7. all \in [1 .. n -> keys] /\ \A i \in 1 .. n : all[i] \in keys /\ Rank(all[i]) = i - 1
  <2>1. \A i \in 1 .. n : /\ (CHOOSE k \in keys : Rank(k) = i - 1) \in keys
                          /\ Rank(CHOOSE k \in keys : Rank(k) = i - 1) = i - 1
    BY <1>5
  <2>2. QED
    BY <1>6, <2>1
<1> HIDE DEF n
<1>8. all \in Seq(keys) /\ Len(all) = n
  BY <1>1, <1>7
<1>9. ASSUME NEW i \in 1 .. n, NEW j \in 1 .. n, i < j
      PROVE  Less(all[i], all[j])
  <2>1. /\ all[i] \in keys /\ Rank(all[i]) = i - 1
        /\ all[j] \in keys /\ Rank(all[j]) = j - 1
    BY <1>7
  <2>2. i \in Nat /\ j \in Nat /\ i - 1 < j - 1 /\ ~(j - 1 < i - 1)
    BY <1>9
  <2>3. all[i] # all[j]
    BY <2>1, <2>2
  <2>4. ~Less(all[j], all[i])
    BY <1>3, <2>1, <2>2
  <2>5. QED
    BY <2>1, <2>3, <2>4, LessTotal
<1>10. ASSUME NEW k \in keys
       PROVE  \E i \in 1 .. n : all[i] = k
  <2> DEFINE m == Rank(k)
  <2>1. m \in Nat /\ m < n
    BY <1>2
  <2> HIDE DEF m
  <2>2. PICK i \in 1 .. n : i - 1 = m
    BY <1>1, <2>1
  <2>3. all[i] \in keys /\ Rank(all[i]) = m
    BY <1>7, <2>2
  <2>4. all[i] = k
    BY <1>4, <2>3 DEF m
  <2>5. QED
    BY <2>4
<1>11. QED
  BY <1>1, <1>7, <1>8, <1>9, <1>10 DEF all

(***************************************************************************)
(* A page.                                                                 *)
(***************************************************************************)

\* The token says that the key's group was listed before.
TokenHas(k, q, p) == /\ Grouped(k, q) /\ p # <<>> /\ AtMost(Group(k, q), p)
                     /\ StartsWith(p, q.prefix) /\ EndsWith(p, q.delimiter)

\* A page that starts after p has something to say of the key.
Due(k, q, p) == ~Skipped(k, q, p) /\ ~TokenHas(k, q, p)

Increasing(items) == \A i, j \in 1 .. Len(items) : i < j => Less(items[i][2], items[j][2])
Has(items, item) == \E i \in 1 .. Len(items) : items[i] = item

\* The page holds the items of the keys due among the first m, in order.
Collected(page, all, q, p, m) ==
  /\ page \in [items : Seq(Items), truncated : BOOLEAN]
  /\ Len(page.items) <= q.max
  /\ page.truncated => Len(page.items) = q.max
  /\ Increasing(page.items)
  /\ \A i \in 1 .. Len(page.items) :
       \E j \in 1 .. m : Due(all[j], q, p) /\ page.items[i] = Item(all[j], q)
  /\ \A j \in 1 .. m : Due(all[j], q, p) => Has(page.items, Item(all[j], q))

Scanned(page, all, q, p, n) ==
  \E m \in 0 .. n : Collected(page, all, q, p, m) /\ (~page.truncated => m = n)

LEMMA EmptyPage ==
  ASSUME NEW all, NEW q \in Asked, NEW p
  PROVE  Scanned([items |-> <<>>, truncated |-> FALSE], all, q, p, 0)
<1> DEFINE page == [items |-> <<>>, truncated |-> FALSE]
<1>1. page \in [items : Seq(Items), truncated : BOOLEAN] /\ page.items = <<>> /\ ~page.truncated
  OBVIOUS
<1>2. q.max \in Nat /\ Len(<<>>) = 0
  BY DEF Asked
<1> HIDE DEF page
<1>3. Increasing(page.items)
  BY <1>1, <1>2 DEF Increasing
<1>4. Collected(page, all, q, p, 0)
  BY <1>1, <1>2, <1>3 DEF Collected
<1>5. Scanned(page, all, q, p, 0)
  BY <1>1, <1>4 DEF Scanned
<1>6. QED
  BY <1>5 DEF page

LEMMA KnownMeans ==
  ASSUME NEW items, NEW k, NEW q, NEW p
  PROVE  Known(items, k, q, p) <=> TokenHas(k, q, p) \/ (Grouped(k, q) /\ Has(items, Item(k, q)))
BY DEF Known, TokenHas, Has

\* The item of the next key is after those of the page, unless the page has it.
LEMMA NextItem ==
  ASSUME NEW items \in Seq(Items), NEW q \in Asked, NEW k \in String,
         \A i \in 1 .. Len(items) : \E a \in String : Less(a, k) /\ items[i] = Item(a, q),
         ~(Grouped(k, q) /\ Has(items, Item(k, q)))
  PROVE  \A i \in 1 .. Len(items) : Less(items[i][2], Item(k, q)[2])
<1>1. SUFFICES ASSUME NEW i \in 1 .. Len(items) PROVE Less(items[i][2], Item(k, q)[2])
  OBVIOUS
<1>2. PICK a \in String : Less(a, k) /\ items[i] = Item(a, q)
  OBVIOUS
<1>3. CASE Item(a, q) = Item(k, q)
  <2>1. ~Grouped(k, q)
    BY <1>2, <1>3 DEF Has
  <2>2. Item(k, q) = <<"key", k>>
    BY <2>1 DEF Item
  <2>3. Item(a, q) = <<"key", a>>
    BY <1>3, <2>2 DEF Item
  <2>4. QED
    BY <1>2, <1>3, <2>2, <2>3, LessIrreflexive
<1>4. QED
  BY <1>2, <1>3, ItemsInOrder

LEMMA TakeCollects ==
  ASSUME NEW all, NEW n \in Nat, NEW q \in Asked, NEW p \in String, NEW page,
         \A i \in 1 .. n + 1 : all[i] \in String,
         \A i, j \in 1 .. n + 1 : i < j => Less(all[i], all[j]),
         Scanned(page, all, q, p, n)
  PROVE  Scanned(Take(page, all[n + 1], q, p), all, q, p, n + 1)
<1> DEFINE k == all[n + 1]
<1>1. PICK m \in 0 .. n : Collected(page, all, q, p, m) /\ (~page.truncated => m = n)
  BY DEF Scanned
<1>2. /\ page \in [items : Seq(Items), truncated : BOOLEAN] /\ q.max \in Nat /\ Len(page.items) \in Nat
      /\ k \in String /\ m \in 0 .. n + 1
  BY <1>1 DEF Collected, Asked
<1>3. CASE page.truncated
  <2>1. Take(page, k, q, p) = page
    BY <1>3 DEF Take
  <2>2. Scanned(page, all, q, p, n + 1)
    BY <1>1, <1>2, <1>3 DEF Scanned
  <2>3. QED
    BY <2>1, <2>2
<1>4. CASE ~page.truncated /\ (Skipped(k, q, p) \/ Known(page.items, k, q, p))
  <2>1. Take(page, k, q, p) = page
    BY <1>4 DEF Take
  <2>2. Due(k, q, p) => Has(page.items, Item(k, q))
    BY <1>4, KnownMeans DEF Due
  <2>3. m = n
    BY <1>1, <1>4
  <2>4. ASSUME NEW j \in 1 .. n + 1, Due(all[j], q, p) PROVE Has(page.items, Item(all[j], q))
    <3>1. CASE j = n + 1
      BY <2>2, <2>4, <3>1
    <3>2. CASE j \in 1 .. n
      BY <1>1, <2>3, <2>4, <3>2 DEF Collected
    <3>3. QED
      BY <3>1, <3>2
  <2>5. ASSUME NEW i \in 1 .. Len(page.items)
        PROVE  \E j \in 1 .. n + 1 : Due(all[j], q, p) /\ page.items[i] = Item(all[j], q)
    <3>1. PICK j \in 1 .. n : Due(all[j], q, p) /\ page.items[i] = Item(all[j], q)
      BY <1>1, <2>3 DEF Collected
    <3>2. j \in 1 .. n + 1
      OBVIOUS
    <3>3. QED
      BY <3>1, <3>2
  <2>6. Collected(page, all, q, p, n + 1)
    BY <1>1, <2>4, <2>5 DEF Collected
  <2>7. QED
    BY <2>1, <2>6 DEF Scanned
<1>5. CASE ~page.truncated /\ ~Skipped(k, q, p) /\ ~Known(page.items, k, q, p) /\ Len(page.items) >= q.max
  <2> DEFINE full == [page EXCEPT !.truncated = TRUE]
  <2>1. Take(page, k, q, p) = full
    BY <1>5 DEF Take
  <2>2. full.items = page.items /\ full.truncated /\ full \in [items : Seq(Items), truncated : BOOLEAN]
    BY <1>2
  <2>3. Len(page.items) = q.max
    BY <1>1, <1>2, <1>5 DEF Collected
  <2> HIDE DEF full
  <2>4. Collected(full, all, q, p, m)
    BY <1>1, <1>2, <2>2, <2>3 DEF Collected
  <2>5. QED
    BY <1>2, <2>1, <2>2, <2>4 DEF Scanned
<1>6. CASE ~page.truncated /\ ~Skipped(k, q, p) /\ ~Known(page.items, k, q, p) /\ Len(page.items) < q.max
  <2> DEFINE more == Append(page.items, Item(k, q))
             next == [page EXCEPT !.items = Append(@, Item(k, q))]
             l == Len(page.items)
  <2>1. Take(page, k, q, p) = next
    BY <1>2, <1>6 DEF Take
  <2>2. Item(k, q) \in Items
    BY <1>2, ItemOfKey
  <2>3. /\ more \in Seq(Items) /\ l \in Nat /\ Len(more) = l + 1 /\ more[l + 1] = Item(k, q)
        /\ \A i \in 1 .. l : more[i] = page.items[i]
    BY <1>2, <2>2, AppendProperties
  <2>4. next.items = more /\ ~next.truncated /\ next \in [items : Seq(Items), truncated : BOOLEAN]
    BY <1>2, <1>6, <2>3
  <2>5. m = n /\ Due(k, q, p) /\ ~(Grouped(k, q) /\ Has(page.items, Item(k, q)))
    BY <1>1, <1>6, KnownMeans DEF Due
  <2>6. ASSUME NEW i \in 1 .. l
        PROVE  \E j \in 1 .. n : Due(all[j], q, p) /\ page.items[i] = Item(all[j], q)
    BY <1>1, <2>5 DEF Collected
  <2> HIDE DEF next, more
  <2>7. \A i \in 1 .. l : Less(page.items[i][2], Item(k, q)[2])
    <3>1. ASSUME NEW i \in 1 .. l
          PROVE  \E a \in String : Less(a, k) /\ page.items[i] = Item(a, q)
      <4>1. PICK j \in 1 .. n : page.items[i] = Item(all[j], q)
        BY <2>6
      <4>2. j \in 1 .. n + 1 /\ n + 1 \in 1 .. n + 1 /\ j < n + 1
        OBVIOUS
      <4>3. all[j] \in String /\ Less(all[j], k)
        BY <4>2
      <4>4. QED
        BY <4>1, <4>3
    <3> HIDE DEF k
    <3>2. QED
      BY <1>2, <2>5, <3>1, NextItem
  <2>8. Increasing(more)
    <3>1. SUFFICES ASSUME NEW i \in 1 .. l + 1, NEW j \in 1 .. l + 1, i < j
                   PROVE  Less(more[i][2], more[j][2])
      BY <2>3 DEF Increasing
    <3>2. i \in 1 .. l /\ more[i] = page.items[i]
      BY <2>3, <3>1
    <3>3. CASE j = l + 1
      BY <2>3, <2>7, <3>2, <3>3
    <3>4. CASE j \in 1 .. l
      BY <1>1, <2>3, <3>1, <3>2, <3>4 DEF Collected, Increasing
    <3>5. QED
      BY <2>3, <3>3, <3>4
  <2>9. ASSUME NEW i \in 1 .. Len(more)
        PROVE  \E j \in 1 .. n + 1 : Due(all[j], q, p) /\ more[i] = Item(all[j], q)
    <3>1. CASE i = l + 1
      BY <2>3, <2>5, <3>1
    <3>2. CASE i \in 1 .. l
      <4>1. PICK j \in 1 .. n : Due(all[j], q, p) /\ page.items[i] = Item(all[j], q)
        BY <2>6, <3>2
      <4>2. j \in 1 .. n + 1
        OBVIOUS
      <4>3. QED
        BY <2>3, <3>2, <4>1, <4>2
    <3>3. QED
      BY <2>3, <3>1, <3>2
  <2>10. ASSUME NEW j \in 1 .. n + 1, Due(all[j], q, p) PROVE Has(more, Item(all[j], q))
    <3>1. CASE j = n + 1
      BY <2>3, <3>1 DEF Has
    <3>2. CASE j \in 1 .. n
      <4>1. PICK i \in 1 .. l : page.items[i] = Item(all[j], q)
        BY <1>1, <2>5, <2>10, <3>2 DEF Collected, Has
      <4>2. i \in 1 .. Len(more) /\ more[i] = Item(all[j], q)
        BY <2>3, <4>1
      <4>3. QED
        BY <4>2 DEF Has
    <3>3. QED
      BY <3>1, <3>2
  <2>11. Collected(next, all, q, p, n + 1)
    BY <1>2, <1>6, <2>3, <2>4, <2>8, <2>9, <2>10 DEF Collected
  <2>12. QED
    BY <2>1, <2>4, <2>11 DEF Scanned
<1>7. QED
  BY <1>2, <1>3, <1>4, <1>5, <1>6

\* The scan of Page, over the first n keys.
IsScan(f, all, q, p, n) ==
  f = [i \in 0 .. n |-> IF i = 0 THEN [items |-> <<>>, truncated |-> FALSE]
                        ELSE Take(f[i - 1], all[i], q, p)]

LEMMA ScanExists ==
  ASSUME NEW all, NEW q, NEW p
  PROVE  \A n \in Nat : \E f : IsScan(f, all, q, p, n)
<1> DEFINE S == {n \in Nat : \E f : IsScan(f, all, q, p, n)}
           Empty == [items |-> <<>>, truncated |-> FALSE]
<1>1. 0 \in S
  <2>1. IsScan([i \in 0 .. 0 |-> Empty], all, q, p, 0)
    BY DEF IsScan
  <2>2. QED
    BY <2>1
<1>2. ASSUME NEW n \in Nat, n \in S
      PROVE  n + 1 \in S
  <2>1. PICK f : f = [i \in 0 .. n |-> IF i = 0 THEN Empty ELSE Take(f[i - 1], all[i], q, p)]
    BY <1>2 DEF IsScan
  <2> DEFINE g == [i \in 0 .. n + 1 |-> IF i = n + 1 THEN Take(f[n], all[n + 1], q, p) ELSE f[i]]
  <2>2. \A i \in 0 .. n : g[i] = f[i]
    OBVIOUS
  <2>3. g[n + 1] = Take(g[n], all[n + 1], q, p)
    OBVIOUS
  <2>4. \A i \in 0 .. n + 1 : g[i] = IF i = 0 THEN Empty ELSE Take(g[i - 1], all[i], q, p)
    <3>1. ASSUME NEW i \in 0 .. n
          PROVE  g[i] = IF i = 0 THEN Empty ELSE Take(g[i - 1], all[i], q, p)
      <4>1. f[i] = IF i = 0 THEN Empty ELSE Take(f[i - 1], all[i], q, p)
        BY <2>1
      <4>2. CASE i = 0
        BY <2>2, <4>1, <4>2
      <4>3. CASE i # 0
        <5>1. i - 1 \in 0 .. n
          BY <4>3
        <5>2. f[i - 1] = g[i - 1]
          BY <2>2, <5>1
        <5> HIDE DEF g
        <5>3. QED
          BY <2>2, <4>1, <4>3, <5>2
      <4>4. QED
        BY <4>2, <4>3
    <3>2. n + 1 # 0 /\ n + 1 - 1 = n
      OBVIOUS
    <3> HIDE DEF g
    <3>3. QED
      BY <2>3, <3>1, <3>2
  <2>5. g = [i \in 0 .. n + 1 |-> g[i]]
    OBVIOUS
  <2> HIDE DEF g
  <2>6. IsScan(g, all, q, p, n + 1)
    BY <2>4, <2>5 DEF IsScan
  <2>7. QED
    BY <2>6
<1>3. Nat \subseteq S
  <2> HIDE DEF S
  <2>1. QED
    BY <1>1, <1>2, SetInduction
<1>4. QED
  BY <1>3

LEMMA PageIsScan ==
  ASSUME NEW keys, NEW q, NEW p, Len(Sorted(keys)) \in Nat
  PROVE  \E scan : /\ IsScan(scan, Sorted(keys), q, p, Len(Sorted(keys)))
                   /\ Page(keys, q, p) = scan[Len(Sorted(keys))]
<1> DEFINE all == Sorted(keys)
           G(f) == f = [i \in 0 .. Len(all) |-> IF i = 0 THEN [items |-> <<>>, truncated |-> FALSE]
                                                ELSE Take(f[i - 1], all[i], q, p)]
<1>1. \E f : IsScan(f, all, q, p, Len(all))
  <2> HIDE DEF all
  <2>1. Len(all) \in Nat
    BY DEF all
  <2>2. QED
    BY <2>1, ScanExists
<1>2. \E f : G(f)
  <2> HIDE DEF all
  <2>1. QED
    BY <1>1 DEF IsScan
<1>3. G(CHOOSE f : G(f))
  <2> HIDE DEF G
  <2>1. QED
    BY <1>2
<1>4. Page(keys, q, p) = (CHOOSE f : G(f))[Len(all)]
  BY Zenon DEF Page
<1> DEFINE scan == CHOOSE f : G(f)
<1>5. IsScan(scan, all, q, p, Len(all))
  <2> HIDE DEF all, scan
  <2>1. G(scan)
    BY <1>3 DEF scan
  <2>2. QED
    BY <2>1 DEF IsScan
<1> HIDE DEF G
<1>6. QED
  BY <1>4, <1>5

LEMMA ScanCollects ==
  ASSUME NEW all, NEW last \in Nat, NEW q \in Asked, NEW p \in String, NEW scan,
         \A i \in 1 .. last : all[i] \in String,
         \A i, j \in 1 .. last : i < j => Less(all[i], all[j]),
         IsScan(scan, all, q, p, last)
  PROVE  Scanned(scan[last], all, q, p, last)
<1> DEFINE S == {n \in Nat : n <= last => Scanned(scan[n], all, q, p, n)}
<1>1. 0 \in S
  <2>1. scan[0] = [items |-> <<>>, truncated |-> FALSE]
    BY DEF IsScan
  <2>2. QED
    BY <2>1, EmptyPage
<1>2. ASSUME NEW n \in Nat, n \in S
      PROVE  n + 1 \in S
  <2>1. SUFFICES ASSUME n + 1 <= last PROVE Scanned(scan[n + 1], all, q, p, n + 1)
    OBVIOUS
  <2>2. Scanned(scan[n], all, q, p, n)
    BY <1>2, <2>1
  <2>3. scan[n + 1] = Take(scan[n], all[n + 1], q, p)
    <3>1. \A i \in 0 .. last : scan[i] = IF i = 0 THEN [items |-> <<>>, truncated |-> FALSE]
                                        ELSE Take(scan[i - 1], all[i], q, p)
      BY Zenon DEF IsScan
    <3>2. PICK i \in 0 .. last : i = n + 1 /\ i # 0 /\ i - 1 = n
      BY <2>1
    <3>3. scan[i] = Take(scan[n], all[i], q, p)
      BY <3>1, <3>2
    <3>4. QED
      BY <3>2, <3>3
  <2>4. /\ \A i \in 1 .. n + 1 : all[i] \in String
        /\ \A i, j \in 1 .. n + 1 : i < j => Less(all[i], all[j])
    BY <2>1
  <2>5. QED
    BY <2>2, <2>3, <2>4, TakeCollects
<1>3. Nat \subseteq S
  <2> HIDE DEF S
  <2>1. QED
    BY <1>1, <1>2, SetInduction
<1>4. QED
  BY <1>3

\* What a page holds: items of due keys in order; if it is the last one, of all of them,
\* if not, as many as the client asked for, and of all due keys up to the last item.
Holds(page, keys, q, p) ==
  /\ page \in [items : Seq(Items), truncated : BOOLEAN]
  /\ page.truncated => Len(page.items) = q.max
  /\ Increasing(page.items)
  /\ \A i \in 1 .. Len(page.items) :
       \E k \in keys : Due(k, q, p) /\ page.items[i] = Item(k, q)
  /\ \A k \in keys : /\ Due(k, q, p)
                     /\ \/ ~page.truncated
                        \/ page.items # <<>> /\ AtMost(k, page.items[Len(page.items)][2])
                     => Has(page.items, Item(k, q))

\* Whatever the keys of the bucket, the query and the position the page starts after,
\* list_objects' loop makes such a page.
THEOREM PageHolds ==
  ASSUME NEW keys \in SUBSET String, IsFiniteSet(keys), NEW q \in Asked, NEW p \in String
  PROVE  Holds(Page(keys, q, p), keys, q, p)
<1> DEFINE all == Sorted(keys)
           page == Page(keys, q, p)
           n == Len(all)
<1>1. /\ n \in Nat
      /\ \A i \in 1 .. n : all[i] \in keys
      /\ \A i, j \in 1 .. n : i < j => Less(all[i], all[j])
      /\ \A k \in keys : \E i \in 1 .. n : all[i] = k
  BY SortedInOrder
<1>2. PICK scan : IsScan(scan, all, q, p, n) /\ page = scan[n]
  BY <1>1, PageIsScan
<1> HIDE DEF all, page
<1>3. Scanned(page, all, q, p, n)
  BY <1>1, <1>2, ScanCollects
<1>4. PICK m \in 0 .. n : Collected(page, all, q, p, m) /\ (~page.truncated => m = n)
  BY <1>3 DEF Scanned
<1> HIDE DEF n
<1>5. page \in [items : Seq(Items), truncated : BOOLEAN] /\ Len(page.items) \in Nat
  BY <1>4 DEF Collected
<1>6. ASSUME NEW i \in 1 .. Len(page.items)
      PROVE  \E k \in keys : Due(k, q, p) /\ page.items[i] = Item(k, q)
  <2>1. PICK j \in 1 .. m : Due(all[j], q, p) /\ page.items[i] = Item(all[j], q)
    BY <1>4 DEF Collected
  <2>2. all[j] \in keys
    BY <1>1
  <2>3. QED
    BY <2>1, <2>2
<1>7. ASSUME NEW k \in keys, Due(k, q, p),
             ~page.truncated \/ (page.items # <<>> /\ AtMost(k, page.items[Len(page.items)][2]))
      PROVE  Has(page.items, Item(k, q))
  <2>1. PICK l \in 1 .. n : all[l] = k
    BY <1>1
  <2>2. CASE ~page.truncated
    BY <1>4, <1>7, <2>1, <2>2 DEF Collected
  <2>3. CASE page.items # <<>> /\ AtMost(k, page.items[Len(page.items)][2])
    <3>1. Len(page.items) \in 1 .. Len(page.items)
      BY <1>5, <2>3, EmptySeq
    <3>2. PICK j \in 1 .. m : page.items[Len(page.items)] = Item(all[j], q)
      BY <1>4, <3>1 DEF Collected
    <3>3. j \in 1 .. n /\ all[j] \in String /\ k \in String
      BY <1>1
    <3>4. AtMost(k, all[j])
      BY <2>3, <3>2, <3>3, ItemOfKey, LessTransitive DEF AtMost
    <3>5. ~Less(all[j], k)
      BY <3>3, <3>4, LessTransitive, LessIrreflexive DEF AtMost
    <3>6. ~(j < l)
      BY <1>1, <2>1, <3>3, <3>5
    <3>7. l \in 1 .. m
      BY <1>1, <3>6
    <3>8. QED
      BY <1>4, <1>7, <2>1, <3>7 DEF Collected
  <2>4. QED
    BY <1>7, <2>2, <2>3
<1>8. QED
  BY <1>4, <1>5, <1>6, <1>7 DEF Collected, Holds, page

(***************************************************************************)
(* From page to page.                                                      *)
(***************************************************************************)

\* An item is a beginning of its key.
LEMMA ItemIsPrefix ==
  ASSUME NEW k \in String, NEW q \in Asked
  PROVE  StartsWith(k, Item(k, q)[2])
<1>1. CASE Grouped(k, q)
  BY <1>1, GroupIsPrefix DEF Item
<1>2. CASE ~Grouped(k, q)
  BY <1>2, PrefixBytes DEF Item, String
<1>3. QED
  BY <1>1, <1>2

LEMMA PrefixTransitive ==
  ASSUME NEW s \in String, NEW t \in String, NEW u \in String, StartsWith(u, t), StartsWith(t, s)
  PROVE  StartsWith(u, s)
<1>1. Len(s) \in Nat /\ Len(t) \in Nat /\ Len(u) \in Nat
  BY DEF String
<1>2. /\ Len(t) <= Len(u) /\ \A j \in 1 .. Len(t) : u[j] = t[j]
      /\ Len(s) <= Len(t) /\ \A j \in 1 .. Len(s) : t[j] = s[j]
  BY PrefixBytes
<1>3. \A j \in 1 .. Len(s) : u[j] = s[j]
  BY <1>1, <1>2
<1>4. QED
  BY <1>1, <1>2, <1>3, PrefixBytes

\* A position that is an item and lies in the group of a key beyond it is that group.
LEMMA PositionInGroup ==
  ASSUME NEW a \in String, NEW k \in String, NEW q \in Asked, Grouped(k, q),
         StartsWith(Item(a, q)[2], Group(k, q))
  PROVE  Item(a, q) = Item(k, q) /\ Item(a, q)[2] = Group(k, q)
<1>1. Group(k, q) \in String /\ Item(a, q)[2] \in String /\ StartsWith(a, Item(a, q)[2])
  BY GroupIsPrefix, ItemOfKey, ItemIsPrefix
<1>2. StartsWith(a, Group(k, q))
  BY <1>1, PrefixTransitive
<1>3. Grouped(a, q) /\ Group(a, q) = Group(k, q)
  BY <1>2, GroupShared
<1>4. QED
  BY <1>3 DEF Item

\* The items of a page that starts after an item are beyond it: of a group listed before,
\* the token tells.
LEMMA DueBeyondItem ==
  ASSUME NEW a \in String, NEW k \in String, NEW q \in Asked, k # <<>>, Due(k, q, Item(a, q)[2])
  PROVE  Less(Item(a, q)[2], Item(k, q)[2])
<1> DEFINE p == Item(a, q)[2]
<1>1. p \in String /\ <<>> \in String
  BY ItemOfKey DEF String
<1>2. Less(p, k)
  <2>1. CASE p = <<>>
    <3>1. StartsWith(k, <<>>)
      BY <1>1, PrefixBytes
    <3>2. QED
      BY <2>1, <3>1 DEF Less
  <2>2. CASE p # <<>>
    BY <1>1, <2>2, LessTotal DEF Due, Skipped, AtMost
  <2>3. QED
    BY <2>1, <2>2
<1>3. CASE Grouped(k, q) /\ AtMost(Group(k, q), p) /\ StartsWith(p, Group(k, q))
  <2>1. p = Group(k, q)
    BY <1>3, PositionInGroup
  <2>2. StartsWith(k, q.prefix)
    BY DEF Due, Skipped
  <2>3. StartsWith(p, q.prefix) /\ EndsWith(p, q.delimiter)
    BY <1>3, <2>1, <2>2, GroupShape
  <2>4. p # <<>>
    <3>1. Len(q.prefix) \in Nat /\ Len(q.prefix) < Len(Group(k, q))
      BY <1>3, GroupEnd DEF Asked, String
    <3>2. QED
      BY <2>1, <3>1
  <2>5. QED
    BY <1>3, <2>3, <2>4 DEF Due, TokenHas
<1> HIDE DEF p
<1>4. QED
  BY <1>1, <1>2, <1>3, ItemBeyond DEF p

\* Increasing is stated by the neighbours in ListedInOrder.
LEMMA OrderOfConcat ==
  ASSUME NEW r \in Seq(Items), NEW t \in Seq(Items), Increasing(r), Increasing(t),
         \A i \in 1 .. Len(r), j \in 1 .. Len(t) : Less(r[i][2], t[j][2])
  PROVE  Increasing(r \o t)
<1> DEFINE m == Len(r)
           n == Len(t)
<1>1. /\ m \in Nat /\ n \in Nat /\ Len(r \o t) = m + n
      /\ \A i \in 1 .. m + n : (r \o t)[i] = IF i <= m THEN r[i] ELSE t[i - m]
  BY ConcatProperties
<1>2. SUFFICES ASSUME NEW i \in 1 .. m + n, NEW j \in 1 .. m + n, i < j
               PROVE  Less((r \o t)[i][2], (r \o t)[j][2])
  BY <1>1 DEF Increasing
<1>3. CASE j <= m
  <2>1. i \in 1 .. m /\ j \in 1 .. m /\ (r \o t)[i] = r[i] /\ (r \o t)[j] = r[j]
    BY <1>1, <1>2, <1>3
  <2>2. QED
    BY <1>2, <2>1 DEF Increasing
<1>4. CASE i <= m /\ m < j
  <2>1. i \in 1 .. m /\ j - m \in 1 .. n /\ (r \o t)[i] = r[i] /\ (r \o t)[j] = t[j - m]
    BY <1>1, <1>2, <1>4
  <2>2. QED
    BY <2>1
<1>5. CASE m < i
  <2>1. /\ i - m \in 1 .. n /\ j - m \in 1 .. n /\ i - m < j - m
        /\ (r \o t)[i] = t[i - m] /\ (r \o t)[j] = t[j - m]
    BY <1>1, <1>2, <1>5
  <2>2. QED
    BY <2>1 DEF Increasing
<1>6. QED
  BY <1>1, <1>3, <1>4, <1>5

\* What a client has that goes on after p: items in order, the last of which is p.
Walked(q, r, p) ==
  /\ Increasing(r)
  /\ \A i \in 1 .. Len(r) : \E k \in Key : r[i] = Item(k, q)
  /\ IF r = <<>> THEN p = q.after ELSE p = r[Len(r)][2]

\* A key that StableKeysAreListed promises.
Owed(k, q) == /\ StartsWith(k, q.prefix)
              /\ Less(q.after, k)
              /\ ~(Grouped(k, q) /\ AtMost(Group(k, q), q.after) /\ EndsWith(q.after, q.delimiter))

\* An owed key beyond the position is due, or its group is the last item received.
LEMMA OwedIsDue ==
  ASSUME KeysAreStrings, NEW q \in Asked, NEW r \in Seq(Items), NEW p \in String,
         Walked(q, r, p), NEW k \in Key, Owed(k, q), Less(p, k)
  PROVE  Due(k, q, p) \/ Has(r, Item(k, q))
<1>1. k \in String
  BY DEF KeysAreStrings, String
<1>2. ~Skipped(k, q, p)
  BY <1>1, LessTransitive, LessIrreflexive DEF Owed, Skipped, AtMost
<1>3. SUFFICES ASSUME TokenHas(k, q, p) PROVE Has(r, Item(k, q))
  BY <1>2 DEF Due
<1>4. r # <<>>
  BY <1>3 DEF Walked, Owed, TokenHas
<1>5. Len(r) \in 1 .. Len(r)
  BY <1>4, EmptySeq
<1>6. PICK a \in Key : r[Len(r)] = Item(a, q) /\ p = Item(a, q)[2]
  BY <1>4, <1>5 DEF Walked
<1>7. a \in String
  BY DEF KeysAreStrings, String
<1>8. StartsWith(p, Group(k, q))
  <2>1. Group(k, q) \in String /\ StartsWith(k, Group(k, q)) /\ AtMost(Group(k, q), p)
    BY <1>1, <1>3, GroupIsPrefix DEF TokenHas
  <2>2. QED
    BY <1>1, <2>1, PrefixBetween DEF AtMost
<1>9. Item(a, q) = Item(k, q)
  BY <1>1, <1>3, <1>6, <1>7, <1>8, PositionInGroup DEF TokenHas
<1>10. QED
  BY <1>5, <1>6, <1>9 DEF Has

LEMMA PageAdds ==
  ASSUME KeysAreStrings, NEW keys \in SUBSET Key, NEW q \in Asked, NEW r \in Seq(Items),
         NEW p \in String, NEW page, Walked(q, r, p), Holds(page, keys, q, p)
  PROVE  LET next == r \o page.items IN
         /\ next \in Seq(Items) /\ Len(next) = Len(r) + Len(page.items)
         /\ Increasing(next)
         /\ \A i \in 1 .. Len(next) : \E k \in Key : next[i] = Item(k, q)
         /\ page.items # <<>> => Walked(q, next, NextToken(page.items))
         /\ \A k \in keys :
              /\ Owed(k, q)
              /\ AtMost(k, p) => Has(r, Item(k, q))
              /\ ~page.truncated \/ (page.items # <<>> /\ AtMost(k, NextToken(page.items)))
              => Has(next, Item(k, q))
<1> DEFINE items == page.items
           next == r \o items
<1>1. items \in Seq(Items)
  BY DEF Holds
<1>2. /\ next \in Seq(Items) /\ Len(r) \in Nat /\ Len(items) \in Nat /\ Len(next) = Len(r) + Len(items)
      /\ \A i \in 1 .. Len(r) + Len(items) : next[i] = IF i <= Len(r) THEN r[i] ELSE items[i - Len(r)]
  BY <1>1, ConcatProperties
<1>3. \A j \in 1 .. Len(items) : \E k \in keys : Due(k, q, p) /\ items[j] = Item(k, q)
  BY DEF Holds
<1>4. \A i \in 1 .. Len(r), j \in 1 .. Len(items) : Less(r[i][2], items[j][2])
  <2>1. SUFFICES ASSUME NEW i \in 1 .. Len(r), NEW j \in 1 .. Len(items)
                 PROVE  Less(r[i][2], items[j][2])
    OBVIOUS
  <2>2. r # <<>> /\ Len(r) \in 1 .. Len(r)
    BY <1>2, <2>1
  <2>3. PICK a \in Key : r[Len(r)] = Item(a, q) /\ p = Item(a, q)[2]
    BY <2>2 DEF Walked
  <2>4. PICK k \in keys : Due(k, q, p) /\ items[j] = Item(k, q)
    BY <1>3
  <2>5. a \in String /\ k \in String /\ k # <<>>
    BY DEF KeysAreStrings, String
  <2>6. Less(p, items[j][2])
    BY <2>3, <2>4, <2>5, DueBeyondItem
  <2>7. CASE i = Len(r)
    BY <2>3, <2>6, <2>7
  <2>8. CASE i < Len(r)
    <3>1. Less(r[i][2], p)
      BY <2>2, <2>3, <2>8 DEF Walked, Increasing
    <3>2. r[i][2] \in String /\ items[j][2] \in String
      <4>1. r[i] \in Items /\ items[j] \in Items
        BY <1>1, <2>1, ElementOfSeq
      <4>2. QED
        BY <4>1 DEF Items
    <3>3. QED
      BY <2>6, <3>1, <3>2, LessTransitive
  <2>9. QED
    BY <1>2, <2>7, <2>8
<1> HIDE DEF items, next
<1>5. Increasing(next)
  BY <1>1, <1>4, OrderOfConcat DEF Walked, Holds, next, items
<1>6. ASSUME NEW i \in 1 .. Len(next)
      PROVE  \E k \in Key : next[i] = Item(k, q)
  <2>1. CASE i <= Len(r)
    BY <1>2, <2>1 DEF Walked
  <2>2. CASE i > Len(r)
    <3>1. i - Len(r) \in 1 .. Len(items) /\ next[i] = items[i - Len(r)]
      BY <1>2, <2>2
    <3>2. QED
      BY <1>3, <3>1
  <2>3. QED
    BY <1>2, <2>1, <2>2
<1>7. ASSUME items # <<>>
      PROVE  /\ next # <<>> /\ NextToken(items) = items[Len(items)][2]
             /\ NextToken(items) = next[Len(next)][2]
  <2>1. Len(items) \in 1 .. Len(items) /\ Len(items) > 0
    BY <1>1, <1>7, EmptySeq
  <2>2. Len(next) \in 1 .. Len(r) + Len(items) /\ Len(next) > Len(r) /\ Len(next) - Len(r) = Len(items)
    BY <1>2, <2>1
  <2>3. next[Len(next)] = items[Len(items)] /\ next # <<>>
    BY <1>2, <2>2
  <2>4. QED
    BY <1>7, <2>3 DEF NextToken
<1>8. ASSUME NEW k \in keys, Owed(k, q), AtMost(k, p) => Has(r, Item(k, q)),
             ~page.truncated \/ (items # <<>> /\ AtMost(k, NextToken(items)))
      PROVE  Has(next, Item(k, q))
  <2>1. k \in String
    BY DEF KeysAreStrings, String
  <2>2. CASE Has(r, Item(k, q))
    <3>1. PICK i \in 1 .. Len(r) : r[i] = Item(k, q)
      BY <2>2 DEF Has
    <3>2. i \in 1 .. Len(next) /\ next[i] = Item(k, q)
      BY <1>2, <3>1
    <3>3. QED
      BY <3>2 DEF Has
  <2>3. CASE ~Has(r, Item(k, q))
    <3>1. Less(p, k)
      BY <1>8, <2>1, <2>3, LessTotal DEF AtMost
    <3>2. Due(k, q, p)
      BY <1>8, <2>3, <3>1, OwedIsDue
    <3>3. Has(items, Item(k, q))
      BY <1>7, <1>8, <3>2 DEF Holds, items
    <3>4. PICK j \in 1 .. Len(items) : items[j] = Item(k, q)
      BY <3>3 DEF Has
    <3>5. Len(r) + j \in 1 .. Len(next) /\ next[Len(r) + j] = items[j]
      BY <1>2
    <3>6. QED
      BY <3>4, <3>5 DEF Has
  <2>4. QED
    BY <2>2, <2>3
<1>9. items # <<>> => Walked(q, next, NextToken(items))
  BY <1>5, <1>6, <1>7 DEF Walked
<1>10. QED
  BY <1>2, <1>5, <1>6, <1>8, <1>9 DEF items, next

\* Items in order are of different keys: there are no more of them than keys.
LEMMA NoMoreItemsThanKeys ==
  ASSUME KeysAreStrings, NEW q \in Asked, NEW r \in Seq(Items), Increasing(r),
         \A i \in 1 .. Len(r) : \E k \in Key : r[i] = Item(k, q)
  PROVE  Len(r) \in Nat /\ Cardinality(Key) \in Nat /\ Len(r) <= Cardinality(Key)
<1> DEFINE n == Len(r)
           f == [i \in 1 .. n |-> CHOOSE k \in Key : r[i] = Item(k, q)]
<1>1. n \in Nat /\ IsFiniteSet(Key) /\ Cardinality(Key) \in Nat
  BY FS_CardinalityType DEF KeysAreStrings
<1>2. \A i \in 1 .. n : f[i] \in Key /\ r[i] = Item(f[i], q)
  OBVIOUS
<1>3. f \in [1 .. n -> Key]
  OBVIOUS
<1> HIDE DEF f
<1>4. ASSUME NEW i \in 1 .. n, NEW j \in 1 .. n, f[i] = f[j]
      PROVE  i = j
  <2>1. r[i] = r[j] /\ r[i] \in Items
    BY <1>2, <1>4, ElementOfSeq
  <2>2. r[i][2] \in String
    BY <2>1 DEF Items
  <2>3. ~(i < j) /\ ~(j < i)
    BY <2>1, <2>2, LessIrreflexive DEF Increasing
  <2>4. QED
    BY <1>1, <2>3
<1> HIDE DEF n
<1>5. f \in Injection(1 .. n, Key)
  BY <1>3, <1>4 DEF Injection, IsInjective
<1>6. Cardinality(1 .. n) <= Cardinality(Key) /\ Cardinality(1 .. n) = n
  BY <1>1, <1>5, FS_Injection, FS_Interval
<1>7. QED
  BY <1>1, <1>6 DEF n

(***************************************************************************)
(* The listing.                                                            *)
(***************************************************************************)
ListingAssumption == KeysAreStrings /\ QueriesAreWellFormed /\ Changes \in Nat

\* What a client has got at any time: items in order, a page for every one at most,
\* and all it is owed up to where the next page starts.
Gathered ==
  /\ Increasing(received)
  /\ \A i \in 1 .. Len(received) : \E k \in Key : received[i] = Item(k, ask)
  /\ phase = "walking" => Walked(ask, received, after) /\ pages <= Len(received)
  /\ phase = "done" => pages <= Len(received) + 1
  /\ \A k \in stable : Owed(k, ask) /\ (phase = "done" \/ AtMost(k, after))
                         => Has(received, Item(k, ask))

ListingInv == TypeOK /\ (ask.max > 0 => Gathered)

LEMMA QueryIsAsked ==
  ASSUME QueriesAreWellFormed, NEW q \in Query
  PROVE  q \in Asked /\ q.max \in Nat /\ q.after \in String
BY DEF QueriesAreWellFormed, Asked, String

LEMMA ListingInit ==
  ASSUME ListingAssumption, Init
  PROVE  ListingInv
<1>1. Cardinality(Key) \in Nat
  BY FS_CardinalityType DEF ListingAssumption, KeysAreStrings
<1>2. ask \in Query /\ ask \in Asked /\ ask.after \in String
  BY QueryIsAsked DEF ListingAssumption, Init
<1>3. TypeOK
  <2>1. received = <<>> /\ received \in Seq({"key", "group"} \X Seq(Nat))
    BY DEF Init
  <2>2. pages = 0 /\ pages \in 0 .. Cardinality(Key) + 2 /\ changed \in 0 .. Changes
    BY <1>1 DEF Init, ListingAssumption
  <2>3. QED
    BY <1>2, <2>1, <2>2 DEF Init, TypeOK, String
<1>4. Gathered
  <2>1. received = <<>> /\ Len(received) = 0 /\ pages = 0 /\ phase = "walking" /\ after = ask.after
    BY DEF Init
  <2>2. Increasing(received)
    BY <2>1 DEF Increasing
  <2>3. ASSUME NEW k \in stable, Owed(k, ask), AtMost(k, after)
        PROVE  FALSE
    <3>1. k \in String
      BY DEF Init, ListingAssumption, KeysAreStrings, String
    <3>2. QED
      BY <1>2, <2>1, <2>3, <3>1, LessTransitive, LessIrreflexive DEF Owed, AtMost
  <2>4. QED
    BY <2>1, <2>2, <2>3 DEF Gathered, Walked
<1>5. QED
  BY <1>3, <1>4 DEF ListingInv

\* Writes and deletions only take keys from those that were there all the time.
LEMMA ListingChange ==
  ASSUME ListingAssumption, ListingInv, NEW keys \in SUBSET Key, Change(keys)
  PROVE  ListingInv'
<1>1. TypeOK'
  <2>1. changed' \in 0 .. Changes
    BY DEF ListingInv, TypeOK, Change, ListingAssumption
  <2>2. /\ stable' \subseteq always' /\ always' \subseteq present' /\ present' \subseteq ever'
        /\ ever' \subseteq Key
    BY DEF ListingInv, TypeOK, Change
  <2>3. UNCHANGED <<ask, phase, after, received, pages>>
    BY DEF Change
  <2>4. QED
    BY <2>1, <2>2, <2>3 DEF ListingInv, TypeOK
<1>2. ASSUME ask.max > 0
      PROVE  Gathered'
  <2>1. Gathered
    BY <1>2 DEF ListingInv
  <2>2. stable' \subseteq stable /\ UNCHANGED <<ask, phase, after, received, pages>>
    BY DEF Change
  <2>3. QED
    BY <2>1, <2>2 DEF Gathered
<1>3. ask' = ask
  BY DEF Change
<1>4. QED
  BY <1>1, <1>2, <1>3 DEF ListingInv

LEMMA ListingAnswer ==
  ASSUME ListingAssumption, ListingInv, Answer
  PROVE  ListingInv'
<1>1. PICK some \in SUBSET (ever \ always) :
        \E page \in {Page(always \cup some, ask, after)} :
          LET more == page.truncated /\ (ask.api = "v2" \/ page.items # <<>>) IN
          /\ received' = received \o page.items
          /\ after' = IF more THEN NextToken(page.items) ELSE after
          /\ phase' = IF more THEN "walking" ELSE "done"
  BY DEF Answer
<1> DEFINE keys == always \cup some
           page == Page(keys, ask, after)
           more == page.truncated /\ (ask.api = "v2" \/ page.items # <<>>)
<1>2. /\ received' = received \o page.items
      /\ after' = IF more THEN NextToken(page.items) ELSE after
      /\ phase' = IF more THEN "walking" ELSE "done"
  BY <1>1
<1>3. /\ phase = "walking" /\ always' = present /\ ever' = present
      /\ pages' = (IF pages > Cardinality(Key) + 1 THEN pages ELSE pages + 1)
      /\ UNCHANGED <<present, ask, stable, changed>>
  BY DEF Answer
<1>4. /\ ask \in Query /\ ask \in Asked /\ ask.max \in Nat /\ after \in String /\ received \in Seq(Items)
      /\ Cardinality(Key) \in Nat
  BY QueryIsAsked, FS_CardinalityType
  DEF ListingInv, TypeOK, ListingAssumption, KeysAreStrings, Items, String
<1>5. keys \in SUBSET Key /\ IsFiniteSet(keys) /\ keys \in SUBSET String
  <2>1. keys \in SUBSET Key
    BY DEF ListingInv, TypeOK
  <2> HIDE DEF keys
  <2>2. QED
    BY <2>1, FS_Subset DEF ListingAssumption, KeysAreStrings, String
<1>6. Holds(page, keys, ask, after)
  BY <1>4, <1>5, PageHolds
<1> HIDE DEF page
<1>7. /\ page \in [items : Seq(Items), truncated : BOOLEAN] /\ Len(page.items) \in Nat
      /\ page.truncated => Len(page.items) = ask.max
  BY <1>6 DEF Holds
<1>8. NextToken(page.items) \in String
  <2>1. CASE page.items = <<>>
    BY <2>1 DEF NextToken, String
  <2>2. CASE page.items # <<>>
    <3>1. Len(page.items) \in 1 .. Len(page.items)
      BY <1>7, <2>2, EmptySeq
    <3>2. page.items[Len(page.items)] \in Items
      BY <1>7, <3>1, ElementOfSeq
    <3>3. QED
      BY <2>2, <3>2 DEF NextToken, Items
  <2>3. QED
    BY <2>1, <2>2
<1>9. received' = received \o page.items /\ received' \in Seq(Items)
  BY <1>2, <1>4, <1>7, ConcatProperties
<1>10. TypeOK'
  <2>1. after' \in Seq(Nat) /\ phase' \in {"walking", "done"}
    BY <1>2, <1>4, <1>8 DEF String
  <2>2. received' \in Seq({"key", "group"} \X Seq(Nat))
    BY <1>9 DEF Items, String
  <2>3. pages' \in 0 .. Cardinality(Key) + 2
    BY <1>3, <1>4 DEF ListingInv, TypeOK
  <2>4. /\ stable' \subseteq always' /\ always' \subseteq present' /\ present' \subseteq ever'
        /\ ever' \subseteq Key /\ changed' \in 0 .. Changes /\ ask' \in Query
    BY <1>3 DEF ListingInv, TypeOK
  <2>5. QED
    BY <2>1, <2>2, <2>3, <2>4 DEF TypeOK
<1>11. ASSUME ask.max > 0
       PROVE  Gathered'
  <2> HIDE DEF keys
  <2>1. Gathered /\ Walked(ask, received, after) /\ pages <= Len(received) /\ pages \in Nat
    BY <1>3, <1>4, <1>11 DEF ListingInv, TypeOK, Gathered
  <2>2. page.truncated => page.items # <<>>
    BY <1>7, <1>11
  <2>3. IF page.truncated THEN after' = NextToken(page.items) /\ phase' = "walking"
                          ELSE phase' = "done"
    BY <1>2, <1>7, <2>2
  <2>4. /\ Len(received') = Len(received) + Len(page.items)
        /\ Increasing(received')
        /\ \A i \in 1 .. Len(received') : \E k \in Key : received'[i] = Item(k, ask)
        /\ page.items # <<>> => Walked(ask, received', NextToken(page.items))
        /\ \A k \in keys :
             /\ Owed(k, ask)
             /\ AtMost(k, after) => Has(received, Item(k, ask))
             /\ ~page.truncated \/ (page.items # <<>> /\ AtMost(k, NextToken(page.items)))
             => Has(received', Item(k, ask))
    <3> DEFINE next == received \o page.items
    <3>1. /\ next \in Seq(Items) /\ Len(next) = Len(received) + Len(page.items)
          /\ Increasing(next)
          /\ \A i \in 1 .. Len(next) : \E k \in Key : next[i] = Item(k, ask)
          /\ page.items # <<>> => Walked(ask, next, NextToken(page.items))
          /\ \A k \in keys :
               /\ Owed(k, ask)
               /\ AtMost(k, after) => Has(received, Item(k, ask))
               /\ ~page.truncated \/ (page.items # <<>> /\ AtMost(k, NextToken(page.items)))
               => Has(next, Item(k, ask))
      BY <1>4, <1>5, <1>6, <2>1, PageAdds DEF ListingAssumption
    <3>2. received' = next
      BY <1>9
    <3> HIDE DEF next
    <3>3. QED
      BY <3>1, <3>2
  <2>5. pages' <= pages + 1
    BY <1>3, <1>4, <2>1
  <2>6. phase' = "walking" => Walked(ask, received', after') /\ pages' <= Len(received')
    <3>1. SUFFICES ASSUME phase' = "walking"
                   PROVE  Walked(ask, received', after') /\ pages' <= Len(received')
      OBVIOUS
    <3>2. page.truncated /\ page.items # <<>> /\ after' = NextToken(page.items)
      BY <2>2, <2>3, <3>1
    <3>3. Len(page.items) >= 1
      BY <1>7, <1>11, <3>2
    <3>4. Len(received) \in Nat /\ pages' \in Nat
      BY <1>3, <1>4, <2>1
    <3>5. QED
      BY <1>7, <2>1, <2>4, <2>5, <3>2, <3>3, <3>4
  <2>7. phase' = "done" => pages' <= Len(received') + 1
    <3>1. Len(received) \in Nat /\ pages' \in Nat
      BY <1>3, <1>4, <2>1
    <3>2. QED
      BY <1>7, <2>1, <2>4, <2>5, <3>1
  <2>8. ASSUME NEW k \in stable, Owed(k, ask), phase' = "done" \/ AtMost(k, after')
        PROVE  Has(received', Item(k, ask))
    <3>1. k \in keys
      BY DEF keys, ListingInv, TypeOK
    <3>2. AtMost(k, after) => Has(received, Item(k, ask))
      BY <2>1, <2>8 DEF Gathered
    <3>3. ~page.truncated \/ (page.items # <<>> /\ AtMost(k, NextToken(page.items)))
      BY <2>2, <2>3, <2>8
    <3>4. QED
      BY <2>4, <2>8, <3>1, <3>2, <3>3
  <2>9. QED
    BY <1>3, <2>4, <2>6, <2>7, <2>8 DEF Gathered
<1>12. QED
  BY <1>3, <1>10, <1>11 DEF ListingInv

LEMMA ListingStep ==
  ASSUME ListingAssumption, ListingInv, Next \/ UNCHANGED vars
  PROVE  ListingInv'
<1>1. CASE Answer
  BY <1>1, ListingAnswer
<1>2. ASSUME NEW k \in Key, Put(k)
      PROVE  ListingInv'
  <2>1. present \cup {k} \in SUBSET Key
    BY DEF ListingInv, TypeOK
  <2>2. QED
    BY <1>2, <2>1, ListingChange DEF Put
<1>3. ASSUME NEW k \in Key, Delete(k)
      PROVE  ListingInv'
  <2>1. present \ {k} \in SUBSET Key
    BY DEF ListingInv, TypeOK
  <2>2. QED
    BY <1>3, <2>1, ListingChange DEF Delete
<1>4. CASE UNCHANGED vars
  BY <1>4 DEF vars, ListingInv, TypeOK, Gathered
<1>5. QED
  BY <1>1, <1>2, <1>3, <1>4 DEF Next

\* The properties are what the invariant says.
LEMMA ListingProperties ==
  ASSUME ListingAssumption, ListingInv
  PROVE  StableKeysAreListed /\ ListedInOrder /\ ListingEnds
<1>1. ask \in Asked /\ received \in Seq(Items) /\ Len(received) \in Nat
  BY QueryIsAsked DEF ListingInv, TypeOK, ListingAssumption, Items, String
<1>2. StableKeysAreListed
  BY DEF StableKeysAreListed, ListingInv, Gathered, Owed, Has
<1>3. ListedInOrder
  <2>1. SUFFICES ASSUME ask.max > 0, NEW i \in 1 .. Len(received) - 1
                 PROVE  Less(received[i][2], received[i + 1][2])
    BY DEF ListedInOrder
  <2>2. i \in 1 .. Len(received) /\ i + 1 \in 1 .. Len(received) /\ i < i + 1
    BY <1>1
  <2>3. QED
    BY <2>1, <2>2 DEF ListingInv, Gathered, Increasing
<1>4. ListingEnds
  <2>1. SUFFICES ASSUME ask.max > 0 PROVE pages <= Cardinality(Key) + 1
    BY DEF ListingEnds
  <2>2. Gathered
    BY <2>1 DEF ListingInv
  <2>3. Cardinality(Key) \in Nat /\ Len(received) <= Cardinality(Key)
    BY <1>1, <2>2, NoMoreItemsThanKeys DEF Gathered, ListingAssumption
  <2>4. pages \in Nat /\ pages <= Len(received) + 1
    BY <1>1, <2>2, <2>3 DEF Gathered, ListingInv, TypeOK
  <2>5. QED
    BY <1>1, <2>3, <2>4
<1>5. QED
  BY <1>2, <1>3, <1>4
====
