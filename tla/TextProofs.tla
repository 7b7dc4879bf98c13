----------------------------- MODULE TextProofs -----------------------------
(***************************************************************************)
(* Proofs about the two components that read Markdown by hand: Import, for *)
(* every text, whatever brackets it has and wherever it breaks off, and    *)
(* for any files of the archive; and Markdown, for every article.          *)
(*                                                                         *)
(* Import.  Both scanners take the same turns through a text, from one     *)
(* position to the next.  Where the first one stops, the second goes on,   *)
(* but it is in a part of the text that has no reference.  So what the     *)
(* first one loaded is what the second one looks up, if no reference       *)
(* begins in the front matter, which only the first one reads, and ends    *)
(* behind it.                                                              *)
(*                                                                         *)
(* Markdown.  A block, as the parser makes it, is written as lines that    *)
(* the parser takes to be that block again, whatever follows the blank     *)
(* line after them.  And a step of the parser says what the lines that it  *)
(* takes say, and stops outside of code or at the end.                     *)
(***************************************************************************)
EXTENDS Import, Markdown, SequenceTheorems, FiniteSetTheorems, WellFoundedInduction, TLAPS

-----------------------------------------------------------------------------
(***************************************************************************)
(* Sequences, for both parts.  FlattenSeq is a recursive function: that    *)
(* there is one follows from the first piece for which there is none.      *)
(***************************************************************************)

\* A set of natural numbers that is not empty has a least one.
LEMMA Least ==
  ASSUME NEW T, T \subseteq Nat, T # {}
  PROVE  \E m \in T : \A n \in T : m <= n
<1> DEFINE R == OpToRel(<, Nat)
<1>1. IsWellFoundedOn(R, Nat)
  BY NatLessThanWellFounded
<1>2. \A x, y \in Nat : y < x => <<y, x>> \in R
  BY DEF OpToRel
<1> HIDE DEF R
<1>3. PICK x \in T : \A y \in T : ~(<<y, x>> \in R)
  BY <1>1, WFMin
<1>4. ASSUME NEW n \in T PROVE x <= n
  <2>1. x \in Nat /\ n \in Nat
    OBVIOUS
  <2>2. ~(n < x)
    BY <1>2, <1>3, <2>1
  <2> QED BY <2>1, <2>2
<1> QED BY <1>4

\* Functions on 1..n are sequences ...
LEMMA FunctionIsSeq ==
  ASSUME NEW T, NEW n \in Nat, NEW f \in [1..n -> T]
  PROVE  f \in Seq(T) /\ Len(f) = n /\ DOMAIN f = 1..n
OBVIOUS

\* ... and sequences are functions.
LEMMA SeqIs ==
  ASSUME NEW T, NEW s \in Seq(T)
  PROVE  Len(s) \in Nat /\ DOMAIN s = 1..Len(s) /\ s \in [1..Len(s) -> T]
OBVIOUS

\* What two sequences make, and where.
LEMMA ConcatAt ==
  ASSUME NEW T, NEW x \in Seq(T), NEW y \in Seq(T)
  PROVE  /\ Len(x) \in Nat /\ Len(y) \in Nat /\ x \o y \in Seq(T) /\ Len(x \o y) = Len(x) + Len(y)
         /\ \A i \in 1..Len(x) : i \in 1..(Len(x) + Len(y)) /\ (x \o y)[i] = x[i]
         /\ \A i \in 1..Len(y) : Len(x) + i \in 1..(Len(x) + Len(y)) /\ (x \o y)[Len(x) + i] = y[i]
<1> DEFINE m == Len(x)
           n == Len(y)
           z == x \o y
<1>1. /\ m \in Nat /\ n \in Nat /\ z \in Seq(T) /\ Len(z) = m + n
      /\ \A i \in 1..(m + n) : z[i] = IF i <= m THEN x[i] ELSE y[i - m]
  BY SeqIs, ConcatProperties
<1> HIDE DEF m, n, z
<1>2. ASSUME NEW i \in 1..m PROVE i \in 1..(m + n) /\ z[i] = x[i]
  <2>1. i \in 1..(m + n) /\ i <= m
    BY <1>1
  <2> QED BY <1>1, <2>1
<1>3. ASSUME NEW i \in 1..n PROVE m + i \in 1..(m + n) /\ z[m + i] = y[i]
  <2>1. m + i \in 1..(m + n) /\ ~(m + i <= m) /\ (m + i) - m = i
    BY <1>1
  <2> QED BY <1>1, <2>1
<1> QED BY <1>1, <1>2, <1>3 DEF m, n, z

\* What has the one and then the other is what the two make.
LEMMA ConcatIs ==
  ASSUME NEW T, NEW x \in Seq(T), NEW y \in Seq(T), NEW z \in Seq(T), Len(z) = Len(x) + Len(y),
         \A i \in 1..Len(x) : z[i] = x[i],
         \A i \in 1..Len(y) : z[Len(x) + i] = y[i]
  PROVE  z = x \o y
<1> DEFINE m == Len(x)
           n == Len(y)
           w == x \o y
<1>1. /\ m \in Nat /\ n \in Nat /\ w \in Seq(T) /\ Len(w) = m + n /\ Len(z) = m + n
      /\ \A i \in 1..m : w[i] = x[i] /\ z[i] = x[i]
      /\ \A i \in 1..n : w[m + i] = y[i] /\ z[m + i] = y[i]
  BY ConcatAt
<1> HIDE DEF m, n, w
<1>2. ASSUME NEW i \in 1..(m + n) PROVE z[i] = w[i]
  <2>1. CASE i <= m
    <3>1. i \in 1..m
      BY <1>1, <2>1
    <3> QED BY <1>1, <3>1
  <2>2. CASE ~(i <= m)
    <3>1. i - m \in 1..n /\ m + (i - m) = i
      BY <1>1, <2>2
    <3>2. w[m + (i - m)] = z[m + (i - m)]
      BY <1>1, <3>1
    <3> QED BY <3>1, <3>2
  <2> QED BY <2>1, <2>2
<1>3. z = w
  BY <1>1, <1>2, SeqEqual
<1> QED BY <1>3 DEF w

Joins(s, f, i) == f[i] = IF i = 1 THEN s[i] ELSE f[i - 1] \o s[i]

Join(s, f) == f = [i \in 1..Len(s) |-> IF i = 1 THEN s[i] ELSE f[i - 1] \o s[i]]

\* There is a function that FlattenSeq means.
LEMMA JoinExists ==
  ASSUME NEW S, NEW n \in Nat, NEW s \in [1..n -> Seq(S)], Len(s) = n
  PROVE  \E f : Join(s, f)
<1> DEFINE Upto(m) == \E f \in [1..m -> Seq(S)] : \A i \in 1..m : Joins(s, f, i)
           T == {m \in 0..n : ~Upto(m)}
<1>1. T = {}
  <2> SUFFICES ASSUME T # {} PROVE FALSE
    OBVIOUS
  <2>1. PICK m \in T : \A k \in T : m <= k
    <3>1. T \subseteq Nat
      OBVIOUS
    <3> HIDE DEF T
    <3> QED BY <3>1, Least
  <2>2. m # 0
    <3>1. [i \in 1..0 |-> <<>>] \in [1..0 -> Seq(S)]
      OBVIOUS
    <3>2. PICK f \in [1..0 -> Seq(S)] : TRUE
      BY <3>1
    <3>3. \A i \in 1..0 : Joins(s, f, i)
      OBVIOUS
    <3>4. Upto(0)
      BY <3>3
    <3> QED BY <2>1, <3>4
  <2>3. m - 1 \in 0..n /\ m \in 1..n
    BY <2>1, <2>2
  <2>4. Upto(m - 1)
    <3> HIDE DEF Upto
    <3>1. m - 1 \notin T
      <4> HIDE DEF T
      <4> QED BY <2>1, <2>3
    <3> QED BY <2>3, <3>1
  <2>5. PICK g \in [1..(m - 1) -> Seq(S)] : \A i \in 1..(m - 1) : Joins(s, g, i)
    BY <2>4
  <2> DEFINE last == IF m = 1 THEN s[m] ELSE g[m - 1] \o s[m]
             f == [i \in 1..m |-> IF i = m THEN last ELSE g[i]]
  <2>6. last \in Seq(S)
    <3>1. s[m] \in Seq(S)
      BY <2>3
    <3>2. ASSUME m # 1 PROVE g[m - 1] \o s[m] \in Seq(S)
      <4>1. g[m - 1] \in Seq(S)
        BY <2>3, <3>2
      <4> QED BY <3>1, <4>1, ConcatProperties
    <3> QED BY <3>1, <3>2
  <2> HIDE DEF last
  <2>7. f \in [1..m -> Seq(S)]
    BY <2>3, <2>6
  <2>8. ASSUME NEW i \in 1..m PROVE Joins(s, f, i)
    <3>1. CASE i = m
      <4>1. f[i] = last
        BY <3>1
      <4>2. i # 1 => f[i - 1] = g[i - 1]
        BY <2>3
      <4> HIDE DEF f
      <4> QED BY <3>1, <4>1, <4>2 DEF Joins, last
    <3>2. CASE i # m
      <4>1. f[i] = g[i] /\ i \in 1..(m - 1)
        BY <2>3, <3>2
      <4>2. i # 1 => f[i - 1] = g[i - 1]
        BY <2>3, <3>2
      <4>3. Joins(s, g, i)
        BY <2>5, <4>1
      <4> HIDE DEF f
      <4> QED BY <4>1, <4>2, <4>3 DEF Joins
    <3> QED BY <3>1, <3>2
  <2> HIDE DEF f
  <2>9. Upto(m)
    BY <2>7, <2>8
  <2> QED BY <2>1, <2>9
<1>2. Upto(n)
  <2> HIDE DEF Upto
  <2> QED BY <1>1
<1>3. PICK f \in [1..n -> Seq(S)] : \A i \in 1..n : Joins(s, f, i)
  BY <1>2
<1>4. \A i \in 1..Len(s) : f[i] = IF i = 1 THEN s[i] ELSE f[i - 1] \o s[i]
  BY <1>3 DEF Joins
<1>5. f = [i \in 1..n |-> f[i]]
  OBVIOUS
<1>6. Join(s, f)
  BY <1>4, <1>5 DEF Join
<1> QED BY <1>6

\* The texts that the pieces make, one after the other.
LEMMA Joined ==
  ASSUME NEW S, NEW s \in Seq(Seq(S)), Len(s) # 0
  PROVE  \E f \in [1..Len(s) -> Seq(S)] :
           /\ \A k \in 1..Len(s) : f[k] = IF k = 1 THEN s[k] ELSE f[k - 1] \o s[k]
           /\ FlattenSeq(s) = f[Len(s)]
<1> DEFINE n == Len(s)
           f == CHOOSE g : Join(s, g)
<1>1. n \in Nat /\ s \in [1..n -> Seq(S)] /\ Len(s) = n
  BY SeqIs
<1>2. Join(s, f)
  <2> HIDE DEF n
  <2> QED BY <1>1, JoinExists, Zenon
<1>3. FlattenSeq(s) = f[n]
  BY <1>1, Zenon DEF FlattenSeq, Join
<1> HIDE DEF f, n
<1>4. /\ DOMAIN f = 1..n /\ f = [k \in 1..n |-> f[k]]
      /\ \A k \in 1..n : f[k] = IF k = 1 THEN s[k] ELSE f[k - 1] \o s[k]
  <2>1. f = [i \in 1..n |-> IF i = 1 THEN s[i] ELSE f[i - 1] \o s[i]]
    BY <1>1, <1>2, Zenon DEF Join
  <2>2. \A k \in 1..n : f[k] = IF k = 1 THEN s[k] ELSE f[k - 1] \o s[k]
    BY <2>1, Zenon
  <2>3. DOMAIN f = 1..n
    BY <2>1, Zenon
  <2> QED BY <2>1, <2>2, <2>3
<1> DEFINE T == {m \in 1..n : f[m] \notin Seq(S)}
<1>5. ASSUME T # {} PROVE FALSE
  <2>1. T \subseteq Nat
    OBVIOUS
  <2> HIDE DEF T
  <2>2. PICK m \in T : \A k \in T : m <= k
    BY <1>5, <2>1, Least
  <2> USE DEF T
  <2>3. f[m] = IF m = 1 THEN s[m] ELSE f[m - 1] \o s[m]
    BY <1>4
  <2>4. s[m] \in Seq(S)
    BY <1>1
  <2>5. ASSUME m # 1 PROVE f[m - 1] \in Seq(S)
    <3>1. m - 1 \in 1..n /\ ~(m <= m - 1)
      BY <1>1, <2>5
    <3> QED BY <2>2, <3>1
  <2>6. m # 1 => f[m - 1] \o s[m] \in Seq(S)
    BY <2>4, <2>5, ConcatProperties
  <2> QED BY <2>3, <2>4, <2>6
<1>6. f \in [1..n -> Seq(S)]
  BY <1>4, <1>5
<1> QED BY <1>3, <1>4, <1>6 DEF n

\* Pieces over S make a text over S, and none make none.
LEMMA FlattenIsTyped ==
  ASSUME NEW S, NEW s \in Seq(Seq(S))
  PROVE  FlattenSeq(s) \in Seq(S) /\ (Len(s) = 0 => FlattenSeq(s) = <<>>)
<1>1. CASE Len(s) = 0
  <2>1. FlattenSeq(s) = s
    BY <1>1 DEF FlattenSeq
  <2>2. s = <<>>
    BY <1>1, EmptySeq
  <2> QED BY <2>1, <2>2, EmptySeq
<1>2. CASE Len(s) # 0
  <2>1. PICK f \in [1..Len(s) -> Seq(S)] : FlattenSeq(s) = f[Len(s)]
    BY <1>2, Joined
  <2>2. Len(s) \in 1..Len(s)
    BY <1>2, SeqIs
  <2> QED BY <1>2, <2>1, <2>2
<1> QED BY <1>1, <1>2

\* Each piece is in the text where P says.
Spots(s, P) ==
  /\ P \in [0..Len(s) -> Nat] /\ P[0] = 0
  /\ \A k \in 1..Len(s) : P[k] = P[k - 1] + Len(s[k])
  /\ P[Len(s)] = Len(FlattenSeq(s))
  /\ \A k \in 1..Len(s) : /\ P[k] <= Len(FlattenSeq(s))
                          /\ \A i \in 1..Len(s[k]) : FlattenSeq(s)[P[k - 1] + i] = s[k][i]

Begins(x, y) == Len(x) <= Len(y) /\ \A i \in 1..Len(x) : y[i] = x[i]

\* Each piece has a spot.
LEMMA SpotsExist ==
  ASSUME NEW S, NEW s \in Seq(Seq(S))
  PROVE  \E P : Spots(s, P)
<1> DEFINE n == Len(s)
           x == FlattenSeq(s)
<1>1. n \in Nat /\ s \in [1..n -> Seq(S)]
  BY SeqIs
<1>2. CASE n = 0
  <2>1. x = <<>> /\ Len(<<>>) = 0
    BY <1>2, FlattenIsTyped
  <2> DEFINE P == [k \in 0..n |-> 0]
  <2>2. P \in [0..n -> Nat] /\ P[0] = 0 /\ P[n] = 0
    BY <1>2
  <2>3. 1..n = {}
    BY <1>2
  <2> HIDE DEF P
  <2>4. Spots(s, P)
    BY <2>1, <2>2, <2>3 DEF Spots
  <2> QED BY <2>4
<1>3. CASE n # 0
  <2>1. PICK f \in [1..n -> Seq(S)] :
          /\ \A k \in 1..n : f[k] = IF k = 1 THEN s[k] ELSE f[k - 1] \o s[k]
          /\ x = f[n]
    BY <1>3, Joined
  <2> DEFINE P == [k \in 0..n |-> IF k = 0 THEN 0 ELSE Len(f[k])]
  <2> HIDE DEF x, n
  <2>2. \A k \in 1..n : f[k] \in Seq(S) /\ Len(f[k]) \in Nat /\ s[k] \in Seq(S) /\ Len(s[k]) \in Nat
    BY <1>1, <2>1, SeqIs
  <2>3. P \in [0..n -> Nat] /\ P[0] = 0 /\ \A k \in 1..n : P[k] = Len(f[k])
    BY <1>1, <2>2
  <2> HIDE DEF P
  <2>4. ASSUME NEW k \in 1..n
        PROVE  /\ P[k] = P[k - 1] + Len(s[k])
               /\ \A i \in 1..Len(s[k]) : f[k][P[k - 1] + i] = s[k][i]
               /\ k # 1 => Begins(f[k - 1], f[k])
    <3>1. CASE k = 1
      <4>1. f[k] = s[k] /\ k - 1 = 0
        BY <1>1, <2>1, <3>1
      <4> QED BY <2>2, <2>3, <3>1, <4>1
    <3>2. CASE k # 1
      <4> DEFINE a == f[k - 1]
                 b == s[k]
      <4>1. k - 1 \in 1..n /\ P[k - 1] = Len(a) /\ P[k] = Len(f[k])
        BY <1>1, <2>3, <3>2
      <4>2. a \in Seq(S) /\ b \in Seq(S) /\ Len(a) \in Nat /\ Len(b) \in Nat /\ f[k] = a \o b
        BY <2>1, <2>2, <3>2, <4>1
      <4> HIDE DEF a, b
      <4>3. /\ Len(f[k]) = Len(a) + Len(b)
            /\ \A i \in 1..Len(a) + Len(b) : f[k][i] = IF i <= Len(a) THEN a[i] ELSE b[i - Len(a)]
        BY <4>2, ConcatProperties
      <4>4. \A i \in 1..Len(b) : f[k][Len(a) + i] = b[i]
        <5> TAKE i \in 1..Len(b)
        <5>1. Len(a) + i \in 1..Len(a) + Len(b) /\ ~(Len(a) + i <= Len(a)) /\ (Len(a) + i) - Len(a) = i
          BY <4>2
        <5> QED BY <4>3, <5>1
      <4>5. Begins(a, f[k])
        BY <4>2, <4>3 DEF Begins
      <4> QED BY <4>1, <4>3, <4>4, <4>5 DEF a, b
    <3> QED BY <3>1, <3>2
  <2>5. ASSUME NEW k \in 1..n PROVE Begins(f[k], x)
    <3> DEFINE T == {m \in k..n : ~Begins(f[k], f[m])}
    <3>1. ASSUME T # {} PROVE FALSE
      <4>1. T \subseteq Nat
        BY <1>1
      <4> HIDE DEF T
      <4>2. PICK m \in T : \A j \in T : m <= j
        BY <3>1, <4>1, Least
      <4> USE DEF T
      <4>3. Begins(f[k], f[k])
        BY <2>2 DEF Begins
      <4>4. m # k /\ m - 1 \in k..n /\ m \in 1..n /\ m # 1
        BY <1>1, <4>2, <4>3
      <4>5. Begins(f[k], f[m - 1])
        BY <4>2, <4>4
      <4>6. Begins(f[m - 1], f[m])
        BY <2>4, <4>4
      <4>7. f[m - 1] \in Seq(S) /\ Len(f[m - 1]) \in Nat /\ Len(f[k]) \in Nat /\ Len(f[m]) \in Nat
        BY <1>1, <2>2, <4>4
      <4>8. Begins(f[k], f[m])
        BY <4>5, <4>6, <4>7 DEF Begins
      <4> QED BY <4>2, <4>8
    <3>2. n \in k..n
      BY <1>1
    <3> QED BY <2>1, <3>1, <3>2
  <2>6. n \in 1..n
    BY <1>1, <1>3
  <2>7. P[n] = Len(x)
    BY <2>1, <2>3, <2>6
  <2>8. ASSUME NEW k \in 1..n
        PROVE  P[k] <= Len(x) /\ \A i \in 1..Len(s[k]) : x[P[k - 1] + i] = s[k][i]
    <3>1. Begins(f[k], x) /\ P[k] = Len(f[k]) /\ P[k - 1] \in Nat /\ Len(s[k]) \in Nat /\ P[k] \in Nat
      BY <1>1, <2>2, <2>3, <2>5
    <3>2. P[k] = P[k - 1] + Len(s[k])
      BY <2>4
    <3>3. ASSUME NEW i \in 1..Len(s[k]) PROVE x[P[k - 1] + i] = s[k][i]
      <4>1. P[k - 1] + i \in 1..Len(f[k])
        BY <3>1, <3>2
      <4>2. x[P[k - 1] + i] = f[k][P[k - 1] + i]
        BY <3>1, <4>1 DEF Begins
      <4> QED BY <2>4, <4>2
    <3> QED BY <3>1, <3>3 DEF Begins
  <2>9. Spots(s, P)
    BY <2>3, <2>4, <2>7, <2>8 DEF Spots, n, x
  <2> QED BY <2>9
<1> QED BY <1>2, <1>3

Associative(S) == \A x, y, z \in Seq(S) : (x \o y) \o z = x \o (y \o z)

LEMMA ConcatIsAssociative ==
  ASSUME NEW S
  PROVE  Associative(S)
<1> SUFFICES ASSUME NEW x \in Seq(S), NEW y \in Seq(S), NEW z \in Seq(S)
             PROVE  (x \o y) \o z = x \o (y \o z)
  BY DEF Associative
<1> QED BY ConcatAssociative

\* The pieces of two texts make the one and then the other.
LEMMA FlattenConcat ==
  ASSUME NEW S, NEW c \in Seq(Seq(S)), NEW d \in Seq(Seq(S))
  PROVE  FlattenSeq(c \o d) = FlattenSeq(c) \o FlattenSeq(d)
<1> DEFINE m == Len(c)
           n == Len(d)
           e == c \o d
<1>0. Associative(S)
  BY ConcatIsAssociative, Zenon
<1>1. /\ m \in Nat /\ n \in Nat /\ c \in [1..m -> Seq(S)] /\ d \in [1..n -> Seq(S)]
      /\ FlattenSeq(c) \in Seq(S) /\ FlattenSeq(d) \in Seq(S)
  BY SeqIs, FlattenIsTyped
<1>2. /\ e \in Seq(Seq(S)) /\ Len(e) = m + n
      /\ \A k \in 1..(m + n) : e[k] = IF k <= m THEN c[k] ELSE d[k - m]
  BY ConcatProperties
<1>3. CASE m = 0
  <2>1. c = <<>> /\ FlattenSeq(c) = <<>>
    BY <1>3, EmptySeq, FlattenIsTyped
  <2>2. e = d
    BY <2>1, ConcatEmptySeq
  <2> QED BY <1>1, <2>1, <2>2, ConcatEmptySeq
<1>4. CASE n = 0
  <2>1. d = <<>> /\ FlattenSeq(d) = <<>>
    BY <1>4, EmptySeq, FlattenIsTyped
  <2>2. e = c
    BY <2>1, ConcatEmptySeq
  <2> QED BY <1>1, <2>1, <2>2, ConcatEmptySeq
<1>5. CASE m # 0 /\ n # 0
  <2>1. PICK f \in [1..m -> Seq(S)] :
          /\ \A k \in 1..m : f[k] = IF k = 1 THEN c[k] ELSE f[k - 1] \o c[k]
          /\ FlattenSeq(c) = f[m]
    BY <1>5, Joined
  <2>2. PICK g \in [1..n -> Seq(S)] :
          /\ \A k \in 1..n : g[k] = IF k = 1 THEN d[k] ELSE g[k - 1] \o d[k]
          /\ FlattenSeq(d) = g[n]
    BY <1>5, Joined
  <2>3. PICK h \in [1..(m + n) -> Seq(S)] :
          /\ \A k \in 1..(m + n) : h[k] = IF k = 1 THEN e[k] ELSE h[k - 1] \o e[k]
          /\ FlattenSeq(e) = h[m + n]
    <3>1. Len(e) # 0
      BY <1>1, <1>2, <1>5
    <3>2. PICK h \in [1..Len(e) -> Seq(S)] :
            /\ \A k \in 1..Len(e) : h[k] = IF k = 1 THEN e[k] ELSE h[k - 1] \o e[k]
            /\ FlattenSeq(e) = h[Len(e)]
      BY <1>2, <3>1, Joined
    <3> HIDE DEF e, m, n
    <3> QED BY <1>2, <3>2
  <2> HIDE DEF e, m, n
  <2>4. \A k \in 1..m : h[k] = f[k]
    <3> DEFINE T == {k \in 1..m : h[k] # f[k]}
    <3>1. ASSUME T # {} PROVE FALSE
      <4>1. T \subseteq Nat
        BY <1>1
      <4> HIDE DEF T
      <4>2. PICK k \in T : \A i \in T : k <= i
        BY <3>1, <4>1, Least
      <4>3. k \in 1..m /\ k \in 1..(m + n) /\ h[k] # f[k] /\ e[k] = c[k]
        <5>1. k \in 1..m /\ h[k] # f[k]
          BY <4>2 DEF T
        <5>2. k \in 1..(m + n) /\ k <= m
          BY <1>1, <5>1
        <5> QED BY <1>2, <5>1, <5>2
      <4>4. k # 1 => h[k - 1] = f[k - 1]
        <5> HAVE k # 1
        <5>1. k - 1 \in 1..m /\ ~(k <= k - 1)
          BY <1>1, <4>3
        <5>2. k - 1 \notin T
          BY <4>2, <5>1
        <5> QED BY <5>1, <5>2 DEF T
      <4>5. h[k] = IF k = 1 THEN c[k] ELSE h[k - 1] \o c[k]
        BY <2>3, <4>3, Zenon
      <4>6. f[k] = IF k = 1 THEN c[k] ELSE f[k - 1] \o c[k]
        BY <2>1, <4>3, Zenon
      <4> HIDE DEF T
      <4> QED BY <4>3, <4>4, <4>5, <4>6, Zenon
    <3> QED BY <3>1
  <2>5. \A k \in 1..n : h[m + k] = f[m] \o g[k]
    <3> DEFINE T == {k \in 1..n : h[m + k] # f[m] \o g[k]}
    <3>1. ASSUME T # {} PROVE FALSE
      <4>1. T \subseteq Nat
        BY <1>1
      <4> HIDE DEF T
      <4>2. PICK k \in T : \A i \in T : k <= i
        BY <3>1, <4>1, Least
      <4>3. k \in 1..n /\ h[m + k] # f[m] \o g[k]
        BY <4>2 DEF T
      <4>4. m + k \in 1..(m + n) /\ m + k # 1 /\ ~(m + k <= m) /\ (m + k) - m = k /\ (m + k) - 1 = m + (k - 1)
        BY <1>1, <1>5, <4>3
      <4>5. e[m + k] = d[k]
        BY <1>2, <4>4
      <4>6. h[m + k] = h[m + (k - 1)] \o d[k]
        BY <2>3, <4>4, <4>5
      <4>7. CASE k = 1
        <5>1. m + (k - 1) = m /\ m \in 1..m
          BY <1>1, <1>5, <4>7
        <5>2. h[m + (k - 1)] = f[m]
          BY <2>4, <5>1
        <5>3. g[k] = d[k]
          BY <2>2, <4>3, <4>7
        <5> QED BY <4>3, <4>6, <5>2, <5>3
      <4>8. CASE k # 1
        <5>1. k - 1 \in 1..n /\ ~(k <= k - 1)
          BY <1>1, <4>3, <4>8
        <5>2. h[m + (k - 1)] = f[m] \o g[k - 1]
          BY <4>2, <5>1 DEF T
        <5>3. g[k] = g[k - 1] \o d[k]
          BY <2>2, <4>3, <4>8
        <5>4. f[m] \in Seq(S) /\ g[k - 1] \in Seq(S) /\ d[k] \in Seq(S)
          <6>1. m \in 1..m
            BY <1>1, <1>5
          <6> QED BY <1>1, <2>1, <2>2, <4>3, <5>1, <6>1
        <5>5. (f[m] \o g[k - 1]) \o d[k] = f[m] \o (g[k - 1] \o d[k])
          <6> DEFINE x == f[m]
                     y == g[k - 1]
                     z == d[k]
          <6>1. x \in Seq(S) /\ y \in Seq(S) /\ z \in Seq(S)
            BY <5>4
          <6> HIDE DEF x, y, z
          <6>2. (x \o y) \o z = x \o (y \o z)
            BY <6>1, <1>0 DEF Associative
          <6> QED BY <6>2 DEF x, y, z
        <5> QED BY <4>3, <4>6, <5>2, <5>3, <5>5
      <4> QED BY <4>7, <4>8
    <3> QED BY <3>1
  <2>6. n \in 1..n
    BY <1>1, <1>5
  <2>7. FlattenSeq(e) = FlattenSeq(c) \o FlattenSeq(d)
    BY <2>1, <2>2, <2>3, <2>5, <2>6
  <2> QED BY <2>7 DEF e
<1> QED BY <1>3, <1>4, <1>5

\* One piece is the text.
LEMMA FlattenOne ==
  ASSUME NEW S, NEW x \in Seq(S)
  PROVE  <<x>> \in Seq(Seq(S)) /\ FlattenSeq(<<x>>) = x
<1> DEFINE c == <<x>>
<1>1. c \in Seq(Seq(S)) /\ Len(c) = 1 /\ c[1] = x
  OBVIOUS
<1> HIDE DEF c
<1>2. PICK f \in [1..1 -> Seq(S)] :
        /\ \A k \in 1..1 : f[k] = IF k = 1 THEN c[k] ELSE f[k - 1] \o c[k]
        /\ FlattenSeq(c) = f[1]
  <2>1. Len(c) # 0
    BY <1>1
  <2>2. PICK f \in [1..Len(c) -> Seq(S)] :
          /\ \A k \in 1..Len(c) : f[k] = IF k = 1 THEN c[k] ELSE f[k - 1] \o c[k]
          /\ FlattenSeq(c) = f[Len(c)]
    BY <1>1, <2>1, Joined
  <2> QED BY <1>1, <2>2
<1>3. 1 \in 1..1
  OBVIOUS
<1>4. FlattenSeq(c) = x
  BY <1>1, <1>2, <1>3
<1> QED BY <1>1, <1>4 DEF c

\* Pieces that say nothing.
LEMMA FlattenNothing ==
  ASSUME NEW S, NEW c \in Seq(Seq(S)), \A k \in 1..Len(c) : c[k] = <<>>
  PROVE  FlattenSeq(c) = <<>>
<1>1. PICK P : Spots(c, P)
  BY SpotsExist
<1> DEFINE n == Len(c)
           T == {k \in 0..n : P[k] # 0}
<1>2. /\ n \in Nat /\ P[0] = 0 /\ \A k \in 1..n : P[k] = P[k - 1] + Len(c[k])
      /\ P[n] = Len(FlattenSeq(c)) /\ FlattenSeq(c) \in Seq(S)
  BY <1>1, SeqIs, FlattenIsTyped DEF Spots
<1>3. ASSUME T # {} PROVE FALSE
  <2>1. T \subseteq Nat
    OBVIOUS
  <2> HIDE DEF T
  <2>2. PICK k \in T : \A i \in T : k <= i
    BY <1>3, <2>1, Least
  <2>3. k \in 0..n /\ P[k] # 0
    BY <2>2 DEF T
  <2>4. k \in 1..n /\ k - 1 \in 0..n /\ ~(k <= k - 1)
    BY <1>2, <2>3
  <2>5. P[k - 1] = 0
    BY <2>2, <2>4 DEF T
  <2>6. P[k] = 0
    BY <1>2, <2>4, <2>5, EmptySeq
  <2> QED BY <2>3, <2>6
<1>4. P[n] = 0
  <2>1. n \in 0..n
    BY <1>2
  <2> QED BY <1>3, <2>1
<1> QED BY <1>2, <1>4, EmptySeq

\* Pieces that say one word each.
LEMMA FlattenSingles ==
  ASSUME NEW S, NEW w \in Seq(S), NEW c \in Seq(Seq(S)), Len(c) = Len(w), \A k \in 1..Len(w) : c[k] = <<w[k]>>
  PROVE  FlattenSeq(c) = w
<1> DEFINE n == Len(w)
           x == FlattenSeq(c)
<1>1. PICK P : Spots(c, P)
  BY SpotsExist
<1>2. /\ n \in Nat /\ P[0] = 0 /\ \A k \in 1..n : P[k] = P[k - 1] + Len(c[k])
      /\ P[n] = Len(x) /\ x \in Seq(S)
      /\ \A k \in 1..n : \A i \in 1..Len(c[k]) : x[P[k - 1] + i] = c[k][i]
  BY <1>1, SeqIs, FlattenIsTyped DEF Spots
<1>3. \A k \in 1..n : Len(c[k]) = 1 /\ c[k][1] = w[k]
  <2> TAKE k \in 1..n
  <2>1. c[k] = <<w[k]>>
    OBVIOUS
  <2> QED BY <2>1
<1> HIDE DEF x, n
<1> DEFINE T == {k \in 0..n : P[k] # k}
<1>4. ASSUME T # {} PROVE FALSE
  <2>1. T \subseteq Nat
    BY <1>2
  <2> HIDE DEF T
  <2>2. PICK k \in T : \A i \in T : k <= i
    BY <1>4, <2>1, Least
  <2>3. k \in 0..n /\ P[k] # k
    BY <2>2 DEF T
  <2>4. n \in Nat /\ k \in Nat /\ k # 0
    BY <1>2, <2>3
  <2>5. k \in 1..n /\ k - 1 \in 0..n /\ ~(k <= k - 1)
    BY <2>3, <2>4
  <2>6. P[k - 1] = k - 1
    BY <2>2, <2>5 DEF T
  <2>7. P[k] = P[k - 1] + Len(c[k]) /\ Len(c[k]) = 1
    BY <1>2, <1>3, <2>5
  <2>8. P[k] = k
    BY <2>4, <2>6, <2>7
  <2> QED BY <2>3, <2>8
<1>5. \A k \in 0..n : P[k] = k
  BY <1>4
<1>6. Len(x) = n
  BY <1>2, <1>5
<1>7. ASSUME NEW k \in 1..n PROVE x[k] = w[k]
  <2>1. k - 1 \in 0..n /\ (k - 1) + 1 = k /\ 1 \in 1..1
    BY <1>2
  <2>2. P[k - 1] = k - 1
    BY <1>5, <2>1
  <2>3. x[P[k - 1] + 1] = c[k][1]
    BY <1>2, <1>3, <2>1
  <2> QED BY <1>3, <2>1, <2>2, <2>3
<1>8. x = w
  BY <1>2, <1>6, <1>7, SeqEqual DEF n
<1> QED BY <1>8 DEF x

-----------------------------------------------------------------------------
(***************************************************************************)
(* PART ONE: Import.                                                       *)
(***************************************************************************)

-----------------------------------------------------------------------------
(***************************************************************************)
(* Turns through a text.                                                   *)
(***************************************************************************)

\* The first token t from p on is at k.
First(x, t, p, k) == k \in p..Len(x) /\ x[k] = t /\ \A j \in p..(k - 1) : x[j] # t

Absent(x, t, p) == \A j \in p..Len(x) : x[j] # t

HasParen(x, c) == c + 1 <= Len(x) /\ x[c + 1] = Paren

\* The next image from p on is a label in o..c without an address ...
IsLabel(x, p, o, c) ==
  o \in Nat /\ c \in Nat /\ First(x, Open, p, o) /\ First(x, Close, o + 1, c) /\ ~HasParen(x, c)

\* ... or a reference with the address between c + 1 and e.
IsRef(x, p, o, c, e) ==
  /\ o \in Nat /\ c \in Nat /\ e \in Nat
  /\ First(x, Open, p, o) /\ First(x, Close, o + 1, c) /\ HasParen(x, c) /\ First(x, End, c + 2, e)

\* One turn of either loop leads from p to q.
Turn(x, p, q) ==
  \/ \E o, c \in Nat : IsLabel(x, p, o, c) /\ q = c + 1
  \/ \E o, c, e \in Nat : IsRef(x, p, o, c, e) /\ q = e + 1

\* The turn from p meets a reference to the word w.
Names(x, p, w) == \E o, c \in Nat : IsRef(x, p, o, c, c + 3) /\ x[c + 2] = w

Position == Nat \ {0}

\* The loop may be at p: each set of positions that has the first and is closed has p.
Closed(x, S) == 1 \in S /\ \A r \in S : \A q \in Position : Turn(x, r, q) => q \in S

Reach(x, p) == p \in Position /\ \A S \in SUBSET Position : Closed(x, S) => p \in S

\* No turn that starts before p leads beyond it.
Passed(x, p) == \A r, q \in Position : Reach(x, r) /\ r < p /\ Turn(x, r, q) => q <= p

\* No reference is complete from p on.
Dead(x, p) == Absent(x, Open, p) \/ Absent(x, Close, p) \/ Absent(x, End, p)

\* The brackets of the next image are not complete.
Broken(x, p) ==
  \/ Absent(x, Open, p)
  \/ \E o \in Nat : First(x, Open, p, o) /\ Absent(x, Close, o + 1)
  \/ \E o, c \in Nat : /\ First(x, Open, p, o) /\ First(x, Close, o + 1, c)
                       /\ HasParen(x, c) /\ Absent(x, End, c + 2)

LEMMA FirstIsOne ==
  ASSUME NEW x, NEW t, NEW p \in Nat, NEW k \in Nat, NEW m \in Nat, Len(x) \in Nat,
         First(x, t, p, k)
  PROVE  /\ First(x, t, p, m) => m = k
         /\ ~Absent(x, t, p)
         /\ p <= k
  BY DEF First, Absent

\* A turn leads on, to one place.
LEMMA TurnIsOne ==
  ASSUME NEW x, NEW p \in Position, Len(x) \in Nat
  PROVE  /\ \A q \in Position : Turn(x, p, q) => q > p
         /\ \A q, r \in Position : Turn(x, p, q) /\ Turn(x, p, r) => q = r
         /\ \A o, c, d, a, e \in Nat : ~(IsLabel(x, p, o, c) /\ IsRef(x, p, d, a, e))
<1> USE DEF Position
<1>1. ASSUME NEW o \in Nat, NEW c \in Nat, NEW d \in Nat, NEW a \in Nat,
             First(x, Open, p, o), First(x, Close, o + 1, c),
             First(x, Open, p, d), First(x, Close, d + 1, a)
      PROVE  o = d /\ c = a /\ c > p
  <2>1. o = d /\ p <= o
    BY <1>1, FirstIsOne
  <2>2. c = a /\ o + 1 <= c
    BY <1>1, <2>1 DEF First
  <2> QED BY <2>1, <2>2
<1>2. ASSUME NEW c \in Nat, NEW e \in Nat, NEW f \in Nat, First(x, End, c + 2, e), First(x, End, c + 2, f)
      PROVE  e = f /\ e > c
  <2>1. e = f /\ c + 2 <= e
    BY <1>2 DEF First
  <2> QED BY <2>1
<1>3. \A o, c, d, a, e \in Nat : ~(IsLabel(x, p, o, c) /\ IsRef(x, p, d, a, e))
  BY <1>1 DEF IsLabel, IsRef
<1>4. \A o, c, e, d, a, f \in Nat :
        IsRef(x, p, o, c, e) /\ IsRef(x, p, d, a, f) => o = d /\ c = a /\ e = f /\ e > c /\ c > p
  BY <1>1, <1>2 DEF IsRef
<1>5. \A o, c, d, a \in Nat : IsLabel(x, p, o, c) /\ IsLabel(x, p, d, a) => c = a /\ c > p
  BY <1>1 DEF IsLabel
<1>6. ASSUME NEW q \in Position, Turn(x, p, q)
      PROVE  /\ q > p
             /\ \A r \in Position : Turn(x, p, r) => q = r
  <2>1. ASSUME NEW o \in Nat, NEW c \in Nat, IsLabel(x, p, o, c), q = c + 1
        PROVE  q > p /\ \A r \in Position : Turn(x, p, r) => q = r
    <3>1. c > p
      BY <1>5, <2>1
    <3>2. ASSUME NEW r \in Position, Turn(x, p, r) PROVE q = r
      <4>1. \A d, a, e \in Nat : ~IsRef(x, p, d, a, e)
        BY <1>3, <2>1
      <4>2. PICK d \in Nat, a \in Nat : IsLabel(x, p, d, a) /\ r = a + 1
        BY <3>2, <4>1 DEF Turn
      <4>3. c = a
        BY <1>5, <2>1, <4>2
      <4> QED BY <2>1, <4>2, <4>3
    <3> QED BY <2>1, <3>1, <3>2
  <2>2. ASSUME NEW o \in Nat, NEW c \in Nat, NEW e \in Nat, IsRef(x, p, o, c, e), q = e + 1
        PROVE  q > p /\ \A r \in Position : Turn(x, p, r) => q = r
    <3>1. e > c /\ c > p
      BY <1>4, <2>2
    <3>2. ASSUME NEW r \in Position, Turn(x, p, r) PROVE q = r
      <4>1. \A d, a \in Nat : ~IsLabel(x, p, d, a)
        BY <1>3, <2>2
      <4>2. PICK d \in Nat, a \in Nat, f \in Nat : IsRef(x, p, d, a, f) /\ r = f + 1
        BY <3>2, <4>1 DEF Turn
      <4>3. e = f
        BY <1>4, <2>2, <4>2
      <4> QED BY <2>2, <4>2, <4>3
    <3> QED BY <2>2, <3>1, <3>2
  <2>3. \/ \E o, c \in Nat : IsLabel(x, p, o, c) /\ q = c + 1
        \/ \E o, c, e \in Nat : IsRef(x, p, o, c, e) /\ q = e + 1
    BY <1>6 DEF Turn
  <2> QED BY <2>1, <2>2, <2>3
<1>7. /\ \A q \in Position : Turn(x, p, q) => q > p
      /\ \A q, r \in Position : Turn(x, p, q) /\ Turn(x, p, r) => q = r
  BY <1>6
<1> QED BY <1>3, <1>7

\* The reference at a position is one.
LEMMA RefIsOne ==
  ASSUME NEW x, NEW p \in Position, Len(x) \in Nat,
         NEW o \in Nat, NEW c \in Nat, NEW e \in Nat, IsRef(x, p, o, c, e),
         NEW d \in Nat, NEW a \in Nat, NEW f \in Nat, IsRef(x, p, d, a, f)
  PROVE  c = a /\ e = f
<1>1. o = d
  <2>1. First(x, Open, p, o) /\ First(x, Open, p, d) /\ p \in Nat
    BY DEF IsRef, Position
  <2> QED BY <2>1, FirstIsOne
<1>2. c = a
  <2>1. First(x, Close, o + 1, c) /\ First(x, Close, o + 1, a) /\ o + 1 \in Nat
    BY <1>1 DEF IsRef
  <2> QED BY <2>1, FirstIsOne
<1>3. e = f
  <2>1. First(x, End, c + 2, e) /\ First(x, End, c + 2, f) /\ c + 2 \in Nat
    BY <1>2 DEF IsRef
  <2> QED BY <2>1, FirstIsOne
<1> QED BY <1>2, <1>3

\* Where the brackets are not complete there is no turn, and no reference.
LEMMA BrokenIsEnd ==
  ASSUME NEW x, NEW p \in Position, Len(x) \in Nat, Broken(x, p)
  PROVE  /\ \A q \in Position : ~Turn(x, p, q)
         /\ \A w : ~Names(x, p, w)
<1> USE DEF Position
<1>1. ASSUME NEW o \in Nat, NEW c \in Nat, First(x, Open, p, o), First(x, Close, o + 1, c)
      PROVE  /\ HasParen(x, c)
             /\ \A e \in Nat : ~First(x, End, c + 2, e)
  <2>1. ~Absent(x, Open, p)
    BY <1>1, FirstIsOne
  <2>2. \A d \in Nat : First(x, Open, p, d) => d = o
    BY <1>1, FirstIsOne
  <2>3. ~Absent(x, Close, o + 1)
    BY <1>1 DEF First, Absent
  <2>4. \A d \in Nat : First(x, Close, o + 1, d) => d = c
    BY <1>1 DEF First
  <2>5. HasParen(x, c) /\ Absent(x, End, c + 2)
    BY <2>1, <2>2, <2>3, <2>4 DEF Broken
  <2> QED BY <2>5, FirstIsOne
<1>2. \A o, c \in Nat : ~IsLabel(x, p, o, c)
  BY <1>1 DEF IsLabel
<1>3. \A o, c, e \in Nat : ~IsRef(x, p, o, c, e)
  BY <1>1 DEF IsRef
<1> QED BY <1>2, <1>3 DEF Turn, Names

LEMMA DeadIsDead ==
  ASSUME NEW x, NEW p \in Position, NEW q \in Position, Len(x) \in Nat, Dead(x, p), p <= q
  PROVE  /\ Dead(x, q)
         /\ \A o, c, e \in Nat : ~IsRef(x, p, o, c, e)
<1> USE DEF Position
<1>1. Dead(x, q)
  BY DEF Dead, Absent
<1>2. ASSUME NEW o \in Nat, NEW c \in Nat, NEW e \in Nat, IsRef(x, p, o, c, e) PROVE FALSE
  <2>1. o \in p..Len(x) /\ x[o] = Open /\ c \in p..Len(x) /\ x[c] = Close /\ e \in p..Len(x) /\ x[e] = End
    BY <1>2 DEF IsRef, First
  <2> QED BY <2>1 DEF Dead, Absent
<1> QED BY <1>1, <1>2

\* What a turn names, if it names a word.
LEMMA NamesIs ==
  ASSUME NEW x, NEW p \in Position, Len(x) \in Nat
  PROVE  /\ \A o, c \in Nat : IsLabel(x, p, o, c) => \A w : ~Names(x, p, w)
         /\ \A o, c, e \in Nat : IsRef(x, p, o, c, e) =>
              \A w : Names(x, p, w) <=> e = c + 3 /\ x[c + 2] = w
         /\ Dead(x, p) => \A w : ~Names(x, p, w)
<1>1. ASSUME NEW w, Names(x, p, w)
      PROVE  \E d, a, f \in Nat : IsRef(x, p, d, a, f) /\ f = a + 3 /\ x[a + 2] = w
  <2>1. PICK d \in Nat, a \in Nat : IsRef(x, p, d, a, a + 3) /\ x[a + 2] = w
    BY <1>1 DEF Names
  <2>2. a + 3 \in Nat
    OBVIOUS
  <2> QED BY <2>1, <2>2
<1>2. ASSUME NEW o \in Nat, NEW c \in Nat, NEW e \in Nat, IsRef(x, p, o, c, e), NEW w
      PROVE  Names(x, p, w) <=> e = c + 3 /\ x[c + 2] = w
  <2>1. ASSUME Names(x, p, w) PROVE e = c + 3 /\ x[c + 2] = w
    <3>1. PICK d \in Nat, a \in Nat, f \in Nat : IsRef(x, p, d, a, f) /\ f = a + 3 /\ x[a + 2] = w
      BY <1>1, <2>1
    <3>2. c = a /\ e = f
      BY <1>2, <3>1, RefIsOne
    <3> QED BY <3>1, <3>2
  <2>2. ASSUME e = c + 3, x[c + 2] = w PROVE Names(x, p, w)
    BY <1>2, <2>2 DEF Names
  <2> QED BY <2>1, <2>2
<1>3. \A o, c \in Nat : IsLabel(x, p, o, c) => \A w : ~Names(x, p, w)
  BY <1>1, TurnIsOne
<1>4. Dead(x, p) => \A w : ~Names(x, p, w)
  BY <1>1, DeadIsDead DEF Position
<1> QED BY <1>2, <1>3, <1>4

-----------------------------------------------------------------------------
(***************************************************************************)
(* The positions of a loop are passed one after the other.                 *)
(***************************************************************************)

LEMMA ReachOne ==
  ASSUME NEW x
  PROVE  Reach(x, 1) /\ (Len(x) \in Nat => Passed(x, 1))
  BY DEF Reach, Closed, Passed, Position

\* What can be reached lies in each closed set of what can be reached.
LEMMA ReachIn ==
  ASSUME NEW x, NEW S \in SUBSET Position, Closed(x, S), NEW r, Reach(x, r)
  PROVE  r \in S
  BY DEF Reach

LEMMA ReachIsClosed ==
  ASSUME NEW x, NEW p \in Position, NEW q \in Position, Reach(x, p), Turn(x, p, q)
  PROVE  Reach(x, q)
  BY DEF Reach, Closed

LEMMA WalkOn ==
  ASSUME NEW x, Len(x) \in Nat, NEW p \in Position, NEW q \in Position,
         Reach(x, p), Passed(x, p), Turn(x, p, q)
  PROVE  /\ Reach(x, q) /\ Passed(x, q)
         /\ \A r \in Position : Reach(x, r) /\ r < q => r < p \/ r = p
<1> DEFINE S == {r \in Position : Reach(x, r) /\ (r <= p \/ r >= q)}
<1>1. Reach(x, q)
  BY ReachIsClosed
<1>2. p < q
  BY TurnIsOne
<1>3. ASSUME NEW r \in S, NEW s \in Position, Turn(x, r, s) PROVE s \in S
  <2>1. Reach(x, s)
    BY <1>3, ReachIsClosed
  <2>2. r < p => s <= p
    BY <1>3 DEF Passed
  <2>3. r = p => s = q
    BY <1>3, TurnIsOne
  <2>4. r < s
    BY <1>3, TurnIsOne
  <2> QED BY <2>1, <2>2, <2>3, <2>4 DEF Position
<1>4. 1 \in S
  BY ReachOne DEF Position
<1>5. Closed(x, S)
  BY <1>3, <1>4 DEF Closed
<1>6. ASSUME NEW r \in Position, Reach(x, r), r < q PROVE r < p \/ r = p
  <2>1. r \in S
    BY <1>5, <1>6, ReachIn
  <2> QED BY <1>6, <2>1 DEF Position
<1>7. Passed(x, q)
  <2> SUFFICES ASSUME NEW r \in Position, NEW s \in Position, Reach(x, r), r < q, Turn(x, r, s)
               PROVE  s <= q
    BY DEF Passed
  <2>1. r < p => s <= p
    BY DEF Passed
  <2>2. r = p => s = q
    BY TurnIsOne
  <2> QED BY <1>2, <1>6, <2>1, <2>2 DEF Position
<1> QED BY <1>1, <1>6, <1>7

LEMMA WalkStops ==
  ASSUME NEW x, Len(x) \in Nat, NEW p \in Position, Reach(x, p), Passed(x, p),
         \A q \in Position : ~Turn(x, p, q)
  PROVE  \A r \in Position : Reach(x, r) => r < p \/ r = p
<1> DEFINE S == {r \in Position : Reach(x, r) /\ r <= p}
<1>1. ASSUME NEW r \in S, NEW s \in Position, Turn(x, r, s) PROVE s \in S
  <2>1. Reach(x, s)
    BY <1>1, ReachIsClosed
  <2>2. r < p => s <= p
    BY <1>1 DEF Passed
  <2>3. r # p
    BY <1>1
  <2> QED BY <2>1, <2>2, <2>3 DEF Position
<1>2. 1 \in S
  BY ReachOne DEF Position
<1>3. Closed(x, S)
  BY <1>1, <1>2 DEF Closed
<1>4. ASSUME NEW r \in Position, Reach(x, r) PROVE r < p \/ r = p
  <2>1. r \in S
    BY <1>3, <1>4, ReachIn
  <2> QED BY <2>1 DEF Position
<1> QED BY <1>4

-----------------------------------------------------------------------------
(***************************************************************************)
(* What the scanners find.                                                 *)
(***************************************************************************)

\* What Find looks for in x.
Finds(x, t, p, k) ==
  /\ k \in p..(p + Len(x))
  /\ k <= Len(x) => x[k] = t
  /\ \A j \in p..(k - 1) : x[j] # t

LEMMA SomethingIsFound ==
  ASSUME NEW x, Len(x) \in Nat, NEW t, NEW p \in Position
  PROVE  \E k : Finds(x, t, p, k)
<1> USE DEF Position
<1>1. CASE Absent(x, t, p)
  <2>1. CASE p > Len(x)
    <3>1. Finds(x, t, p, p)
      BY <2>1 DEF Finds
    <3> QED BY <3>1
  <2>2. CASE p <= Len(x)
    <3>1. Finds(x, t, p, Len(x) + 1)
      BY <1>1, <2>2 DEF Finds, Absent
    <3> QED BY <3>1
  <2> QED BY <2>1, <2>2
<1>2. CASE ~Absent(x, t, p)
  <2> DEFINE T == {j \in p..Len(x) : x[j] = t}
  <2>1. T \subseteq Nat /\ T # {}
    BY <1>2 DEF Absent
  <2>2. PICK m \in T : \A n \in T : m <= n
    BY <2>1, Least
  <2>3. Finds(x, t, p, m)
    BY <2>2 DEF Finds
  <2> QED BY <2>3
<1> QED BY <1>1, <1>2

LEMMA FindIs ==
  ASSUME NEW t, NEW p \in Position, Len(Text) \in Nat
  PROVE  /\ Find(t, p) \in Nat /\ Find(t, p) >= p
         /\ Ends(Find(t, p)) => Absent(Text, t, p)
         /\ ~Ends(Find(t, p)) => First(Text, t, p, Find(t, p))
<1>1. Find(t, p) = CHOOSE k : Finds(Text, t, p, k)
  BY Zenon DEF Find, Finds
<1>2. Finds(Text, t, p, Find(t, p))
  BY <1>1, SomethingIsFound, Zenon
<1> QED BY <1>2 DEF Finds, Absent, First, Ends, Position

\* What a turn of either loop meets in its text, read from the guards of the actions.
LEMMA ScannerSees ==
  ASSUME Len(Text) \in Nat, at \in Position
  PROVE  /\ OpenAt \in Nat /\ CloseAt \in Nat /\ EndAt \in Nat
         /\ at <= OpenAt /\ OpenAt + 1 <= CloseAt /\ CloseAt + 2 <= EndAt
         /\ Ends(OpenAt) => Absent(Text, Open, at)
         /\ ~Ends(OpenAt) => First(Text, Open, at, OpenAt)
         /\ Ends(CloseAt) => Absent(Text, Close, OpenAt + 1)
         /\ ~Ends(CloseAt) => First(Text, Close, OpenAt + 1, CloseAt)
         /\ Ends(EndAt) => Absent(Text, End, CloseAt + 2)
         /\ ~Ends(EndAt) => First(Text, End, CloseAt + 2, EndAt)
         /\ IsImage <=> HasParen(Text, CloseAt)
<1>1. OpenAt \in Nat /\ at <= OpenAt /\ OpenAt + 1 \in Position
  BY FindIs DEF OpenAt, Position
<1>2. CloseAt \in Nat /\ OpenAt + 1 <= CloseAt /\ CloseAt + 2 \in Position
  BY <1>1, FindIs DEF CloseAt, Position
<1>3. EndAt \in Nat /\ CloseAt + 2 <= EndAt
  BY <1>2, FindIs DEF EndAt
<1>4. /\ Ends(OpenAt) => Absent(Text, Open, at)
      /\ ~Ends(OpenAt) => First(Text, Open, at, OpenAt)
  BY FindIs DEF OpenAt
<1>5. /\ Ends(CloseAt) => Absent(Text, Close, OpenAt + 1)
      /\ ~Ends(CloseAt) => First(Text, Close, OpenAt + 1, CloseAt)
  BY <1>1, FindIs DEF CloseAt
<1>6. /\ Ends(EndAt) => Absent(Text, End, CloseAt + 2)
      /\ ~Ends(EndAt) => First(Text, End, CloseAt + 2, EndAt)
  BY <1>2, FindIs DEF EndAt
<1>7. IsImage <=> HasParen(Text, CloseAt)
  BY <1>2 DEF IsImage, HasParen, Ends
<1> QED BY <1>1, <1>2, <1>3, <1>4, <1>5, <1>6, <1>7

\* Each action of a loop meets a label, a reference, or brackets that are not complete;
\* what follows the latter is dead.
LEMMA Meets ==
  ASSUME Len(Text) \in Nat, at \in Position
  PROVE  /\ ~Ends(OpenAt) /\ ~Ends(CloseAt) /\ ~IsImage =>
              IsLabel(Text, at, OpenAt, CloseAt) /\ Turn(Text, at, CloseAt + 1)
         /\ ~Ends(OpenAt) /\ ~Ends(CloseAt) /\ IsImage /\ ~Ends(EndAt) =>
              IsRef(Text, at, OpenAt, CloseAt, EndAt) /\ Turn(Text, at, EndAt + 1)
         /\ Ends(OpenAt) => Broken(Text, at)
         /\ ~Ends(OpenAt) /\ Ends(CloseAt) => Broken(Text, at) /\ Dead(Text, OpenAt + 1)
         /\ ~Ends(OpenAt) /\ ~Ends(CloseAt) /\ IsImage /\ Ends(EndAt) =>
              Broken(Text, at) /\ Dead(Text, CloseAt + 2)
<1> USE ScannerSees
<1>1. ~Ends(OpenAt) /\ ~Ends(CloseAt) /\ ~IsImage =>
        IsLabel(Text, at, OpenAt, CloseAt) /\ Turn(Text, at, CloseAt + 1)
  BY DEF IsLabel, Turn
<1>2. ~Ends(OpenAt) /\ ~Ends(CloseAt) /\ IsImage /\ ~Ends(EndAt) =>
        IsRef(Text, at, OpenAt, CloseAt, EndAt) /\ Turn(Text, at, EndAt + 1)
  BY DEF IsRef, Turn
<1>3. Ends(OpenAt) => Broken(Text, at)
  BY DEF Broken
<1>4. ~Ends(OpenAt) /\ Ends(CloseAt) => Broken(Text, at) /\ Dead(Text, OpenAt + 1)
  BY DEF Broken, Dead
<1>5. ~Ends(OpenAt) /\ ~Ends(CloseAt) /\ IsImage /\ Ends(EndAt) =>
        Broken(Text, at) /\ Dead(Text, CloseAt + 2)
  BY DEF Broken, Dead
<1> QED BY <1>1, <1>2, <1>3, <1>4, <1>5

\* Behind a front matter the text is as without it.
LEMMA Behind ==
  ASSUME NEW f \in Seq(Token), NEW b \in Seq(Token)
  PROVE  /\ f \o b \in Seq(Token)
         /\ Len(f) \in Nat /\ Len(b) \in Nat /\ Len(f \o b) = Len(f) + Len(b)
         /\ \A i \in Position : i <= Len(b) => (f \o b)[Len(f) + i] = b[i]
         /\ \A i \in Position : i <= Len(f) => (f \o b)[i] = f[i]
<1>1. f \o b \in Seq(Token) /\ Len(f \o b) = Len(f) + Len(b) /\ Len(f) \in Nat /\ Len(b) \in Nat
  BY ConcatProperties, LenProperties
<1>2. \A i \in 1 .. Len(f) + Len(b) : (f \o b)[i] = IF i <= Len(f) THEN f[i] ELSE b[i - Len(f)]
  BY ConcatProperties
<1>3. ASSUME NEW i \in Position, i <= Len(b) PROVE (f \o b)[Len(f) + i] = b[i]
  <2> DEFINE x == f \o b
  <2>1. PICK j \in 1 .. Len(f) + Len(b) : j = Len(f) + i /\ ~(j <= Len(f)) /\ j - Len(f) = i
    BY <1>1, <1>3 DEF Position
  <2>2. x[j] = IF j <= Len(f) THEN f[j] ELSE b[j - Len(f)]
    BY <1>2
  <2> HIDE DEF x
  <2>3. x[j] = b[i]
    BY <2>1, <2>2
  <2>4. x[Len(f) + i] = b[i]
    BY <2>1, <2>3
  <2> QED BY <2>4 DEF x
<1>4. \A i \in Position : i <= Len(f) => (f \o b)[i] = f[i]
  BY <1>1, <1>2 DEF Position
<1> QED BY <1>1, <1>3, <1>4

LEMMA FirstBehind ==
  ASSUME NEW f \in Seq(Token), NEW b \in Seq(Token), NEW t, NEW p \in Position
  PROVE  /\ \A o \in Nat : First(f \o b, t, Len(f) + p, o) =>
              o - Len(f) \in Position /\ First(b, t, p, o - Len(f))
         /\ Absent(f \o b, t, Len(f) + p) => Absent(b, t, p)
<1>1. /\ Len(f) \in Nat /\ Len(b) \in Nat /\ Len(f \o b) = Len(f) + Len(b)
      /\ \A i \in Position : i <= Len(b) => (f \o b)[Len(f) + i] = b[i]
  BY Behind
<1>2. ASSUME NEW o \in Nat, First(f \o b, t, Len(f) + p, o)
      PROVE  o - Len(f) \in Position /\ First(b, t, p, o - Len(f))
  <2>1. o \in Len(f) + p..Len(f) + Len(b) /\ (f \o b)[o] = t
    BY <1>1, <1>2 DEF First
  <2> DEFINE x == f \o b
  <2>2. PICK k \in p..Len(b) : k \in Position /\ Len(f) + k = o /\ k = o - Len(f)
    BY <1>1, <2>1 DEF Position
  <2>3. b[k] = t
    <3>1. x[o] = t
      BY <2>1
    <3>2. k <= Len(b)
      BY <1>1
    <3>3. x[Len(f) + k] = b[k]
      BY <1>1, <2>2, <3>2
    <3> HIDE DEF x
    <3> QED BY <2>2, <3>1, <3>3
  <2>4. ASSUME NEW j \in p..(k - 1) PROVE b[j] # t
    <3>1. Len(f) + j \in Len(f) + p..(o - 1) /\ j \in Position /\ j <= Len(b)
      BY <1>1, <2>2 DEF Position
    <3>2. (f \o b)[Len(f) + j] # t
      BY <1>2, <3>1 DEF First
    <3> QED BY <1>1, <3>1, <3>2
  <2> QED BY <2>2, <2>3, <2>4 DEF First
<1>3. ASSUME Absent(f \o b, t, Len(f) + p), NEW j \in p..Len(b) PROVE b[j] # t
  <2>1. Len(f) + j \in Len(f) + p..Len(f \o b) /\ j \in Position /\ j <= Len(b)
    BY <1>1 DEF Position
  <2>2. (f \o b)[Len(f) + j] # t
    BY <1>3, <2>1 DEF Absent
  <2> QED BY <1>1, <2>1, <2>2
<1> QED BY <1>2, <1>3 DEF Absent

LEMMA MeetsBehind ==
  ASSUME NEW f \in Seq(Token), NEW b \in Seq(Token), NEW p \in Position
  PROVE  /\ \A o, c \in Nat : IsLabel(f \o b, Len(f) + p, o, c) =>
              c - Len(f) \in Position /\ IsLabel(b, p, o - Len(f), c - Len(f))
         /\ \A o, c, e \in Nat : IsRef(f \o b, Len(f) + p, o, c, e) =>
              /\ c - Len(f) \in Position /\ e - Len(f) \in Position
              /\ IsRef(b, p, o - Len(f), c - Len(f), e - Len(f))
         /\ Broken(f \o b, Len(f) + p) => Broken(b, p)
<1> DEFINE x == f \o b
           d == Len(f)
<1>1. d \in Nat /\ Len(b) \in Nat /\ Len(x) = d + Len(b)
  BY Behind
<1>2. \A i \in Position : i <= Len(b) => x[d + i] = b[i]
  BY Behind
<1>3. \A t : /\ \A o \in Nat : First(x, t, d + p, o) => o - d \in Position /\ First(b, t, p, o - d)
             /\ Absent(x, t, d + p) => Absent(b, t, p)
  BY FirstBehind
<1>4. ASSUME NEW o \in Nat, o - d \in Position, NEW t
      PROVE  /\ \A c \in Nat : First(x, t, o + 1, c) => c - d \in Position /\ First(b, t, o - d + 1, c - d)
             /\ Absent(x, t, o + 1) => Absent(b, t, o - d + 1)
  <2>1. o - d + 1 \in Position /\ d + (o - d + 1) = o + 1
    BY <1>1, <1>4 DEF Position
  <2> QED BY <2>1, FirstBehind
<1>5. ASSUME NEW c \in Nat, c - d \in Position, NEW t
      PROVE  /\ \A e \in Nat : First(x, t, c + 2, e) => e - d \in Position /\ First(b, t, c - d + 2, e - d)
             /\ Absent(x, t, c + 2) => Absent(b, t, c - d + 2)
  <2>1. c - d + 2 \in Position /\ d + (c - d + 2) = c + 2
    BY <1>1, <1>5 DEF Position
  <2> QED BY <2>1, FirstBehind
<1>6. ASSUME NEW c \in Nat, c - d \in Position
      PROVE  HasParen(x, c) <=> HasParen(b, c - d)
  <2>1. c - d + 1 \in Position /\ d + (c - d + 1) = c + 1
    BY <1>1, <1>6 DEF Position
  <2> QED BY <1>1, <1>2, <2>1 DEF HasParen
<1> HIDE DEF x, d
<1>7. ASSUME NEW o \in Nat, NEW c \in Nat, IsLabel(x, d + p, o, c)
      PROVE  c - d \in Position /\ IsLabel(b, p, o - d, c - d)
  <2>1. o - d \in Position /\ First(b, Open, p, o - d)
    BY <1>3, <1>7 DEF IsLabel
  <2>2. c - d \in Position /\ First(b, Close, o - d + 1, c - d)
    BY <1>4, <1>7, <2>1 DEF IsLabel
  <2>3. ~HasParen(b, c - d)
    BY <1>6, <1>7, <2>2 DEF IsLabel
  <2> QED BY <2>1, <2>2, <2>3 DEF IsLabel, Position
<1>8. ASSUME NEW o \in Nat, NEW c \in Nat, NEW e \in Nat, IsRef(x, d + p, o, c, e)
      PROVE  c - d \in Position /\ e - d \in Position /\ IsRef(b, p, o - d, c - d, e - d)
  <2>1. o - d \in Position /\ First(b, Open, p, o - d)
    BY <1>3, <1>8 DEF IsRef
  <2>2. c - d \in Position /\ First(b, Close, o - d + 1, c - d)
    BY <1>4, <1>8, <2>1 DEF IsRef
  <2>3. HasParen(b, c - d)
    BY <1>6, <1>8, <2>2 DEF IsRef
  <2>4. e - d \in Position /\ First(b, End, c - d + 2, e - d)
    BY <1>5, <1>8, <2>2 DEF IsRef
  <2> QED BY <2>1, <2>2, <2>3, <2>4 DEF IsRef, Position
<1>9. ASSUME Broken(x, d + p) PROVE Broken(b, p)
  <2>1. CASE Absent(x, Open, d + p)
    BY <1>3, <2>1 DEF Broken
  <2>2. ASSUME NEW o \in Nat, First(x, Open, d + p, o), Absent(x, Close, o + 1) PROVE Broken(b, p)
    <3>1. o - d \in Position /\ First(b, Open, p, o - d)
      BY <1>3, <2>2
    <3>2. Absent(b, Close, o - d + 1)
      BY <1>4, <2>2, <3>1
    <3> QED BY <3>1, <3>2 DEF Broken, Position
  <2>3. ASSUME NEW o \in Nat, NEW c \in Nat, First(x, Open, d + p, o), First(x, Close, o + 1, c),
               HasParen(x, c), Absent(x, End, c + 2)
        PROVE  Broken(b, p)
    <3>1. o - d \in Position /\ First(b, Open, p, o - d)
      BY <1>3, <2>3
    <3>2. c - d \in Position /\ First(b, Close, o - d + 1, c - d)
      BY <1>4, <2>3, <3>1
    <3>3. HasParen(b, c - d) /\ Absent(b, End, c - d + 2)
      BY <1>5, <1>6, <2>3, <3>2
    <3> QED BY <3>1, <3>2, <3>3 DEF Broken, Position
  <2> QED BY <1>9, <2>1, <2>2, <2>3 DEF Broken
<1> QED BY <1>7, <1>8, <1>9 DEF x, d

-----------------------------------------------------------------------------
(***************************************************************************)
(* The invariant.                                                          *)
(***************************************************************************)

Media == {Stored(w) : w \in Picture}

\* Images that a reference may mean.
Local == Picture \ Remote

Typed ==
  /\ kind \in {"md", "zip"} /\ at \in Position
  /\ body \in Seq(Token)
  /\ front \in Seq(Token) /\ (front # <<>> => front[Len(front)] = Dashes)
  /\ images \in Seq(Picture \cup Other)
  /\ rows \subseteq Picture /\ rows \subseteq files

\* A file is on its way to be recorded.
Uploading == phase = "record" => images # <<>> /\ Head(images) \in files /\ Head(images) \notin Other

\* As the text so far, with other addresses for images that are recorded.
Renders(o, n) ==
  /\ o \in Seq(Token \cup Media) /\ Len(o) = n /\ n <= Len(body)
  /\ \A k \in 1..n : o[k] = body[k] \/ (body[k] \in rows /\ o[k] = Stored(body[k]))

Kept ==
  /\ phase = "scan" => out = <<>>
  /\ phase # "scan" => Renders(out, at - 1)
  /\ phase \in {"extract", "upload", "record"} => at = 1

Drafted == content \in {<<>>, out} /\ (phase \notin {"draft", "done", "failed"} => content = <<>>)

\* Images that are found and not dropped.
Found(w) == w \in rows \/ Contains(images, w)

\* What the turn from r names is found.
Loads(r) == \A w \in Local : Names(body, r, w) => Found(w)

\* The first scanner has taken turns through the body up to p.
ScansAt(p) ==
  /\ at = Len(front) + p
  /\ Reach(body, p) /\ Passed(body, p)
  /\ \A r \in Position : Reach(body, r) /\ r < p => Loads(r)

\* It is in front matter that is closed, or it has taken turns through the body.
Scanned ==
  /\ phase = "extract" => images = <<>>
  /\ phase = "scan" /\ FrontIsClosed =>
       \/ at <= Len(front) + 1
       \/ \E p \in Position : ScansAt(p)

\* After the scan nothing is missed, and after the uploads all is recorded.
Complete ==
  /\ FrontIsClosed /\ kind = "zip" /\ phase \in {"upload", "record", "rewrite", "draft", "done"} =>
       \A r \in Position : Reach(body, r) => Loads(r)
  /\ phase \in {"rewrite", "draft", "done"} => images = <<>>

\* What is found is named.
Sound ==
  FrontIsClosed => \A w : Found(w) => Contains(front, w) \/ \E r \in Position : Reach(body, r) /\ Names(body, r, w)

\* The recorded image that the turn from r names has been written with its new address.
Puts(r) == \A w \in rows : Names(body, r, w) => Contains(out, Stored(w))

\* The second scanner takes the same turns, until it comes to what is dead.
Rewritten ==
  /\ phase = "rewrite" =>
       \/ /\ Reach(body, at) /\ Passed(body, at)
          /\ \A r \in Position : Reach(body, r) /\ r < at => Puts(r)
       \/ /\ Dead(body, at)
          /\ \A r \in Position : Reach(body, r) => Puts(r)
  /\ phase \in {"draft", "done"} => \A r \in Position : Reach(body, r) => Puts(r)

NoneIsLeft == FrontIsClosed /\ kind = "zip" => \A w \in Picture : <<w>> \notin unresolved

Inv == Typed /\ Uploading /\ Kept /\ Drafted /\ Scanned /\ Complete /\ Sound /\ Rewritten /\ NoneIsLeft

\* Both scanners read sequences of tokens.
LEMMA TextIs ==
  ASSUME Typed
  PROVE  /\ front \in Seq(Token) /\ Len(front) \in Nat /\ Len(body) \in Nat
         /\ phase = "scan" => Text = front \o body
         /\ phase # "scan" => Text = body
         /\ Text \in Seq(Token) /\ Len(Text) \in Nat
         /\ \A w : Contains(front, w) => w \in Token
<1>1. front \in Seq(Token)
  BY DEF Typed
<1>2. body \in Seq(Token)
  BY DEF Typed
<1>3. Len(front) \in Nat /\ Len(body) \in Nat /\ front \o body \in Seq(Token) /\ Len(front \o body) \in Nat
  BY <1>1, <1>2, ConcatProperties, LenProperties
<1>4. \A w : Contains(front, w) => w \in Token
  BY <1>1, ElementOfSeq DEF Contains
<1> QED BY <1>1, <1>2, <1>3, <1>4 DEF Text

-----------------------------------------------------------------------------
(***************************************************************************)
(* Writing out.                                                            *)
(***************************************************************************)

\* More of the text goes out.
LEMMA RendersMore ==
  ASSUME body \in Seq(Token), NEW o, NEW n \in Nat, Renders(o, n),
         NEW s \in Seq(Token \cup Media), NEW m \in Nat, Len(s) = m, n + m <= Len(body),
         \A i \in 1..m : s[i] = body[n + i] \/ (body[n + i] \in rows /\ s[i] = Stored(body[n + i]))
  PROVE  /\ Renders(o \o s, n + m)
         /\ \A t : Contains(o, t) \/ Contains(s, t) => Contains(o \o s, t)
<1> DEFINE x == o \o s
<1>1. o \in Seq(Token \cup Media) /\ Len(o) = n
  BY DEF Renders
<1>2. x \in Seq(Token \cup Media) /\ Len(x) = n + m
  BY <1>1, ConcatProperties
<1>3. ASSUME NEW k \in 1..(n + m)
      PROVE  x[k] = IF k <= n THEN o[k] ELSE s[k - n]
  <2>1. k \in 1..(Len(o) + Len(s))
    BY <1>1
  <2>2. \A i \in 1..(Len(o) + Len(s)) : x[i] = IF i <= Len(o) THEN o[i] ELSE s[i - Len(o)]
    BY <1>1, ConcatProperties, Zenon
  <2> QED BY <1>1, <2>1, <2>2
<1> HIDE DEF x
<1>4. ASSUME NEW k \in 1..(n + m)
      PROVE  x[k] = body[k] \/ (body[k] \in rows /\ x[k] = Stored(body[k]))
  <2>1. CASE k <= n
    <3>1. k \in 1..n /\ x[k] = o[k]
      BY <1>3, <2>1
    <3> QED BY <3>1 DEF Renders
  <2>2. CASE ~(k <= n)
    <3>1. PICK i \in 1..m : i = k - n /\ n + i = k
      BY <2>2
    <3>2. x[k] = s[i]
      BY <1>3, <2>2, <3>1
    <3> QED BY <3>1, <3>2
  <2> QED BY <2>1, <2>2
<1>5. ASSUME NEW t, Contains(o, t) PROVE Contains(x, t)
  <2>1. PICK i \in 1..n : o[i] = t
    BY <1>1, <1>5 DEF Contains
  <2>2. i \in 1..(n + m) /\ x[i] = t
    BY <1>3, <2>1
  <2> QED BY <1>2, <2>2 DEF Contains
<1>6. ASSUME NEW t, Contains(s, t) PROVE Contains(x, t)
  <2>1. PICK i \in 1..m : s[i] = t
    BY <1>6 DEF Contains
  <2>2. PICK k \in 1..(n + m) : k = n + i /\ ~(k <= n) /\ k - n = i
    BY <2>1
  <2>3. x[k] = t
    BY <1>3, <2>1, <2>2
  <2> QED BY <1>2, <2>3 DEF Contains
<1>7. Renders(x, n + m)
  BY <1>2, <1>4 DEF Renders
<1> QED BY <1>5, <1>6, <1>7 DEF x

LEMMA SpanIs ==
  ASSUME body \in Seq(Token), NEW p \in Position, NEW q \in Nat, p <= q + 1, q <= Len(body)
  PROVE  /\ SubSeq(body, p, q) \in Seq(Token) /\ Len(SubSeq(body, p, q)) = q + 1 - p
         /\ \A i \in 1..(q + 1 - p) : SubSeq(body, p, q)[i] = body[p - 1 + i]
<1>1. \A i \in p..q : body[i] \in Token
  BY ElementOfSeq DEF Position
<1>2. p \in Int /\ q \in Int
  BY DEF Position
<1>3. /\ SubSeq(body, p, q) \in Seq(Token)
      /\ Len(SubSeq(body, p, q)) = IF p <= q THEN q - p + 1 ELSE 0
      /\ \A i \in 1..(q - p + 1) : SubSeq(body, p, q)[i] = body[p + i - 1]
  BY <1>1, <1>2, SubSeqProperties
<1> DEFINE s == SubSeq(body, p, q)
<1> HIDE DEF s
<1>4. ASSUME NEW i \in 1..(q + 1 - p) PROVE s[i] = body[p - 1 + i]
  <2>1. i \in 1..(q - p + 1) /\ p + i - 1 = p - 1 + i
    BY DEF Position
  <2> QED BY <1>3, <2>1 DEF s
<1> QED BY <1>2, <1>3, <1>4 DEF s

\* The text up to q goes out as it is.
LEMMA CopyRenders ==
  ASSUME body \in Seq(Token), NEW p \in Position, NEW o, Renders(o, p - 1),
         NEW q \in Nat, p <= q + 1, q <= Len(body)
  PROVE  /\ Renders(o \o SubSeq(body, p, q), q)
         /\ \A t : Contains(o, t) => Contains(o \o SubSeq(body, p, q), t)
<1> DEFINE s == SubSeq(body, p, q)
           n == p - 1
           m == q + 1 - p
<1>1. s \in Seq(Token) /\ Len(s) = m /\ \A i \in 1..m : s[i] = body[n + i]
  BY SpanIs
<1>2. s \in Seq(Token \cup Media)
  BY <1>1, SeqMonotonic
<1>3. n \in Nat /\ m \in Nat /\ n + m = q
  BY DEF Position
<1> HIDE DEF s, n, m
<1>4. Renders(o, n)
  BY DEF n
<1>5. Renders(o \o s, n + m) /\ \A t : Contains(o, t) \/ Contains(s, t) => Contains(o \o s, t)
  BY <1>1, <1>2, <1>3, <1>4, RendersMore
<1> QED BY <1>3, <1>5 DEF s

-----------------------------------------------------------------------------
(***************************************************************************)
(* The invariant holds at first, and no step violates it.                  *)
(***************************************************************************)

LEMMA InContains ==
  ASSUME NEW S, NEW s \in Seq(S)
  PROVE  /\ s # <<>> => /\ Head(s) \in S /\ Tail(s) \in Seq(S)
                        /\ \A w : Contains(s, w) <=> w = Head(s) \/ Contains(Tail(s), w)
         /\ \A e \in S : /\ Append(s, e) \in Seq(S)
                         /\ \A w : Contains(Append(s, e), w) <=> Contains(s, w) \/ w = e
<1>1. Len(s) \in Nat
  BY LenProperties
<1>2. ASSUME s # <<>>
      PROVE  /\ Head(s) \in S /\ Tail(s) \in Seq(S)
             /\ \A w : Contains(s, w) <=> w = Head(s) \/ Contains(Tail(s), w)
  <2> DEFINE t == Tail(s)
  <2>1. Head(s) \in S /\ t \in Seq(S) /\ Len(t) = Len(s) - 1 /\ \A i \in 1..Len(t) : t[i] = s[i + 1]
    BY <1>2, HeadTailProperties
  <2>2. Head(s) = s[1] /\ Len(s) # 0
    BY <1>2, EmptySeq
  <2> HIDE DEF t
  <2>3. ASSUME NEW w, Contains(s, w) PROVE w = Head(s) \/ Contains(t, w)
    <3>1. PICK i \in 1..Len(s) : s[i] = w
      BY <2>3 DEF Contains
    <3>2. CASE i = 1
      BY <2>2, <3>1, <3>2
    <3>3. CASE i # 1
      <4>1. PICK j \in 1..Len(t) : j = i - 1 /\ j + 1 = i
        BY <1>1, <2>1, <3>3
      <4>2. t[j] = w
        BY <2>1, <3>1, <4>1
      <4> QED BY <4>2 DEF Contains
    <3> QED BY <3>2, <3>3
  <2>4. ASSUME NEW w, w = Head(s) \/ Contains(t, w) PROVE Contains(s, w)
    <3>1. CASE w = Head(s)
      <4>1. 1 \in 1..Len(s) /\ s[1] = w
        BY <1>1, <2>2, <3>1
      <4> QED BY <4>1 DEF Contains
    <3>2. CASE Contains(t, w)
      <4>1. PICK i \in 1..Len(t) : t[i] = w
        BY <3>2 DEF Contains
      <4>2. i + 1 \in 1..Len(s) /\ s[i + 1] = w
        BY <1>1, <2>1, <4>1
      <4> QED BY <4>2 DEF Contains
    <3> QED BY <2>4, <3>1, <3>2
  <2> QED BY <2>1, <2>3, <2>4 DEF t
<1>3. ASSUME NEW e \in S
      PROVE  /\ Append(s, e) \in Seq(S)
             /\ \A w : Contains(Append(s, e), w) <=> Contains(s, w) \/ w = e
  <2> DEFINE t == Append(s, e)
  <2>1. /\ t \in Seq(S) /\ Len(t) = Len(s) + 1 /\ t[Len(s) + 1] = e
        /\ \A i \in 1..Len(s) : t[i] = s[i]
    BY AppendProperties
  <2> HIDE DEF t
  <2>2. \A w : Contains(t, w) <=> Contains(s, w) \/ w = e
    <3>1. ASSUME NEW w, Contains(t, w) PROVE Contains(s, w) \/ w = e
      <4>1. PICK i \in 1..(Len(s) + 1) : t[i] = w
        BY <2>1, <3>1 DEF Contains
      <4>2. i \in 1..Len(s) \/ i = Len(s) + 1
        BY <1>1
      <4> QED BY <2>1, <4>1, <4>2 DEF Contains
    <3>2. ASSUME NEW w, Contains(s, w) PROVE Contains(t, w)
      <4>1. PICK i \in 1..Len(s) : s[i] = w
        BY <3>2 DEF Contains
      <4>2. i \in 1..Len(t) /\ t[i] = w
        BY <1>1, <2>1, <4>1
      <4> QED BY <4>2 DEF Contains
    <3>3. Contains(t, e)
      <4>1. Len(s) + 1 \in 1..Len(t)
        BY <1>1, <2>1
      <4> QED BY <2>1, <4>1 DEF Contains
    <3> QED BY <3>1, <3>2, <3>3
  <2> QED BY <2>1, <2>2 DEF t
<1> QED BY <1>2, <1>3

\* Delimiters around what is in between.
LEMMA FrontIsTyped ==
  ASSUME NEW pieces, FlattenSeq(pieces) \in Seq(Token)
  PROVE  FrontMatter(pieces) \in Seq(Token) /\ FrontMatter(pieces)[Len(FrontMatter(pieces))] = Dashes
<1> DEFINE y == FlattenSeq(pieces)
           d == <<Dashes>>
           x == d \o y
<1>1. y \in Seq(Token)
  OBVIOUS
<1>2. d \in Seq(Token)
  BY DEF Token
<1>3. Len(d) = 1 /\ d[1] = Dashes
  OBVIOUS
<1>4. FrontMatter(pieces) = x \o d
  BY DEF FrontMatter
<1> HIDE DEF y, d
<1>5. x \in Seq(Token)
  BY <1>1, <1>2, ConcatAt
<1> HIDE DEF x
<1>6. /\ x \o d \in Seq(Token) /\ Len(x \o d) = Len(x) + Len(d)
      /\ \A i \in 1..Len(d) : (x \o d)[Len(x) + i] = d[i]
  BY <1>2, <1>5, ConcatAt
<1>7. 1 \in 1..Len(d)
  BY <1>3
<1> QED BY <1>3, <1>4, <1>6, <1>7

LEMMA InitIsTyped ==
  ASSUME Init
  PROVE  Typed
<1>1. \A w \in Word : Reference(w) \in Seq(Token)
  BY DEF Reference, Token, Bracket
<1>2. Pieces \subseteq Seq(Token)
  <2>1. /\ \A t \in Word \cup Bracket : <<t>> \in Seq(Token)
        /\ <<Open, Close>> \in Seq(Token)
        /\ <<Open, Close, Paren>> \in Seq(Token)
        /\ \A w \in Word : <<Open, Close, Paren, w>> \in Seq(Token)
    BY DEF Token, Bracket
  <2> QED BY <1>1, <2>1 DEF Pieces
<1> DEFINE Cut(pieces, m, n) ==
             /\ front = FrontMatter(SubSeq(pieces, 1, m))
             /\ body = FlattenSeq(SubSeq(pieces, m + 1, n))
<1>3. PICK n \in Nat : \E pieces \in [1..n -> Seq(Token)] :
        (front = <<>> /\ body = FlattenSeq(pieces)) \/ \E m \in 0..n : Cut(pieces, m, n)
  <2>1. PICK n \in 0..(IF posts = 1 THEN MaxPieces ELSE 0) : \E pieces \in [1..n -> Pieces] :
          (front = <<>> /\ body = FlattenSeq(pieces)) \/ \E m \in 0..n : Cut(pieces, m, n)
    BY DEF Init
  <2>2. n \in Nat
    BY BoundAssumption
  <2>3. PICK pieces \in [1..n -> Pieces] :
          (front = <<>> /\ body = FlattenSeq(pieces)) \/ \E m \in 0..n : Cut(pieces, m, n)
    BY <2>1
  <2>4. pieces \in [1..n -> Seq(Token)]
    BY <1>2
  <2> HIDE DEF Cut
  <2> QED BY <2>2, <2>3, <2>4
<1>4. PICK pieces \in [1..n -> Seq(Token)] :
        (front = <<>> /\ body = FlattenSeq(pieces)) \/ \E m \in 0..n : Cut(pieces, m, n)
  BY <1>3
<1>5. ASSUME NEW p \in 1..(n + 1), NEW q \in 0..n PROVE FlattenSeq(SubSeq(pieces, p, q)) \in Seq(Token)
  <2>1. \A i \in p..q : pieces[i] \in Seq(Token)
    OBVIOUS
  <2>2. SubSeq(pieces, p, q) \in Seq(Seq(Token))
    BY <2>1, SubSeqProperties
  <2> QED BY <2>2, FlattenIsTyped
<1>6. body \in Seq(Token) /\ front \in Seq(Token) /\ (front # <<>> => front[Len(front)] = Dashes)
  <2>1. CASE front = <<>> /\ body = FlattenSeq(pieces)
    <3>1. pieces \in Seq(Seq(Token))
      BY FunctionIsSeq
    <3> QED BY <2>1, <3>1, FlattenIsTyped, EmptySeq
  <2>2. ASSUME NEW m \in 0..n, Cut(pieces, m, n)
        PROVE  body \in Seq(Token) /\ front \in Seq(Token) /\ front[Len(front)] = Dashes
    <3>1. m + 1 \in 1..(n + 1) /\ 1 \in 1..(n + 1) /\ n \in 0..n
      OBVIOUS
    <3>2. /\ FlattenSeq(SubSeq(pieces, 1, m)) \in Seq(Token)
          /\ FlattenSeq(SubSeq(pieces, m + 1, n)) \in Seq(Token)
      BY <1>5, <3>1
    <3> QED BY <2>2, <3>2, FrontIsTyped
  <2> HIDE DEF Cut
  <2> QED BY <1>4, <2>1, <2>2
<1> QED BY <1>6, EmptySeq DEF Init, Typed, Position

LEMMA InitInv ==
  ASSUME Init
  PROVE  Inv
<1> USE DEF Init
<1>1. Typed
  BY InitIsTyped
<1>2. Len(body) \in Nat
  BY <1>1, TextIs
<1>3. Renders(out, 0)
  BY <1>2, EmptySeq DEF Renders
<1>4. Reach(body, 1) /\ Passed(body, 1)
  BY <1>2, ReachOne
<1>5. ~ \E w : Found(w)
  BY DEF Found, Contains
<1>6. ~ \E r \in Position : r < 1
  BY DEF Position
<1>7. Kept
  BY <1>3 DEF Kept
<1>8. Uploading /\ Drafted /\ Scanned /\ Complete /\ NoneIsLeft
  BY DEF Uploading, Drafted, Scanned, Complete, NoneIsLeft
<1>9. Sound
  BY <1>5 DEF Sound
<1>10. Rewritten
  BY <1>4, <1>6 DEF Rewritten
<1> QED BY <1>1, <1>7, <1>8, <1>9, <1>10 DEF Inv

-----------------------------------------------------------------------------
(***************************************************************************)
(* The search for images.                                                  *)
(***************************************************************************)

\* What is found in the front matter is found in the text.
LEMMA FirstInFront ==
  ASSUME NEW f \in Seq(Token), NEW b \in Seq(Token), NEW t, NEW p \in Position
  PROVE  /\ \A k \in Nat : First(f, t, p, k) => First(f \o b, t, p, k) /\ k <= Len(f)
         /\ ~Absent(f, t, p) => \E k \in Nat : First(f, t, p, k)
         /\ Absent(f, t, p) /\ p <= Len(f) + 1 =>
              /\ \A k \in Nat : First(f \o b, t, p, k) => First(f \o b, t, Len(f) + 1, k)
              /\ Absent(f \o b, t, p) => Absent(f \o b, t, Len(f) + 1)
<1> DEFINE x == f \o b
<1>1. /\ Len(f) \in Nat /\ Len(b) \in Nat /\ Len(x) = Len(f) + Len(b)
      /\ \A i \in Position : i <= Len(f) => x[i] = f[i]
  BY Behind
<1> HIDE DEF x
<1> USE DEF Position
<1>2. ASSUME NEW k \in Nat, First(f, t, p, k) PROVE First(x, t, p, k) /\ k <= Len(f)
  <2>1. k \in p..Len(f) /\ f[k] = t /\ \A j \in p..(k - 1) : f[j] # t
    BY <1>2 DEF First
  <2>2. \A j \in p..k : j \in Position /\ x[j] = f[j]
    BY <1>1, <2>1
  <2>3. k \in p..Len(x) /\ k \in p..k /\ \A j \in p..(k - 1) : j \in p..k
    BY <1>1, <2>1
  <2>4. x[k] = t /\ \A j \in p..(k - 1) : x[j] # t
    BY <2>1, <2>2, <2>3
  <2> QED BY <1>1, <2>1, <2>3, <2>4 DEF First
<1>3. ASSUME ~Absent(f, t, p) PROVE \E k \in Nat : First(f, t, p, k)
  <2> DEFINE T == {j \in p..Len(f) : f[j] = t}
  <2>1. T \subseteq Nat /\ T # {}
    BY <1>3 DEF Absent
  <2>2. PICK m \in T : \A n \in T : m <= n
    BY <2>1, Least
  <2>3. m \in p..Len(f) /\ f[m] = t /\ m \in Nat
    BY <2>1
  <2>4. ASSUME NEW j \in p..(m - 1) PROVE f[j] # t
    <3>1. j \in p..Len(f) /\ ~(m <= j)
      BY <1>1, <2>3
    <3> QED BY <2>2, <3>1
  <2> QED BY <2>3, <2>4 DEF First
<1>4. ASSUME Absent(f, t, p), p <= Len(f) + 1
      PROVE  /\ \A k \in Nat : First(x, t, p, k) => First(x, t, Len(f) + 1, k)
             /\ Absent(x, t, p) => Absent(x, t, Len(f) + 1)
  <2>1. ASSUME NEW k \in Nat, First(x, t, p, k) PROVE First(x, t, Len(f) + 1, k)
    <3>1. k \in p..Len(x) /\ x[k] = t /\ \A j \in p..(k - 1) : x[j] # t
      BY <2>1 DEF First
    <3>2. ~(k <= Len(f))
      <4> SUFFICES ASSUME k <= Len(f) PROVE FALSE
        OBVIOUS
      <4>1. k \in p..Len(f) /\ k \in Position
        BY <1>1, <3>1
      <4>2. f[k] # t /\ x[k] = f[k]
        BY <1>1, <1>4, <4>1 DEF Absent
      <4> QED BY <3>1, <4>2
    <3>3. k \in (Len(f) + 1)..Len(x) /\ \A j \in (Len(f) + 1)..(k - 1) : j \in p..(k - 1)
      BY <1>1, <1>4, <3>1, <3>2
    <3> QED BY <3>1, <3>3 DEF First
  <2>2. ASSUME Absent(x, t, p) PROVE Absent(x, t, Len(f) + 1)
    <3>1. \A j \in (Len(f) + 1)..Len(x) : j \in p..Len(x)
      BY <1>1, <1>4
    <3> QED BY <2>2, <3>1 DEF Absent
  <2> QED BY <2>1, <2>2
<1> QED BY <1>2, <1>3, <1>4 DEF x

\* Where the front matter has no more images, a turn is the one that begins at the body.
LEMMA LeavesFront ==
  ASSUME NEW f \in Seq(Token), NEW b \in Seq(Token), NEW p \in Position,
         p <= Len(f) + 1, Absent(f, Open, p)
  PROVE  /\ \A o, c \in Nat : IsLabel(f \o b, p, o, c) => IsLabel(f \o b, Len(f) + 1, o, c)
         /\ \A o, c, e \in Nat : IsRef(f \o b, p, o, c, e) => IsRef(f \o b, Len(f) + 1, o, c, e)
         /\ Broken(f \o b, p) => Broken(f \o b, Len(f) + 1)
<1> DEFINE x == f \o b
           q == Len(f) + 1
<1>1. /\ \A o \in Nat : First(x, Open, p, o) => First(x, Open, q, o)
      /\ Absent(x, Open, p) => Absent(x, Open, q)
  BY FirstInFront
<1> HIDE DEF x, q
<1>2. /\ \A o, c \in Nat : IsLabel(x, p, o, c) => IsLabel(x, q, o, c)
      /\ \A o, c, e \in Nat : IsRef(x, p, o, c, e) => IsRef(x, q, o, c, e)
  BY <1>1 DEF IsLabel, IsRef
<1>3. Broken(x, p) => Broken(x, q)
  BY <1>1 DEF Broken
<1> QED BY <1>2, <1>3 DEF x, q

\* Where it has one and is closed, a turn ends in it.
LEMMA StaysInFront ==
  ASSUME Typed, FrontIsClosed, NEW b \in Seq(Token), NEW p \in Position, ~Absent(front, Open, p)
  PROVE  /\ \A o, c \in Nat : IsLabel(front \o b, p, o, c) => c < Len(front)
         /\ \A o, c, e \in Nat : IsRef(front \o b, p, o, c, e) => e < Len(front)
         /\ ~Broken(front \o b, p)
<1> DEFINE f == front
           x == f \o b
<1>1. /\ f \in Seq(Token) /\ Len(f) \in Nat /\ Len(b) \in Nat /\ Len(x) = Len(f) + Len(b)
      /\ \A i \in Position : i <= Len(f) => x[i] = f[i]
  BY Behind DEF Typed
<1>2. \A t : \A q \in Position : \A k \in Nat : First(f, t, q, k) => First(x, t, q, k) /\ k <= Len(f)
  BY <1>1, FirstInFront
<1>3. PICK m \in Nat : First(f, Open, p, m)
  BY <1>1, FirstInFront
<1>4. m \in 1..Len(f) /\ f[m] = Open /\ m + 1 \in Position
  BY <1>1, <1>3 DEF First, Position
<1>5. PICK c \in (m + 1)..Len(f) :
        /\ f[c] = Close /\ \A j \in (m + 1)..(c - 1) : f[j] # Close
        /\ f[c + 1] = Paren => \E e \in (c + 2)..Len(f) : f[e] = End
  <2>1. EndsInFront(m)
    BY <1>1, <1>4 DEF FrontIsClosed
  <2> QED BY <2>1 DEF EndsInFront
<1>6. c \in Nat /\ First(f, Close, m + 1, c)
  BY <1>4, <1>5 DEF First
<1>7. f # <<>> /\ f[Len(f)] = Dashes
  BY <1>1, <1>4, EmptySeq DEF Typed
<1>8. c < Len(f) /\ x[c + 1] = f[c + 1] /\ c + 1 <= Len(x) /\ c + 2 \in Position
  <2>1. c # Len(f)
    BY <1>5, <1>7 DEF Close, Dashes
  <2>2. c + 1 \in Position /\ c + 1 <= Len(f)
    BY <1>1, <1>5, <2>1 DEF Position
  <2> QED BY <1>1, <2>2 DEF Position
<1> HIDE DEF x, f
<1>9. First(x, Open, p, m) /\ First(x, Close, m + 1, c)
  BY <1>2, <1>3, <1>4, <1>6
<1>10. Len(x) \in Nat /\ p \in Nat /\ m + 1 \in Nat /\ c + 2 \in Nat
  BY <1>1, <1>6 DEF Position
<1>11. ASSUME NEW o \in Nat, NEW a \in Nat, First(x, Open, p, o), First(x, Close, o + 1, a)
       PROVE  o = m /\ a = c
  <2>1. o = m
    BY <1>9, <1>10, <1>11, FirstIsOne
  <2> QED BY <1>6, <1>9, <1>10, <1>11, <2>1, FirstIsOne
<1>12. ~Absent(x, Open, p) /\ ~Absent(x, Close, m + 1)
  BY <1>6, <1>9, <1>10, FirstIsOne
<1>13. ASSUME HasParen(x, c)
       PROVE  \E e \in Nat : First(x, End, c + 2, e) /\ e < Len(f)
  <2>1. ~Absent(f, End, c + 2)
    BY <1>5, <1>8, <1>13 DEF HasParen, Absent
  <2>2. PICK e \in Nat : First(f, End, c + 2, e)
    BY <1>1, <1>8, <2>1, FirstInFront
  <2>3. First(x, End, c + 2, e) /\ e <= Len(f)
    BY <1>2, <1>8, <2>2
  <2>4. e # Len(f)
    BY <1>7, <2>2 DEF First, End, Dashes
  <2> QED BY <1>1, <2>3, <2>4
<1>14. \A o, a \in Nat : IsLabel(x, p, o, a) => a < Len(f)
  BY <1>8, <1>11 DEF IsLabel
<1>15. ASSUME NEW o \in Nat, NEW a \in Nat, NEW e \in Nat, IsRef(x, p, o, a, e) PROVE e < Len(f)
  <2>1. a = c /\ HasParen(x, c) /\ First(x, End, c + 2, e)
    BY <1>11, <1>15 DEF IsRef
  <2>2. PICK k \in Nat : First(x, End, c + 2, k) /\ k < Len(f)
    BY <1>13, <2>1
  <2> QED BY <1>10, <2>1, <2>2, FirstIsOne
<1>16. ~Broken(x, p)
  <2>1. ASSUME NEW o \in Nat, First(x, Open, p, o), Absent(x, Close, o + 1) PROVE FALSE
    <3>1. o = m
      BY <1>9, <1>10, <2>1, FirstIsOne
    <3> QED BY <1>12, <2>1, <3>1
  <2>2. ASSUME NEW o \in Nat, NEW a \in Nat, First(x, Open, p, o), First(x, Close, o + 1, a),
               HasParen(x, a), Absent(x, End, a + 2)
        PROVE  FALSE
    <3>1. a = c
      BY <1>11, <2>2
    <3>2. PICK e \in Nat : First(x, End, c + 2, e)
      BY <1>13, <2>2, <3>1
    <3> QED BY <1>10, <2>2, <3>1, <3>2, FirstIsOne
  <2> QED BY <1>12, <2>1, <2>2 DEF Broken
<1> QED BY <1>14, <1>15, <1>16 DEF x, f

\* A turn of the first scanner stays in the front matter, or it is a turn through the body.
LEMMA FrontOrBody ==
  ASSUME Inv, phase = "scan", FrontIsClosed
  PROVE  \/ /\ \A o, c \in Nat : IsLabel(Text, at, o, c) => c < Len(front)
            /\ \A o, c, e \in Nat : IsRef(Text, at, o, c, e) => e < Len(front)
            /\ ~Broken(Text, at)
         \/ \E p \in Position :
              /\ Reach(body, p) /\ Passed(body, p)
              /\ \A r \in Position : Reach(body, r) /\ r < p => Loads(r)
              /\ \A o, c \in Nat : IsLabel(Text, at, o, c) => IsLabel(Text, Len(front) + p, o, c)
              /\ \A o, c, e \in Nat : IsRef(Text, at, o, c, e) => IsRef(Text, Len(front) + p, o, c, e)
              /\ Broken(Text, at) => Broken(Text, Len(front) + p)
<1>1. /\ Text = front \o body /\ front \in Seq(Token) /\ body \in Seq(Token) /\ at \in Position
      /\ Len(front) \in Nat /\ Len(body) \in Nat
  BY TextIs DEF Inv, Typed
<1>2. CASE \E p \in Position : ScansAt(p)
  BY <1>2 DEF ScansAt
<1>3. CASE at <= Len(front) + 1 /\ ~Absent(front, Open, at)
  <2>1. Typed
    BY DEF Inv
  <2> QED BY <1>1, <1>3, <2>1, StaysInFront
<1>4. CASE at <= Len(front) + 1 /\ Absent(front, Open, at)
  <2>1. Reach(body, 1) /\ Passed(body, 1) /\ 1 \in Position /\ ~ \E r \in Position : r < 1
    BY <1>1, ReachOne DEF Position
  <2>2. /\ \A o, c \in Nat : IsLabel(Text, at, o, c) => IsLabel(Text, Len(front) + 1, o, c)
        /\ \A o, c, e \in Nat : IsRef(Text, at, o, c, e) => IsRef(Text, Len(front) + 1, o, c, e)
        /\ Broken(Text, at) => Broken(Text, Len(front) + 1)
    BY <1>1, <1>4, LeavesFront
  <2> QED BY <2>1, <2>2
<1> QED BY <1>2, <1>3, <1>4 DEF Inv, Scanned

\* The address of the reference that a turn meets.
LEMMA UrlIs ==
  ASSUME Typed, IsRef(Text, at, OpenAt, CloseAt, EndAt)
  PROVE  /\ Url \in Seq(Token) /\ Len(Url) = EndAt - CloseAt - 2
         /\ \A i \in 1..Len(Url) : Url[i] = Text[CloseAt + 1 + i]
         /\ \A w : Url = <<w>> <=> EndAt = CloseAt + 3 /\ Text[CloseAt + 2] = w
         /\ Len(Url) = 1 <=> EndAt = CloseAt + 3
         /\ Len(Url) = 1 => Url = <<Url[1]>> /\ Url[1] = Text[CloseAt + 2]
<1>1. CloseAt \in Nat /\ EndAt \in Nat /\ CloseAt + 2 <= EndAt /\ EndAt <= Len(Text)
  BY DEF IsRef, First
<1>2. Text \in Seq(Token) /\ Len(Text) \in Nat
  BY TextIs
<1>3. \A i \in (CloseAt + 2)..(EndAt - 1) : Text[i] \in Token
  BY <1>1, <1>2, ElementOfSeq
<1> DEFINE u == Url
           x == Text
<1>4. /\ u \in Seq(Token)
      /\ Len(u) = IF CloseAt + 2 <= EndAt - 1 THEN EndAt - 1 - (CloseAt + 2) + 1 ELSE 0
      /\ \A i \in 1..(EndAt - 1 - (CloseAt + 2) + 1) : u[i] = x[CloseAt + 2 + i - 1]
  BY <1>1, <1>3, SubSeqProperties DEF Url
<1> HIDE DEF u, x
<1>5. Len(u) = EndAt - CloseAt - 2
  BY <1>1, <1>4
<1>6. ASSUME NEW i \in 1..Len(u) PROVE u[i] = x[CloseAt + 1 + i]
  <2>1. i \in 1..(EndAt - 1 - (CloseAt + 2) + 1) /\ CloseAt + 2 + i - 1 = CloseAt + 1 + i
    BY <1>1, <1>5
  <2> QED BY <1>4, <2>1
<1>7. Len(u) = 1 <=> EndAt = CloseAt + 3
  BY <1>1, <1>5
<1>8. ASSUME Len(u) = 1 PROVE u[1] = x[CloseAt + 2] /\ u = <<u[1]>>
  <2>1. 1 \in 1..Len(u) /\ CloseAt + 1 + 1 = CloseAt + 2
    BY <1>1, <1>8
  <2>2. u[1] = x[CloseAt + 2]
    BY <1>6, <2>1
  <2>3. <<u[1]>> \in Seq(Token) /\ Len(<<u[1]>>) = 1
    BY <1>4, <1>8, ElementOfSeq
  <2>4. u = <<u[1]>>
    BY <1>4, <1>8, <2>3, SeqEqual
  <2> QED BY <2>2, <2>4
<1>9. ASSUME NEW w, u = <<w>> PROVE Len(u) = 1 /\ u[1] = w
  BY <1>9
<1>10. \A w : u = <<w>> <=> EndAt = CloseAt + 3 /\ x[CloseAt + 2] = w
  BY <1>7, <1>8, <1>9
<1> QED BY <1>4, <1>5, <1>6, <1>7, <1>8, <1>10 DEF u, x

LEMMA ScanLabelInv ==
  ASSUME Inv, ScanLabel
  PROVE  Inv'
<1> USE DEF Inv
<1>1. /\ phase = "scan" /\ phase' = phase /\ at' = CloseAt + 1
      /\ kind' = kind /\ front' = front /\ body' = body /\ images' = images
      /\ rows' = rows /\ files' = files /\ out' = out /\ unresolved' = unresolved /\ content' = content
  BY DEF ScanLabel, Scanning, AfterLabel, inputVars, mediaVars, rewriteVars, draftVars
<1>2. Len(Text) \in Nat /\ at \in Position /\ Text = front \o body /\ body \in Seq(Token)
      /\ front \in Seq(Token) /\ Len(front) \in Nat
  BY <1>1, TextIs DEF Typed
<1>3. IsLabel(Text, at, OpenAt, CloseAt) /\ OpenAt \in Nat /\ CloseAt \in Nat
  BY <1>2, Meets, ScannerSees DEF ScanLabel, Scanning
<1>4. (FrontIsClosed' <=> FrontIsClosed) /\ \A r : Loads(r) => Loads(r)'
  BY <1>1 DEF FrontIsClosed, EndsInFront, Loads, Found
<1>5. ASSUME NEW p \in Position, Reach(body, p), Passed(body, p),
             \A r \in Position : Reach(body, r) /\ r < p => Loads(r),
             IsLabel(Text, Len(front) + p, OpenAt, CloseAt)
      PROVE  Scanned'
  <2>1. PICK o \in Nat, c \in Nat : IsLabel(body, p, o, c) /\ c = CloseAt - Len(front)
    <3>1. IsLabel(body, p, OpenAt - Len(front), CloseAt - Len(front))
      BY <1>2, <1>3, <1>5, MeetsBehind
    <3>2. OpenAt - Len(front) \in Nat /\ CloseAt - Len(front) \in Nat
      BY <3>1 DEF IsLabel
    <3> QED BY <3>1, <3>2
  <2> DEFINE q == c + 1
  <2>2. q \in Position /\ Turn(body, p, q) /\ at' = Len(front) + q
    <3>1. IsLabel(body, p, o, c)
      BY <2>1
    <3>2. Turn(body, p, q)
      BY <3>1 DEF Turn
    <3>3. q \in Position /\ at' = Len(front) + q
      BY <1>1, <1>2, <1>3, <2>1 DEF Position
    <3> QED BY <3>2, <3>3
  <2> HIDE DEF q
  <2>3. /\ Reach(body, q) /\ Passed(body, q)
        /\ \A r \in Position : Reach(body, r) /\ r < q => r < p \/ r = p
    BY <1>5, <2>2, WalkOn, TextIs
  <2>4. Loads(p)'
    <3>1. \A w : ~Names(body, p, w)
      BY <2>1, NamesIs, TextIs
    <3> QED BY <1>1, <3>1 DEF Loads
  <2>5. ScansAt(q)'
    BY <1>1, <1>4, <1>5, <2>2, <2>3, <2>4 DEF ScansAt
  <2> QED BY <1>1, <2>2, <2>5 DEF Scanned
<1>6. Scanned'
  <2>1. CASE ~FrontIsClosed
    BY <1>1, <1>4, <2>1 DEF Scanned
  <2>2. CASE FrontIsClosed /\ \A o, c \in Nat : IsLabel(Text, at, o, c) => c < Len(front)
    <3>1. CloseAt < Len(front)
      BY <1>3, <2>2
    <3>2. at' <= Len(front') + 1
      BY <1>1, <1>2, <1>3, <3>1
    <3> QED BY <1>1, <3>2 DEF Scanned
  <2>3. CASE FrontIsClosed /\ \E p \in Position :
               /\ Reach(body, p) /\ Passed(body, p)
               /\ \A r \in Position : Reach(body, r) /\ r < p => Loads(r)
               /\ \A o, c \in Nat : IsLabel(Text, at, o, c) => IsLabel(Text, Len(front) + p, o, c)
    BY <1>3, <1>5, <2>3
  <2> QED BY <1>1, <2>1, <2>2, <2>3, FrontOrBody
<1>7. Typed'
  <2>1. CloseAt + 1 \in Position
    BY <1>3 DEF Position
  <2> QED BY <1>1, <2>1 DEF Typed
<1>8. Kept' /\ Uploading' /\ Drafted' /\ Complete' /\ Rewritten' /\ NoneIsLeft'
  BY <1>1, <1>4 DEF Kept, Uploading, Drafted, Complete, Rewritten, NoneIsLeft
<1>9. Sound'
  BY <1>1, <1>4 DEF Sound, Found
<1> QED BY <1>6, <1>7, <1>8, <1>9

\* What a turn of the search adds to what is found.
LEMMA ScanImageFinds ==
  ASSUME Typed, ScanImage
  PROVE  /\ images' \in Seq(Picture \cup Other)
         /\ \A w : Found(w) => Found(w)'
         /\ \A w \in Local : Url = <<w>> => Found(w)'
         /\ \A w : Found(w)' => Found(w) \/ Url = <<w>>
<1>1. /\ rows' = rows
      /\ images' = IF ~LooksRemote(Url) /\ InArchive(Url) /\ ~Contains(images, Url[1])
                     THEN Append(images, Url[1]) ELSE images
  BY DEF ScanImage, mediaVars
<1>2. phase = "scan" /\ IsRef(Text, at, OpenAt, CloseAt, EndAt)
  BY Meets, TextIs DEF ScanImage, Scanning, Typed
<1>3. Len(Url) = 1 => Url = <<Url[1]>>
  BY <1>2, UrlIs
<1> DEFINE u == Url
<1> HIDE DEF u
<1>4. CASE ~LooksRemote(u) /\ InArchive(u) /\ ~Contains(images, u[1])
  <2>1. u = <<u[1]>> /\ u[1] \in Picture \cup Other
    BY <1>3, <1>4 DEF InArchive, u
  <2>2. images' = Append(images, u[1])
    BY <1>1, <1>4 DEF u
  <2>3. /\ images' \in Seq(Picture \cup Other)
        /\ \A w : Contains(images', w) <=> Contains(images, w) \/ w = u[1]
    BY <2>1, <2>2, InContains DEF Typed
  <2>4. \A w : u = <<w>> <=> w = u[1]
    BY <2>1
  <2> QED BY <1>1, <2>3, <2>4 DEF Found, u
<1>5. CASE ~(~LooksRemote(u) /\ InArchive(u) /\ ~Contains(images, u[1]))
  <2>1. images' = images
    BY <1>1, <1>5 DEF u
  <2>2. ASSUME NEW w \in Local, u = <<w>> PROVE Contains(images, w)
    <3>1. u[1] = w /\ Len(u) = 1 /\ w \in Picture /\ w \notin Remote
      BY <2>2 DEF Local
    <3>2. ~LooksRemote(u) /\ InArchive(u)
      BY <3>1 DEF LooksRemote, InArchive
    <3> QED BY <1>5, <3>1, <3>2
  <2> QED BY <1>1, <2>1, <2>2 DEF Found, Typed, u
<1> QED BY <1>4, <1>5

LEMMA ScanImageInv ==
  ASSUME Inv, ScanImage
  PROVE  Inv'
<1> USE DEF Inv
<1>1. /\ phase = "scan" /\ phase' = phase /\ at' = EndAt + 1
      /\ kind' = kind /\ front' = front /\ body' = body
      /\ rows' = rows /\ files' = files /\ out' = out /\ unresolved' = unresolved /\ content' = content
  BY DEF ScanImage, Scanning, inputVars, mediaVars, rewriteVars, draftVars
<1>2. Len(Text) \in Nat /\ at \in Position /\ Text = front \o body /\ body \in Seq(Token)
      /\ front \in Seq(Token) /\ Len(front) \in Nat /\ Len(body) \in Nat
  BY <1>1, TextIs DEF Typed
<1>3. /\ IsRef(Text, at, OpenAt, CloseAt, EndAt) /\ Turn(Text, at, EndAt + 1)
      /\ OpenAt \in Nat /\ CloseAt \in Nat /\ EndAt \in Nat
  BY <1>2, Meets, ScannerSees DEF ScanImage, Scanning
<1>4. /\ images' \in Seq(Picture \cup Other)
      /\ \A w : Found(w) => Found(w)'
      /\ \A w \in Local : Url = <<w>> => Found(w)'
      /\ \A w : Found(w)' => Found(w) \/ Url = <<w>>
  BY ScanImageFinds
<1>5. \A w : Url = <<w>> <=> EndAt = CloseAt + 3 /\ Text[CloseAt + 2] = w
  BY <1>3, UrlIs
<1>6. Typed'
  <2>1. EndAt + 1 \in Position
    BY <1>3 DEF Position
  <2> QED BY <1>1, <1>4, <2>1 DEF Typed
<1>7. (FrontIsClosed' <=> FrontIsClosed) /\ \A r : Loads(r) => Loads(r)'
  BY <1>1, <1>4 DEF FrontIsClosed, EndsInFront, Loads
<1>8. Kept' /\ Uploading' /\ Drafted' /\ Complete' /\ Rewritten' /\ NoneIsLeft'
  BY <1>1, <1>7 DEF Kept, Uploading, Drafted, Complete, Rewritten, NoneIsLeft
<1>9. ASSUME FrontIsClosed, EndAt < Len(front) PROVE Scanned' /\ Sound'
  <2>1. at' <= Len(front') + 1
    BY <1>1, <1>2, <1>3, <1>9
  <2>2. Scanned'
    BY <1>1, <2>1 DEF Scanned
  <2>3. ASSUME NEW w, Url = <<w>> PROVE Contains(front, w)
    <3>1. EndAt = CloseAt + 3 /\ Text[CloseAt + 2] = w
      BY <1>5, <2>3
    <3>2. CloseAt + 2 \in Position /\ CloseAt + 2 \in 1..Len(front)
      BY <1>2, <1>3, <1>9, <3>1 DEF Position
    <3>3. (front \o body)[CloseAt + 2] = front[CloseAt + 2]
      BY <1>2, <3>2, Behind
    <3>4. front[CloseAt + 2] = w
      BY <1>2, <3>1, <3>3
    <3> QED BY <3>2, <3>4 DEF Contains
  <2>4. Sound'
    BY <1>1, <1>4, <1>7, <2>3 DEF Sound
  <2> QED BY <2>2, <2>4
<1>10. ASSUME FrontIsClosed, NEW p \in Position, Reach(body, p), Passed(body, p),
              \A r \in Position : Reach(body, r) /\ r < p => Loads(r),
              IsRef(Text, Len(front) + p, OpenAt, CloseAt, EndAt)
       PROVE  Scanned' /\ Sound'
  <2>1. PICK o \in Nat, c \in Nat, e \in Nat :
          IsRef(body, p, o, c, e) /\ c = CloseAt - Len(front) /\ e = EndAt - Len(front)
    <3>1. IsRef(body, p, OpenAt - Len(front), CloseAt - Len(front), EndAt - Len(front))
      BY <1>2, <1>3, <1>10, MeetsBehind
    <3>2. OpenAt - Len(front) \in Nat /\ CloseAt - Len(front) \in Nat /\ EndAt - Len(front) \in Nat
      BY <3>1 DEF IsRef
    <3> QED BY <3>1, <3>2
  <2> DEFINE q == e + 1
  <2>2. q \in Position /\ Turn(body, p, q) /\ at' = Len(front) + q
    <3>1. IsRef(body, p, o, c, e)
      BY <2>1
    <3>2. Turn(body, p, q)
      BY <3>1 DEF Turn
    <3>3. q \in Position /\ at' = Len(front) + q
      BY <1>1, <1>2, <1>3, <2>1 DEF Position
    <3> QED BY <3>2, <3>3
  <2> HIDE DEF q
  <2>3. /\ Reach(body, q) /\ Passed(body, q)
        /\ \A r \in Position : Reach(body, r) /\ r < q => r < p \/ r = p
    BY <1>2, <1>10, <2>2, WalkOn
  <2>4. \A w : Names(body, p, w) <=> Url = <<w>>
    <3>0. IsRef(body, p, o, c, e)
      BY <2>1
    <3>1. \A w : Names(body, p, w) <=> e = c + 3 /\ body[c + 2] = w
      BY <1>2, <3>0, NamesIs
    <3>2. e = c + 3 <=> EndAt = CloseAt + 3
      BY <1>2, <1>3, <2>1
    <3>3. ASSUME e = c + 3 PROVE body[c + 2] = Text[CloseAt + 2]
      <4>1. e <= Len(body)
        BY <1>2, <3>0 DEF IsRef, First
      <4>2. PICK i \in Position : i = c + 2 /\ i <= Len(body) /\ Len(front) + i = CloseAt + 2
        <5>1. Len(front) + (c + 2) = CloseAt + 2 /\ c + 2 \in Position
          BY <1>2, <1>3, <2>1 DEF Position
        <5>2. c + 2 <= Len(body)
          BY <1>2, <3>3, <4>1
        <5> QED BY <5>1, <5>2
      <4>3. (front \o body)[Len(front) + i] = body[i]
        BY <1>2, <4>2, Behind
      <4>4. Text[Len(front) + i] = body[i]
        BY <1>2, <4>3
      <4> QED BY <4>2, <4>4
    <3> QED BY <1>5, <3>1, <3>2, <3>3
  <2>5. Loads(p)'
    BY <1>1, <1>4, <2>4 DEF Loads
  <2>6. ScansAt(q)'
    BY <1>1, <1>7, <1>10, <2>2, <2>3, <2>5 DEF ScansAt
  <2>7. Scanned'
    BY <1>1, <2>2, <2>6 DEF Scanned
  <2>8. Sound'
    BY <1>1, <1>4, <1>7, <1>10, <2>4 DEF Sound
  <2> QED BY <2>7, <2>8
<1>11. Scanned' /\ Sound'
  <2>1. CASE ~FrontIsClosed
    BY <1>1, <1>7, <2>1 DEF Scanned, Sound
  <2>2. CASE FrontIsClosed /\ \A o, c, e \in Nat : IsRef(Text, at, o, c, e) => e < Len(front)
    BY <1>3, <1>9, <2>2
  <2>3. CASE FrontIsClosed /\ \E p \in Position :
               /\ Reach(body, p) /\ Passed(body, p)
               /\ \A r \in Position : Reach(body, r) /\ r < p => Loads(r)
               /\ \A o, c, e \in Nat : IsRef(Text, at, o, c, e) => IsRef(Text, Len(front) + p, o, c, e)
    BY <1>3, <1>10, <2>3
  <2> QED BY <1>1, <2>1, <2>2, <2>3, FrontOrBody
<1> QED BY <1>6, <1>8, <1>11

\* Where the scan ends it has met all references.
LEMMA EndScanInv ==
  ASSUME Inv, EndScan
  PROVE  Inv'
<1> USE DEF Inv
<1>1. /\ phase = "scan" /\ phase' = "upload" /\ at' = 1
      /\ kind' = kind /\ front' = front /\ body' = body /\ images' = images
      /\ rows' = rows /\ files' = files /\ out' = out /\ unresolved' = unresolved /\ content' = content
  BY DEF EndScan, inputVars, mediaVars, rewriteVars, draftVars
<1>2. Len(Text) \in Nat /\ at \in Position /\ Text = front \o body /\ body \in Seq(Token)
      /\ front \in Seq(Token) /\ Len(front) \in Nat /\ Len(body) \in Nat
  BY <1>1, TextIs DEF Typed
<1>3. Broken(Text, at)
  BY <1>2, Meets DEF EndScan
<1>4. (FrontIsClosed' <=> FrontIsClosed) /\ \A r : Loads(r) => Loads(r)'
  BY <1>1 DEF FrontIsClosed, EndsInFront, Loads, Found
<1>5. ASSUME FrontIsClosed PROVE \A r \in Position : Reach(body, r) => Loads(r)
  <2>1. PICK p \in Position : /\ Reach(body, p) /\ Passed(body, p) /\ Broken(Text, Len(front) + p)
                              /\ \A r \in Position : Reach(body, r) /\ r < p => Loads(r)
    BY <1>1, <1>3, <1>5, FrontOrBody
  <2>2. Broken(body, p)
    BY <1>2, <2>1, MeetsBehind
  <2>3. \A r \in Position : Reach(body, r) => r < p \/ r = p
    BY <1>2, <2>1, <2>2, BrokenIsEnd, WalkStops
  <2>4. Loads(p)
    BY <1>2, <2>2, BrokenIsEnd DEF Loads
  <2> QED BY <2>1, <2>3, <2>4
<1>6. Complete'
  BY <1>1, <1>4, <1>5 DEF Complete
<1>7. Typed'
  BY <1>1 DEF Typed, Position
<1>8. Kept'
  <2>1. Renders(out, 0)'
    BY <1>1, <1>2, EmptySeq DEF Kept, Renders
  <2> QED BY <1>1, <2>1 DEF Kept
<1>9. Uploading' /\ Drafted' /\ Scanned' /\ Rewritten' /\ NoneIsLeft'
  BY <1>1, <1>4 DEF Uploading, Drafted, Scanned, Rewritten, NoneIsLeft
<1>10. Sound'
  BY <1>1, <1>4 DEF Sound, Found
<1> QED BY <1>6, <1>7, <1>8, <1>9, <1>10

-----------------------------------------------------------------------------
(***************************************************************************)
(* The steps that read no text.                                            *)
(***************************************************************************)

LEMMA FrontStays ==
  ASSUME front' = front
  PROVE  FrontIsClosed' <=> FrontIsClosed
  BY DEF FrontIsClosed, EndsInFront

LEMMA ScanIsOver ==
  ASSUME phase' \notin {"extract", "scan"}
  PROVE  Scanned'
  BY DEF Scanned, ScansAt

LEMMA ExtractInv ==
  ASSUME Inv, Extract
  PROVE  Inv'
<1> USE DEF Inv
<1>1. /\ phase = "extract" /\ phase' \in {"scan", "refused"} /\ at' = at
      /\ kind' = kind /\ front' = front /\ body' = body /\ images' = images
      /\ rows' = rows /\ files' = files /\ out' = out /\ unresolved' = unresolved /\ content' = content
  BY DEF Extract, inputVars, scanVars, mediaVars, rewriteVars, draftVars
<1>2. at = 1 /\ images = <<>>
  BY <1>1 DEF Kept, Scanned
<1>3. Reach(body, 1) /\ Passed(body, 1) /\ 1 \in Position /\ ~ \E r \in Position : r < 1
  BY ReachOne, TextIs DEF Position
<1>4. Kept'
  <2>1. Renders(out, 0)
    BY <1>1, <1>2 DEF Kept
  <2>2. out = <<>>
    BY <2>1, EmptySeq DEF Renders
  <2> QED BY <1>1, <1>2, <2>1, <2>2 DEF Kept, Renders
<1>5. Scanned'
  <2>1. Len(front) \in Nat
    BY TextIs
  <2>2. at <= Len(front) + 1
    BY <1>2, <2>1
  <2> QED BY <1>1, <1>2, <2>2 DEF Scanned
<1>6. Typed' /\ Uploading' /\ Drafted' /\ Complete' /\ Rewritten' /\ NoneIsLeft'
  BY <1>1, FrontStays DEF Typed, Uploading, Drafted, Complete, Rewritten, NoneIsLeft
<1>7. Sound'
  BY <1>1, FrontStays DEF Sound, Found
<1> QED BY <1>4, <1>5, <1>6, <1>7

\* The head of the list is dropped if it is no image, and is recorded if it is one.
LEMMA UploadInv ==
  ASSUME Inv, Skip \/ InsertRow
  PROVE  Inv'
<1> USE DEF Inv
<1>1. /\ phase \in {"upload", "record"} /\ phase' = "upload" /\ at' = at
      /\ kind' = kind /\ front' = front /\ body' = body
      /\ files' = files /\ out' = out /\ unresolved' = unresolved /\ content' = content
      /\ images' = Tail(images) /\ images # <<>>
  BY DEF Skip, InsertRow, Uploading, inputVars, mediaVars, rewriteVars, draftVars
<1>2. \/ rows' = rows /\ Head(images) \in Other
      \/ rows' = rows \cup {Head(images)} /\ Head(images) \notin Other /\ Head(images) \in files
  BY DEF Skip, InsertRow, Uploading, mediaVars
<1>3. /\ Head(images) \in Picture \cup Other /\ images' \in Seq(Picture \cup Other)
      /\ \A w : Contains(images, w) <=> w = Head(images) \/ Contains(images', w)
  BY <1>1, InContains DEF Typed
<1>4. /\ \A w : Found(w)' => Found(w)
      /\ \A w \in Local : Found(w) => Found(w)'
  <2>1. \A w \in Local : w \notin Other
    BY WordAssumption DEF Local
  <2> QED BY <1>2, <1>3, <2>1 DEF Found
<1>5. Typed'
  <2>1. rows' \subseteq Picture /\ rows' \subseteq files
    BY <1>2, <1>3 DEF Typed
  <2> QED BY <1>1, <1>3, <2>1 DEF Typed
<1>6. Kept'
  <2>1. at = 1 /\ Renders(out, at - 1)
    BY <1>1 DEF Kept
  <2>2. Renders(out, 0)'
    BY <1>1, <2>1 DEF Renders
  <2> QED BY <1>1, <2>1, <2>2 DEF Kept
<1>7. Complete'
  BY <1>1, <1>4, FrontStays DEF Complete, Loads
<1>8. Sound'
  BY <1>1, <1>4, FrontStays DEF Sound
<1>9. Uploading' /\ Drafted' /\ Scanned' /\ Rewritten' /\ NoneIsLeft'
  BY <1>1, FrontStays, ScanIsOver DEF Uploading, Drafted, Rewritten, NoneIsLeft
<1> QED BY <1>5, <1>6, <1>7, <1>8, <1>9

LEMMA WriteFileInv ==
  ASSUME Inv, WriteFile
  PROVE  Inv'
<1> USE DEF Inv
<1>1. /\ phase = "upload" /\ phase' = "record" /\ at' = at
      /\ kind' = kind /\ front' = front /\ body' = body /\ images' = images
      /\ rows' = rows /\ out' = out /\ unresolved' = unresolved /\ content' = content
      /\ images # <<>> /\ Head(images) \notin Other /\ files' = files \cup {Head(images)}
  BY DEF WriteFile, inputVars, scanVars, mediaVars, rewriteVars, draftVars
<1>2. Typed' /\ Uploading'
  BY <1>1 DEF Typed, Uploading
<1>3. Kept' /\ Drafted' /\ Scanned' /\ Rewritten' /\ NoneIsLeft'
  BY <1>1, FrontStays, ScanIsOver DEF Kept, Renders, Drafted, Rewritten, NoneIsLeft
<1>4. Complete' /\ Sound'
  BY <1>1, FrontStays DEF Complete, Loads, Sound, Found
<1> QED BY <1>2, <1>3, <1>4

LEMMA EndUploadInv ==
  ASSUME Inv, EndUpload
  PROVE  Inv'
<1> USE DEF Inv
<1>1. /\ phase = "upload" /\ phase' = "rewrite" /\ at' = at
      /\ kind' = kind /\ front' = front /\ body' = body /\ images' = images /\ images = <<>>
      /\ rows' = rows /\ files' = files /\ out' = out /\ unresolved' = unresolved /\ content' = content
  BY DEF EndUpload, inputVars, scanVars, mediaVars, rewriteVars, draftVars
<1>2. Rewritten'
  <2>1. at = 1
    BY <1>1 DEF Kept
  <2>2. Reach(body, 1) /\ Passed(body, 1) /\ ~ \E r \in Position : r < 1
    BY ReachOne, TextIs DEF Position
  <2> QED BY <1>1, <2>1, <2>2 DEF Rewritten
<1>3. Complete' /\ Sound'
  BY <1>1, FrontStays DEF Complete, Loads, Sound, Found
<1>4. Typed' /\ Uploading' /\ Kept' /\ Drafted' /\ Scanned' /\ NoneIsLeft'
  BY <1>1, FrontStays, ScanIsOver DEF Typed, Uploading, Kept, Renders, Drafted, NoneIsLeft
<1> QED BY <1>2, <1>3, <1>4

LEMMA CallInv ==
  ASSUME Inv, Call \/ Fail
  PROVE  Inv'
<1> USE DEF Inv
<1>1. /\ \/ phase = "draft" /\ phase' \in {"draft", "done"} /\ content' \in {content, out}
         \/ phase \in {"upload", "record", "draft"} /\ phase' = "failed" /\ content' = content
      /\ at' = at
      /\ kind' = kind /\ front' = front /\ body' = body /\ images' = images
      /\ rows' = rows /\ files' = files /\ out' = out /\ unresolved' = unresolved
  BY DEF Call, Fail, inputVars, scanVars, mediaVars, rewriteVars, draftVars
<1>2. Typed' /\ Uploading' /\ Kept' /\ Drafted' /\ Scanned' /\ NoneIsLeft'
  BY <1>1, FrontStays, ScanIsOver DEF Typed, Uploading, Kept, Renders, Drafted, NoneIsLeft
<1>3. Complete' /\ Sound'
  BY <1>1, FrontStays DEF Complete, Loads, Sound, Found
<1>4. Rewritten'
  BY <1>1 DEF Rewritten, Puts
<1> QED BY <1>2, <1>3, <1>4

-----------------------------------------------------------------------------
(***************************************************************************)
(* Rewriting.                                                              *)
(***************************************************************************)

\* What a turn of rewriting leaves alone, and what it may do.
Rewrites ==
  /\ phase = "rewrite" /\ phase' \in {"rewrite", "refused", "draft"}
  /\ kind' = kind /\ front' = front /\ body' = body /\ images' = images
  /\ rows' = rows /\ files' = files /\ content' = content
  /\ at' \in Position
  /\ Renders(out', at' - 1)
  /\ \A t : Contains(out, t) => Contains(out', t)

LEMMA RewritesInv ==
  ASSUME Inv, Rewrites, Rewritten', NoneIsLeft'
  PROVE  Inv'
<1> USE DEF Inv, Rewrites
<1>1. Typed' /\ Uploading' /\ Scanned'
  BY ScanIsOver DEF Typed, Uploading
<1>2. Kept'
  BY DEF Kept, Renders
<1>3. Drafted'
  BY DEF Drafted
<1>4. Complete' /\ Sound'
  BY FrontStays DEF Complete, Loads, Sound, Found
<1> QED BY <1>1, <1>2, <1>3, <1>4

LEMMA PutsStay ==
  ASSUME Rewrites
  PROVE  \A r : Puts(r) => Puts(r)'
  BY DEF Rewrites, Puts

\* Where the second scanner finds no turn it has met all references too.
LEMMA AllIsPut ==
  ASSUME Inv, phase = "rewrite", Broken(body, at) \/ Dead(body, at)
  PROVE  \A r \in Position : Reach(body, r) => Puts(r)
<1> USE DEF Inv
<1>1. at \in Position /\ Len(body) \in Nat
  BY TextIs DEF Typed
<1>2. \A w : ~Names(body, at, w)
  BY <1>1, BrokenIsEnd, NamesIs
<1>3. Puts(at)
  BY <1>2 DEF Puts
<1>4. CASE Dead(body, at) /\ \A r \in Position : Reach(body, r) => Puts(r)
  BY <1>4
<1>5. CASE /\ Reach(body, at) /\ Passed(body, at) /\ Broken(body, at)
           /\ \A r \in Position : Reach(body, r) /\ r < at => Puts(r)
  <2>1. \A r \in Position : Reach(body, r) => r < at \/ r = at
    BY <1>1, <1>5, BrokenIsEnd, WalkStops
  <2> QED BY <1>3, <1>5, <2>1
<1>6. CASE /\ Reach(body, at) /\ Passed(body, at) /\ Dead(body, at)
           /\ \A r \in Position : Reach(body, r) /\ r < at => Puts(r)
  <2>1. ASSUME NEW r \in Position, Reach(body, r), ~(r < at) PROVE Puts(r)
    <3>1. Dead(body, r)
      BY <1>1, <1>6, <2>1, DeadIsDead DEF Position
    <3>2. \A w : ~Names(body, r, w)
      BY <1>1, <3>1, NamesIs
    <3> QED BY <3>2 DEF Puts
  <2> QED BY <1>6, <2>1
<1> QED BY <1>4, <1>5, <1>6 DEF Rewritten

\* A "![" that begins nothing, or a "](" without an end.
LEMMA RewriteBrokenInv ==
  ASSUME Inv, RewriteOpen \/ RewriteParen
  PROVE  Inv'
<1> USE DEF Inv
<1>1. /\ phase = "rewrite" /\ phase' = phase /\ unresolved' = unresolved
      /\ kind' = kind /\ front' = front /\ body' = body /\ images' = images
      /\ rows' = rows /\ files' = files /\ content' = content
  BY DEF RewriteOpen, RewriteParen, Rewriting, inputVars, mediaVars, draftVars
<1>2. Text = body /\ body \in Seq(Token) /\ at \in Position /\ Len(body) \in Nat /\ Renders(out, at - 1)
  BY <1>1, TextIs DEF Typed, Kept
<1>3. PICK to \in Nat : /\ at <= to /\ to <= Len(body) /\ Copy(to)
                        /\ Broken(body, at) /\ Dead(body, to + 1)
  <2>1. CASE RewriteOpen
    <3>1. OpenAt \in Nat /\ at <= OpenAt /\ OpenAt <= Len(body)
      BY <1>2, <2>1, ScannerSees DEF RewriteOpen, Rewriting, Ends
    <3>2. Broken(body, at) /\ Dead(body, OpenAt + 1) /\ Copy(OpenAt)
      BY <1>2, <2>1, Meets DEF RewriteOpen, Rewriting
    <3> QED BY <3>1, <3>2
  <2>2. CASE RewriteParen
    <3>1. CloseAt + 1 \in Nat /\ at <= CloseAt + 1 /\ CloseAt + 1 <= Len(body) /\ CloseAt + 1 + 1 = CloseAt + 2
      BY <1>2, <2>2, ScannerSees DEF RewriteParen, IsImage, Ends, Position
    <3>2. Broken(body, at) /\ Dead(body, CloseAt + 2) /\ Copy(CloseAt + 1)
      BY <1>2, <2>2, Meets DEF RewriteParen, Rewriting
    <3> QED BY <3>1, <3>2
  <2> QED BY <2>1, <2>2
<1>4. out' = out \o SubSeq(body, at, to) /\ at' = to + 1
  BY <1>2, <1>3 DEF Copy
<1>5. Renders(out', to) /\ \A t : Contains(out, t) => Contains(out', t)
  BY <1>2, <1>3, <1>4, CopyRenders DEF Position
<1>6. Rewrites
  <2>1. at' \in Position /\ at' - 1 = to
    BY <1>4 DEF Position
  <2> QED BY <1>1, <1>5, <2>1 DEF Rewrites
<1>7. \A r \in Position : Reach(body, r) => Puts(r)
  BY <1>1, <1>3, AllIsPut
<1>8. Rewritten'
  BY <1>1, <1>3, <1>4, <1>6, <1>7, PutsStay DEF Rewritten
<1>9. NoneIsLeft'
  BY <1>1, FrontStays DEF NoneIsLeft
<1> QED BY <1>6, <1>8, <1>9, RewritesInv

\* One turn on, from where both scanners may be or from what is dead.
LEMMA RewrittenOn ==
  ASSUME Inv, Rewrites, phase' = phase, at < at', Turn(body, at, at'),
         \A w \in rows : Names(body, at, w) => Contains(out', Stored(w))
  PROVE  Rewritten'
<1> USE DEF Inv, Rewrites
<1>1. at \in Position /\ at' \in Position /\ Len(body) \in Nat
  BY TextIs DEF Typed
<1>2. CASE /\ Reach(body, at) /\ Passed(body, at)
           /\ \A r \in Position : Reach(body, r) /\ r < at => Puts(r)
  <2>1. /\ Reach(body, at') /\ Passed(body, at')
        /\ \A r \in Position : Reach(body, r) /\ r < at' => r < at \/ r = at
    BY <1>1, <1>2, WalkOn
  <2>2. \A r \in Position : Reach(body, r) /\ r < at' => Puts(r)'
    <3> SUFFICES ASSUME NEW r \in Position, Reach(body, r), r < at' PROVE Puts(r)'
      OBVIOUS
    <3>1. CASE r < at
      BY <1>2, <3>1, PutsStay
    <3>2. CASE r = at
      BY <3>2 DEF Puts
    <3> QED BY <2>1, <3>1, <3>2
  <2> QED BY <2>1, <2>2 DEF Rewritten
<1>3. CASE /\ Dead(body, at)
           /\ \A r \in Position : Reach(body, r) => Puts(r)
  <2>1. Dead(body, at')
    BY <1>1, <1>3, DeadIsDead DEF Position
  <2> QED BY <1>3, <2>1, PutsStay DEF Rewritten
<1> QED BY <1>2, <1>3 DEF Rewritten

LEMMA RewriteLabelInv ==
  ASSUME Inv, RewriteLabel
  PROVE  Inv'
<1> USE DEF Inv
<1>1. /\ phase = "rewrite" /\ phase' = phase /\ unresolved' = unresolved
      /\ kind' = kind /\ front' = front /\ body' = body /\ images' = images
      /\ rows' = rows /\ files' = files /\ content' = content
      /\ ~Ends(OpenAt) /\ ~Ends(CloseAt) /\ ~IsImage /\ Copy(CloseAt)
  BY DEF RewriteLabel, Rewriting, inputVars, mediaVars, draftVars
<1>2. Text = body /\ body \in Seq(Token) /\ at \in Position /\ Len(body) \in Nat /\ Renders(out, at - 1)
  BY <1>1, TextIs DEF Typed, Kept
<1>3. OpenAt \in Nat /\ CloseAt \in Nat /\ at <= CloseAt /\ CloseAt <= Len(body)
  BY <1>1, <1>2, ScannerSees DEF Ends, Position
<1>4. IsLabel(body, at, OpenAt, CloseAt) /\ Turn(body, at, CloseAt + 1)
  BY <1>1, <1>2, Meets
<1>5. out' = out \o SubSeq(body, at, CloseAt) /\ at' = CloseAt + 1
  BY <1>1, <1>2 DEF Copy
<1>6. Renders(out', CloseAt) /\ \A t : Contains(out, t) => Contains(out', t)
  BY <1>2, <1>3, <1>5, CopyRenders DEF Position
<1>7. Rewrites
  <2>1. at' \in Position /\ at' - 1 = CloseAt
    BY <1>3, <1>5 DEF Position
  <2> QED BY <1>1, <1>6, <2>1 DEF Rewrites
<1>8. \A w : ~Names(body, at, w)
  BY <1>2, <1>3, <1>4, NamesIs
<1>9. Rewritten'
  <2>1. at < at' /\ Turn(body, at, at')
    BY <1>2, <1>3, <1>4, <1>5 DEF Position
  <2> QED BY <1>1, <1>7, <1>8, <2>1, RewrittenOn
<1>10. NoneIsLeft'
  BY <1>1, FrontStays DEF NoneIsLeft
<1> QED BY <1>7, <1>9, <1>10, RewritesInv

\* A reference goes out with the address that its image has been given.
LEMMA RewriteImageOut ==
  ASSUME Inv, RewriteImage
  PROVE  /\ Renders(out', EndAt)
         /\ \A t : Contains(out, t) => Contains(out', t)
         /\ \A w \in rows : Url = <<w>> => Contains(out', Stored(w))
<1> USE DEF Inv
<1>1. /\ phase = "rewrite"
      /\ ~Ends(OpenAt) /\ ~Ends(CloseAt) /\ IsImage /\ ~Ends(EndAt)
      /\ out' = out \o SubSeq(Text, at, CloseAt + 1)
                   \o (IF Resolved(Url) THEN <<Stored(Url[1])>> ELSE Url) \o <<End>>
  BY DEF RewriteImage, Rewriting
<1>2. Text = body /\ body \in Seq(Token) /\ at \in Position /\ Len(body) \in Nat /\ Renders(out, at - 1)
  BY <1>1, TextIs DEF Typed, Kept
<1>3. /\ OpenAt \in Nat /\ CloseAt \in Nat /\ EndAt \in Nat
      /\ at <= CloseAt /\ CloseAt + 2 <= EndAt /\ EndAt <= Len(body)
  <2>1. /\ OpenAt \in Nat /\ CloseAt \in Nat /\ EndAt \in Nat
        /\ at <= OpenAt /\ OpenAt + 1 <= CloseAt /\ CloseAt + 2 <= EndAt
    BY <1>2, ScannerSees
  <2>2. EndAt <= Len(body)
    BY <1>1, <1>2, <2>1 DEF Ends
  <2> QED BY <1>2, <2>1, <2>2 DEF Position
<1>4. IsRef(Text, at, OpenAt, CloseAt, EndAt)
  BY <1>1, <1>2, Meets
<1>5. /\ Url \in Seq(Token) /\ Len(Url) = EndAt - CloseAt - 2
      /\ \A i \in 1..Len(Url) : Url[i] = body[CloseAt + 1 + i]
      /\ Len(Url) = 1 => Url = <<Url[1]>> /\ Url[1] = body[CloseAt + 2]
  BY <1>2, <1>4, UrlIs
<1> DEFINE s == SubSeq(body, at, CloseAt + 1)
           n == CloseAt + 1
           m == EndAt - CloseAt - 2
           u == IF Resolved(Url) THEN <<Stored(Url[1])>> ELSE Url
           first == out \o s
           second == first \o u
<1>6. n \in Nat /\ m \in Nat /\ n + m \in Nat /\ n + m + 1 = EndAt /\ n + m <= Len(body)
  BY <1>2, <1>3
<1>7. Renders(first, n) /\ \A t : Contains(out, t) => Contains(first, t)
  BY <1>2, <1>3, CopyRenders DEF Position
<1>8. /\ u \in Seq(Token \cup Media) /\ Len(u) = m
      /\ \A i \in 1..m : u[i] = body[n + i] \/ (body[n + i] \in rows /\ u[i] = Stored(body[n + i]))
  <2>1. CASE Resolved(Url)
    <3>1. Url[1] \in rows /\ m = 1 /\ Url[1] = body[n + 1] /\ u = <<Stored(Url[1])>>
      <4>1. Len(Url) = 1 /\ Url[1] \in rows /\ u = <<Stored(Url[1])>>
        BY <2>1 DEF Resolved
      <4>2. n + 1 = CloseAt + 2
        BY <1>3
      <4>3. Len(Url) = m
        BY <1>5
      <4>4. m = 1
        BY <4>1, <4>3
      <4> HIDE DEF u
      <4> QED BY <1>5, <4>1, <4>2, <4>4
    <3>2. Stored(Url[1]) \in Media
      BY <3>1 DEF Media, Typed
    <3> HIDE DEF u, m, n
    <3>3. u \in Seq(Token \cup Media) /\ Len(u) = 1 /\ u[1] = Stored(Url[1])
      BY <3>1, <3>2
    <3> QED BY <3>1, <3>3
  <2>2. CASE ~Resolved(Url)
    <3>1. u = Url
      BY <2>2
    <3>2. u \in Seq(Token \cup Media)
      BY <1>5, <3>1, SeqMonotonic
    <3> QED BY <1>5, <3>1, <3>2
  <2> QED BY <2>1, <2>2
<1>9. out' = second \o <<End>>
  BY <1>1, <1>2
<1>10. \A w \in rows : Url = <<w>> => Contains(u, Stored(w))
  <2> SUFFICES ASSUME NEW w \in rows, Url = <<w>> PROVE Contains(u, Stored(w))
    OBVIOUS
  <2>1. Url[1] = w /\ Len(Url) = 1
    OBVIOUS
  <2>2. u = <<Stored(w)>>
    BY <2>1 DEF Resolved
  <2> HIDE DEF u
  <2>3. Len(u) = 1 /\ u[1] = Stored(w)
    BY <2>2
  <2> QED BY <2>3 DEF Contains
<1>11. body[n + m + 1] = End
  BY <1>2, <1>4, <1>6 DEF IsRef, First
<1> HIDE DEF s, n, m, u, first
<1>12. Renders(second, n + m) /\ \A t : Contains(first, t) \/ Contains(u, t) => Contains(second, t)
  BY <1>2, <1>6, <1>7, <1>8, RendersMore
<1> HIDE DEF second
<1>13. /\ Renders(second \o <<End>>, n + m + 1)
       /\ \A t : Contains(second, t) \/ Contains(<<End>>, t) => Contains(second \o <<End>>, t)
  <2>1. <<End>> \in Seq(Token \cup Media) /\ Len(<<End>>) = 1 /\ <<End>>[1] = End
    BY DEF Token, Bracket
  <2>2. n + m + 1 <= Len(body)
    BY <1>3, <1>6
  <2> DEFINE e == <<End>>
  <2>3. \A i \in 1..1 : e[i] = body[n + m + i]
    BY <1>11, <2>1
  <2> HIDE DEF e
  <2> QED BY <1>2, <1>6, <1>12, <2>1, <2>2, <2>3, RendersMore DEF e
<1> QED BY <1>6, <1>7, <1>9, <1>10, <1>12, <1>13

LEMMA RewriteImageInv ==
  ASSUME Inv, RewriteImage
  PROVE  Inv'
<1> USE DEF Inv
<1>1. /\ phase = "rewrite" /\ phase' = phase
      /\ kind' = kind /\ front' = front /\ body' = body /\ images' = images
      /\ rows' = rows /\ files' = files /\ content' = content
      /\ ~Ends(OpenAt) /\ ~Ends(CloseAt) /\ IsImage /\ ~Ends(EndAt) /\ at' = EndAt + 1
      /\ unresolved' = IF Resolved(Url) \/ LooksRemote(Url) THEN unresolved ELSE unresolved \cup {Url}
  BY DEF RewriteImage, Rewriting, inputVars, mediaVars, draftVars
<1>2. Text = body /\ at \in Position /\ Len(body) \in Nat
  BY <1>1, TextIs DEF Typed
<1>3. OpenAt \in Nat /\ CloseAt \in Nat /\ EndAt \in Nat /\ at < EndAt + 1
  BY <1>1, <1>2, ScannerSees DEF Position
<1>4. IsRef(body, at, OpenAt, CloseAt, EndAt) /\ Turn(body, at, EndAt + 1)
  BY <1>1, <1>2, Meets
<1>5. \A w : Names(body, at, w) <=> Url = <<w>>
  <2>1. \A w : Names(body, at, w) <=> EndAt = CloseAt + 3 /\ body[CloseAt + 2] = w
    BY <1>2, <1>3, <1>4, NamesIs
  <2>2. \A w : Url = <<w>> <=> EndAt = CloseAt + 3 /\ body[CloseAt + 2] = w
    BY <1>2, <1>4, UrlIs
  <2> QED BY <2>1, <2>2
<1>6. Rewrites
  <2>1. at' \in Position /\ at' - 1 = EndAt
    BY <1>1, <1>3 DEF Position
  <2> QED BY <1>1, <2>1, RewriteImageOut DEF Rewrites
<1>7. Rewritten'
  <2>1. \A w \in rows : Names(body, at, w) => Contains(out', Stored(w))
    BY <1>5, RewriteImageOut
  <2> QED BY <1>1, <1>3, <1>4, <1>6, <2>1, RewrittenOn
<1>8. NoneIsLeft'
  <2> SUFFICES ASSUME FrontIsClosed, kind = "zip", NEW w \in Picture, Url = <<w>>,
                      ~Resolved(Url), ~LooksRemote(Url)
               PROVE  FALSE
    BY <1>1, FrontStays DEF NoneIsLeft
  <2>1. w \in Local /\ w \notin rows
    BY DEF LooksRemote, Resolved, Local
  <2>2. Names(body, at, w)
    BY <1>5
  <2>3. Reach(body, at)
    BY <1>1, <1>2, <2>2, NamesIs DEF Rewritten
  <2>4. Found(w)
    BY <1>1, <1>2, <2>1, <2>2, <2>3 DEF Complete, Loads
  <2>5. images = <<>>
    BY <1>1 DEF Complete
  <2> QED BY <2>1, <2>4, <2>5 DEF Found, Contains
<1> QED BY <1>6, <1>7, <1>8, RewritesInv

LEMMA EndRewriteInv ==
  ASSUME Inv, EndRewrite
  PROVE  Inv'
<1> USE DEF Inv
<1>1. /\ phase = "rewrite" /\ phase' \in {"refused", "draft"} /\ unresolved' = unresolved
      /\ kind' = kind /\ front' = front /\ body' = body /\ images' = images
      /\ rows' = rows /\ files' = files /\ content' = content
      /\ Ends(OpenAt) /\ Copy(Len(Text))
  BY DEF EndRewrite, inputVars, mediaVars, draftVars
<1>2. Text = body /\ body \in Seq(Token) /\ at \in Position /\ Len(body) \in Nat /\ Renders(out, at - 1)
  BY <1>1, TextIs DEF Typed, Kept
<1>3. out' = out \o SubSeq(body, at, Len(body)) /\ at' = Len(body) + 1
  BY <1>1, <1>2 DEF Copy
<1>4. Renders(out', Len(body)) /\ \A t : Contains(out, t) => Contains(out', t)
  <2>1. at - 1 <= Len(body)
    BY <1>2 DEF Renders
  <2> QED BY <1>2, <1>3, <2>1, CopyRenders DEF Position
<1>5. Rewrites
  <2>1. at' \in Position /\ at' - 1 = Len(body)
    BY <1>2, <1>3 DEF Position
  <2> QED BY <1>1, <1>4, <2>1 DEF Rewrites
<1>6. Rewritten'
  <2>1. Broken(body, at)
    BY <1>1, <1>2, Meets
  <2>2. \A r \in Position : Reach(body, r) => Puts(r)
    BY <1>1, <2>1, AllIsPut
  <2> QED BY <1>1, <1>5, <2>2, PutsStay DEF Rewritten
<1>7. NoneIsLeft'
  BY <1>1, FrontStays DEF NoneIsLeft
<1> QED BY <1>5, <1>6, <1>7, RewritesInv

-----------------------------------------------------------------------------
(***************************************************************************)
(* The theorems.                                                           *)
(***************************************************************************)

LEMMA NextInv ==
  ASSUME Inv, [Next]_vars
  PROVE  Inv'
<1>1. CASE Next
  BY <1>1, ExtractInv, ScanLabelInv, ScanImageInv, EndScanInv, UploadInv, WriteFileInv, EndUploadInv,
     RewriteBrokenInv, RewriteLabelInv, RewriteImageInv, EndRewriteInv, CallInv DEF Next, Work
<1>2. CASE UNCHANGED vars
  <2>1. /\ kind' = kind /\ posts' = posts /\ front' = front /\ body' = body /\ phase' = phase /\ at' = at
        /\ images' = images /\ files' = files /\ rows' = rows /\ out' = out /\ unresolved' = unresolved
        /\ content' = content
    BY <1>2 DEF vars, inputVars, scanVars, mediaVars, rewriteVars, draftVars
  <2>2. Typed' /\ Uploading' /\ Kept' /\ Drafted' /\ NoneIsLeft'
    BY <2>1, FrontStays DEF Inv, Typed, Uploading, Kept, Renders, Drafted, NoneIsLeft
  <2>3. Complete' /\ Sound' /\ Rewritten'
    BY <2>1, FrontStays DEF Inv, Complete, Sound, Rewritten, Loads, Found, Puts
  <2>4. Scanned'
    BY <2>1, FrontStays DEF Inv, Scanned, ScansAt, Loads, Found
  <2> QED BY <2>2, <2>3, <2>4 DEF Inv
<1> QED BY <1>1, <1>2

LEMMA InvHolds == Spec => []Inv
<1>1. Init => Inv
  BY InitInv
<1>2. Inv /\ [Next]_vars => Inv'
  BY NextInv
<1> QED BY <1>1, <1>2, PTL DEF Spec

\* A token is no address of the media store, and an address has one original.
LEMMA OriginalIs ==
  /\ \A t \in Token : Original(t) = t
  /\ \A w \in Picture : Original(Stored(w)) = w
<1>1. ASSUME NEW t \in Token PROVE Original(t) = t
  BY NameAssumption DEF Original
<1>2. ASSUME NEW w \in Picture PROVE Original(Stored(w)) = w
  <2> DEFINE v == CHOOSE v \in Picture : Stored(w) = Stored(v)
  <2>1. v \in Picture /\ Stored(w) = Stored(v)
    OBVIOUS
  <2>2. v = w
    BY <2>1, NameAssumption
  <2>3. Original(Stored(w)) = v
    BY DEF Original
  <2> QED BY <2>2, <2>3
<1> QED BY <1>1, <1>2

LEMMA InvKeepsText == Inv => TextIsKept
<1> SUFFICES ASSUME Inv PROVE TextIsKept
  OBVIOUS
<1> USE DEF Inv
<1> DEFINE n == IF phase \in {"scan", "upload", "record"} THEN 0 ELSE at - 1
<1>1. body \in Seq(Token) /\ Len(body) \in Nat /\ at \in Position
  BY TextIs DEF Typed
<1>2. n \in Nat /\ Renders(out, n)
  <2>1. CASE phase = "scan"
    <3>1. out = <<>> /\ n = 0
      BY <2>1 DEF Kept
    <3> QED BY <1>1, <3>1, EmptySeq DEF Renders
  <2>2. CASE phase \in {"upload", "record"}
    <3>1. at = 1 /\ Renders(out, at - 1) /\ n = 0
      BY <2>2 DEF Kept
    <3> QED BY <3>1
  <2>3. CASE phase \notin {"scan", "upload", "record"}
    <3>1. Renders(out, at - 1) /\ n = at - 1
      BY <2>3 DEF Kept
    <3> QED BY <1>1, <3>1 DEF Position
  <2> QED BY <2>1, <2>2, <2>3
<1> HIDE DEF n
<1>3. Len(out) = n /\ n <= Len(body) /\ DOMAIN out = 1..n
  BY <1>2, LenProperties DEF Renders
<1>4. ASSUME NEW k \in 1..n PROVE Original(out[k]) = body[k]
  <2>1. body[k] \in Token
    BY <1>1, <1>2, <1>3, ElementOfSeq
  <2>2. out[k] = body[k] \/ (body[k] \in Picture /\ out[k] = Stored(body[k]))
    BY <1>2 DEF Renders, Typed
  <2> QED BY <2>1, <2>2, OriginalIs
<1> DEFINE s == [k \in DOMAIN out |-> Original(out[k])]
           t == SubSeq(body, 1, n)
<1>5. t \in Seq(Token) /\ Len(t) = n /\ \A i \in 1..n : t[i] = body[i]
  <2>1. 1 \in Position /\ n + 1 - 1 = n /\ 1 <= n + 1
    BY <1>2 DEF Position
  <2>2. \A i \in 1..n : 1 - 1 + i = i
    BY <1>2
  <2> QED BY <1>1, <1>2, <1>3, <2>1, <2>2, SpanIs
<1>6. s = [k \in 1..n |-> body[k]]
  BY <1>3, <1>4
<1>7. t = [k \in 1..n |-> body[k]]
  <2> HIDE DEF t
  <2>1. t \in [1..n -> Token]
    BY <1>5, LenProperties
  <2> QED BY <1>5, <2>1
<1>8. s = t
  BY <1>6, <1>7
<1> QED BY <1>8 DEF TextIsKept, n

\* Whatever brackets a text has and wherever it breaks off, rewriting changes addresses
\* of images and nothing else (rewrite_image_refs).
THEOREM RewritingKeepsText == Spec => []TextIsKept
  BY InvHolds, InvKeepsText, PTL

LEMMA InvAgrees == Inv => ScannersAgree
<1> SUFFICES ASSUME Inv PROVE ScannersAgree
  OBVIOUS
<1> USE DEF Inv
<1>1. ASSUME phase \in {"draft", "done"}, FrontIsClosed, NEW w \in rows
      PROVE  w \in Used \/ Contains(front, w)
  <2>1. Contains(front, w) \/ \E r \in Position : Reach(body, r) /\ Names(body, r, w)
    BY <1>1 DEF Sound, Found
  <2>2. ASSUME NEW r \in Position, Reach(body, r), Names(body, r, w) PROVE w \in Used
    <3>1. Contains(out, Stored(w)) /\ w \in Picture
      BY <1>1, <2>2 DEF Rewritten, Puts, Typed
    <3> QED BY <3>1 DEF Used
  <2> QED BY <2>1, <2>2
<1>2. ASSUME NEW w \in Picture, Contains(content, Stored(w)) PROVE w \in rows \cap files
  <2>1. content # <<>>
    BY <1>2 DEF Contains
  <2>2. content = out /\ phase # "scan"
    BY <2>1 DEF Drafted
  <2>3. Renders(out, at - 1) /\ body \in Seq(Token)
    BY <2>2 DEF Kept, Typed
  <2>4. PICK k \in 1..Len(out) : out[k] = Stored(w)
    BY <1>2, <2>2 DEF Contains
  <2>5. body[k] \in Token /\ (out[k] = body[k] \/ (body[k] \in rows /\ out[k] = Stored(body[k])))
    BY <2>3, <2>4, ElementOfSeq, LenProperties DEF Renders
  <2>6. body[k] \in rows /\ Stored(body[k]) = Stored(w)
    BY <2>4, <2>5, NameAssumption
  <2>7. body[k] = w
    BY <2>6, NameAssumption DEF Typed
  <2> QED BY <2>6, <2>7 DEF Typed
<1> QED BY <1>1, <1>2 DEF ScannersAgree, NoneIsLeft

\* For every text, archive and failure, and for front matter in which whatever begins
\* ends too, the two scanners see the same references: no image of the archive is left
\* unresolved, and none is stored that neither the draft nor the front matter names.
\* And for front matter of any form, what a draft refers to is stored (scan_local_images,
\* which reads front matter, rewrite_image_refs, which does not, and import_post).
THEOREM ScannersAlwaysAgree == Spec => []ScannersAgree
  BY InvHolds, InvAgrees, PTL

-----------------------------------------------------------------------------
(***************************************************************************)
(* PART TWO: Markdown.  The longest run of lines that all answer yes.      *)
(***************************************************************************)

\* end is the end of the longest run of numbers in Y, from one on and up to n.
Run(Y, from, n, end) ==
  /\ end \in (from - 1)..n
  /\ \A k \in from..end : k \in Y
  /\ end = n \/ end + 1 \notin Y

\* There is such an end, and it is one.
LEMMA RunIs ==
  ASSUME NEW Y, NEW n \in Nat, NEW from \in 1..(n + 1)
  PROVE  /\ \E end : Run(Y, from, n, end)
         /\ \A d, e : Run(Y, from, n, d) /\ Run(Y, from, n, e) => d = e
<1>1. \E end : Run(Y, from, n, end)
  <2> DEFINE T == {k \in from..n : k \notin Y}
  <2>1. CASE T = {}
    <3>1. Run(Y, from, n, n)
      BY <2>1 DEF Run
    <3> QED BY <3>1
  <2>2. CASE T # {}
    <3>1. T \subseteq Nat
      OBVIOUS
    <3> HIDE DEF T
    <3>2. PICK m \in T : \A k \in T : m <= k
      BY <2>2, <3>1, Least
    <3> USE DEF T
    <3>3. Run(Y, from, n, m - 1)
      BY <3>2 DEF Run
    <3> QED BY <3>3
  <2> QED BY <2>1, <2>2
<1>2. ASSUME NEW d, NEW e, Run(Y, from, n, d), Run(Y, from, n, e) PROVE d = e
  BY <1>2 DEF Run
<1> QED BY <1>1, <1>2

\* Lines that the parser and the editor make, whatever lines an article has.
Own == {"blank", "fence", "bare", "dashes", "bang", "hyphens", "image", "bracketed", "foreign"}

AnyLine == [kind : Kinds \cup Own, word : Nat]

\* The lines that a run may have.
NoFences == {k \in 1..Len(source) : ~IsFence(source[k])}

Quotes == {k \in 1..Len(source) : IsQuote(source[k])}

Bares == {k \in 1..Len(source) : source[k].kind = "bare"}

Items(ordered) == {k \in 1..Len(source) : IsItem(source[k]) /\ Ordered(source[k]) = ordered}

Texts == {k \in 1..Len(source) : ~Stops(source[k])}

\* For each question, RunEnd is the end of the longest run.
LEMMA QuoteRun ==
  ASSUME source \in Seq(AnyLine), NEW from \in 1..(Len(source) + 1)
  PROVE  Run(Quotes, from, Len(source), RunEnd(from, IsQuote))
<1> DEFINE Y == Quotes
           n == Len(source)
<1>1. n \in Nat /\ from \in 1..(n + 1)
  OBVIOUS
<1>2. RunEnd(from, IsQuote) = CHOOSE e : Run(Y, from, n, e)
  <2>1. \A e : Run(Y, from, n, e) <=>
           /\ e \in (from - 1)..n
           /\ \A k \in from..e : IsQuote(source[k])
           /\ e = n \/ ~(IsQuote(source[e + 1]))
    BY <1>1 DEF Run, Quotes
  <2> QED BY <2>1, Zenon DEF RunEnd
<1> HIDE DEF Y, n
<1> QED BY <1>1, <1>2, RunIs DEF Y, n

LEMMA BareRun ==
  ASSUME source \in Seq(AnyLine), NEW from \in 1..(Len(source) + 1)
  PROVE  Run(Bares, from, Len(source), RunEnd(from, LAMBDA l : l.kind = "bare"))
<1> DEFINE Y == Bares
           n == Len(source)
<1>1. n \in Nat /\ from \in 1..(n + 1)
  OBVIOUS
<1>2. RunEnd(from, LAMBDA l : l.kind = "bare") = CHOOSE e : Run(Y, from, n, e)
  <2>1. \A e : Run(Y, from, n, e) <=>
           /\ e \in (from - 1)..n
           /\ \A k \in from..e : source[k].kind = "bare"
           /\ e = n \/ ~(source[e + 1].kind = "bare")
    BY <1>1 DEF Run, Bares
  <2> QED BY <2>1, Zenon DEF RunEnd
<1> HIDE DEF Y, n
<1> QED BY <1>1, <1>2, RunIs DEF Y, n

LEMMA CodeRun ==
  ASSUME source \in Seq(AnyLine), NEW from \in 1..(Len(source) + 1)
  PROVE  Run(NoFences, from, Len(source), RunEnd(from, LAMBDA l : ~IsFence(l)))
<1> DEFINE Y == NoFences
           n == Len(source)
<1>1. n \in Nat /\ from \in 1..(n + 1)
  OBVIOUS
<1>2. RunEnd(from, LAMBDA l : ~IsFence(l)) = CHOOSE e : Run(Y, from, n, e)
  <2>1. \A e : Run(Y, from, n, e) <=>
           /\ e \in (from - 1)..n
           /\ \A k \in from..e : ~IsFence(source[k])
           /\ e = n \/ ~(~IsFence(source[e + 1]))
    BY <1>1 DEF Run, NoFences
  <2> QED BY <2>1, Zenon DEF RunEnd
<1> HIDE DEF Y, n
<1> QED BY <1>1, <1>2, RunIs DEF Y, n

LEMMA ListRun ==
  ASSUME source \in Seq(AnyLine), NEW from \in 1..(Len(source) + 1)
  PROVE  Run(Items(Ordered(Here)), from, Len(source), RunEnd(from, LAMBDA l : IsItem(l) /\ Ordered(l) = Ordered(Here)))
<1> DEFINE Y == Items(Ordered(Here))
           n == Len(source)
<1>1. n \in Nat /\ from \in 1..(n + 1)
  OBVIOUS
<1>2. RunEnd(from, LAMBDA l : IsItem(l) /\ Ordered(l) = Ordered(Here)) = CHOOSE e : Run(Y, from, n, e)
  <2>1. \A e : Run(Y, from, n, e) <=>
           /\ e \in (from - 1)..n
           /\ \A k \in from..e : (IsItem(source[k]) /\ Ordered(source[k]) = Ordered(Here))
           /\ e = n \/ ~(IsItem(source[e + 1]) /\ Ordered(source[e + 1]) = Ordered(Here))
    BY <1>1 DEF Run, Items
  <2> QED BY <2>1, Zenon DEF RunEnd
<1> HIDE DEF Y, n
<1> QED BY <1>1, <1>2, RunIs DEF Y, n

LEMMA ParagraphRun ==
  ASSUME source \in Seq(AnyLine), NEW from \in 1..(Len(source) + 1)
  PROVE  Run(Texts, from, Len(source), RunEnd(from, LAMBDA l : ~Stops(l)))
<1> DEFINE Y == Texts
           n == Len(source)
<1>1. n \in Nat /\ from \in 1..(n + 1)
  OBVIOUS
<1>2. RunEnd(from, LAMBDA l : ~Stops(l)) = CHOOSE e : Run(Y, from, n, e)
  <2>1. \A e : Run(Y, from, n, e) <=>
           /\ e \in (from - 1)..n
           /\ \A k \in from..e : ~Stops(source[k])
           /\ e = n \/ ~(~Stops(source[e + 1]))
    BY <1>1 DEF Run, Texts
  <2> QED BY <2>1, Zenon DEF RunEnd
<1> HIDE DEF Y, n
<1> QED BY <1>1, <1>2, RunIs DEF Y, n

\* What the five actions do that take several lines, with that end named.
LEMMA CodeIs ==
  ASSUME source \in Seq(AnyLine), next \in Nat \ {0}, Code
  PROVE  \E end : LET code == SubSeq(source, next + 1, end) IN
         /\ Parsing /\ IsFence(Here)
         /\ Run(NoFences, next + 1, Len(source), end)
         /\ Push(<<Block("code", <<Here>> \o IF IsEmptyText(code) THEN <<>> ELSE code)>>, end + 2)
<1>1. next + 1 \in 1..(Len(source) + 1)
  BY DEF Code, Parsing
<1> DEFINE end == RunEnd(next + 1, LAMBDA l : ~IsFence(l))
<1>2. Run(NoFences, next + 1, Len(source), end)
  BY <1>1, CodeRun
<1> QED BY <1>2 DEF Code, AfterFence

LEMMA QuoteIs ==
  ASSUME source \in Seq(AnyLine), next \in Nat \ {0}, Quote
  PROVE  \E end, lead :
         /\ Parsing /\ IsQuote(Here)
         /\ Run(Quotes, next, Len(source), end)
         /\ Run(Bares, next, Len(source), lead)
         /\ Push(<<Block("quote", SubSeq(source, lead + 1, end))>>, end + 1)
<1>1. next \in 1..(Len(source) + 1)
  BY DEF Quote, Parsing
<1> DEFINE end == RunEnd(next, IsQuote)
           lead == RunEnd(next, LAMBDA l : l.kind = "bare")
<1>2. /\ Run(Quotes, next, Len(source), end)
      /\ Run(Bares, next, Len(source), lead)
  BY <1>1, QuoteRun, BareRun
<1> QED BY <1>2 DEF Quote

LEMMA ListIs ==
  ASSUME source \in Seq(AnyLine), next \in Nat \ {0}, List
  PROVE  \E end :
         /\ Parsing /\ IsItem(Here) /\ ~IsRule(Here)
         /\ Run(Items(Ordered(Here)), next, Len(source), end)
         /\ Push(<<Block("list", [k \in 1..(end + 1 - next) |-> ItemOf(source[next + k - 1])])>>, end + 1)
<1>1. next \in 1..(Len(source) + 1)
  BY DEF List, Parsing
<1> DEFINE end == RunEnd(next, LAMBDA l : IsItem(l) /\ Ordered(l) = Ordered(Here))
<1>2. Run(Items(Ordered(Here)), next, Len(source), end)
  BY <1>1, ListRun
<1> QED BY <1>2 DEF List

LEMMA ParagraphIs ==
  ASSUME source \in Seq(AnyLine), next \in Nat \ {0}, Paragraph
  PROVE  \E end :
         /\ Parsing /\ ImagesOf(Here) = <<>> /\ ~IsVideo(Here) /\ ~Stops(Here)
         /\ Run(Texts, next, Len(source), end)
         /\ Push(ParagraphBlocks(SubSeq(source, next, end)), end + 1)
<1>1. next \in 1..(Len(source) + 1)
  BY DEF Paragraph, Parsing
<1> DEFINE end == RunEnd(next, LAMBDA l : ~Stops(l))
<1>2. Run(Texts, next, Len(source), end)
  BY <1>1, ParagraphRun
<1>3. ImagesOf(Here) = <<>> /\ ~IsVideo(Here) /\ ~Stops(Here)
  BY DEF Paragraph, Stops
<1> QED BY <1>2, <1>3 DEF Paragraph

\* Lines from p to q.
LEMMA StretchIs ==
  ASSUME source \in Seq(AnyLine), NEW p \in Nat, p # 0, NEW q \in Nat, p <= q + 1, q <= Len(source)
  PROVE  /\ SubSeq(source, p, q) \in Seq(AnyLine) /\ Len(SubSeq(source, p, q)) = q + 1 - p
         /\ \A i \in 1..(q + 1 - p) : SubSeq(source, p, q)[i] = source[p - 1 + i]
<1>1. \A i \in p..q : source[i] \in AnyLine
  BY ElementOfSeq
<1>2. /\ SubSeq(source, p, q) \in Seq(AnyLine)
      /\ Len(SubSeq(source, p, q)) = IF p <= q THEN q - p + 1 ELSE 0
      /\ \A i \in 1..(q - p + 1) : SubSeq(source, p, q)[i] = source[p + i - 1]
  BY <1>1, SubSeqProperties
<1> DEFINE s == SubSeq(source, p, q)
<1> HIDE DEF s
<1>3. ASSUME NEW i \in 1..(q + 1 - p) PROVE s[i] = source[p - 1 + i]
  <2>1. i \in 1..(q - p + 1) /\ p + i - 1 = p - 1 + i
    OBVIOUS
  <2> QED BY <1>2, <2>1 DEF s
<1> QED BY <1>2, <1>3 DEF s

-----------------------------------------------------------------------------
(***************************************************************************)
(* What the parser makes.                                                  *)
(***************************************************************************)

BlockKinds == {"video", "code", "heading", "quote", "divider", "image", "list", "paragraph"}

AnyBlock == [kind : BlockKinds, lines : Seq(AnyLine)]

\* A block as the parser makes it.
Parsed(b) ==
  /\ b.kind \in {"video", "heading", "image"} => Len(b.lines) = 1
  /\ b.kind \in {"code", "list", "paragraph"} => Len(b.lines) > 0
  /\ b.kind = "video" => b.lines[1].kind \in {"url", "frame", "foreign"}
  /\ b.kind = "code" => /\ IsFence(b.lines[1])
                        /\ \A i \in 2..Len(b.lines) : ~IsFence(b.lines[i])
                        /\ Len(b.lines) = 2 => ~IsBlank(b.lines[2])
  /\ b.kind = "heading" => IsHeading(b.lines[1])
  /\ b.kind = "quote" => /\ \A i \in 1..Len(b.lines) : IsQuote(b.lines[i])
                         /\ Len(b.lines) > 0 => b.lines[1].kind # "bare"
  /\ b.kind = "divider" => b.lines = <<>>
  /\ b.kind = "image" => b.lines[1].kind \in {"image", "bracketed"}
  /\ b.kind = "list" => \A i \in 1..Len(b.lines) :
                          /\ IsItem(b.lines[i]) /\ ~IsRule(b.lines[i])
                          /\ Ordered(b.lines[i]) = Ordered(b.lines[1])
  /\ b.kind = "paragraph" => /\ \A i \in 1..Len(b.lines) : ~Stops(b.lines[i])
                             /\ ~IsVideo(b.lines[1]) /\ ImagesOf(b.lines[1]) = <<>>
                             /\ \E i \in 1..Len(b.lines) : ~IsTag(b.lines[i])
                             /\ Len(b.lines) = 1 => ~IsFrame(b.lines[1])

\* A step that pushes blocks as the parser makes them.
Pushes(new) ==
  /\ new \in Seq(AnyBlock) /\ \A k \in 1..Len(new) : Parsed(new[k])
  /\ blocks' = blocks \o new
  /\ next' \in Nat /\ next' > next
  /\ source' = source /\ saved' = saved /\ pass' = pass

\* Such a step, with one block ...
LEMMA OnePush ==
  ASSUME NEW b \in AnyBlock, Parsed(b), next \in Nat, NEW q \in Nat, q > next, Push(<<b>>, q)
  PROVE  Pushes(<<b>>)
BY DEF Push, Pushes

\* ... and the line it is at.
LEMMA HereIs ==
  ASSUME source \in Seq(AnyLine), next \in Nat \ {0}, Parsing
  PROVE  Here \in AnyLine /\ next \in 1..Len(source)
BY ElementOfSeq DEF Here, Parsing

LEMMA BlockIs ==
  ASSUME NEW k \in BlockKinds, NEW lines \in Seq(AnyLine)
  PROVE  Block(k, lines) \in AnyBlock /\ Block(k, lines).kind = k /\ Block(k, lines).lines = lines
BY DEF Block, AnyBlock

LEMMA SingleIs ==
  ASSUME NEW l \in AnyLine
  PROVE  <<l>> \in Seq(AnyLine) /\ Len(<<l>>) = 1 /\ <<l>>[1] = l
OBVIOUS

\* Every step pushes blocks as the parser makes them.
LEMMA LineSteps ==
  ASSUME source \in Seq(AnyLine), next \in Nat \ {0}, BlankLine \/ VideoLine \/ Heading \/ Divider
  PROVE  \E new : Pushes(new)
<1>1. CASE BlankLine
  <2>1. Pushes(<<>>)
    BY <1>1 DEF BlankLine, Push, Pushes
  <2> QED BY <2>1
<1>2. CASE VideoLine
  <2>1. Here \in AnyLine /\ IsVideo(Here)
    BY <1>2, HereIs DEF VideoLine
  <2>2. /\ Block("video", <<Here>>) \in AnyBlock /\ Block("video", <<Here>>).kind = "video"
        /\ Block("video", <<Here>>).lines = <<Here>>
    BY <2>1, SingleIs, BlockIs DEF BlockKinds
  <2>3. Parsed(Block("video", <<Here>>))
    BY <2>1, <2>2, SingleIs DEF Parsed, IsVideo
  <2>4. Pushes(<<Block("video", <<Here>>)>>)
    BY <1>2, <2>2, <2>3, OnePush DEF VideoLine
  <2> QED BY <2>4
<1>3. CASE Heading
  <2>1. Here \in AnyLine /\ IsHeading(Here)
    BY <1>3, HereIs DEF Heading
  <2>2. /\ Block("heading", <<Here>>) \in AnyBlock /\ Block("heading", <<Here>>).kind = "heading"
        /\ Block("heading", <<Here>>).lines = <<Here>>
    BY <2>1, SingleIs, BlockIs DEF BlockKinds
  <2>3. Parsed(Block("heading", <<Here>>))
    BY <2>1, <2>2, SingleIs DEF Parsed
  <2>4. Pushes(<<Block("heading", <<Here>>)>>)
    BY <1>3, <2>2, <2>3, OnePush DEF Heading
  <2> QED BY <2>4
<1>4. CASE Divider
  <2>1. /\ Block("divider", <<>>) \in AnyBlock /\ Block("divider", <<>>).kind = "divider"
        /\ Block("divider", <<>>).lines = <<>>
    <3>1. <<>> \in Seq(AnyLine)
      OBVIOUS
    <3> QED BY <3>1, BlockIs DEF BlockKinds
  <2>2. Parsed(Block("divider", <<>>))
    BY <2>1 DEF Parsed
  <2>3. Pushes(<<Block("divider", <<>>)>>)
    BY <1>4, <2>1, <2>2, OnePush DEF Divider
  <2> QED BY <2>3
<1> QED BY <1>1, <1>2, <1>3, <1>4

LEMMA FirstAndRest ==
  ASSUME NEW l \in AnyLine, NEW x \in Seq(AnyLine)
  PROVE  /\ <<l>> \o x \in Seq(AnyLine) /\ Len(<<l>> \o x) = Len(x) + 1
         /\ (<<l>> \o x)[1] = l
         /\ \A i \in 2..(Len(x) + 1) : (<<l>> \o x)[i] = x[i - 1]
<1>1. <<l>> \in Seq(AnyLine) /\ Len(<<l>>) = 1 /\ <<l>>[1] = l
  OBVIOUS
<1>2. /\ <<l>> \o x \in Seq(AnyLine) /\ Len(<<l>> \o x) = 1 + Len(x)
      /\ \A i \in 1..(1 + Len(x)) : (<<l>> \o x)[i] = IF i <= 1 THEN <<l>>[i] ELSE x[i - 1]
  BY <1>1, ConcatProperties
<1> QED BY <1>1, <1>2

LEMMA CodeStep ==
  ASSUME source \in Seq(AnyLine), next \in Nat \ {0}, Code
  PROVE  \E new : Pushes(new)
<1>1. PICK end : LET code == SubSeq(source, next + 1, end) IN
        /\ Parsing /\ IsFence(Here)
        /\ Run(NoFences, next + 1, Len(source), end)
        /\ Push(<<Block("code", <<Here>> \o IF IsEmptyText(code) THEN <<>> ELSE code)>>, end + 2)
  BY CodeIs
<1> DEFINE code == SubSeq(source, next + 1, end)
           rest == IF IsEmptyText(code) THEN <<>> ELSE code
           b == Block("code", <<Here>> \o rest)
<1>2. end \in next..Len(source) /\ end \in Nat /\ Here \in AnyLine
  BY <1>1, HereIs DEF Run
<1>3. /\ code \in Seq(AnyLine) /\ Len(code) = end - next
      /\ \A i \in 1..Len(code) : code[i] = source[next + i] /\ ~IsFence(code[i])
  <2>1. /\ code \in Seq(AnyLine) /\ Len(code) = end + 1 - (next + 1)
        /\ \A i \in 1..(end + 1 - (next + 1)) : code[i] = source[next + 1 - 1 + i]
    <3>1. next + 1 \in Nat /\ next + 1 # 0 /\ next + 1 <= end + 1
      BY <1>2
    <3> QED BY <1>2, <3>1, StretchIs
  <2> HIDE DEF code
  <2>2. ASSUME NEW i \in 1..Len(code) PROVE code[i] = source[next + i] /\ ~IsFence(code[i])
    <3>1. code[i] = source[next + i] /\ next + i \in (next + 1)..end
      BY <1>2, <2>1
    <3>2. next + i \in NoFences
      BY <1>1, <3>1 DEF Run
    <3> QED BY <3>1, <3>2 DEF NoFences
  <2> QED BY <1>2, <2>1, <2>2
<1>4. /\ rest \in Seq(AnyLine) /\ \A i \in 1..Len(rest) : ~IsFence(rest[i])
      /\ Len(rest) = 1 => ~IsBlank(rest[1])
  <2> HIDE DEF code
  <2>1. CASE IsEmptyText(code)
    BY <2>1
  <2>2. CASE ~IsEmptyText(code)
    BY <1>3, <2>2 DEF IsEmptyText
  <2> QED BY <2>1, <2>2
<1> HIDE DEF rest
<1>5. /\ <<Here>> \o rest \in Seq(AnyLine) /\ Len(<<Here>> \o rest) = Len(rest) + 1
      /\ (<<Here>> \o rest)[1] = Here
      /\ \A i \in 2..(Len(rest) + 1) : (<<Here>> \o rest)[i] = rest[i - 1]
  BY <1>2, <1>4, FirstAndRest
<1>6. b \in AnyBlock /\ b.kind = "code" /\ b.lines = <<Here>> \o rest
  BY <1>5, BlockIs DEF BlockKinds
<1> HIDE DEF b
<1>7. Parsed(b)
  <2>1. Len(b.lines) = Len(rest) + 1 /\ Len(rest) \in Nat
    BY <1>4, <1>5, <1>6
  <2>2. IsFence(b.lines[1])
    BY <1>1, <1>5, <1>6
  <2>3. \A i \in 2..Len(b.lines) : ~IsFence(b.lines[i])
    <3> TAKE i \in 2..Len(b.lines)
    <3>1. i \in 2..(Len(rest) + 1) /\ i - 1 \in 1..Len(rest)
      BY <2>1
    <3> QED BY <1>4, <1>5, <1>6, <3>1
  <2>4. Len(b.lines) = 2 => ~IsBlank(b.lines[2])
    <3> HAVE Len(b.lines) = 2
    <3>1. Len(rest) = 1 /\ 2 \in 2..(Len(rest) + 1)
      <4>1. \A n \in Nat : n + 1 = 2 => n = 1 /\ 2 \in 2..(n + 1)
        OBVIOUS
      <4> QED BY <2>1, <4>1
    <3>2. b.lines[2] = rest[2 - 1]
      BY <1>5, <1>6, <3>1
    <3> QED BY <1>4, <3>1, <3>2
  <2>5. Len(b.lines) > 0
    BY <2>1
  <2> QED BY <1>6, <2>2, <2>3, <2>4, <2>5 DEF Parsed
<1>8. Pushes(<<b>>)
  <2>1. Push(<<b>>, end + 2) /\ end + 2 \in Nat /\ end + 2 > next
    BY <1>1, <1>2 DEF b, rest
  <2> QED BY <1>6, <1>7, <2>1, OnePush
<1> QED BY <1>8

LEMMA QuoteStep ==
  ASSUME source \in Seq(AnyLine), next \in Nat \ {0}, Quote
  PROVE  \E new : Pushes(new)
<1>1. PICK end, lead :
        /\ Parsing /\ IsQuote(Here)
        /\ Run(Quotes, next, Len(source), end)
        /\ Run(Bares, next, Len(source), lead)
        /\ Push(<<Block("quote", SubSeq(source, lead + 1, end))>>, end + 1)
  BY QuoteIs
<1> DEFINE text == SubSeq(source, lead + 1, end)
           b == Block("quote", text)
<1>2. /\ end \in (next - 1)..Len(source) /\ end \in Nat
      /\ lead \in (next - 1)..Len(source) /\ lead \in Nat
      /\ next \in 1..Len(source)
  BY <1>1, HereIs DEF Run
<1>3. lead <= end /\ next <= end
  <2>1. end # next - 1
    BY <1>1, <1>2 DEF Run, Quotes, Here
  <2>2. ASSUME lead > end PROVE FALSE
    <3>1. end + 1 \in next..lead /\ end # Len(source) /\ end + 1 \in 1..Len(source)
      BY <1>2, <2>2
    <3>2. end + 1 \in Bares /\ end + 1 \notin Quotes
      BY <1>1, <3>1 DEF Run
    <3> QED BY <3>2 DEF Bares, Quotes, IsQuote
  <2> QED BY <1>2, <2>1, <2>2
<1>4. /\ text \in Seq(AnyLine) /\ Len(text) = end - lead
      /\ \A i \in 1..Len(text) : text[i] = source[lead + i] /\ IsQuote(text[i])
  <2>1. /\ text \in Seq(AnyLine) /\ Len(text) = end + 1 - (lead + 1)
        /\ \A i \in 1..(end + 1 - (lead + 1)) : text[i] = source[lead + 1 - 1 + i]
    <3>1. lead + 1 \in Nat /\ lead + 1 # 0 /\ lead + 1 <= end + 1 /\ end <= Len(source)
      BY <1>2, <1>3
    <3> QED BY <1>2, <3>1, StretchIs
  <2> HIDE DEF text
  <2>2. ASSUME NEW i \in 1..Len(text) PROVE text[i] = source[lead + i] /\ IsQuote(text[i])
    <3>1. text[i] = source[lead + i] /\ lead + i \in next..end
      BY <1>2, <1>3, <2>1
    <3>2. lead + i \in Quotes
      BY <1>1, <3>1 DEF Run
    <3> QED BY <3>1, <3>2 DEF Quotes
  <2>3. Len(text) = end - lead
    BY <1>2, <2>1
  <2> QED BY <2>1, <2>2, <2>3
<1>5. Len(text) > 0 => text[1].kind # "bare"
  <2> HAVE Len(text) > 0
  <2>1. lead + 1 \in 1..Len(source) /\ lead # Len(source) /\ text[1] = source[lead + 1]
    <3> HIDE DEF text
    <3> QED BY <1>2, <1>4
  <2>2. lead + 1 \notin Bares
    BY <1>1, <2>1 DEF Run
  <2> QED BY <2>1, <2>2 DEF Bares
<1> HIDE DEF text
<1>6. b \in AnyBlock /\ b.kind = "quote" /\ b.lines = text
  BY <1>4, BlockIs DEF BlockKinds
<1> HIDE DEF b
<1>7. Parsed(b)
  BY <1>4, <1>5, <1>6 DEF Parsed
<1>8. Pushes(<<b>>)
  <2>1. Push(<<b>>, end + 1) /\ end + 1 \in Nat /\ end + 1 > next
    BY <1>1, <1>2, <1>3 DEF b, text
  <2> QED BY <1>6, <1>7, <2>1, OnePush
<1> QED BY <1>8

LEMMA ItemIs ==
  ASSUME NEW l \in AnyLine, IsItem(l)
  PROVE  /\ ItemOf(l) \in AnyLine /\ IsItem(ItemOf(l)) /\ ~IsRule(ItemOf(l))
         /\ Ordered(ItemOf(l)) = Ordered(l)
         /\ ~IsRule(l) => ItemOf(l) = l
BY DEF ItemOf, IsItem, IsRule, Ordered, Line, AnyLine, Own

LEMMA ListStep ==
  ASSUME source \in Seq(AnyLine), next \in Nat \ {0}, List
  PROVE  \E new : Pushes(new)
<1>1. PICK end :
        /\ Parsing /\ IsItem(Here) /\ ~IsRule(Here)
        /\ Run(Items(Ordered(Here)), next, Len(source), end)
        /\ Push(<<Block("list", [k \in 1..(end + 1 - next) |-> ItemOf(source[next + k - 1])])>>, end + 1)
  BY ListIs
<1> DEFINE items == [k \in 1..(end + 1 - next) |-> ItemOf(source[next + k - 1])]
           b == Block("list", items)
<1>2. /\ end \in (next - 1)..Len(source) /\ end \in Nat /\ next \in 1..Len(source)
      /\ \A k \in 1..Len(source) : source[k] \in AnyLine
  BY <1>1, HereIs, ElementOfSeq DEF Run
<1>3. next <= end
  BY <1>1, <1>2 DEF Run, Items, Here
<1>4. ASSUME NEW k \in 1..(end + 1 - next)
      PROVE  /\ items[k] \in AnyLine /\ IsItem(items[k]) /\ ~IsRule(items[k])
             /\ Ordered(items[k]) = Ordered(Here)
  <2>1. next + k - 1 \in next..end /\ next + k - 1 \in 1..Len(source)
    BY <1>2
  <2>2. next + k - 1 \in Items(Ordered(Here))
    BY <1>1, <2>1 DEF Run
  <2>3. items[k] = ItemOf(source[next + k - 1])
    OBVIOUS
  <2> HIDE DEF items
  <2> QED BY <1>2, <2>1, <2>2, <2>3, ItemIs DEF Items
<1>5. items \in Seq(AnyLine) /\ Len(items) = end + 1 - next /\ Len(items) > 0
  <2>1. end + 1 - next \in Nat /\ end + 1 - next > 0
    BY <1>2, <1>3
  <2>2. \A k \in 1..(end + 1 - next) : ItemOf(source[next + k - 1]) \in AnyLine
    BY <1>4
  <2> QED BY <2>1, <2>2
<1> HIDE DEF items
<1>6. b \in AnyBlock /\ b.kind = "list" /\ b.lines = items
  BY <1>5, BlockIs DEF BlockKinds
<1> HIDE DEF b
<1>7. Parsed(b)
  BY <1>4, <1>5, <1>6 DEF Parsed
<1>8. Pushes(<<b>>)
  <2>1. Push(<<b>>, end + 1) /\ end + 1 \in Nat /\ end + 1 > next
    BY <1>1, <1>2, <1>3 DEF b, items
  <2> QED BY <1>6, <1>7, <2>1, OnePush
<1> QED BY <1>8

LEMMA ImageIs ==
  ASSUME NEW w \in Nat
  PROVE  /\ ImageBlock(w) \in AnyBlock /\ Parsed(ImageBlock(w))
         /\ ImageBlock(w).kind = "image" /\ ImageBlock(w).lines = <<Line("image", w)>>
<1>1. Line("image", w) \in AnyLine /\ Line("image", w).kind = "image"
  BY DEF Line, AnyLine, Own
<1> DEFINE l == Line("image", w)
<1> HIDE DEF l
<1>2. Block("image", <<l>>) \in AnyBlock /\ Block("image", <<l>>).kind = "image"
      /\ Block("image", <<l>>).lines = <<l>>
  BY <1>1, SingleIs, BlockIs DEF l, BlockKinds
<1>3. Parsed(Block("image", <<l>>))
  BY <1>1, <1>2, SingleIs DEF Parsed, l
<1> QED BY <1>2, <1>3 DEF ImageBlock, l

LEMMA ImagesStep ==
  ASSUME source \in Seq(AnyLine), next \in Nat \ {0}, Images
  PROVE  \E new : Pushes(new)
<1>1. Here \in AnyLine /\ Here.word \in Nat /\ ImagesOf(Here) # <<>>
  BY HereIs DEF Images, AnyLine
<1> DEFINE words == ImagesOf(Here)
           new == [k \in DOMAIN words |-> ImageBlock(words[k])]
<1>2. words \in Seq(Nat)
  <2>1. <<Here.word>> \in Seq(Nat) /\ <<Here.word, Here.word + 1>> \in Seq(Nat) /\ <<>> \in Seq(Nat)
    BY <1>1
  <2> QED BY <2>1 DEF ImagesOf
<1> HIDE DEF words
<1>3. \A k \in 1..Len(words) : ImageBlock(words[k]) \in AnyBlock /\ Parsed(ImageBlock(words[k]))
  BY <1>2, ElementOfSeq, ImageIs
<1>4. /\ new \in Seq(AnyBlock) /\ Len(new) = Len(words)
      /\ \A k \in 1..Len(new) : new[k] = ImageBlock(words[k])
  <2>1. Len(words) \in Nat /\ DOMAIN words = 1..Len(words)
    BY <1>2
  <2>2. new \in [1..Len(words) -> AnyBlock] /\ \A k \in 1..Len(words) : new[k] = ImageBlock(words[k])
    BY <1>3, <2>1
  <2> HIDE DEF new
  <2> QED BY <2>1, <2>2, FunctionIsSeq
<1>5. Push(new, next + 1)
  BY DEF Images, words
<1> HIDE DEF new
<1>6. Pushes(new)
  BY <1>3, <1>4, <1>5 DEF Push, Pushes
<1> QED BY <1>6

LEMMA TagIs ==
  ASSUME NEW l \in AnyLine, IsTag(l)
  PROVE  TagBlock(l) \in AnyBlock /\ Parsed(TagBlock(l)) /\ TagBlock(l).kind = "image"
<1> DEFINE m == Line(IF l.kind = "tag" THEN "image" ELSE "bracketed", l.word)
<1>1. m \in AnyLine /\ m.kind \in {"image", "bracketed"}
  BY DEF Line, AnyLine, Own
<1> HIDE DEF m
<1>2. Block("image", <<m>>) \in AnyBlock /\ Block("image", <<m>>).kind = "image"
      /\ Block("image", <<m>>).lines = <<m>>
  BY <1>1, SingleIs, BlockIs DEF BlockKinds
<1>3. Parsed(Block("image", <<m>>))
  BY <1>1, <1>2, SingleIs DEF Parsed
<1> QED BY <1>2, <1>3 DEF TagBlock, m

LEMMA FrameIs ==
  ASSUME NEW l \in AnyLine, IsFrame(l)
  PROVE  FrameBlock(l) \in AnyBlock /\ Parsed(FrameBlock(l)) /\ FrameBlock(l).kind = "video"
<1> DEFINE m == IF l.kind = "foreign" THEN Line("foreign", Garbled(l.word)) ELSE l
<1>1. m \in AnyLine /\ m.kind \in {"frame", "foreign"}
  <2>1. Garbled(l.word) \in Nat
    BY LinesAssumption DEF Garbled, MaxWord, AnyLine
  <2> QED BY <2>1 DEF Line, AnyLine, Own, IsFrame
<1> HIDE DEF m
<1>2. Block("video", <<m>>) \in AnyBlock /\ Block("video", <<m>>).kind = "video"
      /\ Block("video", <<m>>).lines = <<m>>
  BY <1>1, SingleIs, BlockIs DEF BlockKinds
<1>3. Parsed(Block("video", <<m>>))
  BY <1>1, <1>2, SingleIs DEF Parsed
<1> QED BY <1>2, <1>3 DEF FrameBlock, m

\* The lines that a paragraph takes.
LEMMA ParagraphTextIs ==
  ASSUME source \in Seq(AnyLine), next \in Nat \ {0}, Paragraph
  PROVE  \E end \in Nat :
         /\ Parsing /\ ImagesOf(Here) = <<>> /\ ~IsVideo(Here) /\ ~Stops(Here)
         /\ Run(Texts, next, Len(source), end) /\ next <= end /\ end <= Len(source)
         /\ SubSeq(source, next, end) \in Seq(AnyLine) /\ Len(SubSeq(source, next, end)) = end + 1 - next
         /\ \A i \in 1..(end + 1 - next) :
              SubSeq(source, next, end)[i] = source[next - 1 + i] /\ ~Stops(source[next - 1 + i])
         /\ Push(ParagraphBlocks(SubSeq(source, next, end)), end + 1)
<1>1. PICK end :
        /\ Parsing /\ ImagesOf(Here) = <<>> /\ ~IsVideo(Here) /\ ~Stops(Here)
        /\ Run(Texts, next, Len(source), end)
        /\ Push(ParagraphBlocks(SubSeq(source, next, end)), end + 1)
  BY ParagraphIs
<1>2. /\ end \in (next - 1)..Len(source) /\ end \in Nat /\ end <= Len(source) /\ next \in 1..Len(source)
  BY <1>1, HereIs DEF Run
<1>3. next <= end
  BY <1>1, <1>2 DEF Run, Texts, Here
<1>4. /\ SubSeq(source, next, end) \in Seq(AnyLine) /\ Len(SubSeq(source, next, end)) = end + 1 - next
      /\ \A i \in 1..(end + 1 - next) : SubSeq(source, next, end)[i] = source[next - 1 + i]
  <2>1. next \in Nat /\ next # 0 /\ next <= end + 1
    BY <1>2, <1>3
  <2> QED BY <1>2, <2>1, StretchIs
<1>5. ASSUME NEW i \in 1..(end + 1 - next) PROVE ~Stops(source[next - 1 + i])
  <2>1. next - 1 + i \in next..end
    BY <1>2
  <2>2. next - 1 + i \in Texts
    BY <1>1, <2>1 DEF Run
  <2> QED BY <2>2 DEF Texts
<1> QED BY <1>1, <1>2, <1>3, <1>4, <1>5

LEMMA ParagraphStep ==
  ASSUME source \in Seq(AnyLine), next \in Nat \ {0}, Paragraph
  PROVE  \E new : Pushes(new)
<1>1. PICK end \in Nat :
        /\ Parsing /\ ImagesOf(Here) = <<>> /\ ~IsVideo(Here) /\ ~Stops(Here)
        /\ Run(Texts, next, Len(source), end) /\ next <= end /\ end <= Len(source)
        /\ SubSeq(source, next, end) \in Seq(AnyLine) /\ Len(SubSeq(source, next, end)) = end + 1 - next
        /\ \A i \in 1..(end + 1 - next) :
             SubSeq(source, next, end)[i] = source[next - 1 + i] /\ ~Stops(source[next - 1 + i])
        /\ Push(ParagraphBlocks(SubSeq(source, next, end)), end + 1)
  BY ParagraphTextIs
<1> DEFINE text == SubSeq(source, next, end)
<1>2. /\ text \in Seq(AnyLine) /\ Len(text) = end + 1 - next /\ Len(text) > 0
      /\ \A i \in 1..Len(text) : text[i] \in AnyLine /\ ~Stops(text[i])
      /\ text[1] = Here
  <2>1. Len(text) > 0 /\ 1 \in 1..(end + 1 - next) /\ next - 1 + 1 = next
    BY <1>1
  <2>2. text[1] = Here
    BY <1>1, <2>1 DEF Here
  <2>3. \A i \in 1..Len(text) : text[i] \in AnyLine
    BY <1>1, ElementOfSeq
  <2> QED BY <1>1, <2>1, <2>2, <2>3
<1>3. Push(ParagraphBlocks(text), end + 1) /\ end + 1 \in Nat /\ end + 1 > next
  BY <1>1
<1> HIDE DEF text
<1>4. CASE \A k \in DOMAIN text : IsTag(text[k])
  <2> DEFINE new == [k \in DOMAIN text |-> TagBlock(text[k])]
  <2>2. Len(text) \in Nat /\ DOMAIN text = 1..Len(text)
    BY <1>2, SeqIs
  <2>1. ParagraphBlocks(text) = new
    <3>1. 1 \in DOMAIN text
      BY <1>2, <2>2
    <3>2. ~IsFrame(text[1])
      BY <1>4, <3>1 DEF IsTag, IsFrame
    <3> QED BY <1>4, <3>2 DEF ParagraphBlocks
  <2>3. \A k \in 1..Len(text) : TagBlock(text[k]) \in AnyBlock /\ Parsed(TagBlock(text[k]))
    <3> TAKE k \in 1..Len(text)
    <3>1. text[k] \in AnyLine /\ IsTag(text[k])
      BY <1>2, <1>4, <2>2
    <3> QED BY <3>1, TagIs
  <2>4. /\ new \in Seq(AnyBlock) /\ Len(new) = Len(text)
        /\ \A k \in 1..Len(new) : new[k] = TagBlock(text[k])
    <3>1. new \in [1..Len(text) -> AnyBlock] /\ \A k \in 1..Len(text) : new[k] = TagBlock(text[k])
      BY <2>2, <2>3
    <3> HIDE DEF new
    <3> QED BY <2>2, <3>1, FunctionIsSeq
  <2> HIDE DEF new
  <2>5. Pushes(new)
    BY <1>3, <2>1, <2>3, <2>4 DEF Push, Pushes
  <2> QED BY <2>5
<1>5. CASE (\E k \in DOMAIN text : ~IsTag(text[k])) /\ Len(text) = 1 /\ IsFrame(text[1])
  <2>1. ParagraphBlocks(text) = <<FrameBlock(text[1])>>
    BY <1>5 DEF ParagraphBlocks
  <2>2. FrameBlock(text[1]) \in AnyBlock /\ Parsed(FrameBlock(text[1]))
    BY <1>2, <1>5, FrameIs
  <2>3. Pushes(<<FrameBlock(text[1])>>)
    BY <1>3, <2>1, <2>2, OnePush
  <2> QED BY <2>3
<1>6. CASE (\E k \in DOMAIN text : ~IsTag(text[k])) /\ ~(Len(text) = 1 /\ IsFrame(text[1]))
  <2> DEFINE b == Block("paragraph", text)
  <2>1. ParagraphBlocks(text) = <<b>>
    BY <1>6 DEF ParagraphBlocks
  <2>2. b \in AnyBlock /\ b.kind = "paragraph" /\ b.lines = text
    BY <1>2, BlockIs DEF BlockKinds
  <2> HIDE DEF b
  <2>3. Parsed(b)
    <3>1. \E i \in 1..Len(text) : ~IsTag(text[i])
      BY <1>2, <1>6
    <3> QED BY <1>1, <1>2, <1>6, <2>2, <3>1 DEF Parsed
  <2>4. Pushes(<<b>>)
    BY <1>3, <2>1, <2>2, <2>3, OnePush
  <2> QED BY <2>4
<1> QED BY <1>4, <1>5, <1>6

ParseStep ==
  BlankLine \/ VideoLine \/ Code \/ Heading \/ Quote \/ Divider \/ Images \/ List \/ Paragraph

LEMMA StepPushes ==
  ASSUME source \in Seq(AnyLine), next \in Nat \ {0}, ParseStep
  PROVE  \E new : Pushes(new)
BY LineSteps, CodeStep, QuoteStep, ImagesStep, ListStep, ParagraphStep DEF ParseStep

-----------------------------------------------------------------------------
(***************************************************************************)
(* What the editor wrote is read again.                                    *)
(***************************************************************************)

\* The rule that reads a line.
LEMMA Dispatch ==
  ASSUME ParseStep
  PROVE  /\ IsBlank(Here) => BlankLine
         /\ IsVideo(Here) => VideoLine
         /\ IsFence(Here) => Code
         /\ IsHeading(Here) => Heading
         /\ IsQuote(Here) => Quote
         /\ IsRule(Here) => Divider
         /\ ImagesOf(Here) # <<>> => Images
         /\ IsItem(Here) /\ ~IsRule(Here) => List
         /\ ~Stops(Here) /\ ~IsVideo(Here) /\ ImagesOf(Here) = <<>> => Paragraph
<1> DEFINE l == Here
<1>1. /\ BlankLine => IsBlank(l)
      /\ VideoLine => IsVideo(l)
      /\ Code => IsFence(l)
      /\ Heading => IsHeading(l)
      /\ Quote => IsQuote(l)
      /\ Divider => IsRule(l)
      /\ Images => ImagesOf(l) # <<>>
      /\ List => IsItem(l) /\ ~IsRule(l)
      /\ Paragraph => ~Stops(l) /\ ~IsVideo(l) /\ ImagesOf(l) = <<>>
  BY DEF BlankLine, VideoLine, Code, Heading, Quote, Divider, Images, List, Paragraph, Stops
<1>2. ImagesOf(l) # <<>> => l.kind \in {"image", "images"}
  BY DEF ImagesOf
<1> HIDE DEF l
<1>3. /\ IsBlank(l) => BlankLine
      /\ IsVideo(l) => VideoLine
      /\ IsFence(l) => Code
      /\ IsHeading(l) => Heading
      /\ IsQuote(l) => Quote
      /\ IsRule(l) => Divider
      /\ ImagesOf(l) # <<>> => Images
      /\ IsItem(l) /\ ~IsRule(l) => List
  BY <1>1, <1>2 DEF ParseStep, Stops, IsBlank, IsVideo, IsFence, IsHeading, IsQuote, IsRule, IsItem
<1>4. ~Stops(l) /\ ~IsVideo(l) /\ ImagesOf(l) = <<>> => Paragraph
  BY <1>1 DEF ParseStep, Stops
<1> QED BY <1>3, <1>4 DEF l

\* The lines w are in the source from p on, and a blank line or the end follows.
Stands(w, p) ==
  /\ p + Len(w) - 1 <= Len(source)
  /\ \A i \in 1..Len(w) : source[p - 1 + i] = w[i]
  /\ p + Len(w) - 1 < Len(source) => IsBlank(source[p + Len(w)])

\* The end of a run that is all there is.
LEMMA RunEnds ==
  ASSUME NEW Y, NEW n \in Nat, NEW from \in 1..(n + 1), NEW end, Run(Y, from, n, end), NEW e \in (from - 1)..n,
         \A k \in from..e : k \in Y,
         e < n => e + 1 \notin Y
  PROVE  end = e
<1>1. Run(Y, from, n, e)
  BY DEF Run
<1> QED BY <1>1, RunIs

\* The lines that stand at p, read back.
LEMMA SpanAgain ==
  ASSUME source \in Seq(AnyLine), NEW w \in Seq(AnyLine), NEW p \in Nat \ {0}, Stands(w, p)
  PROVE  SubSeq(source, p, p + Len(w) - 1) = w
<1> DEFINE q == p + Len(w) - 1
           s == SubSeq(source, p, q)
<1>1. p \in Nat /\ p # 0 /\ q \in Nat /\ p <= q + 1 /\ q <= Len(source) /\ q + 1 - p = Len(w) /\ Len(w) \in Nat
  BY SeqIs DEF Stands
<1> HIDE DEF q
<1>2. s \in Seq(AnyLine) /\ Len(s) = Len(w) /\ \A i \in 1..Len(w) : s[i] = source[p - 1 + i]
  BY <1>1, StretchIs
<1>3. \A i \in 1..Len(w) : s[i] = w[i]
  BY <1>2 DEF Stands
<1> HIDE DEF s
<1> QED BY <1>2, <1>3, SeqEqual DEF s, q

\* Each kind of block that takes several lines takes those that were written.
LEMMA ParagraphAgain ==
  ASSUME source \in Seq(AnyLine), next \in Nat \ {0}, NEW w \in Seq(AnyLine), Stands(w, next), Paragraph,
         \A i \in 1..Len(w) : ~Stops(w[i])
  PROVE  Push(ParagraphBlocks(w), next + Len(w))
<1>1. PICK end :
        /\ Parsing /\ ImagesOf(Here) = <<>> /\ ~IsVideo(Here) /\ ~Stops(Here)
        /\ Run(Texts, next, Len(source), end)
        /\ Push(ParagraphBlocks(SubSeq(source, next, end)), end + 1)
  BY ParagraphIs
<1>2. next \in 1..Len(source) /\ Len(source) \in Nat /\ Len(w) \in Nat
  BY <1>1, HereIs, SeqIs
<1> DEFINE e == next + Len(w) - 1
<1>3. e \in (next - 1)..Len(source) /\ next \in 1..(Len(source) + 1)
  BY <1>2 DEF Stands
<1>4. ASSUME NEW k \in next..e PROVE k \in Texts
  <2>1. k + 1 - next \in 1..Len(w) /\ next - 1 + (k + 1 - next) = k /\ k \in 1..Len(source)
    BY <1>2, <1>3
  <2>2. source[k] = w[k + 1 - next]
    BY <2>1 DEF Stands
  <2> QED BY <2>1, <2>2 DEF Texts
<1>5. e < Len(source) => e + 1 \notin Texts
  <2>1. e + 1 = next + Len(w)
    BY <1>2
  <2> QED BY <2>1 DEF Stands, Texts, Stops
<1>6. end = e
  <2> HIDE DEF e
  <2> QED BY <1>1, <1>2, <1>3, <1>4, <1>5, RunEnds
<1>7. SubSeq(source, next, e) = w
  BY SpanAgain
<1>8. e + 1 = next + Len(w)
  BY <1>2
<1> QED BY <1>1, <1>6, <1>7, <1>8

LEMMA ListAgain ==
  ASSUME source \in Seq(AnyLine), next \in Nat \ {0}, NEW w \in Seq(AnyLine), Stands(w, next), List, Len(w) > 0,
         \A i \in 1..Len(w) : IsItem(w[i]) /\ ~IsRule(w[i]) /\ Ordered(w[i]) = Ordered(w[1])
  PROVE  Push(<<Block("list", w)>>, next + Len(w))
<1>1. PICK end :
        /\ Parsing /\ IsItem(Here) /\ ~IsRule(Here)
        /\ Run(Items(Ordered(Here)), next, Len(source), end)
        /\ Push(<<Block("list", [k \in 1..(end + 1 - next) |-> ItemOf(source[next + k - 1])])>>, end + 1)
  BY ListIs
<1>2. next \in 1..Len(source) /\ Len(source) \in Nat /\ Len(w) \in Nat
  BY <1>1, HereIs, SeqIs
<1> DEFINE e == next + Len(w) - 1
           y == Items(Ordered(Here))
<1>3. e \in (next - 1)..Len(source) /\ next \in 1..(Len(source) + 1)
  BY <1>2 DEF Stands
<1>4. Here = w[1]
  <2>1. 1 \in 1..Len(w) /\ next - 1 + 1 = next
    BY <1>2
  <2>2. source[next - 1 + 1] = w[1]
    BY <2>1 DEF Stands
  <2> QED BY <2>1, <2>2 DEF Here
<1>5. ASSUME NEW k \in next..e PROVE k \in y
  <2>1. k + 1 - next \in 1..Len(w) /\ next - 1 + (k + 1 - next) = k /\ k \in 1..Len(source)
    BY <1>2, <1>3
  <2>2. source[k] = w[k + 1 - next]
    BY <2>1 DEF Stands
  <2> QED BY <1>4, <2>1, <2>2 DEF Items
<1>6. e < Len(source) => e + 1 \notin y
  <2>1. e + 1 = next + Len(w)
    BY <1>2
  <2> QED BY <2>1 DEF Stands, Items, IsBlank, IsItem
<1>7. end = e
  <2> HIDE DEF e, y
  <2>1. Run(y, next, Len(source), end)
    BY <1>1 DEF y
  <2>2. \A k \in next..e : k \in y
    BY <1>5
  <2> DEFINE n == Len(source)
  <2>3. /\ n \in Nat /\ next \in 1..(n + 1) /\ e \in (next - 1)..n /\ Run(y, next, n, end)
        /\ e < n => e + 1 \notin y
    BY <1>2, <1>3, <1>6, <2>1
  <2> HIDE DEF n
  <2> QED BY <2>2, <2>3, RunEnds
<1> DEFINE items == [k \in 1..(end + 1 - next) |-> ItemOf(source[next + k - 1])]
<1>8. items = w
  <2>1. end + 1 - next = Len(w)
    BY <1>2, <1>7
  <2>2. ASSUME NEW k \in 1..Len(w) PROVE ItemOf(source[next + k - 1]) = w[k]
    <3>1. next + k - 1 = next - 1 + k
      BY <1>2
    <3>2. source[next + k - 1] = w[k]
      BY <3>1 DEF Stands
    <3>3. w[k] \in AnyLine
      BY ElementOfSeq
    <3> QED BY <3>2, <3>3, ItemIs
  <2>3. items = [k \in 1..Len(w) |-> w[k]]
    BY <2>1, <2>2
  <2>4. w = [k \in 1..Len(w) |-> w[k]]
    <3>1. w \in [1..Len(w) -> AnyLine]
      BY SeqIs
    <3> QED BY <3>1
  <2> QED BY <2>3, <2>4
<1>9. end + 1 = next + Len(w)
  BY <1>2, <1>7
<1> HIDE DEF items
<1> QED BY <1>1, <1>8, <1>9 DEF items

LEMMA CodeAgain ==
  ASSUME source \in Seq(AnyLine), next \in Nat \ {0}, NEW x \in Seq(AnyLine), Code,
         next + Len(x) + 1 <= Len(source),
         \A i \in 1..Len(x) : source[next + i] = x[i] /\ ~IsFence(x[i]),
         IsFence(source[next + Len(x) + 1])
  PROVE  Push(<<Block("code", <<Here>> \o IF IsEmptyText(x) THEN <<>> ELSE x)>>, next + Len(x) + 2)
<1>1. PICK end : LET code == SubSeq(source, next + 1, end) IN
        /\ Parsing /\ IsFence(Here)
        /\ Run(NoFences, next + 1, Len(source), end)
        /\ Push(<<Block("code", <<Here>> \o IF IsEmptyText(code) THEN <<>> ELSE code)>>, end + 2)
  BY CodeIs
<1> DEFINE e == next + Len(x)
           n == Len(source)
<1>2. Len(x) \in Nat /\ n \in Nat /\ next + 1 \in 1..(n + 1) /\ e \in ((next + 1) - 1)..n /\ e \in Nat
  BY SeqIs
<1>3. ASSUME NEW k \in (next + 1)..e PROVE k \in NoFences
  <2>1. k - next \in 1..Len(x) /\ next + (k - next) = k /\ k \in 1..Len(source)
    BY <1>2
  <2> QED BY <2>1 DEF NoFences
<1>4. e + 1 \notin NoFences
  BY DEF NoFences
<1>5. end = e
  <2>1. Run(NoFences, next + 1, n, end)
    BY <1>1
  <2>2. \A k \in (next + 1)..e : k \in NoFences
    BY <1>3
  <2> HIDE DEF e, n
  <2> QED BY <1>2, <1>4, <2>1, <2>2, RunEnds
<1>6. SubSeq(source, next + 1, e) = x
  <2> DEFINE p == next + 1
             s == SubSeq(source, p, e)
  <2>1. p \in Nat /\ p # 0 /\ e \in Nat /\ p <= e + 1 /\ e <= Len(source) /\ e + 1 - p = Len(x) /\ p - 1 = next
    BY <1>2
  <2> HIDE DEF e, p
  <2>2. s \in Seq(AnyLine) /\ Len(s) = Len(x) /\ \A i \in 1..Len(x) : s[i] = source[next + i]
    BY <2>1, StretchIs
  <2> HIDE DEF s
  <2>3. \A i \in 1..Len(x) : s[i] = x[i]
    BY <2>2
  <2>4. s = x
    BY <2>2, <2>3, SeqEqual
  <2> QED BY <2>4 DEF s, p
<1>7. end + 2 = next + Len(x) + 2
  BY <1>2, <1>5
<1> HIDE DEF e
<1>8. Push(<<Block("code", <<Here>> \o IF IsEmptyText(x) THEN <<>> ELSE x)>>, end + 2)
  BY <1>1, <1>5, <1>6
<1> QED BY <1>7, <1>8

LEMMA QuoteAgain ==
  ASSUME source \in Seq(AnyLine), next \in Nat \ {0}, NEW w \in Seq(AnyLine), Stands(w, next), Quote, Len(w) > 0,
         \A i \in 1..Len(w) : IsQuote(w[i])
  PROVE  /\ w[1].kind # "bare" => Push(<<Block("quote", w)>>, next + Len(w))
         /\ Len(w) = 1 /\ w[1].kind = "bare" => Push(<<Block("quote", <<>>)>>, next + Len(w))
<1>1. PICK end, lead :
        /\ Parsing /\ IsQuote(Here)
        /\ Run(Quotes, next, Len(source), end)
        /\ Run(Bares, next, Len(source), lead)
        /\ Push(<<Block("quote", SubSeq(source, lead + 1, end))>>, end + 1)
  BY QuoteIs
<1> DEFINE n == Len(source)
           e == next + Len(w) - 1
<1>2. /\ next \in 1..n /\ n \in Nat /\ Len(w) \in Nat /\ e \in (next - 1)..n /\ e \in Nat
      /\ next \in 1..(n + 1) /\ e + 1 = next + Len(w)
  <2>1. next \in 1..n /\ n \in Nat /\ Len(w) \in Nat
    BY <1>1, HereIs, SeqIs
  <2> QED BY <2>1 DEF Stands
<1>3. Here = w[1]
  <2>1. 1 \in 1..Len(w) /\ next - 1 + 1 = next
    BY <1>2
  <2>2. source[next - 1 + 1] = w[1]
    BY <2>1 DEF Stands
  <2> QED BY <2>1, <2>2 DEF Here
<1>4. ASSUME NEW k \in next..e PROVE k \in Quotes
  <2>1. k + 1 - next \in 1..Len(w) /\ next - 1 + (k + 1 - next) = k /\ k \in 1..n
    BY <1>2
  <2>2. source[k] = w[k + 1 - next]
    BY <2>1 DEF Stands
  <2> QED BY <2>1, <2>2 DEF Quotes
<1>5. e < n => e + 1 \notin Quotes /\ e + 1 \notin Bares
  BY <1>2 DEF Stands, Quotes, Bares, IsBlank, IsQuote
<1>6. end = e
  <2>1. Run(Quotes, next, n, end) /\ \A k \in next..e : k \in Quotes
    BY <1>1, <1>4
  <2> HIDE DEF e, n
  <2> QED BY <1>2, <1>5, <2>1, RunEnds
<1>7. Push(<<Block("quote", SubSeq(source, lead + 1, e))>>, next + Len(w))
  BY <1>1, <1>2, <1>6
<1>8. ASSUME w[1].kind # "bare" PROVE Push(<<Block("quote", w)>>, next + Len(w))
  <2>1. lead = next - 1
    <3> DEFINE d == next - 1
    <3>1. d \in (next - 1)..n /\ next \in 1..(n + 1) /\ n \in Nat
      BY <1>2
    <3>2. Run(Bares, next, n, lead) /\ \A k \in next..d : k \in Bares
      BY <1>1
    <3>3. d + 1 \notin Bares
      BY <1>3, <1>8 DEF Bares, Here
    <3> HIDE DEF d, n
    <3>4. lead = d
      BY <3>1, <3>2, <3>3, RunEnds
    <3> QED BY <3>4 DEF d
  <2>2. lead + 1 = next
    BY <2>1
  <2>3. SubSeq(source, next, e) = w
    BY SpanAgain
  <2> HIDE DEF e
  <2> QED BY <1>7, <2>2, <2>3
<1>9. ASSUME Len(w) = 1, w[1].kind = "bare" PROVE Push(<<Block("quote", <<>>)>>, next + Len(w))
  <2>1. lead = e
    <3>1. e = next
      BY <1>9
    <3>2. Run(Bares, next, n, lead) /\ \A k \in next..e : k \in Bares
      BY <1>1, <1>2, <1>3, <1>9, <3>1 DEF Bares, Here
    <3> HIDE DEF e, n
    <3> QED BY <1>2, <1>5, <3>2, RunEnds
  <2>2. SubSeq(source, e + 1, e) = <<>>
    <3>1. e + 1 \in Int /\ e \in Int /\ e < e + 1
      BY <1>2
    <3> HIDE DEF e
    <3> QED BY <3>1, SubSeqEmpty
  <2> HIDE DEF e
  <2> QED BY <1>7, <2>1, <2>2
<1> QED BY <1>8, <1>9

LEMMA BlockEqual ==
  ASSUME NEW b \in AnyBlock
  PROVE  b = Block(b.kind, b.lines) /\ b.lines \in Seq(AnyLine) /\ b.kind \in BlockKinds
BY DEF AnyBlock, Block

LEMMA OneLine ==
  ASSUME NEW w \in Seq(AnyLine), Len(w) = 1
  PROVE  w = <<w[1]>> /\ w[1] \in AnyLine
OBVIOUS

\* The parser takes the n lines of b for one block, and if they keep it, for b.
Rereads(b, n) == \E c \in AnyBlock : Push(<<c>>, next + n) /\ (~Fragile(b) => c = b)

\* The line at next is the first of those that stand there.
LEMMA HereStands ==
  ASSUME next \in Nat \ {0}, NEW w \in Seq(AnyLine), Stands(w, next), Len(w) > 0
  PROVE  Here = w[1]
<1>1. 1 \in 1..Len(w) /\ next - 1 + 1 = next
  BY SeqIs
<1>2. source[next - 1 + 1] = w[1]
  BY <1>1 DEF Stands
<1> QED BY <1>1, <1>2 DEF Here

LEMMA HereSingle ==
  ASSUME next \in Nat \ {0}, NEW l \in AnyLine, Stands(<<l>>, next)
  PROVE  Here = l
<1> DEFINE w == <<l>>
<1>1. w \in Seq(AnyLine) /\ Len(w) = 1 /\ w[1] = l /\ Stands(w, next)
  BY SingleIs
<1> HIDE DEF w
<1>2. Len(w) > 0
  BY <1>1
<1>3. Here = w[1]
  BY <1>1, <1>2, HereStands
<1> QED BY <1>1, <1>3

\* Each kind of block is read again; what the editor writes of it stands at next.
LEMMA VideoAgain ==
  ASSUME source \in Seq(AnyLine), next \in Nat \ {0}, ParseStep, NEW b \in AnyBlock, Parsed(b), b.kind = "video",
         Stands(b.lines, next)
  PROVE  Rereads(b, 1)
<1> DEFINE l == b.lines[1]
<1>1. b = Block("video", <<l>>) /\ l \in AnyLine /\ b.lines = <<l>> /\ Len(b.lines) = 1 /\ b.lines \in Seq(AnyLine)
  BY BlockEqual, OneLine DEF Parsed
<1>2. l.kind \in {"url", "frame", "foreign"} /\ Here = l
  BY <1>1, HereStands DEF Parsed
<1>3. CASE l.kind = "url"
  <2>1. VideoLine
    BY <1>2, <1>3, Dispatch DEF IsVideo
  <2>2. Push(<<b>>, next + 1)
    BY <1>1, <1>2, <2>1 DEF VideoLine
  <2> QED BY <2>2 DEF Rereads
<1>4. CASE l.kind \in {"frame", "foreign"}
  <2>1. ~Stops(l) /\ ~IsVideo(l) /\ ImagesOf(l) = <<>> /\ ~IsTag(l) /\ IsFrame(l)
    BY <1>4 DEF Stops, IsBlank, IsHeading, IsQuote, IsFence, IsRule, IsItem, IsVideo, ImagesOf, IsTag, IsFrame
  <2>2. Paragraph
    BY <1>2, <2>1, Dispatch
  <2>3. \A i \in 1..Len(b.lines) : ~Stops(b.lines[i])
    BY <1>1, <2>1
  <2>4. Push(ParagraphBlocks(b.lines), next + Len(b.lines))
    BY <1>1, <2>2, <2>3, ParagraphAgain
  <2>5. ParagraphBlocks(b.lines) = <<FrameBlock(l)>>
    <3>1. 1 \in DOMAIN b.lines /\ b.lines[1] = l
      BY <1>1
    <3>2. ~(\A k \in DOMAIN b.lines : IsTag(b.lines[k]))
      BY <2>1, <3>1
    <3> QED BY <1>1, <2>1, <3>2 DEF ParagraphBlocks
  <2>6. FrameBlock(l) \in AnyBlock
    BY <1>1, <2>1, FrameIs
  <2>7. ~Fragile(b) => FrameBlock(l) = b
    BY <1>1, <1>4 DEF Fragile, FrameBlock, Parsed
  <2>8. Push(<<FrameBlock(l)>>, next + 1)
    BY <1>1, <2>4, <2>5
  <2> QED BY <2>6, <2>7, <2>8 DEF Rereads
<1> QED BY <1>2, <1>3, <1>4

LEMMA HeadingAgain ==
  ASSUME source \in Seq(AnyLine), next \in Nat \ {0}, ParseStep, NEW b \in AnyBlock, Parsed(b), b.kind = "heading",
         Stands(b.lines, next)
  PROVE  Rereads(b, 1)
<1> DEFINE l == b.lines[1]
<1>1. b = Block("heading", <<l>>) /\ l \in AnyLine /\ b.lines = <<l>> /\ Len(b.lines) = 1 /\ b.lines \in Seq(AnyLine)
  BY BlockEqual, OneLine DEF Parsed
<1>2. IsHeading(l) /\ Here = l
  BY <1>1, HereStands DEF Parsed
<1>3. Heading
  BY <1>2, Dispatch
<1>4. Push(<<b>>, next + 1)
  BY <1>1, <1>2, <1>3 DEF Heading
<1> QED BY <1>4 DEF Rereads

LEMMA DividerAgain ==
  ASSUME source \in Seq(AnyLine), next \in Nat \ {0}, ParseStep, NEW b \in AnyBlock, Parsed(b), b.kind = "divider",
         NEW l \in AnyLine, l.kind = "dashes", Stands(<<l>>, next)
  PROVE  Rereads(b, 1)
<1>1. b = Block("divider", <<>>)
  BY BlockEqual DEF Parsed
<1>2. Here = l
  BY HereSingle
<1>3. Divider
  BY <1>2, Dispatch DEF IsRule
<1>4. Push(<<b>>, next + 1)
  BY <1>1, <1>3 DEF Divider
<1> QED BY <1>4 DEF Rereads

LEMMA ImageAgain ==
  ASSUME source \in Seq(AnyLine), next \in Nat \ {0}, ParseStep, NEW b \in AnyBlock, Parsed(b), b.kind = "image",
         b.lines[1].kind = "image", Stands(b.lines, next)
  PROVE  Rereads(b, 1)
<1> DEFINE l == b.lines[1]
<1>1. b = Block("image", <<l>>) /\ l \in AnyLine /\ b.lines = <<l>> /\ Len(b.lines) = 1 /\ b.lines \in Seq(AnyLine)
  BY BlockEqual, OneLine DEF Parsed
<1>2. l.kind = "image" /\ Here = l /\ l = Line("image", l.word)
  <2>1. l.kind = "image"
    OBVIOUS
  <2>2. Here = b.lines[1]
    BY <1>1, HereStands
  <2>3. l = Line("image", l.word)
    BY <1>1, <2>1 DEF AnyLine, Line
  <2> QED BY <2>1, <2>2, <2>3
<1>3. ImagesOf(l) = <<l.word>>
  BY <1>2 DEF ImagesOf
<1>4. Images
  BY <1>2, <1>3, Dispatch
<1> DEFINE new == [k \in DOMAIN ImagesOf(Here) |-> ImageBlock(ImagesOf(Here)[k])]
<1>5. new = <<ImageBlock(l.word)>>
  <2>1. ImagesOf(Here) = <<l.word>> /\ DOMAIN <<l.word>> = 1..1 /\ <<l.word>>[1] = l.word
    BY <1>2, <1>3
  <2> HIDE DEF l
  <2>2. new = [k \in 1..1 |-> ImageBlock(l.word)]
    BY <2>1
  <2> HIDE DEF new
  <2> QED BY <2>2
<1>6. ImageBlock(l.word) = b
  BY <1>1, <1>2 DEF ImageBlock
<1>7. Push(<<b>>, next + 1)
  <2>1. Push(new, next + 1)
    BY <1>4 DEF Images
  <2> HIDE DEF new, l
  <2> QED BY <1>5, <1>6, <2>1
<1> QED BY <1>7 DEF Rereads

\* The bracket in its alt text makes an image a paragraph.
LEMMA BracketAgain ==
  ASSUME source \in Seq(AnyLine), next \in Nat \ {0}, ParseStep, NEW b \in AnyBlock, b.kind = "image",
         b.lines[1].kind = "bracketed", NEW l \in AnyLine, l.kind = "bang", Stands(<<l>>, next)
  PROVE  Rereads(b, 1)
<1>1. ~Stops(l) /\ ~IsVideo(l) /\ ImagesOf(l) = <<>> /\ ~IsTag(l) /\ ~IsFrame(l)
  BY DEF Stops, IsBlank, IsHeading, IsQuote, IsFence, IsRule, IsItem, IsVideo, ImagesOf, IsTag, IsFrame
<1>2. Here = l
  BY HereSingle
<1>3. Paragraph
  BY <1>1, <1>2, Dispatch
<1> DEFINE w == <<l>>
<1>4. w \in Seq(AnyLine) /\ Len(w) = 1 /\ w[1] = l /\ DOMAIN w = 1..1
  OBVIOUS
<1>5. Stands(w, next)
  OBVIOUS
<1> HIDE DEF w
<1>6. \A i \in 1..Len(w) : ~Stops(w[i])
  BY <1>1, <1>4
<1>7. Push(ParagraphBlocks(w), next + 1)
  <2>1. Push(ParagraphBlocks(w), next + Len(w))
    BY <1>3, <1>4, <1>5, <1>6, ParagraphAgain
  <2> QED BY <1>4, <2>1
<1>8. ParagraphBlocks(w) = <<Block("paragraph", w)>>
  <2>1. ~(\A k \in DOMAIN w : IsTag(w[k])) /\ ~IsFrame(w[1])
    BY <1>1, <1>4
  <2> QED BY <2>1 DEF ParagraphBlocks
<1>9. Block("paragraph", w) \in AnyBlock
  BY <1>4, BlockIs DEF BlockKinds
<1> QED BY <1>7, <1>8, <1>9 DEF Rereads, Fragile

LEMMA ListRereads ==
  ASSUME source \in Seq(AnyLine), next \in Nat \ {0}, ParseStep, NEW b \in AnyBlock, Parsed(b), b.kind = "list",
         Stands(b.lines, next)
  PROVE  Rereads(b, Len(b.lines))
<1>1. b = Block("list", b.lines) /\ Len(b.lines) > 0 /\ b.lines \in Seq(AnyLine)
  BY BlockEqual DEF Parsed
<1>2. \A i \in 1..Len(b.lines) : /\ IsItem(b.lines[i]) /\ ~IsRule(b.lines[i])
                                 /\ Ordered(b.lines[i]) = Ordered(b.lines[1])
  BY DEF Parsed
<1>3. Here = b.lines[1] /\ 1 \in 1..Len(b.lines)
  BY <1>1, HereStands, SeqIs
<1>4. List
  BY <1>2, <1>3, Dispatch
<1>5. Push(<<Block("list", b.lines)>>, next + Len(b.lines))
  BY <1>1, <1>2, <1>4, ListAgain
<1> QED BY <1>1, <1>5 DEF Rereads

LEMMA ParagraphRereads ==
  ASSUME source \in Seq(AnyLine), next \in Nat \ {0}, ParseStep, NEW b \in AnyBlock, Parsed(b), b.kind = "paragraph",
         Stands(b.lines, next)
  PROVE  Rereads(b, Len(b.lines))
<1> DEFINE w == b.lines
<1>1. b = Block("paragraph", w) /\ Len(w) > 0 /\ w \in Seq(AnyLine)
  BY BlockEqual DEF Parsed
<1>2. /\ \A i \in 1..Len(w) : ~Stops(w[i])
      /\ ~IsVideo(w[1]) /\ ImagesOf(w[1]) = <<>>
      /\ \E i \in 1..Len(w) : ~IsTag(w[i])
      /\ Len(w) = 1 => ~IsFrame(w[1])
  BY DEF Parsed
<1>3. Here = w[1] /\ 1 \in 1..Len(w) /\ DOMAIN w = 1..Len(w)
  BY <1>1, HereStands, SeqIs
<1>4. Stands(w, next)
  OBVIOUS
<1> HIDE DEF w
<1>5. Paragraph
  BY <1>2, <1>3, Dispatch
<1>6. Push(ParagraphBlocks(w), next + Len(w))
  BY <1>1, <1>2, <1>4, <1>5, ParagraphAgain
<1>7. ParagraphBlocks(w) = <<b>>
  <2>1. ~(\A k \in DOMAIN w : IsTag(w[k])) /\ ~(Len(w) = 1 /\ IsFrame(w[1]))
    BY <1>2, <1>3
  <2> QED BY <1>1, <2>1 DEF ParagraphBlocks
<1>8. Push(<<b>>, next + Len(w))
  BY <1>6, <1>7
<1> QED BY <1>8 DEF Rereads, w

LEMMA QuoteRereads ==
  ASSUME source \in Seq(AnyLine), next \in Nat \ {0}, ParseStep, NEW b \in AnyBlock, Parsed(b), b.kind = "quote"
  PROVE  /\ b.lines # <<>> /\ Stands(b.lines, next) => Rereads(b, Len(b.lines))
         /\ \A l \in AnyLine : b.lines = <<>> /\ l.kind = "bare" /\ Stands(<<l>>, next) => Rereads(b, 1)
<1>1. b = Block("quote", b.lines) /\ b.lines \in Seq(AnyLine)
  BY BlockEqual
<1>2. /\ \A i \in 1..Len(b.lines) : IsQuote(b.lines[i])
      /\ Len(b.lines) > 0 => b.lines[1].kind # "bare"
  BY DEF Parsed
<1>3. ASSUME b.lines # <<>>, Stands(b.lines, next) PROVE Rereads(b, Len(b.lines))
  <2>1. Len(b.lines) > 0 /\ 1 \in 1..Len(b.lines)
    <3>1. Len(b.lines) \in Nat \ {0}
      BY <1>1, <1>3, EmptySeq
    <3> QED BY <3>1
  <2>2. Here = b.lines[1]
    BY <1>1, <1>3, <2>1, HereStands
  <2>3. Quote
    BY <1>2, <2>1, <2>2, Dispatch
  <2>4. Push(<<Block("quote", b.lines)>>, next + Len(b.lines))
    BY <1>1, <1>2, <1>3, <2>1, <2>3, QuoteAgain
  <2> QED BY <1>1, <2>4 DEF Rereads
<1>4. ASSUME NEW l \in AnyLine, b.lines = <<>>, l.kind = "bare", Stands(<<l>>, next) PROVE Rereads(b, 1)
  <2> DEFINE w == <<l>>
  <2>1. w \in Seq(AnyLine) /\ Len(w) = 1 /\ w[1] = l /\ Stands(w, next)
    BY <1>4
  <2> HIDE DEF w
  <2>2. Here = l
    BY <2>1, HereStands
  <2>3. IsQuote(l) /\ \A i \in 1..Len(w) : IsQuote(w[i])
    BY <1>4, <2>1 DEF IsQuote
  <2>4. Quote
    BY <2>2, <2>3, Dispatch
  <2>5. Push(<<Block("quote", <<>>)>>, next + Len(w))
    <3>1. Len(w) > 0 /\ Len(w) = 1 /\ w[1].kind = "bare"
      BY <1>4, <2>1
    <3> QED BY <2>1, <2>3, <2>4, <3>1, QuoteAgain
  <2>6. Push(<<b>>, next + 1)
    BY <1>1, <1>4, <2>1, <2>5
  <2> QED BY <2>6 DEF Rereads
<1> QED BY <1>3, <1>4

\* The lines that the editor adds.
LEMMA OwnLines ==
         /\ BlankOut \in AnyLine /\ IsBlank(BlankOut) /\ ~IsFence(BlankOut)
         /\ Line("fence", 0) \in AnyLine /\ IsFence(Line("fence", 0))
         /\ Line("bare", 0) \in AnyLine /\ Line("bare", 0).kind = "bare"
         /\ Line("dashes", 0) \in AnyLine /\ Line("dashes", 0).kind = "dashes"
         /\ \A n \in Nat : Line("bang", n) \in AnyLine /\ Line("bang", n).kind = "bang"
BY DEF BlankOut, Line, AnyLine, Own, IsBlank, IsFence

\* What is written of each block.
LEMMA WrittenIs ==
  ASSUME NEW b
  PROVE  /\ b.kind = "quote" => Written(b) = IF b.lines = <<>> THEN <<Line("bare", 0)>> ELSE b.lines
         /\ b.kind = "divider" => Written(b) = <<Line("dashes", 0)>>
         /\ b.kind = "image" /\ b.lines[1].kind = "bracketed" => Written(b) = <<Line("bang", b.lines[1].word)>>
         /\ b.kind = "image" /\ b.lines[1].kind # "bracketed" => Written(b) = b.lines
         /\ b.kind \in {"video", "heading", "list", "paragraph"} => Written(b) = b.lines
         /\ b.kind = "code" =>
              Written(b) = (IF Len(b.lines) = 1 THEN Append(b.lines, BlankOut) ELSE b.lines) \o <<Line("fence", 0)>>
<1>1. b.kind = "quote" => Written(b) = IF b.lines = <<>> THEN <<Line("bare", 0)>> ELSE b.lines
  BY DEF Written
<1>2. b.kind = "divider" => Written(b) = <<Line("dashes", 0)>>
  BY DEF Written
<1>3. /\ b.kind = "image" /\ b.lines[1].kind = "bracketed" => Written(b) = <<Line("bang", b.lines[1].word)>>
      /\ b.kind = "image" /\ b.lines[1].kind # "bracketed" => Written(b) = b.lines
  BY DEF Written
<1>4. b.kind \in {"video", "heading", "list", "paragraph"} => Written(b) = b.lines
  BY DEF Written
<1>5. b.kind = "code" =>
        Written(b) = (IF Len(b.lines) = 1 THEN Append(b.lines, BlankOut) ELSE b.lines) \o <<Line("fence", 0)>>
  BY DEF Written
<1> QED BY <1>1, <1>2, <1>3, <1>4, <1>5

LEMMA AppendIs ==
  ASSUME NEW s \in Seq(AnyLine), NEW e \in AnyLine
  PROVE  /\ Append(s, e) \in Seq(AnyLine) /\ Len(Append(s, e)) = Len(s) + 1
         /\ \A i \in 1..Len(s) : Append(s, e)[i] = s[i]
         /\ Append(s, e)[Len(s) + 1] = e
OBVIOUS

\* The text of a code block, as it is written: one blank line for none.
LEMMA CodeWritten ==
  ASSUME NEW b \in AnyBlock, Parsed(b), b.kind = "code"
  PROVE  \E x \in Seq(AnyLine) :
           /\ Written(b) \in Seq(AnyLine) /\ Len(Written(b)) = Len(x) + 2
           /\ Written(b)[1] = b.lines[1]
           /\ \A i \in 1..Len(x) : Written(b)[i + 1] = x[i] /\ ~IsFence(x[i])
           /\ IsFence(Written(b)[Len(x) + 2])
           /\ b.lines = <<b.lines[1]>> \o IF IsEmptyText(x) THEN <<>> ELSE x
<1> DEFINE lines == b.lines
           m == Len(lines)
           F == Line("fence", 0)
<1>1. /\ lines \in Seq(AnyLine) /\ m \in Nat /\ m > 0 /\ IsFence(lines[1])
      /\ \A i \in 2..m : ~IsFence(lines[i])
      /\ m = 2 => ~IsBlank(lines[2])
  BY BlockEqual, SeqIs DEF Parsed
<1>2. Written(b) = (IF m = 1 THEN Append(lines, BlankOut) ELSE lines) \o <<F>>
  BY WrittenIs
<1>3. F \in AnyLine /\ IsFence(F) /\ BlankOut \in AnyLine /\ IsBlank(BlankOut) /\ ~IsFence(BlankOut)
  BY OwnLines
<1> HIDE DEF lines, F
<1>4. CASE m = 1
  <2>1. lines = <<lines[1]>> /\ lines[1] \in AnyLine
    BY <1>1, <1>4, OneLine
  <2> DEFINE l == lines[1]
             u == Append(lines, BlankOut)
             v == <<F>>
             w == u \o v
             x == <<BlankOut>>
  <2>2. u \in Seq(AnyLine) /\ Len(u) = 2 /\ u[1] = l /\ u[2] = BlankOut
    <3>1. lines \in Seq(AnyLine) /\ Len(lines) = 1 /\ BlankOut \in AnyLine
      BY <1>1, <1>3, <1>4
    <3>2. /\ u \in Seq(AnyLine) /\ Len(u) = Len(lines) + 1
          /\ \A i \in 1..Len(lines) : u[i] = lines[i]
          /\ u[Len(lines) + 1] = BlankOut
      BY <3>1, AppendIs
    <3> HIDE DEF u
    <3> QED BY <3>1, <3>2
  <2>3. Written(b) = w
    BY <1>2, <1>4
  <2>4. w \in Seq(AnyLine) /\ Len(w) = 3 /\ w[1] = l /\ w[2] = BlankOut /\ w[3] = F
    <3>1. v \in Seq(AnyLine) /\ Len(v) = 1 /\ v[1] = F
      BY <1>3
    <3> HIDE DEF u, v
    <3>2. /\ u \o v \in Seq(AnyLine) /\ Len(u \o v) = 3
          /\ \A i \in 1..3 : (u \o v)[i] = IF i <= 2 THEN u[i] ELSE v[i - 2]
      <4>1. Len(u) + Len(v) = 3
        BY <2>2, <3>1
      <4>2. /\ u \o v \in Seq(AnyLine) /\ Len(u \o v) = Len(u) + Len(v)
            /\ \A i \in 1..Len(u) + Len(v) : (u \o v)[i] = IF i <= Len(u) THEN u[i] ELSE v[i - Len(u)]
        BY <2>2, <3>1, ConcatProperties
      <4> QED BY <2>2, <4>1, <4>2
    <3> QED BY <2>2, <3>1, <3>2
  <2> HIDE DEF l, u, v
  <2>5. x \in Seq(AnyLine) /\ Len(x) = 1 /\ x[1] = BlankOut
    BY <1>3
  <2>6. IsEmptyText(x)
    BY <1>3, <2>5 DEF IsEmptyText
  <2>7. lines = <<l>> \o <<>>
    <3>1. <<l>> \in Seq(AnyLine) /\ lines = <<l>>
      BY <2>1 DEF l
    <3> QED BY <3>1, ConcatEmptySeq
  <2> HIDE DEF w, x
  <2>8. /\ Written(b) \in Seq(AnyLine) /\ Len(Written(b)) = Len(x) + 2 /\ Written(b)[1] = lines[1]
        /\ \A i \in 1..Len(x) : Written(b)[i + 1] = x[i] /\ ~IsFence(x[i])
        /\ IsFence(Written(b)[Len(x) + 2])
    BY <1>3, <2>3, <2>4, <2>5 DEF l
  <2>9. lines = <<lines[1]>> \o IF IsEmptyText(x) THEN <<>> ELSE x
    BY <2>6, <2>7 DEF l
  <2> QED BY <2>5, <2>8, <2>9 DEF lines
<1>5. CASE m # 1
  <2> DEFINE x == [i \in 1..(m - 1) |-> lines[i + 1]]
             w == lines \o <<F>>
  <2>1. ASSUME NEW i \in 1..(m - 1) PROVE lines[i + 1] \in AnyLine /\ ~IsFence(lines[i + 1])
    <3>1. i + 1 \in 2..m /\ i + 1 \in 1..m
      BY <1>1
    <3> QED BY <1>1, <3>1, ElementOfSeq
  <2>2. x \in Seq(AnyLine) /\ Len(x) = m - 1 /\ m - 1 \in Nat /\ \A i \in 1..(m - 1) : x[i] = lines[i + 1]
    <3>1. x \in [1..(m - 1) -> AnyLine] /\ m - 1 \in Nat /\ \A i \in 1..(m - 1) : x[i] = lines[i + 1]
      BY <1>1, <2>1
    <3> DEFINE n == m - 1
    <3>2. n = m - 1 /\ n \in Nat
      BY <3>1
    <3> HIDE DEF x, n
    <3> QED BY <3>1, <3>2, FunctionIsSeq
  <2> HIDE DEF x
  <2>3. ~IsEmptyText(x)
    <3>1. ASSUME Len(x) = 1 PROVE ~IsBlank(x[1])
      <4>1. m = 2
        <5>1. m - 1 = 1 /\ m \in Nat
          BY <1>1, <2>2, <3>1
        <5> HIDE DEF m
        <5> QED BY <5>1
      <4>2. 1 \in 1..(m - 1) /\ 1 + 1 = 2
        BY <4>1
      <4>3. x[1] = lines[1 + 1]
        BY <2>2, <4>2
      <4> QED BY <1>1, <4>1, <4>2, <4>3
    <3> QED BY <3>1 DEF IsEmptyText
  <2>4. /\ w \in Seq(AnyLine) /\ Len(w) = m + 1
        /\ \A i \in 1..(m + 1) : w[i] = IF i <= m THEN lines[i] ELSE <<F>>[i - m]
    BY <1>1, <1>3, SingleIs, ConcatProperties
  <2> HIDE DEF w
  <2>5. Written(b) = w
    BY <1>2, <1>5 DEF w
  <2>6. w[1] = lines[1] /\ w[m + 1] = F
    BY <1>1, <2>4
  <2>7. ASSUME NEW i \in 1..Len(x) PROVE w[i + 1] = x[i] /\ ~IsFence(x[i])
    <3>1. i \in 1..(m - 1) /\ i + 1 \in 1..(m + 1) /\ i + 1 <= m
      BY <1>1, <2>2
    <3> QED BY <2>1, <2>2, <2>4, <3>1
  <2>8. <<lines[1]>> \o x = lines
    <3>1. lines[1] \in AnyLine
      BY <1>1, ElementOfSeq
    <3> DEFINE z == <<lines[1]>> \o x
    <3>2. /\ z \in Seq(AnyLine) /\ Len(z) = m /\ z[1] = lines[1]
          /\ \A i \in 2..m : z[i] = x[i - 1]
      <4>1. /\ z \in Seq(AnyLine) /\ Len(z) = Len(x) + 1 /\ z[1] = lines[1]
            /\ \A i \in 2..(Len(x) + 1) : z[i] = x[i - 1]
        BY <2>2, <3>1, FirstAndRest
      <4>2. Len(x) + 1 = m
        BY <1>1, <2>2
      <4> QED BY <4>1, <4>2
    <3> HIDE DEF z
    <3>3. \A i \in 1..m : z[i] = lines[i]
      <4> TAKE i \in 1..m
      <4>1. CASE i = 1
        BY <3>2, <4>1
      <4>2. CASE i # 1
        <5>1. i \in 2..m /\ i - 1 \in 1..(m - 1) /\ (i - 1) + 1 = i
          BY <1>1, <4>2
        <5>2. z[i] = x[i - 1] /\ x[i - 1] = lines[(i - 1) + 1]
          BY <2>2, <3>2, <5>1
        <5> QED BY <5>1, <5>2
      <4> QED BY <4>1, <4>2
    <3>4. z = lines
      BY <1>1, <3>2, <3>3, SeqEqual
    <3> QED BY <3>4 DEF z
  <2>9. Len(w) = Len(x) + 2 /\ Len(x) + 2 = m + 1
    BY <1>1, <2>2, <2>4
  <2>10. IsFence(w[Len(x) + 2])
    BY <1>3, <2>6, <2>9
  <2>11. lines = <<lines[1]>> \o IF IsEmptyText(x) THEN <<>> ELSE x
    BY <2>3, <2>8
  <2> QED BY <2>2, <2>4, <2>5, <2>6, <2>7, <2>9, <2>10, <2>11 DEF lines
<1> QED BY <1>4, <1>5

LEMMA CodeRereads ==
  ASSUME source \in Seq(AnyLine), next \in Nat \ {0}, ParseStep, NEW b \in AnyBlock, Parsed(b), b.kind = "code",
         Stands(Written(b), next)
  PROVE  Rereads(b, Len(Written(b)))
<1> DEFINE w == Written(b)
<1>1. PICK x \in Seq(AnyLine) :
        /\ w \in Seq(AnyLine) /\ Len(w) = Len(x) + 2
        /\ w[1] = b.lines[1]
        /\ \A i \in 1..Len(x) : w[i + 1] = x[i] /\ ~IsFence(x[i])
        /\ IsFence(w[Len(x) + 2])
        /\ b.lines = <<b.lines[1]>> \o IF IsEmptyText(x) THEN <<>> ELSE x
  BY CodeWritten
<1>2. Stands(w, next) /\ Len(x) \in Nat
  BY SeqIs
<1> HIDE DEF w
<1>3. Here = b.lines[1]
  <2>1. Len(w) > 0
    BY <1>1, <1>2
  <2> QED BY <1>1, <1>2, <2>1, HereStands
<1>4. Code
  <2>1. IsFence(b.lines[1])
    BY DEF Parsed
  <2> QED BY <1>3, <2>1, Dispatch
<1>5. next + Len(x) + 1 <= Len(source)
  <2>1. next + Len(w) - 1 <= Len(source)
    BY <1>2 DEF Stands
  <2> QED BY <1>1, <1>2, <2>1, SeqIs
<1>6. ASSUME NEW i \in 1..Len(x) PROVE source[next + i] = x[i] /\ ~IsFence(x[i])
  <2>1. i + 1 \in 1..Len(w) /\ next - 1 + (i + 1) = next + i
    BY <1>1, <1>2
  <2>2. source[next - 1 + (i + 1)] = w[i + 1]
    BY <1>2, <2>1 DEF Stands
  <2> QED BY <1>1, <2>1, <2>2
<1>7. IsFence(source[next + Len(x) + 1])
  <2> DEFINE j == Len(x) + 2
  <2>1. j \in 1..Len(w) /\ next - 1 + j = next + Len(x) + 1
    BY <1>1, <1>2
  <2>2. source[next - 1 + j] = w[j]
    BY <1>2, <2>1 DEF Stands
  <2> QED BY <1>1, <2>1, <2>2
<1>8. Push(<<Block("code", <<Here>> \o IF IsEmptyText(x) THEN <<>> ELSE x)>>, next + Len(x) + 2)
  BY <1>4, <1>5, <1>6, <1>7, CodeAgain
<1>9. Block("code", <<Here>> \o IF IsEmptyText(x) THEN <<>> ELSE x) = b
  BY <1>1, <1>3, BlockEqual
<1>10. next + Len(x) + 2 = next + Len(w)
  BY <1>1, <1>2
<1>11. Push(<<b>>, next + Len(w))
  BY <1>8, <1>9, <1>10
<1> QED BY <1>11 DEF Rereads, w

\* A block is written as one line at least.
LEMMA WrittenIsTyped ==
  ASSUME NEW b \in AnyBlock, Parsed(b)
  PROVE  Written(b) \in Seq(AnyLine) /\ Len(Written(b)) \in Nat /\ Len(Written(b)) > 0
<1>1. b.lines \in Seq(AnyLine) /\ b.kind \in BlockKinds
  BY BlockEqual
<1>2. CASE b.kind = "code"
  <2>1. PICK x \in Seq(AnyLine) : Written(b) \in Seq(AnyLine) /\ Len(Written(b)) = Len(x) + 2
    BY <1>2, CodeWritten
  <2> QED BY <2>1, SeqIs
<1>3. CASE b.kind \in {"video", "heading", "list", "paragraph"}
  <2>1. Written(b) = b.lines
    BY <1>3, WrittenIs
  <2>2. Len(b.lines) > 0
    BY <1>3 DEF Parsed
  <2> QED BY <1>1, <2>1, <2>2, SeqIs
<1>4. ASSUME NEW l \in AnyLine, Written(b) = <<l>>
      PROVE  Written(b) \in Seq(AnyLine) /\ Len(Written(b)) \in Nat /\ Len(Written(b)) > 0
  BY <1>4
<1>5. CASE b.kind = "divider"
  BY <1>4, <1>5, WrittenIs, OwnLines
<1>6. CASE b.kind = "quote"
  <2>1. CASE b.lines = <<>>
    BY <1>4, <1>6, <2>1, WrittenIs, OwnLines
  <2>2. CASE b.lines # <<>>
    <3>1. Written(b) = b.lines
      BY <1>6, <2>2, WrittenIs
    <3>2. Len(b.lines) \in Nat \ {0}
      BY <1>1, <2>2, EmptySeq
    <3> QED BY <1>1, <3>1, <3>2
  <2> QED BY <2>1, <2>2
<1>7. CASE b.kind = "image"
  <2>1. Len(b.lines) = 1 /\ b.lines[1] \in AnyLine
    BY <1>1, <1>7, OneLine DEF Parsed
  <2>2. CASE b.lines[1].kind = "bracketed"
    <3>1. b.lines[1].word \in Nat
      BY <2>1 DEF AnyLine
    <3> QED BY <1>4, <1>7, <2>2, <3>1, WrittenIs, OwnLines
  <2>3. CASE b.lines[1].kind # "bracketed"
    <3>1. Written(b) = b.lines
      BY <1>7, <2>3, WrittenIs
    <3> QED BY <1>1, <2>1, <3>1
  <2> QED BY <2>2, <2>3
<1> QED BY <1>1, <1>2, <1>3, <1>5, <1>6, <1>7 DEF BlockKinds

\* A block that is written is read again.
LEMMA Reparse ==
  ASSUME source \in Seq(AnyLine), next \in Nat \ {0}, ParseStep, NEW b \in AnyBlock, Parsed(b),
         Stands(Written(b), next)
  PROVE  Rereads(b, Len(Written(b)))
<1>1. b.lines \in Seq(AnyLine) /\ b.kind \in BlockKinds
  BY BlockEqual
<1>2. CASE b.kind = "code"
  BY <1>2, CodeRereads
<1>3. CASE b.kind \in {"video", "heading"}
  <2>1. Written(b) = b.lines /\ Len(b.lines) = 1
    BY <1>3, WrittenIs DEF Parsed
  <2>2. Stands(b.lines, next)
    BY <2>1
  <2> QED BY <1>3, <2>1, <2>2, VideoAgain, HeadingAgain
<1>4. CASE b.kind \in {"list", "paragraph"}
  <2>1. Written(b) = b.lines
    BY <1>4, WrittenIs
  <2>2. Stands(b.lines, next)
    BY <2>1
  <2> QED BY <1>4, <2>1, <2>2, ListRereads, ParagraphRereads
<1>5. CASE b.kind = "divider"
  <2> DEFINE l == Line("dashes", 0)
  <2>1. Written(b) = <<l>> /\ l \in AnyLine /\ l.kind = "dashes"
    BY <1>5, WrittenIs, OwnLines
  <2> HIDE DEF l
  <2>2. Stands(<<l>>, next) /\ Len(<<l>>) = 1
    BY <2>1
  <2>3. Rereads(b, 1)
    BY <1>5, <2>1, <2>2, DividerAgain
  <2> QED BY <2>1, <2>2, <2>3
<1>6. CASE b.kind = "quote"
  <2>1. CASE b.lines = <<>>
    <3> DEFINE l == Line("bare", 0)
    <3>1. Written(b) = <<l>> /\ l \in AnyLine /\ l.kind = "bare"
      BY <1>6, <2>1, WrittenIs, OwnLines
    <3> HIDE DEF l
    <3>2. Stands(<<l>>, next) /\ Len(<<l>>) = 1
      BY <3>1
    <3>3. Rereads(b, 1)
      BY <1>6, <2>1, <3>1, <3>2, QuoteRereads
    <3> QED BY <3>1, <3>2, <3>3
  <2>2. CASE b.lines # <<>>
    <3>1. Written(b) = b.lines
      BY <1>6, <2>2, WrittenIs
    <3>2. Stands(b.lines, next)
      BY <3>1
    <3>3. Rereads(b, Len(b.lines))
      BY <1>6, <2>2, <3>2, QuoteRereads
    <3> QED BY <3>1, <3>3
  <2> QED BY <2>1, <2>2
<1>7. CASE b.kind = "image"
  <2>1. Len(b.lines) = 1 /\ b.lines[1] \in AnyLine /\ b.lines[1].kind \in {"image", "bracketed"}
    BY <1>1, <1>7, OneLine DEF Parsed
  <2>2. CASE b.lines[1].kind = "bracketed"
    <3> DEFINE l == Line("bang", b.lines[1].word)
    <3>1. b.lines[1].word \in Nat
      BY <2>1 DEF AnyLine
    <3>2. Written(b) = <<l>> /\ l \in AnyLine /\ l.kind = "bang"
      BY <1>7, <2>2, <3>1, WrittenIs, OwnLines
    <3> HIDE DEF l
    <3>3. Stands(<<l>>, next) /\ Len(<<l>>) = 1
      BY <3>2
    <3>4. Rereads(b, 1)
      BY <1>7, <2>2, <3>2, <3>3, BracketAgain
    <3> QED BY <3>2, <3>3, <3>4
  <2>3. CASE b.lines[1].kind = "image"
    <3>1. Written(b) = b.lines
      BY <1>7, <2>3, WrittenIs
    <3>2. Stands(b.lines, next)
      BY <3>1
    <3>3. Rereads(b, 1)
      BY <1>7, <2>3, <3>2, ImageAgain
    <3> QED BY <2>1, <3>1, <3>3
  <2> QED BY <2>1, <2>2, <2>3
<1> QED BY <1>1, <1>2, <1>3, <1>4, <1>5, <1>6, <1>7 DEF BlockKinds

-----------------------------------------------------------------------------
(***************************************************************************)
(* The second parse goes through the blocks of the first.                  *)
(***************************************************************************)

\* What each block adds to the text.
Chunks(bs) == [k \in DOMAIN bs |-> (IF k = 1 THEN <<>> ELSE Gap) \o Written(bs[k])]

AllParsed(bs) == bs \in Seq(AnyBlock) /\ \A k \in 1..Len(bs) : Parsed(bs[k])

\* The text of blocks that the parser made has no piece without a line.
LEMMA ChunksAre ==
  ASSUME NEW bs, AllParsed(bs)
  PROVE  /\ Chunks(bs) \in Seq(Seq(AnyLine)) /\ Len(Chunks(bs)) = Len(bs) /\ Len(bs) \in Nat
         /\ \A k \in 1..Len(bs) :
              LET w == Written(bs[k])
                  d == IF k = 1 THEN 0 ELSE 1 IN
              /\ Len(Chunks(bs)[k]) = d + Len(w)
              /\ \A i \in 1..Len(w) : Chunks(bs)[k][d + i] = w[i]
              /\ k # 1 => IsBlank(Chunks(bs)[k][1])
<1> DEFINE n == Len(bs)
           c == Chunks(bs)
<1>1. bs \in Seq(AnyBlock) /\ n \in Nat /\ DOMAIN bs = 1..n
  BY SeqIs DEF AllParsed
<1>2. ASSUME NEW k \in 1..n
      PROVE  /\ c[k] = (IF k = 1 THEN <<>> ELSE Gap) \o Written(bs[k])
             /\ Written(bs[k]) \in Seq(AnyLine) /\ Len(Written(bs[k])) \in Nat
  <2>1. bs[k] \in AnyBlock /\ Parsed(bs[k])
    BY <1>1, ElementOfSeq DEF AllParsed
  <2> QED BY <1>1, <2>1, WrittenIsTyped DEF Chunks
<1>3. Gap \in Seq(AnyLine) /\ Len(Gap) = 1 /\ IsBlank(Gap[1])
  <2>1. BlankOut \in AnyLine /\ IsBlank(BlankOut)
    BY OwnLines
  <2> QED BY <2>1, SingleIs DEF Gap
<1>4. ASSUME NEW k \in 1..n
      PROVE  LET w == Written(bs[k])
                 d == IF k = 1 THEN 0 ELSE 1 IN
             /\ c[k] \in Seq(AnyLine) /\ Len(c[k]) = d + Len(w)
             /\ \A i \in 1..Len(w) : c[k][d + i] = w[i]
             /\ k # 1 => IsBlank(c[k][1])
  <2> DEFINE w == Written(bs[k])
  <2>1. w \in Seq(AnyLine) /\ Len(w) \in Nat /\ c[k] = (IF k = 1 THEN <<>> ELSE Gap) \o w
    BY <1>2
  <2> HIDE DEF w, c
  <2>2. CASE k = 1
    <3>1. c[k] = w
      BY <2>1, <2>2, ConcatEmptySeq
    <3> QED BY <2>1, <2>2, <3>1 DEF w
  <2>3. CASE k # 1
    <3>1. c[k] = Gap \o w
      BY <2>1, <2>3
    <3>2. /\ Gap \o w \in Seq(AnyLine) /\ Len(Gap \o w) = 1 + Len(w)
          /\ \A i \in 1..(1 + Len(w)) : (Gap \o w)[i] = IF i <= 1 THEN Gap[i] ELSE w[i - 1]
      <4>1. /\ Gap \o w \in Seq(AnyLine) /\ Len(Gap \o w) = Len(Gap) + Len(w)
            /\ \A i \in 1..Len(Gap) + Len(w) : (Gap \o w)[i] = IF i <= Len(Gap) THEN Gap[i] ELSE w[i - Len(Gap)]
        BY <1>3, <2>1, ConcatProperties
      <4> QED BY <1>3, <4>1
    <3>3. (Gap \o w)[1] = Gap[1]
      BY <2>1, <3>2
    <3>4. \A i \in 1..Len(w) : (Gap \o w)[1 + i] = w[i]
      <4> TAKE i \in 1..Len(w)
      <4>1. 1 + i \in 1..(1 + Len(w)) /\ ~(1 + i <= 1) /\ (1 + i) - 1 = i
        BY <2>1
      <4> QED BY <3>2, <4>1
    <3> QED BY <1>3, <2>3, <3>1, <3>2, <3>3, <3>4 DEF w
  <2> QED BY <2>2, <2>3
<1>5. c \in Seq(Seq(AnyLine)) /\ Len(c) = n
  <2>1. c = [k \in 1..n |-> c[k]]
    BY <1>1 DEF Chunks
  <2>2. \A k \in 1..n : c[k] \in Seq(AnyLine)
    BY <1>4
  <2> HIDE DEF c, n
  <2>3. c \in [1..n -> Seq(AnyLine)]
    BY <2>1, <2>2
  <2> QED BY <1>1, <2>3, FunctionIsSeq
<1> QED BY <1>1, <1>4, <1>5

\* Where the lines of a block begin: after the blank line, if there is one.
Begin(P, j) == P[j] + 1 + IF j = 0 THEN 0 ELSE 1

\* In the text that was written, each block stands where the spots say, with a
\* blank line after it.
LEMMA Standing ==
  ASSUME NEW bs, AllParsed(bs), source = ToMarkdown(bs), NEW P, Spots(Chunks(bs), P), NEW j \in 0..(Len(bs) - 1)
  PROVE  /\ source \in Seq(AnyLine) /\ Len(source) = P[Len(bs)]
         /\ P[j] \in Nat /\ P[j + 1] \in Nat /\ P[j + 1] <= Len(source)
         /\ Begin(P, j) + Len(Written(bs[j + 1])) = P[j + 1] + 1
         /\ Begin(P, j) <= P[j + 1]
         /\ j # 0 => IsBlank(source[P[j] + 1])
         /\ Stands(Written(bs[j + 1]), Begin(P, j))
<1> DEFINE n == Len(bs)
           c == Chunks(bs)
           w == Written(bs[j + 1])
           d == IF j = 0 THEN 0 ELSE 1
<1>1. n \in Nat /\ c \in Seq(Seq(AnyLine)) /\ Len(c) = n /\ source = FlattenSeq(c)
  BY ChunksAre DEF ToMarkdown, Chunks
<1>2. source \in Seq(AnyLine) /\ Len(source) \in Nat
  BY <1>1, FlattenIsTyped, SeqIs
<1>3. ASSUME NEW k \in 1..n
      PROVE  /\ P[k] = P[k - 1] + Len(c[k]) /\ P[k] <= Len(source) /\ P[k] \in Nat /\ P[k - 1] \in Nat
             /\ \A i \in 1..Len(c[k]) : source[P[k - 1] + i] = c[k][i]
             /\ k # 1 => IsBlank(c[k][1]) /\ Len(c[k]) \in Nat /\ Len(c[k]) > 0
             /\ bs[k] \in AnyBlock /\ Parsed(bs[k])
  <2>1. /\ P[k] = P[k - 1] + Len(c[k]) /\ P[k] <= Len(source)
        /\ \A i \in 1..Len(c[k]) : source[P[k - 1] + i] = c[k][i]
    BY <1>1 DEF Spots
  <2>2. k \in 0..n /\ k - 1 \in 0..n /\ P \in [0..n -> Nat]
    BY <1>1 DEF Spots
  <2>3. bs[k] \in AnyBlock /\ Parsed(bs[k])
    BY ElementOfSeq DEF AllParsed
  <2>4. Len(Written(bs[k])) \in Nat
    BY <2>3, WrittenIsTyped
  <2>5. k # 1 => IsBlank(c[k][1]) /\ Len(c[k]) = 1 + Len(Written(bs[k]))
    BY ChunksAre
  <2> HIDE DEF c, n
  <2>6. P[k] \in Nat /\ P[k - 1] \in Nat
    BY <2>2
  <2>7. k # 1 => IsBlank(c[k][1]) /\ Len(c[k]) \in Nat /\ Len(c[k]) > 0
    BY <2>4, <2>5
  <2> QED BY <2>1, <2>3, <2>6, <2>7
<1>4. Len(source) = P[n] /\ P[0] = 0
  BY <1>1 DEF Spots
<1>5. j \in Nat /\ j + 1 \in 1..n /\ (j + 1) - 1 = j /\ (j + 1 = 1 <=> j = 0)
  BY <1>1
<1>6. /\ P[j + 1] = P[j] + Len(c[j + 1]) /\ P[j + 1] <= Len(source) /\ P[j + 1] \in Nat /\ P[j] \in Nat
      /\ \A i \in 1..Len(c[j + 1]) : source[P[j] + i] = c[j + 1][i]
      /\ j # 0 => IsBlank(c[j + 1][1]) /\ Len(c[j + 1]) \in Nat /\ Len(c[j + 1]) > 0
      /\ bs[j + 1] \in AnyBlock /\ Parsed(bs[j + 1])
  <2> HIDE DEF c, n
  <2> QED BY <1>3, <1>5
<1>7. w \in Seq(AnyLine) /\ Len(w) \in Nat /\ Len(w) > 0
  BY <1>6, WrittenIsTyped
<1>8. Len(c[j + 1]) = d + Len(w) /\ \A i \in 1..Len(w) : c[j + 1][d + i] = w[i]
  BY <1>5, ChunksAre
<1> HIDE DEF c, w, n
<1>9. Begin(P, j) = P[j] + 1 + d /\ d \in Nat
  BY DEF Begin
<1>10. Begin(P, j) + Len(w) = P[j + 1] + 1 /\ Begin(P, j) <= P[j + 1] /\ Begin(P, j) \in Nat
  <2> DEFINE x == P[j]
             y == P[j + 1]
             m == Len(w)
             z == Begin(P, j)
  <2>1. x \in Nat /\ m \in Nat /\ m > 0 /\ d \in Nat /\ y = x + (d + m) /\ z = x + 1 + d
    BY <1>6, <1>7, <1>8, <1>9
  <2> HIDE DEF d, x, y, m, z
  <2>2. z + m = y + 1 /\ z <= y /\ z \in Nat
    BY <2>1
  <2> QED BY <2>2 DEF x, y, m, z
<1>11. j # 0 => IsBlank(source[P[j] + 1])
  <2> HAVE j # 0
  <2>1. 1 \in 1..Len(c[j + 1])
    BY <1>6
  <2> QED BY <1>6, <2>1
<1>12. ASSUME NEW i \in 1..Len(w) PROVE source[Begin(P, j) - 1 + i] = w[i]
  <2> HIDE DEF d
  <2>1. d + i \in 1..Len(c[j + 1]) /\ Begin(P, j) - 1 + i = P[j] + (d + i)
    <3>1. i \in Nat /\ i >= 1 /\ i <= Len(w)
      BY <1>7
    <3> DEFINE x == P[j]
               m == Len(w)
               z == Begin(P, j)
               l == Len(c[j + 1])
    <3>2. x \in Nat /\ m \in Nat /\ d \in Nat /\ l = d + m /\ z = x + 1 + d
      BY <1>6, <1>7, <1>8, <1>9
    <3>3. i <= m
      BY <3>1
    <3> HIDE DEF x, m, z, l
    <3>4. d + i \in 1..l /\ z - 1 + i = x + (d + i)
      BY <3>1, <3>2, <3>3
    <3> QED BY <3>4 DEF x, z, l
  <2>2. source[P[j] + (d + i)] = c[j + 1][d + i]
    BY <1>6, <2>1
  <2> QED BY <1>8, <2>1, <2>2
<1>13. ASSUME P[j + 1] < Len(source) PROVE IsBlank(source[P[j + 1] + 1])
  <2> DEFINE k == j + 2
  <2>1. j + 1 # n
    BY <1>4, <1>6, <1>13
  <2>2. k \in 1..n /\ k # 1 /\ k - 1 = j + 1
    BY <1>1, <1>5, <2>1
  <2> HIDE DEF k
  <2>3. /\ \A i \in 1..Len(c[k]) : source[P[k - 1] + i] = c[k][i]
        /\ IsBlank(c[k][1]) /\ Len(c[k]) \in Nat /\ Len(c[k]) > 0
    BY <1>3, <2>2
  <2>4. 1 \in 1..Len(c[k])
    BY <2>3
  <2> QED BY <2>2, <2>3, <2>4
<1>14. Stands(w, Begin(P, j))
  <2> HIDE DEF d
  <2>1. Begin(P, j) + Len(w) - 1 = P[j + 1]
    <3> DEFINE y == P[j + 1]
               m == Len(w)
               z == Begin(P, j)
    <3>1. y \in Nat /\ m \in Nat /\ z \in Nat /\ z + m = y + 1
      BY <1>6, <1>7, <1>10
    <3> HIDE DEF y, m, z
    <3>2. z + m - 1 = y
      BY <3>1
    <3> QED BY <3>2 DEF y, m, z
  <2> QED BY <1>6, <1>10, <1>12, <1>13, <2>1 DEF Stands
<1> QED BY <1>2, <1>4, <1>6, <1>10, <1>11, <1>14 DEF n, w

-----------------------------------------------------------------------------
(***************************************************************************)
(* The invariant of a save without an edit.                                *)
(***************************************************************************)

\* In the first parse the blocks are as the parser makes them.
FirstParse == pass = "first" => source \in Seq(AnyLine) /\ next \in Nat \ {0} /\ AllParsed(blocks)

\* The blocks of b that are kept are in a.
Keeps(a, b) == \A k \in 1..Len(a) : ~Fragile(b[k]) => a[k] = b[k]

\* The parser is at a block's lines, or at the blank line before them.
AtBlock(P) ==
  \/ next = P[Len(blocks)] + 1
  \/ next = P[Len(blocks)] + 2 /\ 0 < Len(blocks) /\ Len(blocks) < Len(saved)

\* In the second parse the text is what the editor wrote, the parser is at one of
\* its blocks, and those before are kept.  UntouchedSaveKeeps says nothing before the
\* end, so that it needs this to be inductive.
SecondParse ==
  pass = "second" =>
    /\ AllParsed(saved) /\ source = ToMarkdown(saved) /\ source \in Seq(AnyLine)
    /\ blocks \in Seq(AnyBlock) /\ Len(blocks) <= Len(saved) /\ Keeps(blocks, saved)
    /\ next \in Nat \ {0}
    /\ \E P : Spots(Chunks(saved), P) /\ AtBlock(P)

SaveInv == pass \in {"first", "second", "done"} /\ FirstParse /\ SecondParse /\ UntouchedSaveKeeps

\* SaveInv holds at first ...
LEMMA InitIsSaveInv == ParserInit => SaveInv
<1> SUFFICES ASSUME ParserInit PROVE SaveInv
  OBVIOUS
<1>1. PICK n \in 0..MaxLines : \E kinds \in [1..n -> Kinds] : source = [k \in 1..n |-> Line(kinds[k], 2 * k)]
  BY DEF ParserInit
<1>2. PICK kinds \in [1..n -> Kinds] : source = [k \in 1..n |-> Line(kinds[k], 2 * k)]
  BY <1>1
<1>3. n \in Nat
  BY LinesAssumption
<1>4. source \in Seq(AnyLine)
  <2>1. \A k \in 1..n : Line(kinds[k], 2 * k) \in AnyLine
    BY <1>3 DEF Line, AnyLine
  <2>2. source \in [1..n -> AnyLine]
    BY <1>2, <2>1
  <2> QED BY <1>3, <2>2, FunctionIsSeq
<1>5. AllParsed(blocks)
  BY DEF ParserInit, AllParsed
<1> QED BY <1>4, <1>5 DEF ParserInit, SaveInv, FirstParse, SecondParse, UntouchedSaveKeeps

\* ... what is pushed is added to what the parser made ...
LEMMA MoreParsed ==
  ASSUME NEW bs, AllParsed(bs), NEW new, AllParsed(new)
  PROVE  AllParsed(bs \o new)
<1>1. bs \in Seq(AnyBlock) /\ new \in Seq(AnyBlock) /\ Len(bs) \in Nat /\ Len(new) \in Nat
  BY SeqIs DEF AllParsed
<1>2. /\ bs \o new \in Seq(AnyBlock) /\ Len(bs \o new) = Len(bs) + Len(new)
      /\ \A i \in 1..Len(bs) + Len(new) : (bs \o new)[i] = IF i <= Len(bs) THEN bs[i] ELSE new[i - Len(bs)]
  BY <1>1, ConcatProperties
<1>3. ASSUME NEW k \in 1..Len(bs \o new) PROVE Parsed((bs \o new)[k])
  <2>1. CASE k <= Len(bs)
    <3>1. k \in 1..Len(bs) /\ (bs \o new)[k] = bs[k]
      BY <1>1, <1>2, <2>1
    <3> QED BY <3>1 DEF AllParsed
  <2>2. CASE ~(k <= Len(bs))
    <3>1. k - Len(bs) \in 1..Len(new) /\ (bs \o new)[k] = new[k - Len(bs)]
      BY <1>1, <1>2, <2>2
    <3> QED BY <3>1 DEF AllParsed
  <2> QED BY <2>1, <2>2
<1> QED BY <1>2, <1>3 DEF AllParsed

\* ... and no step violates it: one of the first parse,
LEMMA FirstStep ==
  ASSUME SaveInv, pass = "first", ParseStep
  PROVE  SaveInv'
<1>1. source \in Seq(AnyLine) /\ next \in Nat \ {0} /\ AllParsed(blocks)
  BY DEF SaveInv, FirstParse
<1>2. PICK new : Pushes(new)
  BY <1>1, StepPushes
<1>3. AllParsed(new) /\ blocks' = blocks \o new
  BY <1>2 DEF Pushes, AllParsed
<1>4. AllParsed(blocks')
  BY <1>1, <1>3, MoreParsed
<1>5. source' = source /\ pass' = "first" /\ next' \in Nat /\ next' > next
  BY <1>2 DEF Pushes
<1>6. next' \in Nat \ {0}
  BY <1>1, <1>5
<1> QED BY <1>1, <1>4, <1>5, <1>6 DEF SaveInv, FirstParse, SecondParse, UntouchedSaveKeeps

\* the writing,
LEMMA SaveStep ==
  ASSUME SaveInv, Save
  PROVE  SaveInv'
<1>1. AllParsed(blocks)
  BY DEF SaveInv, FirstParse, Save
<1>2. /\ saved' = blocks /\ source' = ToMarkdown(blocks) /\ blocks' = <<>> /\ next' = 1 /\ pass' = "second"
  BY DEF Save
<1>3. /\ Chunks(blocks) \in Seq(Seq(AnyLine)) /\ Len(Chunks(blocks)) \in Nat
      /\ ToMarkdown(blocks) = FlattenSeq(Chunks(blocks))
  BY <1>1, ChunksAre DEF ToMarkdown, Chunks
<1>4. source' \in Seq(AnyLine)
  BY <1>2, <1>3, FlattenIsTyped
<1>5. PICK P : Spots(Chunks(blocks), P)
  BY <1>3, SpotsExist
<1>6. P[0] = 0
  BY <1>5 DEF Spots
<1>7. blocks' \in Seq(AnyBlock) /\ Len(blocks') = 0 /\ Len(blocks') <= Len(saved') /\ Keeps(blocks', saved')
  <2>1. Len(blocks) \in Nat
    BY <1>1, ChunksAre
  <2> QED BY <1>2, <2>1 DEF Keeps
<1>8. AtBlock(P)'
  BY <1>2, <1>6, <1>7 DEF AtBlock
<1>9. Spots(Chunks(saved'), P)
  BY <1>2, <1>5
<1>10. SecondParse'
  <2>1. \E Q : Spots(Chunks(saved'), Q) /\ AtBlock(Q)'
    BY <1>8, <1>9
  <2> QED BY <1>1, <1>2, <1>4, <1>7, <2>1 DEF SecondParse
<1> QED BY <1>2, <1>10 DEF SaveInv, FirstParse, UntouchedSaveKeeps

\* one of the second parse, which reads the block that stands there,
LEMMA SecondStep ==
  ASSUME SaveInv, pass = "second", ParseStep
  PROVE  SaveInv'
<1>1. /\ AllParsed(saved) /\ source = ToMarkdown(saved) /\ source \in Seq(AnyLine)
      /\ blocks \in Seq(AnyBlock) /\ Len(blocks) <= Len(saved) /\ Keeps(blocks, saved)
      /\ next \in Nat \ {0}
  BY DEF SaveInv, SecondParse
<1>2. PICK P : Spots(Chunks(saved), P) /\ AtBlock(P)
  BY DEF SaveInv, SecondParse
<1> DEFINE j == Len(blocks)
           n == Len(saved)
<1>3. next <= Len(source) /\ n \in Nat /\ j \in Nat /\ Len(Chunks(saved)) = n
  <2>1. Parsing
    BY DEF ParseStep, BlankLine, VideoLine, Code, Heading, Quote, Divider, Images, List, Paragraph
  <2> QED BY <1>1, <2>1, ChunksAre, SeqIs DEF Parsing
<1>4. Len(source) = P[n] /\ P[n] \in Nat
  <2>1. P[n] = Len(source) /\ P \in [0..n -> Nat]
    BY <1>1, <1>2, <1>3 DEF Spots, ToMarkdown, Chunks
  <2> QED BY <1>3, <2>1
<1>5. j < n
  BY <1>1, <1>2, <1>3, <1>4 DEF AtBlock
<1> DEFINE b == saved[j + 1]
           w == Written(b)
<1>6. /\ P[j] \in Nat /\ P[j + 1] \in Nat /\ P[j + 1] <= Len(source)
      /\ Begin(P, j) + Len(w) = P[j + 1] + 1
      /\ j # 0 => IsBlank(source[P[j] + 1])
      /\ Stands(w, Begin(P, j))
  <2>1. j \in 0..(Len(saved) - 1)
    BY <1>3, <1>5
  <2> HIDE DEF j
  <2> QED BY <1>1, <1>2, <2>1, Standing
<1>7. b \in AnyBlock /\ Parsed(b)
  <2>1. j + 1 \in 1..n
    BY <1>3, <1>5
  <2> QED BY <1>1, <2>1, ElementOfSeq DEF AllParsed
<1>8. CASE next = Begin(P, j)
  <2>1. Rereads(b, Len(w))
    <3>1. Stands(w, next)
      BY <1>6, <1>8
    <3> QED BY <1>1, <1>7, <3>1, Reparse
  <2>2. PICK c \in AnyBlock : Push(<<c>>, next + Len(w)) /\ (~Fragile(b) => c = b)
    BY <2>1 DEF Rereads
  <2>3. /\ blocks' = blocks \o <<c>> /\ next' = P[j + 1] + 1
        /\ source' = source /\ saved' = saved /\ pass' = "second"
    BY <1>6, <1>8, <2>2 DEF Push
  <2>4. /\ blocks \o <<c>> \in Seq(AnyBlock) /\ Len(blocks \o <<c>>) = j + 1
        /\ \A i \in 1..j : (blocks \o <<c>>)[i] = blocks[i]
        /\ (blocks \o <<c>>)[j + 1] = c
    BY <1>1
  <2>5. blocks' \in Seq(AnyBlock) /\ Len(blocks') = j + 1 /\ Len(blocks') <= Len(saved')
    BY <1>3, <1>5, <2>3, <2>4
  <2>6. Keeps(blocks', saved')
    <3>1. ASSUME NEW k \in 1..(j + 1), ~Fragile(saved[k]) PROVE blocks'[k] = saved[k]
      <4>1. CASE k = j + 1
        BY <2>2, <2>3, <2>4, <3>1, <4>1
      <4>2. CASE k # j + 1
        <5>1. k \in 1..j
          BY <1>3, <4>2
        <5> QED BY <1>1, <2>3, <2>4, <3>1, <5>1 DEF Keeps
      <4> QED BY <4>1, <4>2
    <3> QED BY <2>3, <2>5, <3>1 DEF Keeps
  <2>7. AtBlock(P)'
    BY <2>3, <2>5 DEF AtBlock
  <2>8. next' \in Nat \ {0}
    BY <1>6, <2>3
  <2>9. SecondParse'
    <3>1. \E Q : Spots(Chunks(saved'), Q) /\ AtBlock(Q)'
      BY <1>2, <2>3, <2>7
    <3> QED BY <1>1, <2>3, <2>5, <2>6, <2>8, <3>1 DEF SecondParse
  <2> QED BY <2>3, <2>9 DEF SaveInv, FirstParse, UntouchedSaveKeeps
<1>9. CASE next = P[j] + 1 /\ j # 0
  <2>1. IsBlank(Here)
    BY <1>6, <1>9 DEF Here
  <2>2. BlankLine
    BY <2>1, Dispatch
  <2>3. /\ blocks' = blocks /\ next' = P[j] + 2
        /\ source' = source /\ saved' = saved /\ pass' = "second"
    <3>1. Push(<<>>, next + 1)
      BY <2>2 DEF BlankLine
    <3>2. blocks \o <<>> = blocks
      BY <1>1, ConcatEmptySeq
    <3>3. next + 1 = P[j] + 2
      BY <1>6, <1>9
    <3> QED BY <3>1, <3>2, <3>3 DEF Push
  <2>4. AtBlock(P)'
    BY <1>3, <1>5, <1>9, <2>3 DEF AtBlock
  <2>5. next' \in Nat \ {0}
    BY <1>6, <2>3
  <2>6. SecondParse'
    <3>1. \E Q : Spots(Chunks(saved'), Q) /\ AtBlock(Q)'
      BY <1>2, <2>3, <2>4
    <3>2. Len(blocks') <= Len(saved') /\ Keeps(blocks', saved')
      BY <1>1, <2>3
    <3> QED BY <1>1, <2>3, <2>5, <3>1, <3>2 DEF SecondParse
  <2> QED BY <2>3, <2>6 DEF SaveInv, FirstParse, UntouchedSaveKeeps
<1>10. next = Begin(P, j) \/ (next = P[j] + 1 /\ j # 0)
  BY <1>2, <1>3, <1>6 DEF AtBlock, Begin
<1> QED BY <1>8, <1>9, <1>10

\* and the end, at which no block is left.
LEMMA FinishStep ==
  ASSUME SaveInv, Finish
  PROVE  SaveInv'
<1>1. /\ AllParsed(saved) /\ source = ToMarkdown(saved) /\ source \in Seq(AnyLine)
      /\ blocks \in Seq(AnyBlock) /\ Len(blocks) <= Len(saved) /\ Keeps(blocks, saved)
      /\ next \in Nat \ {0}
  BY DEF SaveInv, SecondParse, Finish
<1>2. PICK P : Spots(Chunks(saved), P) /\ AtBlock(P)
  BY DEF SaveInv, SecondParse, Finish
<1> DEFINE j == Len(blocks)
           n == Len(saved)
<1>3. next > Len(source) /\ n \in Nat /\ j \in Nat /\ Len(source) \in Nat
  BY <1>1, ChunksAre, SeqIs DEF Finish
<1>4. ASSUME j < n PROVE FALSE
  <2>1. j \in 0..(Len(saved) - 1)
    BY <1>3, <1>4
  <2>2. /\ P[j] \in Nat /\ P[j + 1] \in Nat /\ P[j + 1] <= Len(source)
        /\ Begin(P, j) <= P[j + 1]
    <3> HIDE DEF j
    <3> QED BY <1>1, <1>2, <2>1, Standing
  <2>3. next <= Begin(P, j) /\ Begin(P, j) \in Nat
    BY <1>2, <1>3, <2>2 DEF AtBlock, Begin
  <2> QED BY <1>1, <1>3, <2>2, <2>3
<1>5. j = n
  BY <1>1, <1>3, <1>4
<1>6. DOMAIN saved = 1..n
  BY <1>1, SeqIs DEF AllParsed
<1>7. UntouchedSaveKeeps'
  BY <1>1, <1>5, <1>6 DEF UntouchedSaveKeeps, Keeps, Finish
<1> QED BY <1>7 DEF SaveInv, FirstParse, SecondParse, Finish

LEMMA NextKeepsSaveInv ==
  ASSUME SaveInv, [ParserNext]_parserVars
  PROVE  SaveInv'
<1>1. CASE ParseStep
  <2>1. pass # "done"
    BY <1>1 DEF ParseStep, Parsing, BlankLine, VideoLine, Code, Heading, Quote, Divider, Images, List, Paragraph
  <2> QED BY <1>1, <2>1, FirstStep, SecondStep DEF SaveInv
<1>2. CASE Save
  BY <1>2, SaveStep
<1>3. CASE Finish
  BY <1>3, FinishStep
<1>4. CASE UNCHANGED parserVars
  BY <1>4 DEF parserVars, SaveInv, FirstParse, SecondParse, UntouchedSaveKeeps, AllParsed, AtBlock
<1> QED BY <1>1, <1>2, <1>3, <1>4 DEF ParserNext, ParseStep

\* For every article, a save without an edit keeps every block as it is and where it
\* is, but for tags with a bracket in the alt text or an address beyond ASCII, and those
\* disturb no other block (blocks_to_markdown, parse_markdown).
THEOREM UntouchedSaveAlwaysKeeps == ParserSpec => []UntouchedSaveKeeps
<1>1. SaveInv => UntouchedSaveKeeps
  BY DEF SaveInv
<1> QED BY <1>1, InitIsSaveInv, NextKeepsSaveInv, PTL DEF ParserSpec

-----------------------------------------------------------------------------
(***************************************************************************)
(* What lines and blocks say.                                              *)
(***************************************************************************)

\* What a line says, by its kind.
LEMMA WordsAre ==
  ASSUME NEW l \in AnyLine
  PROVE  /\ WordsIn(l) \in Seq(Nat)
         /\ l.kind \notin Speaks => WordsIn(l) = <<>>
         /\ l.kind \in Speaks \ {"images"} /\ l.word <= 2 * MaxLines => WordsIn(l) = <<l.word>>
         /\ l.kind \in Speaks \ {"images", "foreign"} => WordsIn(l) = <<l.word>>
         /\ l.kind = "images" => WordsIn(l) = <<l.word, l.word + 1>>
         /\ l.kind = "foreign" /\ l.word > MaxWord => WordsIn(l) = <<l.word - MaxWord>>
<1>1. l.word \in Nat /\ MaxWord \in Nat /\ MaxWord = 2 * MaxLines + 1 /\ MaxLines \in Nat
  BY LinesAssumption DEF AnyLine, MaxWord
<1>2. CASE l.kind = "images"
  <2>1. WordsIn(l) = <<l.word, l.word + 1>>
    BY <1>2 DEF WordsIn, Speaks
  <2>2. <<l.word, l.word + 1>> \in Seq(Nat)
    <3>1. l.word + 1 \in Nat
      BY <1>1
    <3> QED BY <1>1, <3>1
  <2> QED BY <1>2, <2>1, <2>2 DEF Speaks
<1>3. CASE l.kind = "foreign" /\ l.word > MaxWord
  <2>1. WordsIn(l) = <<l.word - MaxWord>>
    BY <1>3 DEF WordsIn, Speaks
  <2>2. l.word - MaxWord \in Nat /\ ~(l.word <= 2 * MaxLines)
    BY <1>1, <1>3
  <2>3. <<l.word - MaxWord>> \in Seq(Nat)
    BY <2>2
  <2> QED BY <1>3, <2>1, <2>2, <2>3 DEF Speaks
<1>4. CASE l.kind \in Speaks /\ l.kind # "images" /\ ~(l.kind = "foreign" /\ l.word > MaxWord)
  <2>1. WordsIn(l) = <<l.word>>
    BY <1>4 DEF WordsIn
  <2>2. <<l.word>> \in Seq(Nat)
    BY <1>1
  <2> QED BY <1>4, <2>1, <2>2 DEF Speaks
<1>5. CASE l.kind \notin Speaks
  <2>1. WordsIn(l) = <<>>
    BY <1>5 DEF WordsIn, Speaks
  <2>2. <<>> \in Seq(Nat)
    OBVIOUS
  <2> QED BY <1>5, <2>1, <2>2 DEF Speaks
<1> QED BY <1>2, <1>3, <1>4, <1>5

\* One piece for each element.
LEMMA PiecesAre ==
  ASSUME NEW T, NEW s \in Seq(T), NEW f, DOMAIN f = DOMAIN s, f = [k \in DOMAIN s |-> f[k]],
         \A k \in 1..Len(s) : f[k] \in Seq(Nat)
  PROVE  f \in Seq(Seq(Nat)) /\ Len(f) = Len(s) /\ FlattenSeq(f) \in Seq(Nat)
<1> DEFINE n == Len(s)
<1>1. n \in Nat /\ DOMAIN s = 1..n
  BY SeqIs
<1> HIDE DEF n
<1>2. f \in [1..n -> Seq(Nat)]
  BY <1>1 DEF n
<1>3. f \in Seq(Seq(Nat)) /\ Len(f) = n
  BY <1>1, <1>2, FunctionIsSeq
<1> QED BY <1>3, FlattenIsTyped DEF n

\* What each line says, and each block.
LineWords(lines) == [k \in DOMAIN lines |-> WordsIn(lines[k])]

BlockWords(bs) == [k \in DOMAIN bs |-> WordsOfLines(bs[k].lines)]

LEMMA LineWordsAre ==
  ASSUME NEW lines \in Seq(AnyLine)
  PROVE  /\ LineWords(lines) \in Seq(Seq(Nat)) /\ Len(LineWords(lines)) = Len(lines) /\ Len(lines) \in Nat
         /\ \A k \in 1..Len(lines) : LineWords(lines)[k] = WordsIn(lines[k])
         /\ WordsOfLines(lines) = FlattenSeq(LineWords(lines)) /\ WordsOfLines(lines) \in Seq(Nat)
<1> DEFINE f == LineWords(lines)
<1>1. Len(lines) \in Nat /\ DOMAIN lines = 1..Len(lines)
  BY SeqIs
<1>2. DOMAIN f = DOMAIN lines /\ f = [k \in DOMAIN lines |-> f[k]]
  BY DEF LineWords
<1>3. \A k \in 1..Len(lines) : f[k] = WordsIn(lines[k])
  BY <1>1 DEF LineWords
<1>4. \A k \in 1..Len(lines) : f[k] \in Seq(Nat)
  <2> TAKE k \in 1..Len(lines)
  <2>1. lines[k] \in AnyLine
    BY ElementOfSeq
  <2> QED BY <1>3, <2>1, WordsAre
<1>5. WordsOfLines(lines) = FlattenSeq(f)
  BY DEF WordsOfLines, LineWords
<1> HIDE DEF f
<1>6. f \in Seq(Seq(Nat)) /\ Len(f) = Len(lines) /\ FlattenSeq(f) \in Seq(Nat)
  BY <1>2, <1>4, PiecesAre
<1> QED BY <1>1, <1>3, <1>5, <1>6 DEF f

LEMMA BlockWordsAre ==
  ASSUME NEW bs \in Seq(AnyBlock)
  PROVE  /\ BlockWords(bs) \in Seq(Seq(Nat)) /\ Len(BlockWords(bs)) = Len(bs) /\ Len(bs) \in Nat
         /\ \A k \in 1..Len(bs) : BlockWords(bs)[k] = WordsOfLines(bs[k].lines)
         /\ WordsOf(bs) = FlattenSeq(BlockWords(bs)) /\ WordsOf(bs) \in Seq(Nat)
<1> DEFINE f == BlockWords(bs)
<1>1. Len(bs) \in Nat /\ DOMAIN bs = 1..Len(bs)
  BY SeqIs
<1>2. DOMAIN f = DOMAIN bs /\ f = [k \in DOMAIN bs |-> f[k]]
  BY DEF BlockWords
<1>3. \A k \in 1..Len(bs) : f[k] = WordsOfLines(bs[k].lines)
  BY <1>1 DEF BlockWords
<1>4. \A k \in 1..Len(bs) : f[k] \in Seq(Nat)
  <2> TAKE k \in 1..Len(bs)
  <2>1. bs[k] \in AnyBlock
    BY ElementOfSeq
  <2>2. bs[k].lines \in Seq(AnyLine)
    BY <2>1, BlockEqual
  <2> QED BY <1>3, <2>2, LineWordsAre
<1>5. WordsOf(bs) = FlattenSeq(f)
  BY DEF WordsOf, BlockWords
<1> HIDE DEF f
<1>6. f \in Seq(Seq(Nat)) /\ Len(f) = Len(bs) /\ FlattenSeq(f) \in Seq(Nat)
  BY <1>2, <1>4, PiecesAre
<1> QED BY <1>1, <1>3, <1>5, <1>6 DEF f

\* Lines after lines say the one and then the other, and so do blocks.
LEMMA WordsConcat ==
  ASSUME NEW x \in Seq(AnyLine), NEW y \in Seq(AnyLine)
  PROVE  WordsOfLines(x \o y) = WordsOfLines(x) \o WordsOfLines(y)
<1> DEFINE z == x \o y
           f == LineWords(x)
           g == LineWords(y)
           h == LineWords(z)
           m == Len(x)
           n == Len(y)
<1>1. /\ m \in Nat /\ n \in Nat /\ z \in Seq(AnyLine) /\ Len(z) = m + n
      /\ \A i \in 1..m : i \in 1..(m + n) /\ z[i] = x[i]
      /\ \A i \in 1..n : m + i \in 1..(m + n) /\ z[m + i] = y[i]
  BY ConcatAt
<1> HIDE DEF z
<1>2. /\ f \in Seq(Seq(Nat)) /\ Len(f) = m /\ WordsOfLines(x) = FlattenSeq(f)
      /\ \A k \in 1..m : f[k] = WordsIn(x[k])
  BY LineWordsAre
<1>3. /\ g \in Seq(Seq(Nat)) /\ Len(g) = n /\ WordsOfLines(y) = FlattenSeq(g)
      /\ \A k \in 1..n : g[k] = WordsIn(y[k])
  BY LineWordsAre
<1>4. /\ h \in Seq(Seq(Nat)) /\ Len(h) = m + n /\ WordsOfLines(z) = FlattenSeq(h)
      /\ \A k \in 1..(m + n) : h[k] = WordsIn(z[k])
  BY <1>1, LineWordsAre
<1> HIDE DEF f, g, h, m, n
<1>5. \A i \in 1..m : h[i] = f[i]
  <2> TAKE i \in 1..m
  <2>1. i \in 1..(m + n) /\ z[i] = x[i]
    BY <1>1
  <2> QED BY <1>2, <1>4, <2>1
<1>6. \A i \in 1..n : h[m + i] = g[i]
  <2> TAKE i \in 1..n
  <2>1. m + i \in 1..(m + n) /\ z[m + i] = y[i]
    BY <1>1
  <2> QED BY <1>3, <1>4, <2>1
<1>7. h = f \o g
  <2>1. Len(h) = Len(f) + Len(g)
    BY <1>2, <1>3, <1>4
  <2>2. \A i \in 1..Len(f) : h[i] = f[i]
    BY <1>2, <1>5
  <2>3. \A i \in 1..Len(g) : h[Len(f) + i] = g[i]
    BY <1>2, <1>3, <1>6
  <2>4. f \in Seq(Seq(Nat)) /\ g \in Seq(Seq(Nat)) /\ h \in Seq(Seq(Nat))
    BY <1>2, <1>3, <1>4
  <2> QED BY <2>1, <2>2, <2>3, <2>4, ConcatIs
<1>8. FlattenSeq(h) = FlattenSeq(f) \o FlattenSeq(g)
  BY <1>2, <1>3, <1>7, FlattenConcat
<1> QED BY <1>2, <1>3, <1>4, <1>8 DEF z

LEMMA BlocksConcat ==
  ASSUME NEW x \in Seq(AnyBlock), NEW y \in Seq(AnyBlock)
  PROVE  WordsOf(x \o y) = WordsOf(x) \o WordsOf(y)
<1> DEFINE z == x \o y
           f == BlockWords(x)
           g == BlockWords(y)
           h == BlockWords(z)
           m == Len(x)
           n == Len(y)
<1>1. /\ m \in Nat /\ n \in Nat /\ z \in Seq(AnyBlock) /\ Len(z) = m + n
      /\ \A i \in 1..m : i \in 1..(m + n) /\ z[i] = x[i]
      /\ \A i \in 1..n : m + i \in 1..(m + n) /\ z[m + i] = y[i]
  BY ConcatAt
<1> HIDE DEF z
<1>2. /\ f \in Seq(Seq(Nat)) /\ Len(f) = m /\ WordsOf(x) = FlattenSeq(f)
      /\ \A k \in 1..m : f[k] = WordsOfLines(x[k].lines)
  BY BlockWordsAre
<1>3. /\ g \in Seq(Seq(Nat)) /\ Len(g) = n /\ WordsOf(y) = FlattenSeq(g)
      /\ \A k \in 1..n : g[k] = WordsOfLines(y[k].lines)
  BY BlockWordsAre
<1>4. /\ h \in Seq(Seq(Nat)) /\ Len(h) = m + n /\ WordsOf(z) = FlattenSeq(h)
      /\ \A k \in 1..(m + n) : h[k] = WordsOfLines(z[k].lines)
  BY <1>1, BlockWordsAre
<1> HIDE DEF f, g, h, m, n
<1>5. \A i \in 1..m : h[i] = f[i]
  <2> TAKE i \in 1..m
  <2>1. i \in 1..(m + n) /\ z[i] = x[i]
    BY <1>1
  <2> QED BY <1>2, <1>4, <2>1
<1>6. \A i \in 1..n : h[m + i] = g[i]
  <2> TAKE i \in 1..n
  <2>1. m + i \in 1..(m + n) /\ z[m + i] = y[i]
    BY <1>1
  <2> QED BY <1>3, <1>4, <2>1
<1>7. h = f \o g
  <2>1. Len(h) = Len(f) + Len(g)
    BY <1>2, <1>3, <1>4
  <2>2. \A i \in 1..Len(f) : h[i] = f[i]
    BY <1>2, <1>5
  <2>3. \A i \in 1..Len(g) : h[Len(f) + i] = g[i]
    BY <1>2, <1>3, <1>6
  <2>4. f \in Seq(Seq(Nat)) /\ g \in Seq(Seq(Nat)) /\ h \in Seq(Seq(Nat))
    BY <1>2, <1>3, <1>4
  <2> QED BY <2>1, <2>2, <2>3, <2>4, ConcatIs
<1>8. FlattenSeq(h) = FlattenSeq(f) \o FlattenSeq(g)
  BY <1>2, <1>3, <1>7, FlattenConcat
<1> QED BY <1>2, <1>3, <1>4, <1>8 DEF z

-----------------------------------------------------------------------------
(***************************************************************************)
(* What a part of the source says.                                         *)
(***************************************************************************)

\* What the lines from p to q say, where they stand in the article.
Spoken(p, q) == [i \in 1..(q + 1 - p) |-> SaidAt(p - 1 + i)]

SaidIn(p, q) == FlattenSeq(Spoken(p, q))

LEMMA SpokenIs ==
  ASSUME source \in Seq(AnyLine), NEW p \in Nat, p # 0, NEW q \in Nat, p <= q + 1, q <= Len(source)
  PROVE  /\ Spoken(p, q) \in Seq(Seq(Nat)) /\ Len(Spoken(p, q)) = q + 1 - p
         /\ \A i \in 1..(q + 1 - p) : Spoken(p, q)[i] = SaidAt(p - 1 + i)
         /\ SaidIn(p, q) \in Seq(Nat)
<1> DEFINE n == q + 1 - p
           f == Spoken(p, q)
<1>1. n \in Nat
  OBVIOUS
<1>2. ASSUME NEW i \in 1..n PROVE SaidAt(p - 1 + i) \in Seq(Nat)
  <2>1. p - 1 + i \in 1..Len(source)
    BY SeqIs
  <2>2. source[p - 1 + i] \in AnyLine
    BY <2>1, ElementOfSeq
  <2>3. WordsIn(source[p - 1 + i]) \in Seq(Nat) /\ <<>> \in Seq(Nat)
    BY <2>2, WordsAre
  <2> QED BY <2>3 DEF SaidAt
<1>3. f \in [1..n -> Seq(Nat)] /\ \A i \in 1..n : f[i] = SaidAt(p - 1 + i)
  BY <1>2 DEF Spoken
<1> HIDE DEF f, n
<1>4. f \in Seq(Seq(Nat)) /\ Len(f) = n
  BY <1>1, <1>3, FunctionIsSeq
<1>5. FlattenSeq(f) \in Seq(Nat)
  BY <1>4, FlattenIsTyped
<1> QED BY <1>3, <1>4, <1>5 DEF f, n, SaidIn

\* A part of the article and the part after it.
LEMMA SaidSplits ==
  ASSUME source \in Seq(AnyLine), NEW p \in Nat, p # 0, NEW m \in Nat, NEW q \in Nat,
         p <= m + 1, m <= q, q <= Len(source)
  PROVE  SaidIn(p, q) = SaidIn(p, m) \o SaidIn(m + 1, q)
<1> DEFINE f == Spoken(p, m)
           g == Spoken(m + 1, q)
           h == Spoken(p, q)
           n == Len(source)
<1>1. n \in Nat /\ q <= n
  BY SeqIs
<1>2. /\ f \in Seq(Seq(Nat)) /\ Len(f) = m + 1 - p
      /\ \A i \in 1..(m + 1 - p) : f[i] = SaidAt(p - 1 + i)
  <2>1. m <= Len(source)
    BY <1>1
  <2> QED BY <2>1, SpokenIs
<1>3. /\ g \in Seq(Seq(Nat)) /\ Len(g) = q - m
      /\ \A i \in 1..(q - m) : g[i] = SaidAt(m + i)
  <2> DEFINE r == m + 1
  <2>1. r \in Nat /\ r # 0 /\ r <= q + 1 /\ q + 1 - r = q - m /\ r - 1 = m
    OBVIOUS
  <2> HIDE DEF r
  <2>2. /\ Spoken(r, q) \in Seq(Seq(Nat)) /\ Len(Spoken(r, q)) = q + 1 - r
        /\ \A i \in 1..(q + 1 - r) : Spoken(r, q)[i] = SaidAt(r - 1 + i)
    BY <2>1, SpokenIs
  <2> QED BY <2>1, <2>2 DEF r
<1>4. /\ h \in Seq(Seq(Nat)) /\ Len(h) = q + 1 - p
      /\ \A i \in 1..(q + 1 - p) : h[i] = SaidAt(p - 1 + i)
  <2>1. p <= q + 1
    OBVIOUS
  <2> QED BY <2>1, SpokenIs
<1> HIDE DEF f, g, h
<1>5. Len(h) = Len(f) + Len(g)
  BY <1>2, <1>3, <1>4
<1>6. \A i \in 1..Len(f) : h[i] = f[i]
  <2> TAKE i \in 1..Len(f)
  <2>1. i \in 1..(m + 1 - p) /\ i \in 1..(q + 1 - p)
    BY <1>2
  <2> QED BY <1>2, <1>4, <2>1
<1>7. \A i \in 1..Len(g) : h[Len(f) + i] = g[i]
  <2> TAKE i \in 1..Len(g)
  <2> DEFINE j == Len(f) + i
  <2>1. i \in 1..(q - m) /\ j \in 1..(q + 1 - p) /\ p - 1 + j = m + i
    BY <1>2, <1>3
  <2> HIDE DEF j
  <2>2. h[j] = SaidAt(p - 1 + j) /\ g[i] = SaidAt(m + i)
    BY <1>3, <1>4, <2>1
  <2> QED BY <2>1, <2>2 DEF j
<1>8. h = f \o g
  BY <1>2, <1>3, <1>4, <1>5, <1>6, <1>7, ConcatIs
<1>9. FlattenSeq(h) = FlattenSeq(f) \o FlattenSeq(g)
  BY <1>2, <1>3, <1>8, FlattenConcat
<1> QED BY <1>9 DEF f, g, h, SaidIn

\* A part of the source that says what some lines say.
LEMMA SaidByLines ==
  ASSUME source \in Seq(AnyLine), NEW p \in Nat, p # 0, NEW q \in Nat, p <= q + 1, q <= Len(source),
         NEW lines \in Seq(AnyLine), Len(lines) = q + 1 - p,
         \A i \in 1..Len(lines) : SaidAt(p - 1 + i) = WordsIn(lines[i])
  PROVE  SaidIn(p, q) = WordsOfLines(lines)
<1> DEFINE f == Spoken(p, q)
           g == LineWords(lines)
<1>1. /\ f \in Seq(Seq(Nat)) /\ Len(f) = Len(lines)
      /\ \A i \in 1..Len(lines) : f[i] = SaidAt(p - 1 + i)
  BY SpokenIs
<1>2. /\ g \in Seq(Seq(Nat)) /\ Len(g) = Len(lines) /\ WordsOfLines(lines) = FlattenSeq(g)
      /\ \A i \in 1..Len(lines) : g[i] = WordsIn(lines[i])
  BY LineWordsAre
<1> HIDE DEF f, g
<1>3. \A i \in 1..Len(f) : f[i] = g[i]
  BY <1>1, <1>2
<1>4. f = g
  BY <1>1, <1>2, <1>3, SeqEqual
<1> QED BY <1>2, <1>4 DEF f, SaidIn

\* Lines that say nothing.
LEMMA SaidNothing ==
  ASSUME source \in Seq(AnyLine), NEW p \in Nat, p # 0, NEW q \in Nat, p <= q + 1, q <= Len(source),
         \A k \in p..q : SaidAt(k) = <<>>
  PROVE  SaidIn(p, q) = <<>>
<1> DEFINE f == Spoken(p, q)
<1>1. /\ f \in Seq(Seq(Nat)) /\ Len(f) = q + 1 - p
      /\ \A i \in 1..(q + 1 - p) : f[i] = SaidAt(p - 1 + i)
  BY SpokenIs
<1> HIDE DEF f
<1>2. \A i \in 1..Len(f) : f[i] = <<>>
  <2> TAKE i \in 1..Len(f)
  <2>1. i \in 1..(q + 1 - p) /\ p - 1 + i \in p..q
    BY <1>1
  <2> QED BY <1>1, <2>1
<1>3. FlattenSeq(f) = <<>>
  BY <1>1, <1>2, FlattenNothing
<1> QED BY <1>3 DEF f, SaidIn

\* One line says what it says.
LEMMA WordsOfOne ==
  ASSUME NEW l \in AnyLine
  PROVE  WordsOfLines(<<l>>) = WordsIn(l) /\ WordsOfLines(<<>>) = <<>>
<1> DEFINE s == <<l>>
           f == LineWords(s)
<1>1. s \in Seq(AnyLine) /\ Len(s) = 1 /\ s[1] = l
  BY SingleIs
<1> HIDE DEF s
<1>2. f \in Seq(Seq(Nat)) /\ Len(f) = 1 /\ f[1] = WordsIn(l) /\ WordsOfLines(s) = FlattenSeq(f)
  <2>1. /\ f \in Seq(Seq(Nat)) /\ Len(f) = Len(s) /\ WordsOfLines(s) = FlattenSeq(f)
        /\ \A k \in 1..Len(s) : f[k] = WordsIn(s[k])
    BY <1>1, LineWordsAre
  <2> HIDE DEF f
  <2> QED BY <1>1, <2>1
<1> HIDE DEF f
<1>3. f = <<WordsIn(l)>>
  BY <1>2
<1>4. WordsIn(l) \in Seq(Nat)
  BY WordsAre
<1>5. FlattenSeq(<<WordsIn(l)>>) = WordsIn(l)
  BY <1>4, FlattenOne
<1>6. WordsOfLines(<<>>) = <<>>
  <2>1. <<>> \in Seq(AnyLine) /\ Len(<<>>) = 0
    BY EmptySeq
  <2>2. /\ LineWords(<<>>) \in Seq(Seq(Nat)) /\ Len(LineWords(<<>>)) = 0
        /\ WordsOfLines(<<>>) = FlattenSeq(LineWords(<<>>))
    BY <2>1, LineWordsAre
  <2> QED BY <2>2, FlattenIsTyped
<1> QED BY <1>2, <1>3, <1>5, <1>6 DEF s

\* One block says what its lines say.
LEMMA WordsOfBlock ==
  ASSUME NEW b \in AnyBlock
  PROVE  WordsOf(<<b>>) = WordsOfLines(b.lines) /\ WordsOf(<<>>) = <<>>
<1> DEFINE s == <<b>>
           f == BlockWords(s)
           w == WordsOfLines(b.lines)
<1>1. s \in Seq(AnyBlock) /\ Len(s) = 1 /\ s[1] = b
  OBVIOUS
<1> HIDE DEF s
<1>2. f \in Seq(Seq(Nat)) /\ Len(f) = 1 /\ f[1] = w /\ WordsOf(s) = FlattenSeq(f)
  <2>1. /\ f \in Seq(Seq(Nat)) /\ Len(f) = Len(s) /\ WordsOf(s) = FlattenSeq(f)
        /\ \A k \in 1..Len(s) : f[k] = WordsOfLines(s[k].lines)
    BY <1>1, BlockWordsAre
  <2> HIDE DEF f
  <2> QED BY <1>1, <2>1
<1>3. w \in Seq(Nat)
  BY BlockEqual, LineWordsAre
<1> HIDE DEF f, w
<1>4. f = <<w>>
  BY <1>2
<1>5. FlattenSeq(<<w>>) = w
  BY <1>3, FlattenOne
<1>6. WordsOf(<<>>) = <<>>
  <2>1. <<>> \in Seq(AnyBlock) /\ Len(<<>>) = 0
    BY EmptySeq
  <2>2. /\ BlockWords(<<>>) \in Seq(Seq(Nat)) /\ Len(BlockWords(<<>>)) = 0
        /\ WordsOf(<<>>) = FlattenSeq(BlockWords(<<>>))
    BY <2>1, BlockWordsAre
  <2> QED BY <2>2, FlattenIsTyped
<1> QED BY <1>2, <1>4, <1>5, <1>6 DEF s, w

-----------------------------------------------------------------------------
(***************************************************************************)
(* Each block takes exactly the lines up to the next one's first.          *)
(***************************************************************************)

\* The fences up to a line.
Fences(n) == {k \in 1..n : IsFence(source[k])}

\* They are counted.
LEMMA FencesAre ==
  ASSUME NEW n \in Nat
  PROVE  /\ IsFiniteSet(Fences(n)) /\ Cardinality(Fences(n)) \in Nat
         /\ IsClosing(n) <=> Cardinality(Fences(n)) % 2 = 0
<1>1. IsFiniteSet(1..n)
  BY FS_Interval
<1>2. IsFiniteSet(Fences(n))
  BY <1>1, FS_Subset DEF Fences
<1> QED BY <1>2, FS_CardinalityType DEF IsClosing, Fences

\* Lines without a fence neither open nor close ...
LEMMA QuietLines ==
  ASSUME NEW m \in Nat, NEW n \in Nat, m <= n, \A k \in (m + 1)..n : ~IsFence(source[k])
  PROVE  /\ IsClosing(n) <=> IsClosing(m)
         /\ \A k \in (m + 1)..n : SaidAt(k) = WordsIn(source[k])
<1>1. Fences(n) = Fences(m)
  BY DEF Fences
<1> QED BY <1>1, FencesAre DEF SaidAt

\* ... and a fence does what the one before did not; one that closes says nothing.
LEMMA FenceTurns ==
  ASSUME NEW n \in Nat, IsFence(source[n + 1])
  PROVE  /\ IsClosing(n) => ~IsClosing(n + 1) /\ SaidAt(n + 1) = WordsIn(source[n + 1])
         /\ ~IsClosing(n) => IsClosing(n + 1) /\ SaidAt(n + 1) = <<>>
<1>1. /\ n + 1 \in Nat /\ n + 1 \notin Fences(n) /\ Fences(n + 1) = Fences(n) \cup {n + 1}
  BY DEF Fences
<1>2. Cardinality(Fences(n + 1)) = Cardinality(Fences(n)) + 1
  BY <1>1, FencesAre, FS_AddElement
<1> DEFINE c == Cardinality(Fences(n))
           d == Cardinality(Fences(n + 1))
<1>3. c \in Nat /\ d = c + 1 /\ (IsClosing(n) <=> c % 2 = 0) /\ (IsClosing(n + 1) <=> d % 2 = 0)
  BY <1>1, <1>2, FencesAre
<1> HIDE DEF c, d
<1>4. IsClosing(n + 1) <=> ~IsClosing(n)
  BY <1>3
<1> QED BY <1>4 DEF SaidAt

\* No word of an article is one that a garbled address says.
SmallWords == \A k \in 1..Len(source) : source[k].word > 0 /\ source[k].word <= 2 * MaxLines

\* What was said so far is in the blocks.
Listening ==
  pass = "first" =>
    /\ SmallWords
    /\ next - 1 <= Len(source) => WordsOf(blocks) = SaidIn(1, next - 1) /\ IsClosing(next - 1)
    /\ next - 1 > Len(source) => WordsOf(blocks) = Said

\* The article is the part of it from the first line to the last.
LEMMA SaidIsAll ==
  ASSUME source \in Seq(AnyLine)
  PROVE  Said = SaidIn(1, Len(source))
<1> DEFINE n == Len(source)
<1>1. n \in Nat /\ DOMAIN source = 1..n /\ n + 1 - 1 = n /\ \A i \in 1..n : 1 - 1 + i = i
  BY SeqIs
<1>2. Spoken(1, n) = [i \in 1..n |-> SaidAt(i)]
  BY <1>1 DEF Spoken
<1>3. Said = FlattenSeq([i \in 1..n |-> SaidAt(i)])
  BY <1>1 DEF Said
<1> QED BY <1>2, <1>3 DEF SaidIn

\* A step that takes the lines to q, which end outside of code ...
LEMMA Takes ==
  ASSUME SaveInv, Listening, pass = "first", next <= Len(source),
         NEW new \in Seq(AnyBlock), NEW q \in Nat, next <= q, q <= Len(source), Push(new, q + 1),
         WordsOf(new) = SaidIn(next, q), IsClosing(q)
  PROVE  Listening'
<1>1. /\ source \in Seq(AnyLine) /\ next \in Nat /\ next # 0 /\ blocks \in Seq(AnyBlock) /\ Len(source) \in Nat
  BY SeqIs DEF SaveInv, FirstParse, AllParsed
<1>2. source' = source /\ blocks' = blocks \o new /\ next' - 1 = q /\ pass' = "first"
  BY DEF Push
<1>3. WordsOf(blocks) = SaidIn(1, next - 1)
  BY <1>1 DEF Listening
<1>4. WordsOf(blocks \o new) = WordsOf(blocks) \o WordsOf(new)
  BY <1>1, BlocksConcat
<1>5. SaidIn(1, q) = SaidIn(1, next - 1) \o SaidIn(next, q)
  <2> DEFINE m == next - 1
  <2>1. 1 \in Nat /\ 1 # 0 /\ m \in Nat /\ 1 <= m + 1 /\ m <= q /\ m + 1 = next
    BY <1>1
  <2> HIDE DEF m
  <2>2. SaidIn(1, q) = SaidIn(1, m) \o SaidIn(m + 1, q)
    BY <1>1, <2>1, SaidSplits
  <2> QED BY <2>1, <2>2 DEF m
<1>6. WordsOf(blocks') = SaidIn(1, q)
  BY <1>2, <1>3, <1>4, <1>5
<1>7. SaidIn(1, q)' = SaidIn(1, q) /\ IsClosing(q)' = IsClosing(q) /\ SmallWords' = SmallWords
  BY <1>2 DEF SaidIn, Spoken, SaidAt, IsClosing, SmallWords
<1>8. ~(next' - 1 > Len(source'))
  BY <1>1, <1>2
<1>9. SmallWords'
  BY <1>7 DEF Listening
<1>10. WordsOf(blocks)' = WordsOf(blocks')
  OBVIOUS
<1>11. (SaidIn(1, next - 1) = SaidIn(1, q))' /\ IsClosing(next - 1)' = IsClosing(q)'
  BY <1>2 DEF SaidIn, Spoken, IsClosing
<1>12. WordsOf(blocks)' = SaidIn(1, next - 1)' /\ IsClosing(next - 1)'
  BY <1>6, <1>7, <1>11
<1> QED BY <1>8, <1>9, <1>12 DEF Listening

\* ... or takes all there are, in code without an end.
LEMMA TakesAll ==
  ASSUME SaveInv, Listening, pass = "first", next <= Len(source),
         NEW new \in Seq(AnyBlock), Push(new, Len(source) + 2), WordsOf(new) = SaidIn(next, Len(source))
  PROVE  Listening'
<1>1. /\ source \in Seq(AnyLine) /\ next \in Nat /\ next # 0 /\ blocks \in Seq(AnyBlock) /\ Len(source) \in Nat
  BY SeqIs DEF SaveInv, FirstParse, AllParsed
<1> DEFINE n == Len(source)
<1>2. source' = source /\ blocks' = blocks \o new /\ next' - 1 > Len(source') /\ pass' = "first"
  BY <1>1 DEF Push
<1>3. WordsOf(blocks) = SaidIn(1, next - 1)
  BY <1>1 DEF Listening
<1>4. WordsOf(blocks \o new) = WordsOf(blocks) \o WordsOf(new)
  BY <1>1, BlocksConcat
<1>5. SaidIn(1, n) = SaidIn(1, next - 1) \o SaidIn(next, n)
  <2> DEFINE m == next - 1
  <2>1. 1 \in Nat /\ 1 # 0 /\ m \in Nat /\ 1 <= m + 1 /\ m <= n /\ m + 1 = next /\ n <= Len(source) /\ n \in Nat
    BY <1>1
  <2> HIDE DEF m, n
  <2>2. SaidIn(1, n) = SaidIn(1, m) \o SaidIn(m + 1, n)
    BY <1>1, <2>1, SaidSplits
  <2> QED BY <2>1, <2>2 DEF m
<1>6. WordsOf(blocks') = Said
  BY <1>1, <1>2, <1>3, <1>4, <1>5, SaidIsAll
<1>7. Said' = Said /\ SmallWords' = SmallWords
  BY <1>2 DEF Said, SaidAt, IsClosing, SmallWords
<1>8. SmallWords'
  BY <1>7 DEF Listening
<1>9. WordsOf(blocks)' = Said'
  BY <1>6, <1>7
<1>10. ~(next' - 1 <= Len(source'))
  <2>1. next' - 1 = n + 1
    BY <1>1 DEF Push
  <2> QED BY <1>1, <1>2, <2>1
<1> QED BY <1>8, <1>9, <1>10 DEF Listening

\* A step that takes lines which are no fences.
LEMMA QuietTakes ==
  ASSUME SaveInv, Listening, pass = "first", next <= Len(source),
         NEW new \in Seq(AnyBlock), NEW q \in Nat, next <= q, q <= Len(source), Push(new, q + 1),
         \A k \in next..q : ~IsFence(source[k]),
         NEW lines \in Seq(AnyLine), Len(lines) = q + 1 - next,
         \A i \in 1..Len(lines) : WordsIn(source[next - 1 + i]) = WordsIn(lines[i]),
         WordsOf(new) = WordsOfLines(lines)
  PROVE  Listening'
<1>1. source \in Seq(AnyLine) /\ next \in Nat /\ next # 0 /\ Len(source) \in Nat
  BY SeqIs DEF SaveInv, FirstParse
<1> DEFINE m == next - 1
<1>2. m \in Nat /\ m <= q /\ m + 1 = next /\ m <= Len(source)
  BY <1>1
<1>3. IsClosing(m)
  BY <1>2 DEF Listening
<1> HIDE DEF m
<1>4. /\ IsClosing(q)
      /\ \A k \in next..q : SaidAt(k) = WordsIn(source[k])
  <2>1. \A k \in (m + 1)..q : ~IsFence(source[k])
    BY <1>2
  <2>2. /\ IsClosing(q) <=> IsClosing(m)
        /\ \A k \in (m + 1)..q : SaidAt(k) = WordsIn(source[k])
    BY <1>2, <2>1, QuietLines
  <2> QED BY <1>2, <1>3, <2>2
<1>5. \A i \in 1..Len(lines) : SaidAt(next - 1 + i) = WordsIn(lines[i])
  <2> TAKE i \in 1..Len(lines)
  <2>1. next - 1 + i \in next..q
    BY <1>1
  <2> QED BY <1>4, <2>1
<1>6. SaidIn(next, q) = WordsOfLines(lines)
  <2>1. next <= q + 1
    BY <1>1
  <2> QED BY <1>1, <1>5, <2>1, SaidByLines
<1> QED BY <1>4, <1>6, Takes

\* One line, which is no fence.
LEMMA LineTakes ==
  ASSUME SaveInv, Listening, pass = "first", Parsing, NEW new \in Seq(AnyBlock), Push(new, next + 1), ~IsFence(Here),
         WordsOf(new) = WordsIn(Here)
  PROVE  Listening'
<1>1. source \in Seq(AnyLine) /\ next \in Nat \ {0} /\ next \in Nat
  BY DEF SaveInv, FirstParse
<1>2. Here \in AnyLine /\ next \in 1..Len(source) /\ next <= Len(source)
  BY <1>1, HereIs DEF Parsing
<1> DEFINE lines == <<Here>>
<1>3. lines \in Seq(AnyLine) /\ Len(lines) = 1 /\ lines[1] = Here /\ WordsOfLines(lines) = WordsIn(Here)
  BY <1>2, SingleIs, WordsOfOne
<1> HIDE DEF lines
<1>4. \A k \in next..next : ~IsFence(source[k])
  BY <1>2 DEF Here
<1>5. Len(lines) = next + 1 - next
  BY <1>1, <1>3
<1>6. \A i \in 1..Len(lines) : WordsIn(source[next - 1 + i]) = WordsIn(lines[i])
  <2> TAKE i \in 1..Len(lines)
  <2>1. i = 1 /\ next - 1 + i = next
    BY <1>1, <1>3
  <2> QED BY <1>3, <2>1 DEF Here
<1>7. next <= next /\ WordsOf(new) = WordsOfLines(lines)
  BY <1>1, <1>3
<1> DEFINE q == next
<1>8. q \in Nat /\ next <= q /\ q <= Len(source) /\ Push(new, q + 1) /\ (\A k \in next..q : ~IsFence(source[k]))
      /\ Len(lines) = q + 1 - next
  BY <1>1, <1>2, <1>4, <1>5
<1> HIDE DEF q
<1> QED BY <1>2, <1>3, <1>6, <1>7, <1>8, QuietTakes

\* An image says its word.
LEMMA ImageSays ==
  ASSUME NEW w \in Nat
  PROVE  ImageBlock(w) \in AnyBlock /\ WordsOfLines(ImageBlock(w).lines) = <<w>>
<1> DEFINE l == Line("image", w)
<1>1. l \in AnyLine /\ l.kind = "image" /\ l.word = w
  BY DEF Line, AnyLine, Own
<1> HIDE DEF l
<1>2. WordsIn(l) = <<w>>
  BY <1>1, WordsAre DEF Speaks
<1>3. ImageBlock(w) \in AnyBlock /\ ImageBlock(w).lines = <<l>>
  BY ImageIs DEF l
<1> QED BY <1>1, <1>2, <1>3, WordsOfOne

\* The steps that take one line.
LEMMA LinesListen ==
  ASSUME SaveInv, Listening, pass = "first", BlankLine \/ VideoLine \/ Heading \/ Divider \/ Images
  PROVE  Listening'
<1>1. source \in Seq(AnyLine) /\ next \in Nat \ {0}
  BY DEF SaveInv, FirstParse
<1>2. Parsing /\ Here \in AnyLine
  BY <1>1, HereIs DEF BlankLine, VideoLine, Heading, Divider, Images
<1> DEFINE l == Here
<1>3. CASE BlankLine
  <2>1. WordsIn(l) = <<>> /\ ~IsFence(l)
    BY <1>2, <1>3, WordsAre DEF BlankLine, IsBlank, Speaks, IsFence
  <2>2. <<>> \in Seq(AnyBlock) /\ WordsOf(<<>>) = <<>>
    <3>1. Block("video", <<l>>) \in AnyBlock
      BY <1>2, SingleIs, BlockIs DEF BlockKinds
    <3> QED BY <3>1, WordsOfBlock, EmptySeq
  <2>3. Push(<<>>, next + 1)
    BY <1>3 DEF BlankLine
  <2> QED BY <1>2, <2>1, <2>2, <2>3, LineTakes
<1>4. ASSUME NEW b \in AnyBlock, Push(<<b>>, next + 1), ~IsFence(l), WordsOfLines(b.lines) = WordsIn(l)
      PROVE  Listening'
  <2>1. <<b>> \in Seq(AnyBlock)
    OBVIOUS
  <2>2. WordsOf(<<b>>) = WordsIn(l)
    BY <1>4, WordsOfBlock
  <2> QED BY <1>2, <1>4, <2>1, <2>2, LineTakes
<1>5. CASE VideoLine
  <2> DEFINE b == Block("video", <<l>>)
  <2>1. b \in AnyBlock /\ b.lines = <<l>>
    BY <1>2, SingleIs, BlockIs DEF BlockKinds
  <2>2. Push(<<b>>, next + 1) /\ ~IsFence(l)
    BY <1>5 DEF VideoLine, IsVideo, IsFence
  <2>3. WordsOfLines(b.lines) = WordsIn(l)
    BY <1>2, <2>1, WordsOfOne
  <2> HIDE DEF b
  <2> QED BY <1>4, <2>1, <2>2, <2>3
<1>6. CASE Heading
  <2> DEFINE b == Block("heading", <<l>>)
  <2>1. b \in AnyBlock /\ b.lines = <<l>>
    BY <1>2, SingleIs, BlockIs DEF BlockKinds
  <2>2. Push(<<b>>, next + 1) /\ ~IsFence(l)
    BY <1>6 DEF Heading, IsHeading, IsFence
  <2>3. WordsOfLines(b.lines) = WordsIn(l)
    BY <1>2, <2>1, WordsOfOne
  <2> HIDE DEF b
  <2> QED BY <1>4, <2>1, <2>2, <2>3
<1>7. CASE Divider
  <2> DEFINE b == Block("divider", <<>>)
  <2>1. b \in AnyBlock /\ b.lines = <<>>
    <3>1. <<>> \in Seq(AnyLine)
      OBVIOUS
    <3> QED BY <3>1, BlockIs DEF BlockKinds
  <2>2. Push(<<b>>, next + 1) /\ ~IsFence(l) /\ WordsIn(l) = <<>>
    BY <1>2, <1>7, WordsAre DEF Divider, IsRule, IsFence, Speaks
  <2>3. WordsOfLines(b.lines) = WordsIn(l)
    BY <1>2, <2>1, <2>2, WordsOfOne
  <2> HIDE DEF b
  <2> QED BY <1>4, <2>1, <2>2, <2>3
<1>8. CASE Images
  <2> DEFINE words == ImagesOf(l)
             new == [k \in DOMAIN words |-> ImageBlock(words[k])]
  <2>1. l.kind \in {"image", "images"} /\ ~IsFence(l) /\ l.word \in Nat
    BY <1>2, <1>8 DEF Images, ImagesOf, IsFence, AnyLine
  <2>2. WordsIn(l) = words
    BY <1>2, <2>1, WordsAre DEF ImagesOf, Speaks
  <2>3. words \in Seq(Nat)
    BY <1>2, <2>2, WordsAre
  <2>4. Push(new, next + 1)
    BY <1>8 DEF Images
  <2> HIDE DEF words
  <2>5. \A k \in 1..Len(words) : words[k] \in Nat
    BY <2>3, ElementOfSeq
  <2>6. Len(words) \in Nat /\ DOMAIN words = 1..Len(words)
    BY <2>3, SeqIs
  <2>7. new \in [1..Len(words) -> AnyBlock] /\ \A k \in 1..Len(words) : new[k] = ImageBlock(words[k])
    BY <2>5, <2>6, ImageSays
  <2> HIDE DEF new
  <2>8. new \in Seq(AnyBlock) /\ Len(new) = Len(words)
    BY <2>6, <2>7, FunctionIsSeq
  <2>9. WordsOf(new) = words
    <3> DEFINE f == BlockWords(new)
    <3>1. /\ f \in Seq(Seq(Nat)) /\ Len(f) = Len(words) /\ WordsOf(new) = FlattenSeq(f)
          /\ \A k \in 1..Len(words) : f[k] = WordsOfLines(new[k].lines)
      BY <2>8, BlockWordsAre
    <3>2. \A k \in 1..Len(words) : f[k] = <<words[k]>>
      BY <2>5, <2>7, <3>1, ImageSays
    <3> HIDE DEF f
    <3> QED BY <2>3, <3>1, <3>2, FlattenSingles
  <2> QED BY <1>2, <2>1, <2>2, <2>4, <2>8, <2>9, LineTakes
<1> QED BY <1>3, <1>5, <1>6, <1>7, <1>8

\* A step that takes lines which are no fences into one block.
LEMMA BlockTakes ==
  ASSUME SaveInv, Listening, pass = "first", next <= Len(source),
         NEW b \in AnyBlock, NEW q \in Nat, next <= q, q <= Len(source), Push(<<b>>, q + 1),
         \A k \in next..q : ~IsFence(source[k]),
         NEW lines \in Seq(AnyLine), Len(lines) = q + 1 - next,
         \A i \in 1..Len(lines) : WordsIn(source[next - 1 + i]) = WordsIn(lines[i]),
         WordsOfLines(b.lines) = WordsOfLines(lines)
  PROVE  Listening'
<1>1. <<b>> \in Seq(AnyBlock)
  OBVIOUS
<1>2. WordsOf(<<b>>) = WordsOfLines(lines)
  BY WordsOfBlock
<1> QED BY <1>1, <1>2, QuietTakes

\* Lines that say nothing, anywhere.
LEMMA SilentLines ==
  ASSUME NEW lines \in Seq(AnyLine), \A k \in 1..Len(lines) : WordsIn(lines[k]) = <<>>
  PROVE  WordsOfLines(lines) = <<>>
<1> DEFINE f == LineWords(lines)
<1>1. /\ f \in Seq(Seq(Nat)) /\ Len(f) = Len(lines) /\ WordsOfLines(lines) = FlattenSeq(f)
      /\ \A k \in 1..Len(lines) : f[k] = WordsIn(lines[k])
  BY LineWordsAre
<1> HIDE DEF f
<1>2. \A k \in 1..Len(f) : f[k] = <<>>
  BY <1>1
<1> QED BY <1>1, <1>2, FlattenNothing

\* The bare lines before the first text say nothing.
LEMMA QuoteListens ==
  ASSUME SaveInv, Listening, pass = "first", Quote
  PROVE  Listening'
<1>0. source \in Seq(AnyLine) /\ next \in Nat \ {0} /\ Len(source) \in Nat
  BY SeqIs DEF SaveInv, FirstParse
<1>1. PICK end, lead :
        /\ Parsing /\ IsQuote(Here)
        /\ Run(Quotes, next, Len(source), end)
        /\ Run(Bares, next, Len(source), lead)
        /\ Push(<<Block("quote", SubSeq(source, lead + 1, end))>>, end + 1)
  BY <1>0, QuoteIs
<1>2. /\ end \in (next - 1)..Len(source) /\ end \in Nat
      /\ lead \in (next - 1)..Len(source) /\ lead \in Nat
      /\ next \in 1..Len(source)
  BY <1>0, <1>1, HereIs DEF Run
<1>3. lead <= end /\ next <= end
  <2>1. end # next - 1
    BY <1>1, <1>2 DEF Run, Quotes, Here
  <2>2. ASSUME lead > end PROVE FALSE
    <3>1. end + 1 \in next..lead /\ end # Len(source) /\ end + 1 \in 1..Len(source)
      BY <1>2, <2>2
    <3>2. end + 1 \in Bares /\ end + 1 \notin Quotes
      BY <1>1, <3>1 DEF Run
    <3> QED BY <3>2 DEF Bares, Quotes, IsQuote
  <2> QED BY <1>2, <2>1, <2>2
<1> DEFINE bares == SubSeq(source, next, lead)
           text == SubSeq(source, lead + 1, end)
           lines == bares \o text
           b == Block("quote", text)
<1>4. /\ bares \in Seq(AnyLine) /\ Len(bares) = lead + 1 - next
      /\ \A i \in 1..(lead + 1 - next) : bares[i] = source[next - 1 + i]
  <2>1. next \in Nat /\ next # 0 /\ next <= lead + 1 /\ lead <= Len(source)
    BY <1>2
  <2> QED BY <1>0, <1>2, <2>1, StretchIs
<1>5. /\ text \in Seq(AnyLine) /\ Len(text) = end - lead
      /\ \A i \in 1..(end - lead) : text[i] = source[lead + i]
  <2> DEFINE p == lead + 1
  <2>1. p \in Nat /\ p # 0 /\ p <= end + 1 /\ end <= Len(source) /\ end + 1 - p = end - lead
        /\ \A i \in 1..(end - lead) : p - 1 + i = lead + i
    BY <1>2, <1>3
  <2> HIDE DEF p
  <2>2. /\ SubSeq(source, p, end) \in Seq(AnyLine) /\ Len(SubSeq(source, p, end)) = end + 1 - p
        /\ \A i \in 1..(end + 1 - p) : SubSeq(source, p, end)[i] = source[p - 1 + i]
    BY <1>0, <1>2, <2>1, StretchIs
  <2>3. text = SubSeq(source, p, end)
    BY DEF p
  <2> HIDE DEF text
  <2> QED BY <2>1, <2>2, <2>3
<1>6. b \in AnyBlock /\ b.lines = text
  BY <1>5, BlockIs DEF BlockKinds
<1>7. Push(<<b>>, end + 1)
  BY <1>1
<1> HIDE DEF bares, text, b
<1>8. /\ lines \in Seq(AnyLine) /\ Len(lines) = end + 1 - next
      /\ \A i \in 1..Len(lines) : lines[i] = source[next - 1 + i]
  <2>1. /\ lines \in Seq(AnyLine) /\ Len(lines) = Len(bares) + Len(text)
        /\ \A i \in 1..Len(bares) : lines[i] = bares[i]
        /\ \A i \in 1..Len(text) : lines[Len(bares) + i] = text[i]
    <3>1. bares \in Seq(AnyLine) /\ text \in Seq(AnyLine)
      BY <1>4, <1>5
    <3> QED BY <3>1, ConcatAt
  <2> HIDE DEF lines
  <2>2. Len(lines) = end + 1 - next
    BY <1>2, <1>4, <1>5, <2>1
  <2>3. \A i \in 1..Len(lines) : lines[i] = source[next - 1 + i]
    <3> TAKE i \in 1..Len(lines)
    <3>1. CASE i <= lead + 1 - next
      <4>1. i \in 1..(lead + 1 - next)
        BY <3>1, <1>2
      <4> QED BY <1>4, <2>1, <4>1
    <3>2. CASE ~(i <= lead + 1 - next)
      <4> DEFINE j == i - (lead + 1 - next)
      <4>1. j \in 1..(end - lead) /\ (lead + 1 - next) + j = i /\ lead + j = next - 1 + i
        BY <1>2, <1>3, <2>2, <3>2
      <4> HIDE DEF j
      <4>2. lines[(lead + 1 - next) + j] = text[j] /\ text[j] = source[lead + j]
        BY <1>4, <1>5, <2>1, <4>1
      <4> QED BY <4>1, <4>2
    <3> QED BY <3>1, <3>2
  <2> QED BY <2>1, <2>2, <2>3
<1>9. WordsOfLines(lines) = WordsOfLines(text)
  <2>1. \A k \in 1..Len(bares) : WordsIn(bares[k]) = <<>>
    <3> TAKE k \in 1..Len(bares)
    <3>1. k \in 1..(lead + 1 - next) /\ next - 1 + k \in next..lead
      BY <1>2, <1>4
    <3>2. next - 1 + k \in Bares
      BY <1>1, <3>1 DEF Run
    <3>3. bares[k].kind = "bare" /\ bares[k] \in AnyLine
      BY <1>4, <3>1, <3>2, ElementOfSeq DEF Bares
    <3> QED BY <3>3, WordsAre DEF Speaks
  <2>2. WordsOfLines(bares) = <<>>
    BY <1>4, <2>1, SilentLines
  <2>3. WordsOfLines(lines) = WordsOfLines(bares) \o WordsOfLines(text)
    BY <1>4, <1>5, WordsConcat
  <2>4. WordsOfLines(text) \in Seq(Nat)
    BY <1>5, LineWordsAre
  <2> HIDE DEF lines
  <2>5. <<>> \o WordsOfLines(text) = WordsOfLines(text)
    BY <2>4, ConcatEmptySeq
  <2> QED BY <2>2, <2>3, <2>5
<1> HIDE DEF lines
<1>10. \A k \in next..end : ~IsFence(source[k])
  <2> TAKE k \in next..end
  <2>1. k \in Quotes
    BY <1>1 DEF Run
  <2> QED BY <2>1 DEF Quotes, IsQuote, IsFence
<1>11. \A i \in 1..Len(lines) : WordsIn(source[next - 1 + i]) = WordsIn(lines[i])
  BY <1>8
<1>12. next <= Len(source) /\ end <= Len(source)
  BY <1>2
<1> QED BY <1>2, <1>3, <1>6, <1>7, <1>8, <1>9, <1>10, <1>11, <1>12, BlockTakes

\* An item says what its line says; dashes say nothing, as an item and as a rule.
LEMMA ItemSays ==
  ASSUME NEW l \in AnyLine, IsItem(l)
  PROVE  ItemOf(l) \in AnyLine /\ WordsIn(ItemOf(l)) = WordsIn(l) /\ ~IsFence(l)
<1>1. CASE IsRule(l)
  <2>1. ItemOf(l).kind = "hyphens" /\ l.kind \in {"dashes", "underscores"}
    BY <1>1 DEF ItemOf, Line, IsRule
  <2>2. ItemOf(l) \in AnyLine
    BY ItemIs
  <2>3. WordsIn(ItemOf(l)) = <<>> /\ WordsIn(l) = <<>>
    BY <2>1, <2>2, WordsAre DEF Speaks
  <2> QED BY <2>1, <2>2, <2>3 DEF IsFence
<1>2. CASE ~IsRule(l)
  BY <1>2, ItemIs DEF IsItem, IsFence
<1> QED BY <1>1, <1>2

\* The items say what their lines say.
LEMMA ListListens ==
  ASSUME SaveInv, Listening, pass = "first", List
  PROVE  Listening'
<1>0. source \in Seq(AnyLine) /\ next \in Nat \ {0} /\ Len(source) \in Nat
  BY SeqIs DEF SaveInv, FirstParse
<1>1. PICK end :
        /\ Parsing /\ IsItem(Here) /\ ~IsRule(Here)
        /\ Run(Items(Ordered(Here)), next, Len(source), end)
        /\ Push(<<Block("list", [k \in 1..(end + 1 - next) |-> ItemOf(source[next + k - 1])])>>, end + 1)
  BY <1>0, ListIs
<1> DEFINE n == end + 1 - next
           items == [k \in 1..n |-> ItemOf(source[next + k - 1])]
           b == Block("list", items)
<1>2. /\ end \in (next - 1)..Len(source) /\ end \in Nat /\ next \in 1..Len(source)
      /\ \A k \in 1..Len(source) : source[k] \in AnyLine
  BY <1>0, <1>1, HereIs, ElementOfSeq DEF Run
<1>3. next <= end
  BY <1>1, <1>2 DEF Run, Items, Here
<1>4. \A k \in next..end : source[k] \in AnyLine /\ IsItem(source[k])
  <2> TAKE k \in next..end
  <2>1. k \in Items(Ordered(Here)) /\ k \in 1..Len(source)
    BY <1>1, <1>2 DEF Run
  <2> QED BY <1>2, <2>1 DEF Items
<1>5. Push(<<b>>, end + 1) /\ n = end + 1 - next /\ n \in Nat
  BY <1>1, <1>2, <1>3
<1>6. items \in [1..n -> AnyLine]
  <2> HIDE DEF n
  <2>1. ASSUME NEW k \in 1..n PROVE ItemOf(source[next + k - 1]) \in AnyLine
    <3>1. next + k - 1 \in next..end
      BY <1>2, <1>5
    <3> QED BY <1>4, <3>1, ItemSays
  <2> QED BY <2>1
<1>7. \A k \in 1..n : items[k] = ItemOf(source[next + k - 1])
  OBVIOUS
<1> HIDE DEF n, items
<1>8. items \in Seq(AnyLine) /\ Len(items) = n
  BY <1>5, <1>6, FunctionIsSeq
<1>9. b \in AnyBlock /\ b.lines = items
  BY <1>8, BlockIs DEF BlockKinds
<1> HIDE DEF b
<1>10. \A i \in 1..Len(items) : WordsIn(source[next - 1 + i]) = WordsIn(items[i])
  <2> TAKE i \in 1..Len(items)
  <2>1. i \in 1..n /\ next - 1 + i \in next..end /\ next + i - 1 = next - 1 + i
    BY <1>2, <1>5, <1>8
  <2> QED BY <1>4, <1>7, <2>1, ItemSays
<1>11. \A k \in next..end : ~IsFence(source[k])
  BY <1>4, ItemSays
<1>12. next <= Len(source) /\ end <= Len(source)
  BY <1>2
<1> QED BY <1>2, <1>3, <1>5, <1>8, <1>9, <1>10, <1>11, <1>12, BlockTakes

\* A tag that reads as an image says its word ...
LEMMA TagSays ==
  ASSUME NEW l \in AnyLine, IsTag(l)
  PROVE  TagBlock(l) \in AnyBlock /\ WordsOfLines(TagBlock(l).lines) = WordsIn(l)
<1> DEFINE m == Line(IF l.kind = "tag" THEN "image" ELSE "bracketed", l.word)
<1>1. m \in AnyLine /\ m.kind \in {"image", "bracketed"} /\ m.word = l.word
  BY DEF Line, AnyLine, Own
<1>2. TagBlock(l) = Block("image", <<m>>)
  BY DEF TagBlock
<1> HIDE DEF m
<1>3. Block("image", <<m>>) \in AnyBlock /\ Block("image", <<m>>).lines = <<m>>
  BY <1>1, SingleIs, BlockIs DEF BlockKinds
<1>4. WordsIn(m) = <<l.word>>
  BY <1>1, WordsAre DEF Speaks
<1>5. WordsIn(l) = <<l.word>>
  BY WordsAre DEF IsTag, Speaks
<1>6. WordsOfLines(<<m>>) = WordsIn(m)
  BY <1>1, WordsOfOne
<1> QED BY <1>2, <1>3, <1>4, <1>5, <1>6

\* ... and so does a frame, garbled or not.
LEMMA FrameSays ==
  ASSUME NEW l \in AnyLine, IsFrame(l), l.word > 0, l.word <= 2 * MaxLines
  PROVE  FrameBlock(l) \in AnyBlock /\ WordsOfLines(FrameBlock(l).lines) = WordsIn(l)
<1> DEFINE m == IF l.kind = "foreign" THEN Line("foreign", Garbled(l.word)) ELSE l
<1>1. l.word \in Nat /\ MaxLines \in Nat /\ MaxWord \in Nat /\ l.kind \in {"frame", "foreign"}
  BY LinesAssumption DEF AnyLine, MaxWord, IsFrame
<1>2. WordsIn(l) = <<l.word>>
  BY <1>1, WordsAre DEF Speaks
<1>3. m \in AnyLine /\ WordsIn(m) = <<l.word>>
  <2>1. CASE l.kind = "foreign"
    <3>1. Garbled(l.word) \in Nat /\ Garbled(l.word) > MaxWord /\ Garbled(l.word) - MaxWord = l.word
      BY <1>1 DEF Garbled
    <3>2. m = Line("foreign", Garbled(l.word))
      BY <2>1
    <3> HIDE DEF m
    <3>3. m \in AnyLine /\ m.kind = "foreign" /\ m.word = Garbled(l.word)
      BY <3>1, <3>2 DEF Line, AnyLine, Own
    <3>4. WordsIn(m) = <<m.word - MaxWord>>
      BY <3>1, <3>3, WordsAre
    <3> QED BY <3>1, <3>3, <3>4
  <2>2. CASE l.kind # "foreign"
    BY <1>2, <2>2
  <2> QED BY <2>1, <2>2
<1>4. FrameBlock(l) = Block("video", <<m>>)
  BY DEF FrameBlock
<1> HIDE DEF m
<1>5. Block("video", <<m>>) \in AnyBlock /\ Block("video", <<m>>).lines = <<m>>
  BY <1>3, SingleIs, BlockIs DEF BlockKinds
<1>6. WordsOfLines(<<m>>) = WordsIn(m)
  BY <1>3, WordsOfOne
<1> QED BY <1>2, <1>3, <1>4, <1>5, <1>6

\* Lines of tags become images, one frame a video, and other lines are kept as they
\* are.
LEMMA ParagraphListens ==
  ASSUME SaveInv, Listening, pass = "first", Paragraph
  PROVE  Listening'
<1>0. source \in Seq(AnyLine) /\ next \in Nat \ {0} /\ Len(source) \in Nat
  BY SeqIs DEF SaveInv, FirstParse
<1>1. PICK end \in Nat :
        /\ Parsing /\ ImagesOf(Here) = <<>> /\ ~IsVideo(Here) /\ ~Stops(Here)
        /\ Run(Texts, next, Len(source), end) /\ next <= end /\ end <= Len(source)
        /\ SubSeq(source, next, end) \in Seq(AnyLine) /\ Len(SubSeq(source, next, end)) = end + 1 - next
        /\ \A i \in 1..(end + 1 - next) :
             SubSeq(source, next, end)[i] = source[next - 1 + i] /\ ~Stops(source[next - 1 + i])
        /\ Push(ParagraphBlocks(SubSeq(source, next, end)), end + 1)
  BY <1>0, ParagraphTextIs
<1> DEFINE text == SubSeq(source, next, end)
<1>2. /\ text \in Seq(AnyLine) /\ Len(text) = end + 1 - next
      /\ \A i \in 1..Len(text) : text[i] = source[next - 1 + i]
      /\ Push(ParagraphBlocks(text), end + 1)
  BY <1>1
<1> HIDE DEF text
<1>3. \A k \in next..end : ~IsFence(source[k])
  <2> TAKE k \in next..end
  <2>1. k \in Texts
    BY <1>1 DEF Run
  <2> QED BY <2>1 DEF Texts, Stops
<1>4. \A i \in 1..Len(text) : text[i] \in AnyLine /\ text[i].word > 0 /\ text[i].word <= 2 * MaxLines
  <2> TAKE i \in 1..Len(text)
  <2>1. next - 1 + i \in 1..Len(source)
    BY <1>0, <1>1, <1>2
  <2>2. text[i] = source[next - 1 + i] /\ text[i] \in AnyLine
    BY <1>2, ElementOfSeq
  <2> QED BY <2>1, <2>2 DEF Listening, SmallWords
<1>5. next <= Len(source) /\ \A i \in 1..Len(text) : WordsIn(source[next - 1 + i]) = WordsIn(text[i])
  BY <1>0, <1>1, <1>2
<1>6. Len(text) \in Nat /\ Len(text) > 0 /\ DOMAIN text = 1..Len(text)
  BY <1>0, <1>1, <1>2, SeqIs
<1>7. CASE \A k \in DOMAIN text : IsTag(text[k])
  <2> DEFINE new == [k \in DOMAIN text |-> TagBlock(text[k])]
  <2>1. ParagraphBlocks(text) = new
    <3>1. 1 \in DOMAIN text
      BY <1>6
    <3>2. ~IsFrame(text[1])
      BY <1>7, <3>1 DEF IsTag, IsFrame
    <3> QED BY <1>7, <3>2 DEF ParagraphBlocks
  <2>2. \A k \in 1..Len(text) : /\ TagBlock(text[k]) \in AnyBlock
                                /\ WordsOfLines(TagBlock(text[k]).lines) = WordsIn(text[k])
    <3> TAKE k \in 1..Len(text)
    <3>1. text[k] \in AnyLine /\ IsTag(text[k])
      BY <1>4, <1>6, <1>7
    <3> QED BY <3>1, TagSays
  <2>3. new \in [1..Len(text) -> AnyBlock] /\ \A k \in 1..Len(text) : new[k] = TagBlock(text[k])
    BY <1>6, <2>2
  <2> HIDE DEF new
  <2>4. new \in Seq(AnyBlock) /\ Len(new) = Len(text)
    BY <1>6, <2>3, FunctionIsSeq
  <2> DEFINE f == BlockWords(new)
             g == LineWords(text)
  <2>5. /\ f \in Seq(Seq(Nat)) /\ Len(f) = Len(text) /\ WordsOf(new) = FlattenSeq(f)
        /\ \A k \in 1..Len(text) : f[k] = WordsOfLines(new[k].lines)
    BY <2>4, BlockWordsAre
  <2>6. /\ g \in Seq(Seq(Nat)) /\ Len(g) = Len(text) /\ WordsOfLines(text) = FlattenSeq(g)
        /\ \A k \in 1..Len(text) : g[k] = WordsIn(text[k])
    BY <1>2, LineWordsAre
  <2> HIDE DEF f, g
  <2>7. \A k \in 1..Len(text) : f[k] = g[k]
    BY <2>2, <2>3, <2>5, <2>6
  <2>8. f = g
    BY <2>5, <2>6, <2>7, SeqEqual
  <2>9. WordsOf(new) = WordsOfLines(text)
    BY <2>5, <2>6, <2>8
  <2>10. Push(new, end + 1)
    BY <1>2, <2>1
  <2> QED BY <1>1, <1>2, <1>3, <1>5, <2>4, <2>9, <2>10, QuietTakes
<1>8. CASE (\E k \in DOMAIN text : ~IsTag(text[k])) /\ Len(text) = 1 /\ IsFrame(text[1])
  <2> DEFINE l == text[1]
             b == FrameBlock(l)
  <2>1. l \in AnyLine /\ IsFrame(l) /\ l.word > 0 /\ l.word <= 2 * MaxLines /\ text = <<l>>
    <3>1. 1 \in 1..Len(text)
      BY <1>8
    <3>2. l \in AnyLine /\ IsFrame(l) /\ l.word > 0 /\ l.word <= 2 * MaxLines
      BY <1>4, <1>8, <3>1
    <3>3. <<l>> \in Seq(AnyLine) /\ Len(<<l>>) = 1 /\ <<l>>[1] = l
      BY <3>2, SingleIs
    <3>4. \A i \in 1..Len(text) : text[i] = <<l>>[i]
      BY <1>8, <3>3
    <3>5. text = <<l>>
      BY <1>2, <1>8, <3>3, <3>4, SeqEqual
    <3> QED BY <3>2, <3>5
  <2>2. Push(<<b>>, end + 1)
    <3>1. ParagraphBlocks(text) = <<b>>
      BY <1>8 DEF ParagraphBlocks
    <3> QED BY <1>2, <3>1
  <2> HIDE DEF l
  <2>3. b \in AnyBlock /\ WordsOfLines(b.lines) = WordsIn(l)
    BY <2>1, FrameSays
  <2>4. WordsOfLines(text) = WordsIn(l)
    BY <2>1, WordsOfOne
  <2> HIDE DEF b
  <2>5. WordsOfLines(b.lines) = WordsOfLines(text)
    BY <2>3, <2>4
  <2> QED BY <1>1, <1>2, <1>3, <1>5, <2>2, <2>3, <2>5, BlockTakes
<1>9. CASE (\E k \in DOMAIN text : ~IsTag(text[k])) /\ ~(Len(text) = 1 /\ IsFrame(text[1]))
  <2> DEFINE b == Block("paragraph", text)
  <2>1. ParagraphBlocks(text) = <<b>>
    BY <1>9 DEF ParagraphBlocks
  <2>2. b \in AnyBlock /\ b.lines = text
    BY <1>2, BlockIs DEF BlockKinds
  <2> HIDE DEF b
  <2>3. Push(<<b>>, end + 1) /\ WordsOfLines(b.lines) = WordsOfLines(text)
    BY <1>2, <2>1, <2>2
  <2> QED BY <1>1, <1>2, <1>3, <1>5, <2>2, <2>3, BlockTakes
<1> QED BY <1>7, <1>8, <1>9

\* What follows an open fence is code, up to the next fence or the end.
LEMMA CodeListens ==
  ASSUME SaveInv, Listening, pass = "first", Code
  PROVE  Listening'
<1>0. source \in Seq(AnyLine) /\ next \in Nat \ {0} /\ Len(source) \in Nat
  BY SeqIs DEF SaveInv, FirstParse
<1>1. PICK end : LET code == SubSeq(source, next + 1, end) IN
        /\ Parsing /\ IsFence(Here)
        /\ Run(NoFences, next + 1, Len(source), end)
        /\ Push(<<Block("code", <<Here>> \o IF IsEmptyText(code) THEN <<>> ELSE code)>>, end + 2)
  BY <1>0, CodeIs
<1> DEFINE code == SubSeq(source, next + 1, end)
           rest == IF IsEmptyText(code) THEN <<>> ELSE code
           kept == <<Here>> \o rest
           whole == <<Here>> \o code
           b == Block("code", kept)
<1>2. /\ end \in next..Len(source) /\ end \in Nat /\ Here \in AnyLine /\ next \in 1..Len(source)
      /\ next <= Len(source)
  BY <1>0, <1>1, HereIs DEF Run
<1>3. /\ code \in Seq(AnyLine) /\ Len(code) = end - next
      /\ \A i \in 1..(end - next) : code[i] = source[next + i]
  <2> DEFINE p == next + 1
  <2>1. p \in Nat /\ p # 0 /\ p <= end + 1 /\ end <= Len(source) /\ end + 1 - p = end - next
        /\ \A i \in 1..(end - next) : p - 1 + i = next + i
    BY <1>2
  <2> HIDE DEF p
  <2>2. /\ SubSeq(source, p, end) \in Seq(AnyLine) /\ Len(SubSeq(source, p, end)) = end + 1 - p
        /\ \A i \in 1..(end + 1 - p) : SubSeq(source, p, end)[i] = source[p - 1 + i]
    BY <1>0, <1>2, <2>1, StretchIs
  <2>3. code = SubSeq(source, p, end)
    BY DEF p
  <2> HIDE DEF code
  <2> QED BY <2>1, <2>2, <2>3
<1>4. Push(<<b>>, end + 2)
  BY <1>1
<1> HIDE DEF code
<1>5. rest \in Seq(AnyLine) /\ WordsOfLines(rest) = WordsOfLines(code)
  <2>1. CASE IsEmptyText(code)
    <3>1. rest = <<>> /\ Len(code) = 1 /\ IsBlank(code[1])
      BY <2>1 DEF IsEmptyText
    <3>2. code[1] \in AnyLine
      BY <1>3, <3>1, ElementOfSeq
    <3>3. WordsIn(code[1]) = <<>>
      BY <3>1, <3>2, WordsAre DEF IsBlank, Speaks
    <3>4. \A k \in 1..Len(code) : WordsIn(code[k]) = <<>>
      BY <3>1, <3>3
    <3>5. WordsOfLines(code) = <<>>
      BY <1>3, <3>4, SilentLines
    <3> QED BY <1>2, <3>1, <3>5, WordsOfOne, EmptySeq
  <2>2. CASE ~IsEmptyText(code)
    BY <1>3, <2>2
  <2> QED BY <2>1, <2>2
<1> HIDE DEF rest
<1>6. <<Here>> \in Seq(AnyLine)
  BY <1>2, SingleIs
<1>7. kept \in Seq(AnyLine) /\ WordsOfLines(kept) = WordsOfLines(whole)
  <2>1. kept \in Seq(AnyLine)
    BY <1>2, <1>5, FirstAndRest
  <2>2. WordsOfLines(kept) = WordsOfLines(<<Here>>) \o WordsOfLines(rest)
    BY <1>5, <1>6, WordsConcat
  <2>3. WordsOfLines(whole) = WordsOfLines(<<Here>>) \o WordsOfLines(code)
    BY <1>3, <1>6, WordsConcat
  <2> HIDE DEF kept, whole
  <2> QED BY <1>5, <2>1, <2>2, <2>3
<1>8. /\ whole \in Seq(AnyLine) /\ Len(whole) = end + 1 - next /\ whole[1] = Here
      /\ \A i \in 2..(end + 1 - next) : whole[i] = source[next - 1 + i]
  <2>1. /\ whole \in Seq(AnyLine) /\ Len(whole) = Len(code) + 1 /\ whole[1] = Here
        /\ \A i \in 2..(Len(code) + 1) : whole[i] = code[i - 1]
    BY <1>2, <1>3, FirstAndRest
  <2> HIDE DEF whole
  <2>2. \A i \in 2..(end + 1 - next) : whole[i] = source[next - 1 + i]
    <3> TAKE i \in 2..(end + 1 - next)
    <3>1. i - 1 \in 1..(end - next) /\ i \in 2..(Len(code) + 1) /\ next + (i - 1) = next - 1 + i
      BY <1>2, <1>3
    <3>2. whole[i] = code[i - 1]
      BY <2>1, <3>1
    <3>3. code[i - 1] = source[next + (i - 1)]
      BY <1>3, <3>1
    <3> QED BY <3>1, <3>2, <3>3
  <2>3. Len(whole) = end + 1 - next
    BY <1>2, <1>3, <2>1
  <2> QED BY <2>1, <2>2, <2>3
<1> HIDE DEF kept, whole
<1>9. b \in AnyBlock /\ b.lines = kept
  BY <1>7, BlockIs DEF BlockKinds
<1> HIDE DEF b
<1>10. <<b>> \in Seq(AnyBlock) /\ WordsOf(<<b>>) = WordsOfLines(whole)
  <2>1. WordsOf(<<b>>) = WordsOfLines(b.lines)
    BY <1>9, WordsOfBlock
  <2> QED BY <1>7, <1>9, <2>1
<1>11. ~IsClosing(next) /\ SaidAt(next) = WordsIn(Here)
  <2> DEFINE m == next - 1
  <2>1. m \in Nat /\ m + 1 = next /\ m <= Len(source)
    BY <1>2
  <2>2. IsClosing(m)
    BY <2>1 DEF Listening
  <2> HIDE DEF m
  <2>3. IsFence(source[m + 1])
    BY <1>1, <2>1 DEF Here
  <2>4. ~IsClosing(m + 1) /\ SaidAt(m + 1) = WordsIn(source[m + 1])
    BY <2>1, <2>2, <2>3, FenceTurns
  <2> QED BY <2>1, <2>4 DEF Here
<1>12. ~IsClosing(end) /\ \A k \in (next + 1)..end : SaidAt(k) = WordsIn(source[k])
  <2>1. \A k \in (next + 1)..end : ~IsFence(source[k])
    <3> TAKE k \in (next + 1)..end
    <3>1. k \in NoFences
      BY <1>1 DEF Run
    <3> QED BY <3>1 DEF NoFences
  <2>2. next \in Nat /\ next <= end
    BY <1>2
  <2>3. /\ IsClosing(end) <=> IsClosing(next)
        /\ \A k \in (next + 1)..end : SaidAt(k) = WordsIn(source[k])
    BY <1>2, <2>1, <2>2, QuietLines
  <2> QED BY <1>11, <2>3
<1>13. SaidIn(next, end) = WordsOfLines(whole)
  <2>1. next \in Nat /\ next # 0 /\ next <= end + 1 /\ end <= Len(source)
    BY <1>2
  <2>2. \A i \in 1..Len(whole) : SaidAt(next - 1 + i) = WordsIn(whole[i])
    <3> TAKE i \in 1..Len(whole)
    <3>1. CASE i = 1
      <4>1. next - 1 + i = next
        BY <2>1, <3>1
      <4> QED BY <1>8, <1>11, <3>1, <4>1
    <3>2. CASE i # 1
      <4>1. i \in 2..(end + 1 - next) /\ next - 1 + i \in (next + 1)..end
        BY <1>2, <1>8, <3>2
      <4> QED BY <1>8, <1>12, <4>1
    <3> QED BY <3>1, <3>2
  <2> QED BY <1>0, <1>2, <1>8, <2>1, <2>2, SaidByLines
<1>14. CASE end = Len(source)
  <2>1. Push(<<b>>, Len(source) + 2) /\ WordsOf(<<b>>) = SaidIn(next, Len(source))
    BY <1>4, <1>10, <1>13, <1>14
  <2> QED BY <1>2, <1>10, <2>1, TakesAll
<1>15. CASE end # Len(source)
  <2> DEFINE q == end + 1
  <2>1. q \in Nat /\ next <= q /\ q <= Len(source) /\ q \in 1..Len(source) /\ end + 2 = q + 1 /\ end <= q
        /\ next <= end + 1 /\ next \in Nat /\ next # 0 /\ q # 0 /\ q <= q + 1
    BY <1>2, <1>15
  <2>2. IsFence(source[end + 1])
    <3>1. end + 1 \notin NoFences
      BY <1>1, <1>15 DEF Run
    <3> QED BY <2>1, <3>1 DEF NoFences
  <2>3. IsClosing(q) /\ SaidAt(q) = <<>>
    BY <1>2, <1>12, <2>2, FenceTurns
  <2>4. SaidIn(next, q) = SaidIn(next, end) \o SaidIn(q, q)
    <3> HIDE DEF q
    <3>1. /\ source \in Seq(AnyLine) /\ next \in Nat /\ next # 0 /\ end \in Nat /\ q \in Nat
          /\ next <= end + 1 /\ end <= q /\ q <= Len(source)
      BY <1>0, <1>2, <2>1
    <3>2. SaidIn(next, q) = SaidIn(next, end) \o SaidIn(end + 1, q)
      BY <3>1, SaidSplits
    <3> QED BY <3>2 DEF q
  <2>5. Push(<<b>>, q + 1)
    BY <1>4, <2>1
  <2> HIDE DEF q
  <2>6. \A k \in q..q : SaidAt(k) = <<>>
    BY <2>1, <2>3
  <2>7. SaidIn(q, q) = <<>>
    BY <1>0, <2>1, <2>6, SaidNothing
  <2>8. SaidIn(next, q) = WordsOfLines(whole)
    <3>1. WordsOfLines(whole) \in Seq(Nat)
      BY <1>8, LineWordsAre
    <3>2. WordsOfLines(whole) \o <<>> = WordsOfLines(whole)
      BY <3>1, ConcatEmptySeq
    <3> QED BY <1>13, <2>4, <2>7, <3>2
  <2>9. WordsOf(<<b>>) = SaidIn(next, q)
    BY <1>10, <2>8
  <2> QED BY <1>2, <1>10, <2>1, <2>3, <2>5, <2>9, Takes
<1> QED BY <1>14, <1>15

\* Listening holds at first ...
LEMMA InitListens == ParserInit => Listening
<1> SUFFICES ASSUME ParserInit PROVE Listening
  OBVIOUS
<1>1. source \in Seq(AnyLine) /\ next = 1 /\ blocks = <<>> /\ Len(source) \in Nat
  BY InitIsSaveInv, SeqIs DEF SaveInv, FirstParse, ParserInit
<1>2. SmallWords
  <2>1. PICK n \in 0..MaxLines : \E kinds \in [1..n -> Kinds] : source = [k \in 1..n |-> Line(kinds[k], 2 * k)]
    BY DEF ParserInit
  <2>2. PICK kinds \in [1..n -> Kinds] : source = [k \in 1..n |-> Line(kinds[k], 2 * k)]
    BY <2>1
  <2>3. MaxLines \in Nat /\ n \in Nat /\ n <= MaxLines /\ DOMAIN source = 1..n
    BY <2>2, LinesAssumption
  <2>4. DOMAIN source = 1..Len(source)
    BY <1>1, SeqIs
  <2>5. ASSUME NEW k \in 1..Len(source) PROVE source[k].word > 0 /\ source[k].word <= 2 * MaxLines
    <3>1. k \in 1..n
      BY <2>3, <2>4
    <3>2. source[k].word = 2 * k
      BY <2>2, <3>1 DEF Line
    <3> QED BY <2>3, <3>1, <3>2
  <2> QED BY <2>5 DEF SmallWords
<1>3. WordsOf(blocks) = <<>>
  <2>1. Block("divider", <<>>) \in AnyBlock
    <3>1. <<>> \in Seq(AnyLine)
      OBVIOUS
    <3> QED BY <3>1, BlockIs DEF BlockKinds
  <2> QED BY <1>1, <2>1, WordsOfBlock
<1>4. next - 1 = 0 /\ next - 1 <= Len(source)
  BY <1>1
<1>5. SaidIn(1, 0) = <<>>
  <2> DEFINE p == 1
             q == 0
  <2>1. p \in Nat /\ p # 0 /\ q \in Nat /\ p <= q + 1 /\ q <= Len(source) /\ \A k \in p..q : SaidAt(k) = <<>>
    BY <1>1
  <2> HIDE DEF p, q
  <2>2. SaidIn(p, q) = <<>>
    BY <1>1, <2>1, SaidNothing
  <2> QED BY <2>2 DEF p, q
<1>6. IsClosing(0)
  <2>1. Fences(0) = {} /\ Cardinality({}) = 0 /\ 0 \in Nat
    BY FS_EmptySet DEF Fences
  <2>2. Cardinality(Fences(0)) % 2 = 0
    BY <2>1
  <2> QED BY <2>1, <2>2, FencesAre
<1>7. ~(next - 1 > Len(source))
  BY <1>1
<1> QED BY <1>2, <1>3, <1>4, <1>5, <1>6, <1>7 DEF Listening

\* ... and no step violates it.
LEMMA NextListens ==
  ASSUME SaveInv, Listening, [ParserNext]_parserVars
  PROVE  Listening'
<1>1. CASE ParseStep /\ pass = "first"
  BY <1>1, LinesListen, CodeListens, QuoteListens, ListListens, ParagraphListens DEF ParseStep
<1>2. CASE ParseStep /\ pass # "first"
  <2>1. pass' = pass
    BY <1>2 DEF ParseStep, Push, BlankLine, VideoLine, Code, Heading, Quote, Divider, Images, List, Paragraph
  <2> QED BY <1>2, <2>1 DEF Listening
<1>3. CASE Save
  <2>1. pass' = "second"
    BY <1>3 DEF Save
  <2> QED BY <2>1 DEF Listening
<1>4. CASE Finish
  <2>1. pass' = "done"
    BY <1>4 DEF Finish
  <2> QED BY <2>1 DEF Listening
<1>5. CASE UNCHANGED parserVars
  BY <1>5 DEF parserVars, Listening, SmallWords, SaidIn, Spoken, SaidAt, IsClosing, Said
<1> QED BY <1>1, <1>2, <1>3, <1>4, <1>5 DEF ParserNext, ParseStep

\* No save drops a line, doubles one or moves one: what the parser pushed says, word
\* for word and in order, what the lines of the article say (parse_markdown).
THEOREM NothingIsEverDropped == ParserSpec => []NothingIsDropped
<1>1. SaveInv /\ Listening => NothingIsDropped
  <2> SUFFICES ASSUME SaveInv, Listening, pass = "first", next > Len(source) PROVE WordsOf(blocks) = Said
    BY DEF NothingIsDropped
  <2>1. source \in Seq(AnyLine) /\ next \in Nat \ {0} /\ Len(source) \in Nat
    BY SeqIs DEF SaveInv, FirstParse
  <2>2. CASE next - 1 > Len(source)
    BY <2>2 DEF Listening
  <2>3. CASE ~(next - 1 > Len(source))
    <3>1. next - 1 = Len(source) /\ next - 1 <= Len(source)
      BY <2>1, <2>3
    <3>2. WordsOf(blocks) = SaidIn(1, Len(source))
      BY <3>1 DEF Listening
    <3> QED BY <2>1, <3>2, SaidIsAll
  <2> QED BY <2>2, <2>3
<1>2. ParserInit => SaveInv /\ Listening
  BY InitIsSaveInv, InitListens
<1>3. SaveInv /\ Listening /\ [ParserNext]_parserVars => SaveInv' /\ Listening'
  BY NextKeepsSaveInv, NextListens
<1> QED BY <1>1, <1>2, <1>3, PTL DEF ParserSpec
=============================================================================
