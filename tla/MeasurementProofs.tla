------------------------- MODULE MeasurementProofs -------------------------
(***************************************************************************)
(* Proofs about Measurement and the engine in it, for every number of      *)
(* visitors and variants, every assignment, and any number of events.      *)
(*                                                                         *)
(* What a decision read is compared with the table twice: the task keeps   *)
(* counts that are at most those of the table, since rows are only added,  *)
(* and the row of the decision keeps the counts of its task.  What the     *)
(* engine makes of the counts matters only for the verdict: that it is one *)
(* the life cycle of experiments allows for rests on every probability     *)
(* being a number, so that there is a best variant.                        *)
(***************************************************************************)
EXTENDS Measurement, FiniteSetTheorems, WellFoundedInduction, TLAPS

-----------------------------------------------------------------------------
(***************************************************************************)
(* Recursion over what has a rank, from the least one that fails.  A number *)
(* ranks by itself, a finite set by its size.                              *)
(***************************************************************************)

\* A set of natural numbers that is not empty has a least one.
LEMMA Least ==
  ASSUME NEW T, T \subseteq Nat, T # {}
  PROVE  \E m \in T : \A n \in T : m <= n
<1> DEFINE R == OpToRel(<, Nat)
<1>1. IsWellFoundedOn(R, Nat)
  BY NatLessThanWellFounded
<1>2. \A x, y \in Nat : y < x => <<y, x>> \in R
  BY DEF OpToRel
<1> HIDE DEF R
<1>3. PICK x \in T : \A y \in T : ~(<<y, x>> \in R)
  BY <1>1, WFMin
<1>4. ASSUME NEW n \in T PROVE x <= n
  <2>1. x \in Nat /\ n \in Nat
    OBVIOUS
  <2>2. ~(n < x)
    BY <1>2, <1>3, <2>1
  <2> QED BY <2>1, <2>2
<1> QED BY <1>4

\* A function that solves a recursion for all that rank below k.
Solves(H, r, D, f, k) == \A x \in D : r[x] < k => f[x] = H[<<x, f>>]

\* H looks only at what ranks lower.
LooksLower(H, r, D, F) ==
  \A x \in D : \A f, g \in F :
    (\A y \in D : r[y] < r[x] => f[y] = g[y]) => H[<<x, f>>] = H[<<x, g>>]

Recursive(H, D, f) == \A x \in D : f[x] = H[<<x, f>>]

\* A recursion that looks lower has a solution.
LEMMA SolutionExists ==
  ASSUME NEW D, NEW r, r \in [D -> Nat], NEW V, V # {}, NEW F, F = [D -> V],
         NEW H, H \in [D \X F -> V], LooksLower(H, r, D, F)
  PROVE  \E f \in F : Recursive(H, D, f)
<1> DEFINE Good(k) == \E f \in F : Solves(H, r, D, f, k)
           Bad == {k \in Nat : ~Good(k)}
<1>1. Good(0)
  <2> PICK v \in V : TRUE
    OBVIOUS
  <2> DEFINE f == [x \in D |-> v]
  <2>1. f \in F /\ \A x \in D : ~(r[x] < 0)
    OBVIOUS
  <2> QED BY <2>1 DEF Solves
<1>2. ASSUME NEW k \in Nat, Good(k) PROVE Good(k + 1)
  <2>1. PICK f \in F : Solves(H, r, D, f, k)
    BY <1>2
  <2> DEFINE g == [x \in D |-> H[<<x, f>>]]
  <2>2. g \in F /\ \A x \in D : g[x] = H[<<x, f>>]
    OBVIOUS
  <2> HIDE DEF g
  <2>3. ASSUME NEW x \in D, r[x] < k + 1 PROVE g[x] = H[<<x, g>>]
    <3>1. ASSUME NEW y \in D, r[y] < r[x] PROVE f[y] = g[y]
      <4>1. r[x] \in Nat /\ r[y] \in Nat
        OBVIOUS
      <4>2. r[y] < k
        BY <2>3, <3>1, <4>1
      <4> QED BY <2>1, <2>2, <4>2 DEF Solves
    <3>2. H[<<x, f>>] = H[<<x, g>>]
      BY <2>2, <3>1 DEF LooksLower
    <3> QED BY <2>2, <3>2
  <2> QED BY <2>2, <2>3 DEF Solves
<1> HIDE DEF Good
<1>3. Bad = {}
  <2> SUFFICES ASSUME Bad # {} PROVE FALSE
    OBVIOUS
  <2>1. PICK k \in Bad : \A m \in Bad : k <= m
    BY Least
  <2>2. k \in Nat /\ k # 0 /\ ~Good(k)
    BY <1>1
  <2>3. k - 1 \in Nat /\ k - 1 \notin Bad
    BY <2>1, <2>2
  <2>4. Good(k - 1) /\ (k - 1) + 1 = k
    BY <2>2, <2>3
  <2>5. Good((k - 1) + 1)
    BY <1>2, <2>3, <2>4
  <2> QED BY <2>2, <2>4, <2>5
\* Any two of them agree where both are solutions.
<1>4. ASSUME NEW k \in Nat, NEW m \in Nat, NEW f \in F, NEW g \in F,
             Solves(H, r, D, f, k), Solves(H, r, D, g, m),
             NEW z \in D, r[z] < k, r[z] < m
      PROVE  f[z] = g[z]
  <2> DEFINE C == {x \in D : r[x] < k /\ r[x] < m /\ f[x] # g[x]}
             R == {r[x] : x \in C}
  <2> SUFFICES ASSUME C # {} PROVE FALSE
    BY <1>4
  <2>1. PICK n \in R : \A o \in R : n <= o
    <3>1. R \subseteq Nat /\ R # {}
      OBVIOUS
    <3> HIDE DEF R
    <3> QED BY <3>1, Least
  <2>2. PICK x \in C : n = r[x]
    OBVIOUS
  <2>3. ASSUME NEW y \in D, r[y] < r[x] PROVE f[y] = g[y]
    <3>1. r[y] \in Nat /\ r[x] \in Nat /\ r[x] < k /\ r[x] < m
      OBVIOUS
    <3>2. r[y] < k /\ r[y] < m
      BY <2>3, <3>1
    <3>3. r[y] \notin R
      <4> HIDE DEF R
      <4> QED BY <2>1, <2>2, <2>3, <3>1
    <3> QED BY <3>2, <3>3
  <2>4. H[<<x, f>>] = H[<<x, g>>]
    BY <2>3 DEF LooksLower
  <2>5. f[x] = H[<<x, f>>] /\ g[x] = H[<<x, g>>]
    BY <1>4 DEF Solves
  <2> QED BY <2>4, <2>5
<1> DEFINE near == [k \in Nat |-> CHOOSE f \in F : Solves(H, r, D, f, k)]
           h == [x \in D |-> near[r[x] + 1][x]]
<1>5. \A k \in Nat : near[k] \in F /\ Solves(H, r, D, near[k], k)
  BY <1>3 DEF Good
<1>6. \A x \in D : r[x] + 1 \in Nat
  OBVIOUS
<1>7. h \in F /\ \A x \in D : h[x] = near[r[x] + 1][x]
  <2> HIDE DEF near
  <2> QED BY <1>5, <1>6
<1> HIDE DEF near, h
<1>8. ASSUME NEW x \in D PROVE h[x] = H[<<x, h>>]
  <2> DEFINE g == near[r[x] + 1]
  <2>1. g \in F /\ Solves(H, r, D, g, r[x] + 1) /\ r[x] \in Nat
    BY <1>5, <1>6
  <2>2. ASSUME NEW y \in D, r[y] < r[x] PROVE h[y] = g[y]
    <3>1. r[y] \in Nat /\ r[y] < r[y] + 1 /\ r[y] < r[x] + 1
      BY <2>1, <2>2
    <3>2. near[r[y] + 1] \in F /\ Solves(H, r, D, near[r[y] + 1], r[y] + 1)
      BY <1>5, <1>6
    <3> DEFINE f == near[r[y] + 1]
    <3>3. f \in F /\ Solves(H, r, D, f, r[y] + 1)
      BY <3>2
    <3> HIDE DEF f, g
    <3> DEFINE k == r[y] + 1
               m == r[x] + 1
    <3>4. /\ k \in Nat /\ m \in Nat /\ r[y] < k /\ r[y] < m
          /\ g \in F /\ Solves(H, r, D, f, k) /\ Solves(H, r, D, g, m)
      BY <1>6, <2>1, <3>1, <3>3
    <3> HIDE DEF k, m
    <3>5. f[y] = g[y]
      BY <1>4, <3>3, <3>4
    <3> QED BY <1>7, <3>5 DEF f
  <2>3. r[x] < r[x] + 1
    BY <2>1
  <2>4. h[x] = g[x] /\ g[x] = H[<<x, g>>]
    BY <1>7, <2>1, <2>3 DEF Solves
  <2> HIDE DEF g
  <2>5. H[<<x, h>>] = H[<<x, g>>]
    BY <1>7, <2>1, <2>2 DEF LooksLower
  <2> QED BY <2>4, <2>5
<1> QED BY <1>7, <1>8 DEF Recursive

-----------------------------------------------------------------------------
(***************************************************************************)
(* The probabilities of the engine are numbers: the binomial coefficients  *)
(* are positive, so nothing is divided by nothing, and finite sums of      *)
(* numbers are numbers, as is the common denominator.                      *)
(***************************************************************************)

\* What is computed from the number before, and from 1 at 0, is computed for every number.
LEMMA IterateExists ==
  ASSUME NEW op, op \in [Nat \X Nat -> Nat]
  PROVE  \E f \in [Nat -> Nat] : f = [n \in Nat |-> IF n = 0 THEN 1 ELSE op[<<n, f[n - 1]>>]]
<1> DEFINE F == [Nat -> Nat]
           Fill(n, f) == IF n = 0 THEN 1 ELSE op[<<n, f[n - 1]>>]
           H == [z \in Nat \X F |-> Fill(z[1], z[2])]
           r == [n \in Nat |-> n]
<1>1. \A n \in Nat : \A f \in F : Fill(n, f) \in Nat
  <2> TAKE n \in Nat
  <2> TAKE f \in F
  <2>1. CASE n = 0
    BY <2>1
  <2>2. CASE n # 0
    <3>1. n - 1 \in Nat /\ f[n - 1] \in Nat
      BY <2>2
    <3> QED BY <2>2, <3>1
  <2> QED BY <2>1, <2>2
<1> HIDE DEF Fill
<1>2. H \in [Nat \X F -> Nat] /\ \A n \in Nat : \A f \in F : H[<<n, f>>] = Fill(n, f)
  BY <1>1
<1>3. r \in [Nat -> Nat] /\ \A n \in Nat : r[n] = n
  OBVIOUS
<1> HIDE DEF H, r
<1>4. LooksLower(H, r, Nat, F)
  <2> SUFFICES ASSUME NEW n \in Nat, NEW f \in F, NEW g \in F,
                      \A m \in Nat : r[m] < r[n] => f[m] = g[m]
               PROVE  H[<<n, f>>] = H[<<n, g>>]
    BY DEF LooksLower
  <2>1. n # 0 => n - 1 \in Nat /\ n - 1 < n
    OBVIOUS
  <2>2. n # 0 => f[n - 1] = g[n - 1]
    BY <1>3, <2>1
  <2>3. Fill(n, f) = Fill(n, g)
    BY <2>2 DEF Fill
  <2> QED BY <1>2, <2>3
<1>5. PICK f \in F : Recursive(H, Nat, f)
  <2> DEFINE G == F
  <2>1. G = [Nat -> Nat] /\ Nat # {}
    OBVIOUS
  <2> HIDE DEF G
  <2>2. \E f \in G : Recursive(H, Nat, f)
    BY <1>2, <1>3, <1>4, <2>1, SolutionExists
  <2> QED BY <2>2 DEF G
<1>6. \A n \in Nat : f[n] = IF n = 0 THEN 1 ELSE op[<<n, f[n - 1]>>]
  BY <1>2, <1>5 DEF Recursive, Fill
<1>7. f = [n \in Nat |-> IF n = 0 THEN 1 ELSE op[<<n, f[n - 1]>>]]
  BY <1>5, <1>6
<1> QED BY <1>5, <1>7

LEMMA FactorialIs ==
  /\ factorial[0] = 1
  /\ \A n \in Nat : factorial[n] \in Nat /\ factorial[n] >= 1 /\ factorial[n + 1] = (n + 1) * factorial[n]
<1> DEFINE op == [z \in Nat \X Nat |-> z[1] * z[2]]
<1>1. \A a, b \in Nat : a * b \in Nat
  OBVIOUS
<1>2. op \in [Nat \X Nat -> Nat] /\ \A a, b \in Nat : op[<<a, b>>] = a * b
  BY <1>1
<1> HIDE DEF op
<1>3. PICK f \in [Nat -> Nat] : f = [n \in Nat |-> IF n = 0 THEN 1 ELSE n * f[n - 1]]
  <2>1. PICK f \in [Nat -> Nat] : f = [n \in Nat |-> IF n = 0 THEN 1 ELSE op[<<n, f[n - 1]>>]]
    BY <1>2, IterateExists
  <2> DEFINE A(n) == IF n = 0 THEN 1 ELSE op[<<n, f[n - 1]>>]
             B(n) == IF n = 0 THEN 1 ELSE n * f[n - 1]
  <2>2. ASSUME NEW n \in Nat PROVE A(n) = B(n)
    <3>1. n # 0 => n - 1 \in Nat /\ f[n - 1] \in Nat
      BY <2>1
    <3> QED BY <1>2, <3>1
  <2> HIDE DEF A, B
  <2>3. [n \in Nat |-> A(n)] = [n \in Nat |-> B(n)]
    BY <2>2
  <2>4. f = [n \in Nat |-> B(n)]
    <3>1. f = [n \in Nat |-> A(n)]
      BY <2>1, Zenon DEF A
    <3> QED BY <2>3, <3>1, Zenon
  <2> QED BY <2>1, <2>4, Zenon DEF B
<1>4. factorial = [n \in Nat |-> IF n = 0 THEN 1 ELSE n * factorial[n - 1]]
  <2>1. factorial = CHOOSE g : g = [n \in Nat |-> IF n = 0 THEN 1 ELSE n * g[n - 1]]
    BY DEF factorial
  <2> QED BY <1>3, <2>1, Zenon
<1>5. factorial[0] = 1 /\ \A n \in Nat : factorial[n + 1] = (n + 1) * factorial[n]
  <2> DEFINE g == factorial
  <2>1. g = [n \in Nat |-> IF n = 0 THEN 1 ELSE n * g[n - 1]]
    BY <1>4
  <2> HIDE DEF g
  <2>2. \A n \in Nat : n + 1 \in Nat /\ n + 1 # 0 /\ (n + 1) - 1 = n
    OBVIOUS
  <2>3. g[0] = 1 /\ \A n \in Nat : g[n + 1] = (n + 1) * g[n]
    BY <2>1, <2>2
  <2> QED BY <2>3 DEF g
<1>6. \A n \in Nat : factorial[n] \in Nat /\ factorial[n] >= 1
  <2> DEFINE Bad == {n \in Nat : ~(factorial[n] \in Nat /\ factorial[n] >= 1)}
  <2> SUFFICES ASSUME Bad # {} PROVE FALSE
    OBVIOUS
  <2>1. PICK n \in Bad : \A m \in Bad : n <= m
    <3>1. Bad \subseteq Nat
      OBVIOUS
    <3> HIDE DEF Bad
    <3> QED BY <3>1, Least
  <2>2. n # 0
    BY <1>5
  <2>3. n - 1 \in Nat /\ n - 1 \notin Bad /\ (n - 1) + 1 = n
    BY <2>1, <2>2
  <2>4. factorial[n - 1] \in Nat /\ factorial[n - 1] >= 1
    BY <2>3
  <2>5. factorial[n] = n * factorial[n - 1]
    BY <1>5, <2>3
  <2>6. \A a, b \in Nat : a >= 1 /\ b >= 1 => a * b \in Nat /\ a * b >= 1
    OBVIOUS
  <2>7. n \in Nat /\ n >= 1
    BY <2>2
  <2> QED BY <2>4, <2>5, <2>6, <2>7
<1> QED BY <1>5, <1>6

\* A binomial coefficient is a positive number: a!b! is at most (a + b)!.
LEMMA ChooseIsPositive ==
  ASSUME NEW n \in Nat, NEW k \in 0..n
  PROVE  choose(n, k) \in Nat /\ choose(n, k) >= 1
<1> DEFINE f(m) == factorial[m]
           Bad == {m \in Nat : ~(f(k) * f(m) <= f(k + m))}
<1>1. \A m \in Nat : f(m) \in Nat /\ f(m) >= 1 /\ f(m + 1) = (m + 1) * f(m)
  BY FactorialIs
<1>2. f(0) = 1
  BY FactorialIs
<1> HIDE DEF f
<1>3. Bad = {}
  <2> SUFFICES ASSUME Bad # {} PROVE FALSE
    OBVIOUS
  <2>1. PICK m \in Bad : \A o \in Bad : m <= o
    <3>1. Bad \subseteq Nat
      OBVIOUS
    <3> HIDE DEF Bad
    <3> QED BY <3>1, Least
  <2>2. m # 0
    BY <1>1, <1>2
  <2>3. m - 1 \in Nat /\ m - 1 \notin Bad /\ (m - 1) + 1 = m /\ k + (m - 1) \in Nat
        /\ (k + (m - 1)) + 1 = k + m
    BY <2>1, <2>2
  <2>4. f(k) * f(m - 1) <= f(k + (m - 1))
    BY <2>3
  <2>5. f(m) = m * f(m - 1) /\ f(k + m) = (k + m) * f(k + (m - 1))
    BY <1>1, <2>3
  <2>6. f(k) \in Nat /\ f(m - 1) \in Nat /\ f(k + (m - 1)) \in Nat
    BY <1>1, <2>3
  <2>7. \A a, b, c, j, i \in Nat : a * b <= c => a * (j * b) <= (i + j) * c
    <3> TAKE a, b, c, j, i \in Nat
    <3> HAVE a * b <= c
    <3>1. a * b \in Nat /\ a * (j * b) = j * (a * b)
      OBVIOUS
    <3>2. \A x \in Nat : x <= c => j * x <= j * c
      OBVIOUS
    <3>3. i * c >= 0 /\ (i + j) * c = i * c + j * c /\ i * c \in Nat /\ j * c \in Nat
      OBVIOUS
    <3>4. j * (a * b) <= j * c
      BY <3>1, <3>2
    <3> QED BY <3>1, <3>3, <3>4
  <2>8. f(k) * (m * f(m - 1)) <= (k + m) * f(k + (m - 1))
    BY <2>4, <2>6, <2>7
  <2> QED BY <2>5, <2>8
<1> DEFINE a == f(k) * f(n - k)
<1>4. n - k \in Nat /\ k + (n - k) = n
  OBVIOUS
<1>5. a \in Nat /\ a >= 1 /\ a <= f(n) /\ f(n) \in Nat
  <2>1. a <= f(n)
    BY <1>3, <1>4
  <2>2. \A x, y \in Nat : x >= 1 /\ y >= 1 => x * y \in Nat /\ x * y >= 1
    OBVIOUS
  <2> QED BY <1>1, <1>4, <2>1, <2>2
<1>6. choose(n, k) = f(n) \div a
  BY DEF choose, f
<1> HIDE DEF a
<1>7. \A x, y \in Nat : y >= 1 /\ y <= x => x \div y \in Nat /\ x \div y >= 1
  OBVIOUS
<1> QED BY <1>5, <1>6, <1>7

Pick(s) == CHOOSE x \in s : TRUE

\* g adds up t over the subsets of S, one picked element after the other.
Sums(g, t, S) == g = [s \in SUBSET S |-> IF s = {} THEN 0 ELSE t[Pick(s)] + g[s \ {Pick(s)}]]

\* What is left to add up has fewer elements.
LEMMA SumIsTyped ==
  ASSUME NEW S, IsFiniteSet(S), NEW t, t \in [S -> Nat]
  PROVE  \E g \in [SUBSET S -> Nat] : Sums(g, t, S)
<1> DEFINE D == SUBSET S
           F == [D -> Nat]
           Fill(s, f) == IF s = {} THEN 0 ELSE t[Pick(s)] + f[s \ {Pick(s)}]
           H == [z \in D \X F |-> Fill(z[1], z[2])]
           r == [s \in D |-> Cardinality(s)]
<1>1. ASSUME NEW s \in D, s # {}
      PROVE  /\ Pick(s) \in S /\ s \ {Pick(s)} \in D
             /\ Cardinality(s \ {Pick(s)}) \in Nat
             /\ Cardinality(s \ {Pick(s)}) < Cardinality(s)
  <2>1. Pick(s) \in s
    BY <1>1 DEF Pick
  <2>2. IsFiniteSet(s)
    BY FS_Subset
  <2>3. IsFiniteSet(s \ {Pick(s)}) /\ Cardinality(s \ {Pick(s)}) = Cardinality(s) - 1
    BY <2>1, <2>2, FS_RemoveElement
  <2>4. Cardinality(s) \in Nat /\ Cardinality(s \ {Pick(s)}) \in Nat
    BY <2>2, <2>3, FS_CardinalityType
  <2> QED BY <2>1, <2>3, <2>4
<1>2. \A s \in D : Cardinality(s) \in Nat
  BY FS_Subset, FS_CardinalityType
<1>3. \A s \in D : \A f \in F : Fill(s, f) \in Nat
  <2> TAKE s \in D
  <2> TAKE f \in F
  <2>1. CASE s = {}
    BY <2>1
  <2>2. CASE s # {}
    <3>1. t[Pick(s)] \in Nat /\ f[s \ {Pick(s)}] \in Nat
      BY <1>1, <2>2
    <3> QED BY <2>2, <3>1
  <2> QED BY <2>1, <2>2
<1>4. r \in [D -> Nat] /\ \A s \in D : r[s] = Cardinality(s)
  BY <1>2
<1> HIDE DEF Fill, r
<1>5. H \in [D \X F -> Nat] /\ \A s \in D : \A f \in F : H[<<s, f>>] = Fill(s, f)
  BY <1>3
<1> HIDE DEF H
<1>6. LooksLower(H, r, D, F)
  <2> SUFFICES ASSUME NEW s \in D, NEW f \in F, NEW g \in F,
                      \A y \in D : r[y] < r[s] => f[y] = g[y]
               PROVE  H[<<s, f>>] = H[<<s, g>>]
    BY DEF LooksLower
  <2>1. s # {} => f[s \ {Pick(s)}] = g[s \ {Pick(s)}]
    BY <1>1, <1>4
  <2>2. Fill(s, f) = Fill(s, g)
    BY <2>1 DEF Fill
  <2> QED BY <1>5, <2>2
<1>7. PICK g \in F : Recursive(H, D, g)
  <2> DEFINE A == D
             B == F
             V == Nat
  <2>1. B = [A -> V] /\ V # {}
    OBVIOUS
  <2>2. r \in [A -> Nat] /\ H \in [A \X B -> V] /\ LooksLower(H, r, A, B)
    BY <1>4, <1>5, <1>6
  <2> HIDE DEF A, B, V
  <2>3. \E f \in B : Recursive(H, A, f)
    BY <2>1, <2>2, SolutionExists
  <2> QED BY <2>3 DEF A, B
<1>8. \A s \in D : g[s] = IF s = {} THEN 0 ELSE t[Pick(s)] + g[s \ {Pick(s)}]
  BY <1>5, <1>7 DEF Recursive, Fill
<1>9. g = [s \in D |-> g[s]]
  BY <1>7
<1> QED BY <1>7, <1>8, <1>9 DEF Sums

\* Only one function adds up.
LEMMA SumIsUnique ==
  ASSUME NEW S, IsFiniteSet(S), NEW t,
         NEW g, Sums(g, t, S), NEW h, Sums(h, t, S)
  PROVE  g = h
<1> DEFINE Bad == {s \in SUBSET S : g[s] # h[s]}
           T == {Cardinality(s) : s \in Bad}
<1>1. Bad = {}
  <2> SUFFICES ASSUME Bad # {} PROVE FALSE
    OBVIOUS
  <2>1. \A s \in SUBSET S : IsFiniteSet(s) /\ Cardinality(s) \in Nat
    BY FS_Subset, FS_CardinalityType
  <2>2. PICK m \in T : \A k \in T : m <= k
    <3>1. T \subseteq Nat /\ T # {}
      BY <2>1
    <3> HIDE DEF T
    <3> QED BY <3>1, Least
  <2>3. PICK s \in Bad : m = Cardinality(s)
    OBVIOUS
  <2>4. g[s] = (IF s = {} THEN 0 ELSE t[Pick(s)] + g[s \ {Pick(s)}])
        /\ h[s] = (IF s = {} THEN 0 ELSE t[Pick(s)] + h[s \ {Pick(s)}])
    <3> HIDE DEF Bad
    <3>1. s \in SUBSET S
      BY DEF Bad
    <3> QED BY <3>1 DEF Sums
  <2>5. s # {}
    BY <2>4
  <2> DEFINE o == s \ {Pick(s)}
  <2>6. o \in SUBSET S /\ Cardinality(o) = m - 1 /\ m \in Nat
    <3>1. Pick(s) \in s
      BY <2>5 DEF Pick
    <3> QED BY <2>1, <2>3, <3>1, FS_RemoveElement
  <2>7. o \notin Bad
    <3> SUFFICES ASSUME o \in Bad PROVE FALSE
      OBVIOUS
    <3>1. m - 1 \in T
      BY <2>6
    <3> HIDE DEF T
    <3> QED BY <2>2, <2>6, <3>1
  <2> QED BY <2>4, <2>5, <2>6, <2>7
<1> DEFINE G(s) == IF s = {} THEN 0 ELSE t[Pick(s)] + g[s \ {Pick(s)}]
           I(s) == IF s = {} THEN 0 ELSE t[Pick(s)] + h[s \ {Pick(s)}]
<1>2. g = [s \in SUBSET S |-> G(s)] /\ h = [s \in SUBSET S |-> I(s)]
  BY DEF Sums
<1> HIDE DEF G, I
<1>3. g = [s \in SUBSET S |-> g[s]] /\ h = [s \in SUBSET S |-> h[s]]
  BY <1>2
<1>4. \A s \in SUBSET S : g[s] = h[s]
  BY <1>1
<1> QED BY <1>3, <1>4

\* Numbers add up to a number.
LEMMA SumIsNumber ==
  ASSUME NEW S, IsFiniteSet(S), NEW t, t \in [S -> Nat],
         NEW iter, iter = CHOOSE f : Sums(f, t, S)
  PROVE  iter[S] \in Nat
<1>1. PICK g \in [SUBSET S -> Nat] : Sums(g, t, S)
  BY SumIsTyped
<1>2. Sums(iter, t, S)
  BY <1>1
<1>3. iter = g
  BY <1>1, <1>2, SumIsUnique
<1> QED BY <1>1, <1>3

LEMMA MultipleIsNumber ==
  ASSUME NEW x \in Nat, NEW y \in Nat, y >= 1
  PROVE  LeastCommonMultiple(x, y) \in Nat
<1> DEFINE T == {n \in 1..y : (x * n) % y = 0}
<1>1. x * y \in Nat /\ (x * y) % y = 0
  OBVIOUS
<1>2. T \subseteq Nat /\ y \in T
  BY <1>1
<1> HIDE DEF T
<1>3. \E m \in T : \A n \in T : m <= n
  BY <1>2, Least
<1>4. Min(T) \in T
  BY <1>3 DEF Min
<1>5. Min(T) \in Nat
  BY <1>2, <1>4
<1>6. \A a, b \in Nat : a * b \in Nat
  OBVIOUS
<1> QED BY <1>5, <1>6 DEF LeastCommonMultiple, T

LEMMA MultipleUpToIsNumber == \A n \in Nat : MultipleUpTo[n] \in Nat
<1> DEFINE op == [z \in Nat \X Nat |-> IF z[1] = 0 THEN 1 ELSE LeastCommonMultiple(z[2], z[1])]
<1>1. ASSUME NEW a \in Nat, NEW b \in Nat, a # 0 PROVE LeastCommonMultiple(b, a) \in Nat
  BY <1>1, MultipleIsNumber
<1>2. /\ op \in [Nat \X Nat -> Nat]
      /\ \A a, b \in Nat : a # 0 => op[<<a, b>>] = LeastCommonMultiple(b, a)
  BY <1>1
<1> HIDE DEF op
<1>3. PICK f \in [Nat -> Nat] : f = [n \in Nat |-> IF n = 0 THEN 1 ELSE op[<<n, f[n - 1]>>]]
  BY <1>2, IterateExists
<1> DEFINE A(n) == IF n = 0 THEN 1 ELSE op[<<n, f[n - 1]>>]
           B(g, n) == IF n = 0 THEN 1 ELSE LeastCommonMultiple(g[n - 1], n)
<1>4. f = [n \in Nat |-> B(f, n)]
  <2>1. ASSUME NEW n \in Nat PROVE A(n) = B(f, n)
    <3>1. n # 0 => n - 1 \in Nat /\ f[n - 1] \in Nat
      BY <1>3
    <3> QED BY <1>2, <3>1
  <2>2. f = [n \in Nat |-> A(n)]
    BY <1>3, Zenon DEF A
  <2> HIDE DEF A, B
  <2>3. [n \in Nat |-> A(n)] = [n \in Nat |-> B(f, n)]
    BY <2>1
  <2> QED BY <2>2, <2>3, Zenon
<1>5. MultipleUpTo = CHOOSE g : g = [n \in Nat |-> B(g, n)]
  BY DEF MultipleUpTo
<1> DEFINE h == MultipleUpTo
<1>6. h = [n \in Nat |-> B(h, n)]
  BY <1>4, <1>5, Zenon
<1>7. ASSUME NEW n \in Nat PROVE h[n] = IF n = 0 THEN 1 ELSE LeastCommonMultiple(h[n - 1], n)
  <2> HIDE DEF h
  <2> QED BY <1>6
<1> HIDE DEF h
<1> DEFINE Bad == {n \in Nat : ~(h[n] \in Nat)}
<1> SUFFICES ASSUME Bad # {} PROVE FALSE
  BY DEF h
<1>8. PICK n \in Bad : \A m \in Bad : n <= m
  <2>1. Bad \subseteq Nat
    OBVIOUS
  <2> HIDE DEF Bad
  <2> QED BY <2>1, Least
<1>9. n # 0
  BY <1>7
<1>10. n - 1 \in Nat /\ n - 1 \notin Bad
  BY <1>8, <1>9
<1> QED BY <1>7, <1>9, <1>10, MultipleIsNumber

LEMMA ScaleIsNumber ==
  ASSUME NEW n \in Nat, NEW c \in Sample, NEW vs \in [1..n -> Sample]
  PROVE  Scale(c, vs) \in Nat
<1> DEFINE S == 1..n
           t == [i \in S |-> vs[i].impressions]
<1>1. IsFiniteSet(S) /\ DOMAIN vs = S
  BY FS_Interval
<1>2. t \in [S -> Nat] /\ \A i \in S : t[i] = vs[i].impressions
  BY DEF Sample
<1> HIDE DEF S, t
<1> DEFINE total == MapThenSumSet(LAMBDA i : vs[i].impressions, S)
           iter == CHOOSE f : Sums(f, t, S)
<1>3. total = iter[S]
  <2> DEFINE A(f) == [s \in SUBSET S |-> IF s = {} THEN 0 ELSE vs[Pick(s)].impressions + f[s \ {Pick(s)}]]
             B(f) == [s \in SUBSET S |-> IF s = {} THEN 0 ELSE t[Pick(s)] + f[s \ {Pick(s)}]]
  <2>1. total = (CHOOSE f : f = A(f))[S]
    BY DEF MapThenSumSet, MapThenFoldSet, Pick
  <2>2. ASSUME NEW f PROVE A(f) = B(f)
    <3>1. \A s \in SUBSET S : s # {} => Pick(s) \in S
      BY DEF Pick
    <3> QED BY <1>2, <3>1
  <2>3. ASSUME NEW f PROVE f = A(f) <=> Sums(f, t, S)
    <3>1. f = B(f) <=> Sums(f, t, S)
      BY DEF Sums
    <3> HIDE DEF A, B
    <3> QED BY <2>2, <3>1
  <2> HIDE DEF A, total
  <2>4. (CHOOSE f : f = A(f)) = (CHOOSE f : Sums(f, t, S))
    BY <2>3
  <2> QED BY <2>1, <2>4
<1>4. total \in Nat
  <2> HIDE DEF total, iter
  <2>1. iter[S] \in Nat
    <3>1. iter = CHOOSE f : Sums(f, t, S)
      BY DEF iter
    <3> QED BY <1>1, <1>2, <3>1, SumIsNumber
  <2> QED BY <1>3, <2>1
<1>5. TotalImpressions(c, vs) = c.impressions + total
  BY <1>1 DEF TotalImpressions
<1> HIDE DEF total
<1>6. TotalImpressions(c, vs) + 2 \in Nat
  BY <1>4, <1>5 DEF Sample
<1> QED BY <1>6, MultipleUpToIsNumber DEF Scale

\* The terms of the sum are numbers: nothing is divided by nothing.
LEMMA TermIsNumber ==
  ASSUME NEW ax \in Nat, NEW bx \in Nat, NEW ay \in Nat, NEW by \in Nat,
         ax >= 1, bx >= 1, by >= 1, NEW j \in Nat, NEW scale \in Nat
  PROVE  Term(ax, bx, ay, by, j, scale) \in Nat
<1> DEFINE n == ax + bx - 1
           m == ax + bx + by + j - 1
           c == choose(by + j - 1, j)
           d == choose(n - 1, ax - 1)
           e == choose(m - 1, ax + j - 1)
<1>1. /\ n \in Nat /\ m \in Nat /\ m >= 1
      /\ by + j - 1 \in Nat /\ j \in 0..(by + j - 1)
      /\ n - 1 \in Nat /\ ax - 1 \in 0..(n - 1)
      /\ m - 1 \in Nat /\ ax + j - 1 \in 0..(m - 1)
  OBVIOUS
<1>2. c \in Nat /\ d \in Nat /\ e \in Nat /\ e >= 1
  <2> HIDE DEF n, m
  <2> QED BY <1>1, ChooseIsPositive
<1>3. Term(ax, bx, ay, by, j, scale) = c * n * d * (scale \div (m * e))
  BY DEF Term
<1> HIDE DEF n, m, c, d, e
<1>4. m * e \in Nat /\ m * e >= 1
  <2>1. \A x, y \in Nat : x >= 1 /\ y >= 1 => x * y \in Nat /\ x * y >= 1
    OBVIOUS
  <2> QED BY <1>1, <1>2, <2>1
<1> DEFINE q == m * e
<1>5. scale \div q \in Nat
  <2>1. q \in Nat /\ q >= 1
    BY <1>4
  <2> HIDE DEF q
  <2> QED BY <2>1
<1>6. \A x, y \in Nat : x * y \in Nat
  OBVIOUS
<1>7. c * n \in Nat /\ c * n * d \in Nat
  BY <1>1, <1>2, <1>6
<1> HIDE DEF q
<1> QED BY <1>3, <1>5, <1>6, <1>7 DEF q

LEMMA ProbBetaLtIsNumber ==
  ASSUME NEW ax \in Nat, NEW bx \in Nat, NEW ay \in Nat, NEW by \in Nat, NEW scale \in Nat
  PROVE  ProbBetaLt(ax, bx, ay, by, scale) \in Nat
<1>1. CASE 0 \in {ax, bx, ay, by}
  BY <1>1 DEF ProbBetaLt
<1>2. CASE 0 \notin {ax, bx, ay, by}
  <2> DEFINE S == 0..(ay - 1)
             t == [j \in S |-> Term(ax, bx, ay, by, j, scale)]
  <2>1. IsFiniteSet(S)
    BY FS_Interval
  <2>2. \A j \in S : Term(ax, bx, ay, by, j, scale) \in Nat
    BY <1>2, TermIsNumber
  <2>3. t \in [S -> Nat] /\ \A j \in S : t[j] = Term(ax, bx, ay, by, j, scale)
    BY <2>2
  <2> HIDE DEF S, t
  <2> DEFINE A(f) == [s \in SUBSET S |-> IF s = {} THEN 0
                        ELSE Term(ax, bx, ay, by, Pick(s), scale) + f[s \ {Pick(s)}]]
             B(f) == [s \in SUBSET S |-> IF s = {} THEN 0 ELSE t[Pick(s)] + f[s \ {Pick(s)}]]
             iter == CHOOSE f : Sums(f, t, S)
  <2>4. ProbBetaLt(ax, bx, ay, by, scale) = (CHOOSE f : f = A(f))[S]
    BY <1>2 DEF ProbBetaLt, MapThenSumSet, MapThenFoldSet, Pick, S
  <2>5. ASSUME NEW f PROVE A(f) = B(f)
    <3>1. \A s \in SUBSET S : s # {} => Pick(s) \in S
      BY DEF Pick
    <3> QED BY <2>3, <3>1
  <2>6. ASSUME NEW f PROVE f = A(f) <=> Sums(f, t, S)
    <3>1. f = B(f) <=> Sums(f, t, S)
      BY DEF Sums
    <3> HIDE DEF A, B
    <3> QED BY <2>5, <3>1
  <2> HIDE DEF A
  <2>7. (CHOOSE f : f = A(f)) = iter
    BY <2>6
  <2>8. iter[S] \in Nat
    <3>1. iter = CHOOSE f : Sums(f, t, S)
      BY DEF iter
    <3> HIDE DEF iter
    <3> QED BY <2>1, <2>3, <3>1, SumIsNumber
  <2> QED BY <2>4, <2>7, <2>8
<1> QED BY <1>1, <1>2

-----------------------------------------------------------------------------
(***************************************************************************)
(* What the engine recommends.                                             *)
(***************************************************************************)

LEMMA OutcomesAreNumbers ==
  ASSUME NEW c \in Sample, NEW v \in Sample, NEW scale \in Nat
  PROVE  ProbOutcomes(c, v, scale) \subseteq Nat
<1>1. CASE Wraps(c) \/ Wraps(v)
  BY <1>1 DEF ProbOutcomes
<1>2. CASE ~Wraps(c) /\ ~Wraps(v)
  <2>1. Alpha(c) \in Nat /\ Alpha(v) \in Nat /\ BetaOf(c) \in Nat /\ BetaOf(v) \in Nat
    BY <1>2 DEF Alpha, BetaOf, Wraps, Sample
  <2> HIDE DEF Alpha
  <2>2. ProbBeatsControl(c, v, scale) \in Nat
    BY <2>1, ProbBetaLtIsNumber DEF ProbBeatsControl
  <2> QED BY <1>2, <2>2 DEF ProbOutcomes
<1> QED BY <1>1, <1>2

IsBest(ps, i) ==
  /\ i \in DOMAIN ps
  /\ \A k \in DOMAIN ps : ps[k] <= ps[i]
  /\ \A k \in DOMAIN ps : k > i => ps[k] < ps[i]

\* Of one variant or more there is a best one.
LEMMA BestIsBest ==
  ASSUME NEW n \in Nat \ {0}, NEW ps \in [1..n -> Int]
  PROVE  IsBest(ps, Best(ps))
<1> DEFINE Good(k) == \E i \in 1..k : \A j \in 1..k : ps[j] <= ps[i] /\ (j > i => ps[j] < ps[i])
           Bad == {k \in 1..n : ~Good(k)}
<1>1. Good(1)
  <2>1. 1 \in 1..n /\ ps[1] \in Int
    OBVIOUS
  <2>2. 1 \in 1..1 /\ \A j \in 1..1 : j = 1
    OBVIOUS
  <2>3. ps[1] <= ps[1]
    BY <2>1
  <2> QED BY <2>2, <2>3
<1>2. ASSUME NEW k \in 1..(n - 1), Good(k) PROVE Good(k + 1)
  <2>1. PICK i \in 1..k : \A j \in 1..k : ps[j] <= ps[i] /\ (j > i => ps[j] < ps[i])
    BY <1>2
  <2>2. \A j \in 1..(k + 1) : j \in 1..k \/ j = k + 1
    OBVIOUS
  <2>3. \A j \in 1..(k + 1) : ps[j] \in Int
    OBVIOUS
  <2>4. CASE ps[i] <= ps[k + 1]
    <3>1. \A j \in 1..(k + 1) : ps[j] <= ps[k + 1] /\ ~(j > k + 1)
      BY <2>1, <2>2, <2>3, <2>4
    <3> QED BY <3>1
  <2>5. CASE ps[k + 1] < ps[i]
    <3>1. \A j \in 1..(k + 1) : ps[j] <= ps[i] /\ (j > i => ps[j] < ps[i])
      BY <2>1, <2>2, <2>3, <2>5
    <3> QED BY <3>1
  <2> QED BY <2>3, <2>4, <2>5
<1> HIDE DEF Good
<1>3. Bad = {}
  <2> SUFFICES ASSUME Bad # {} PROVE FALSE
    OBVIOUS
  <2>1. PICK k \in Bad : \A m \in Bad : k <= m
    <3>1. Bad \subseteq Nat
      OBVIOUS
    <3> HIDE DEF Bad
    <3> QED BY <3>1, Least
  <2>2. k \in 1..n /\ k # 1 /\ ~Good(k)
    BY <1>1
  <2>3. k - 1 \in 1..(n - 1) /\ k - 1 \notin Bad /\ (k - 1) + 1 = k
    BY <2>1, <2>2
  <2>4. Good(k - 1)
    BY <2>3
  <2>5. Good((k - 1) + 1)
    BY <1>2, <2>3, <2>4
  <2> QED BY <2>2, <2>3, <2>5
<1>4. \E i \in DOMAIN ps : /\ \A k \in DOMAIN ps : ps[k] <= ps[i]
                           /\ \A k \in DOMAIN ps : k > i => ps[k] < ps[i]
  <2>1. n \in 1..n /\ DOMAIN ps = 1..n
    OBVIOUS
  <2>2. Good(n)
    BY <1>3, <2>1
  <2> QED BY <2>1, <2>2 DEF Good
<1> QED BY <1>4 DEF Best, IsBest

\* What the engine may recommend.
LEMMA RecommendationsAre ==
  ASSUME NEW n \in Nat \ {0}, NEW c \in Sample, NEW vs \in [1..n -> Sample], NEW late,
         NEW ps \in Probabilities(c, vs)
  PROVE  /\ IsBest(ps, Best(ps)) /\ Best(ps) \in 1..n
         /\ \/ Decide(c, vs, ps, late) = Promote(Best(ps))
            \/ Decide(c, vs, ps, late) = NoImprovement
            \/ Decide(c, vs, ps, late) = Continue /\ ~late
<1>1. ps \in [1..n -> Int]
  <2> DEFINE Outcomes(i) == ProbOutcomes(c, vs[i], Scale(c, vs))
  <2>1. \A i \in 1..n : Outcomes(i) \subseteq Nat
    BY ScaleIsNumber, OutcomesAreNumbers
  <2>2. ps \in [1..n -> UNION {Outcomes(i) : i \in 1..n}]
    BY DEF Probabilities
  <2>3. UNION {Outcomes(i) : i \in 1..n} \subseteq Int
    BY <2>1
  <2> HIDE DEF Outcomes
  <2> QED BY <2>2, <2>3
<1>2. IsBest(ps, Best(ps)) /\ Best(ps) \in 1..n
  BY <1>1, BestIsBest DEF IsBest
<1>3. vs # <<>>
  OBVIOUS
<1>4. \/ Decide(c, vs, ps, late) = Promote(Best(ps))
      \/ Decide(c, vs, ps, late) = NoImprovement
      \/ Decide(c, vs, ps, late) = Continue /\ ~late
  <2> DEFINE tooFew == TooFewSamples(c, vs[Best(ps)])
             clear == Clear(ps[Best(ps)], c, vs)
             hope == Hopeless(ps[Best(ps)], c, vs)
  <2>1. Decide(c, vs, ps, late) =
          CASE vs = <<>> -> Continue
            [] vs # <<>> /\ tooFew -> IF late THEN NoImprovement ELSE Continue
            [] vs # <<>> /\ ~tooFew /\ clear -> Promote(Best(ps))
            [] OTHER -> IF late \/ hope THEN NoImprovement ELSE Continue
    BY DEF Decide, GivesUp
  <2> HIDE DEF tooFew, clear, hope
  <2>2. CASE tooFew
    BY <1>3, <2>1, <2>2
  <2>3. CASE ~tooFew /\ clear
    BY <1>3, <2>1, <2>3
  <2>4. CASE ~tooFew /\ ~clear
    BY <1>3, <2>1, <2>4
  <2> QED BY <2>2, <2>3, <2>4
<1> QED BY <1>2, <1>4

\* The three kinds of recommendation.
LEMMA VerdictsDiffer ==
  /\ Continue # NoImprovement
  /\ \A i : Promote(i) # Continue /\ Promote(i) # NoImprovement /\ Promote(i).variant = i
  BY DEF Continue, NoImprovement, Promote

-----------------------------------------------------------------------------
(***************************************************************************)
(* What was read, and what the table bears out.                            *)
(***************************************************************************)

Kind == {"impression", "conversion"}

RowsOf(a, k) == {r \in rows : r.arm = a /\ r.kind = k}

\* Events are of visitors, and of the arm that each was assigned.
EventsAreAttributed ==
  /\ rows \subseteq Event /\ checked \subseteq Event
  /\ \A event \in rows \cup checked : event.arm = Assigned[event.visitor]

\* Counts that the table bears out.
Supported(counts) ==
  /\ counts \in [Arm -> Sample]
  /\ \A a \in Arm : /\ counts[a].impressions <= Cardinality(RowsOf(a, "impression"))
                    /\ counts[a].conversions <= Cardinality(RowsOf(a, "conversion"))

TasksAreSupported == \A t \in pending : "counts" \in DOMAIN t /\ Supported(t.counts)

\* A logged sample is nothing, or was supported.
LogIsSupported ==
  \A i \in 1..Len(log) : \A a \in Tested : log[i].promoted = VersionOf(a) =>
    /\ log[i].variant \in Sample
    /\ log[i].variant.impressions <= Cardinality(RowsOf(a, "impression"))
    /\ log[i].variant.conversions <= Cardinality(RowsOf(a, "conversion"))

IInv ==
  /\ IsFiniteSet(rows) /\ Len(log) \in Nat /\ DOMAIN log = 1..Len(log)
  /\ EventsAreAttributed
  /\ TasksAreSupported
  /\ LogIsSupported

-----------------------------------------------------------------------------
(***************************************************************************)
(* Counting.                                                               *)
(***************************************************************************)

LEMMA RowsAreFinite ==
  ASSUME IsFiniteSet(rows), NEW a, NEW k
  PROVE  IsFiniteSet(RowsOf(a, k)) /\ Cardinality(RowsOf(a, k)) \in Nat
<1>1. RowsOf(a, k) \in SUBSET rows
  BY DEF RowsOf
<1> QED BY <1>1, FS_Subset, FS_CardinalityType

\* Distinct visitors are no more than rows.
LEMMA VisitorsAreFewer ==
  ASSUME IsFiniteSet(rows), NEW a, NEW k
  PROVE  /\ Cardinality(VisitorsOf(a, k)) \in Nat
         /\ Cardinality(VisitorsOf(a, k)) <= Cardinality(RowsOf(a, k))
<1> DEFINE R == RowsOf(a, k)
           V == VisitorsOf(a, k)
           f == [r \in R |-> r.visitor]
<1>1. IsFiniteSet(R)
  BY RowsAreFinite
<1>2. V = {r.visitor : r \in R}
  BY DEF VisitorsOf, RowsOf
<1>3. f \in Surjection(R, V)
  <2>1. f \in [R -> V]
    BY <1>2
  <2>2. \A v \in V : \E r \in R : f[r] = v
    BY <1>2
  <2> QED BY <2>1, <2>2 DEF Surjection
<1> HIDE DEF R, V, f
<1>4. IsFiniteSet(V) /\ Cardinality(V) <= Cardinality(R)
  BY <1>1, <1>3, FS_Surjection
<1>5. Cardinality(V) \in Nat
  BY <1>4, FS_CardinalityType
<1> QED BY <1>4, <1>5 DEF R, V

\* What the query returns, the table bears out.
LEMMA CountsAreSupported ==
  ASSUME IsFiniteSet(rows)
  PROVE  Supported(CountsNow)
<1>1. \A a \in Arm : \A k \in Kind :
        /\ Cardinality(VisitorsOf(a, k)) \in Nat
        /\ Cardinality(VisitorsOf(a, k)) <= Cardinality(RowsOf(a, k))
  BY VisitorsAreFewer
<1> QED BY <1>1 DEF Supported, CountsNow, Sample, Kind

\* Rows are only added, one at a time, and so what they bear out they always will.
LEMMA InsertKeeps ==
  ASSUME IsFiniteSet(rows), NEW event \in checked, InsertEvent(event)
  PROVE  /\ IsFiniteSet(rows')
         /\ \A a, k : Cardinality(RowsOf(a, k)) <= Cardinality(RowsOf(a, k)')
                      /\ Cardinality(RowsOf(a, k)') \in Nat
<1>1. rows' = rows \/ rows' = rows \cup {event}
  BY DEF InsertEvent
<1>2. IsFiniteSet(rows')
  BY <1>1, FS_AddElement
<1>3. ASSUME NEW a, NEW k
      PROVE  Cardinality(RowsOf(a, k)) <= Cardinality(RowsOf(a, k)')
             /\ Cardinality(RowsOf(a, k)') \in Nat
  <2>1. RowsOf(a, k) \in SUBSET RowsOf(a, k)'
    BY <1>1 DEF RowsOf
  <2>2. RowsOf(a, k)' \in SUBSET rows'
    BY DEF RowsOf
  <2>3. IsFiniteSet(RowsOf(a, k)')
    BY <1>2, <2>2, FS_Subset
  <2> QED BY <2>1, <2>3, FS_Subset, FS_CardinalityType
<1> QED BY <1>2, <1>3

-----------------------------------------------------------------------------
(***************************************************************************)
(* The invariant.                                                          *)
(***************************************************************************)

LEMMA InvInit == Init => IInv
  BY FS_EmptySet DEF Init, IInv, EventsAreAttributed, TasksAreSupported, LogIsSupported

\* Nothing that the invariant speaks of.
LEMMA InvQuiet ==
  ASSUME IInv, UNCHANGED <<checked, rows, pending, log>>
  PROVE  IInv'
  BY DEF IInv, EventsAreAttributed, TasksAreSupported, LogIsSupported, Supported, RowsOf

LEMMA InvEvents ==
  ASSUME IInv,
         \/ \E v, w \in Visitor, k \in Kind : CheckEvent(v, w, k)
         \/ \E event \in checked : InsertEvent(event)
  PROVE  IInv'
<1>1. ASSUME NEW v \in Visitor, NEW w \in Visitor, NEW k \in Kind, CheckEvent(v, w, k)
      PROVE  IInv'
  <2> DEFINE event == [visitor |-> w, arm |-> Assigned[v], kind |-> k]
  <2>1. event \in Event /\ event.arm = Assigned[event.visitor]
    BY <1>1, AssignedAssumption DEF CheckEvent, VerifyAssignment, Event, Kind
  <2>2. checked' = checked \cup {event} /\ UNCHANGED <<rows, pending, log>>
    BY <1>1 DEF CheckEvent
  <2> HIDE DEF event
  <2>3. EventsAreAttributed'
    BY <2>1, <2>2 DEF IInv, EventsAreAttributed
  <2> QED BY <2>2, <2>3 DEF IInv, TasksAreSupported, LogIsSupported, Supported, RowsOf
<1>2. ASSUME NEW event \in checked, InsertEvent(event)
      PROVE  IInv'
  <2>1. /\ checked' \subseteq checked /\ rows' \subseteq rows \cup {event}
        /\ UNCHANGED <<pending, log>>
    BY <1>2 DEF InsertEvent
  <2>2. /\ IsFiniteSet(rows')
        /\ \A a, k : Cardinality(RowsOf(a, k)) <= Cardinality(RowsOf(a, k)')
                     /\ Cardinality(RowsOf(a, k)') \in Nat
    BY <1>2, InsertKeeps DEF IInv
  <2>3. EventsAreAttributed'
    BY <2>1 DEF IInv, EventsAreAttributed
  <2>4. \A a, k : Cardinality(RowsOf(a, k)) \in Nat
    BY RowsAreFinite DEF IInv
  <2>5. ASSUME NEW t \in pending PROVE Supported(t.counts)'
    <3>1. Supported(t.counts)
      BY DEF IInv, TasksAreSupported
    <3>2. ASSUME NEW a \in Arm
          PROVE  /\ t.counts[a].impressions <= Cardinality(RowsOf(a, "impression")')
                 /\ t.counts[a].conversions <= Cardinality(RowsOf(a, "conversion")')
      <4>1. t.counts[a].impressions \in Nat /\ t.counts[a].conversions \in Nat
        BY <3>1 DEF Supported, Sample
      <4> QED BY <2>2, <2>4, <3>1, <4>1 DEF Supported
    <3> QED BY <3>1, <3>2 DEF Supported
  <2>6. LogIsSupported'
    <3> SUFFICES ASSUME NEW i \in 1..Len(log), NEW a \in Tested, log[i].promoted = VersionOf(a)
                 PROVE  /\ log[i].variant \in Sample
                        /\ log[i].variant.impressions <= Cardinality(RowsOf(a, "impression")')
                        /\ log[i].variant.conversions <= Cardinality(RowsOf(a, "conversion")')
      BY <2>1 DEF LogIsSupported
    <3>1. /\ log[i].variant \in Sample
          /\ log[i].variant.impressions <= Cardinality(RowsOf(a, "impression"))
          /\ log[i].variant.conversions <= Cardinality(RowsOf(a, "conversion"))
      BY DEF IInv, LogIsSupported
    <3>2. log[i].variant.impressions \in Nat /\ log[i].variant.conversions \in Nat
      BY <3>1 DEF Sample
    <3> QED BY <2>2, <2>4, <3>1, <3>2
  <2>7. TasksAreSupported'
    <3>1. \A t \in pending : "counts" \in DOMAIN t
      BY DEF IInv, TasksAreSupported
    <3> QED BY <2>1, <2>5, <3>1 DEF TasksAreSupported
  <2> QED BY <2>1, <2>2, <2>3, <2>6, <2>7 DEF IInv
<1> QED BY <1>1, <1>2

\* A decision reads its counts.
LEMMA InvCounts ==
  ASSUME IInv, (\E o \in Op : Load(o)) \/ (\E t \in pending : Analyse(t))
  PROVE  IInv'
<1>1. UNCHANGED <<checked, rows, log>>
  BY DEF Load, Analyse
<1>2. \A a, k : Cardinality(RowsOf(a, k)) \in Nat
  BY RowsAreFinite DEF IInv
<1> DEFINE Z == [a \in Arm |-> Zero]
           N == CountsNow
<1>3. ASSUME NEW c, c = Z \/ c = N
      PROVE  /\ c \in [Arm -> Sample]
             /\ \A a \in Arm : /\ c[a].impressions <= Cardinality(RowsOf(a, "impression"))
                               /\ c[a].conversions <= Cardinality(RowsOf(a, "conversion"))
  <2>1. /\ Z \in [Arm -> Sample]
        /\ \A a \in Arm : /\ Z[a].impressions <= Cardinality(RowsOf(a, "impression"))
                          /\ Z[a].conversions <= Cardinality(RowsOf(a, "conversion"))
    BY <1>2 DEF Zero, Sample
  <2>2. /\ N \in [Arm -> Sample]
        /\ \A a \in Arm : /\ N[a].impressions <= Cardinality(RowsOf(a, "impression"))
                          /\ N[a].conversions <= Cardinality(RowsOf(a, "conversion"))
    BY CountsAreSupported DEF Supported, IInv
  <2> HIDE DEF Z, N
  <2> QED BY <1>3, <2>1, <2>2
<1>4. ASSUME NEW u \in pending'
      PROVE  "counts" \in DOMAIN u /\ (u.counts = Z \/ u.counts = N)
  <2>1. CASE \E o \in Op : Load(o)
    <3>1. PICK o \in Op : pending' = {[op |-> o, step |-> "loaded", counts |-> Z,
                                       verdict |-> NoVersion]}
      BY <2>1 DEF Load
    <3> HIDE DEF Z
    <3> QED BY <1>4, <3>1
  <2>2. CASE \E t \in pending : Analyse(t)
    <3>1. PICK t \in pending : Analyse(t)
      BY <2>2
    <3>2. "counts" \in DOMAIN t
      BY DEF IInv, TasksAreSupported
    <3>3. PICK r \in Verdicts(t.op, N) :
            pending' = IF r = Continue THEN {}
                       ELSE {[t EXCEPT !.step = "analysed", !.counts = N,
                                       !.verdict = IF r = NoImprovement THEN NoVersion
                                                   ELSE Variants[r.variant]]}
      BY <3>1 DEF Analyse
    <3> HIDE DEF N
    <3>4. ASSUME NEW v, u = [t EXCEPT !.step = "analysed", !.counts = N, !.verdict = v]
          PROVE  "counts" \in DOMAIN u /\ u.counts = N
      BY <3>2, <3>4
    <3> QED BY <1>4, <3>3, <3>4
  <2> QED BY <2>1, <2>2
<1> HIDE DEF Z, N
<1>5. ASSUME NEW t \in pending'
      PROVE  /\ "counts" \in DOMAIN t /\ t.counts \in [Arm -> Sample]
             /\ \A a \in Arm : /\ t.counts[a].impressions <= Cardinality(RowsOf(a, "impression"))
                               /\ t.counts[a].conversions <= Cardinality(RowsOf(a, "conversion"))
  BY <1>3, <1>4
<1>6. TasksAreSupported'
  BY <1>1, <1>5 DEF TasksAreSupported, Supported, RowsOf
<1> QED BY <1>1, <1>6 DEF IInv, EventsAreAttributed, LogIsSupported, RowsOf

\* A version is the version of one arm.
LEMMA VersionsDiffer ==
  ASSUME NEW a \in Tested, NEW v, VersionOf(v) = VersionOf(a)
  PROVE  v = a
  BY VariantsAssumption, VersionsAssumption DEF VersionOf

LEMMA InvConclude ==
  ASSUME IInv, NEW t \in pending, Conclude(t)
  PROVE  IInv'
<1> DEFINE row == DecisionRow(t)
<1>1. pending' = {} /\ UNCHANGED <<checked, rows>> /\ (log' = log \/ log' = Append(log, row))
  BY DEF Conclude
<1>2. \A a, k : Cardinality(RowsOf(a, k)) \in Nat
  BY RowsAreFinite DEF IInv
<1>3. ASSUME NEW a \in Tested, row.promoted = VersionOf(a)
      PROVE  /\ row.variant \in Sample
             /\ row.variant.impressions <= Cardinality(RowsOf(a, "impression"))
             /\ row.variant.conversions <= Cardinality(RowsOf(a, "conversion"))
  <2>1. CASE t.verdict = NoVersion
    <3>1. row.variant = Zero
      BY <2>1 DEF DecisionRow
    <3> QED BY <1>2, <3>1 DEF Zero, Sample
  <2>2. CASE t.verdict # NoVersion
    <3>1. VersionOf(t.verdict) = VersionOf(a) /\ row.variant = CountOf(t.counts, t.verdict)
      BY <1>3, <2>2 DEF DecisionRow, Promoted
    <3>2. t.verdict = a
      BY <3>1, VersionsDiffer
    <3>3. Supported(t.counts) /\ a \in Arm
      BY DEF IInv, TasksAreSupported, Arm
    <3>4. row.variant = t.counts[a]
      BY <3>1, <3>2, <3>3 DEF CountOf, Supported
    <3> HIDE DEF row
    <3> QED BY <3>3, <3>4 DEF Supported
  <2> QED BY <2>1, <2>2
<1> HIDE DEF row
<1>4. CASE log' = log
  BY <1>1, <1>4 DEF IInv, EventsAreAttributed, TasksAreSupported, LogIsSupported, RowsOf
<1>5. CASE log' = Append(log, row)
  <2>1. /\ Len(log') = Len(log) + 1 /\ DOMAIN log' = 1..Len(log')
        /\ \A i \in 1..Len(log) : log'[i] = log[i]
        /\ log'[Len(log) + 1] = row
    BY <1>5 DEF IInv
  <2>2. \A a, k : RowsOf(a, k)' = RowsOf(a, k)
    BY <1>1 DEF RowsOf
  <2>3. ASSUME NEW i \in 1..Len(log'), NEW a \in Tested, log'[i].promoted = VersionOf(a)
        PROVE  /\ log'[i].variant \in Sample
               /\ log'[i].variant.impressions <= Cardinality(RowsOf(a, "impression"))
               /\ log'[i].variant.conversions <= Cardinality(RowsOf(a, "conversion"))
    <3>1. CASE i = Len(log) + 1
      BY <1>3, <2>1, <2>3, <3>1
    <3>2. CASE i \in 1..Len(log)
      <4>1. log[i].promoted = VersionOf(a) /\ log'[i] = log[i]
        BY <2>1, <2>3, <3>2
      <4> QED BY <3>2, <4>1 DEF IInv, LogIsSupported
    <3> QED BY <2>1, <3>1, <3>2 DEF IInv
  <2>4. LogIsSupported'
    BY <2>2, <2>3 DEF LogIsSupported
  <2> QED BY <1>1, <2>1, <2>4 DEF IInv, EventsAreAttributed, TasksAreSupported
<1> QED BY <1>1, <1>4, <1>5

LEMMA InvStep == IInv /\ [Next]_vars => IInv'
<1> SUFFICES ASSUME IInv, [Next]_vars PROVE IInv'
  OBVIOUS
<1>1. CASE Create \/ Start \/ Stop \/ PassDeadline \/ UNCHANGED vars
  <2>1. UNCHANGED <<checked, rows, pending, log>>
    BY <1>1 DEF Create, Start, Stop, PassDeadline, vars
  <2> QED BY <2>1, InvQuiet
<1>2. CASE ReaderStep
  <2>1. CASE \E v \in Visitor : OpenArticle(v)
    BY <2>1, InvQuiet DEF OpenArticle
  <2> QED BY <1>2, <2>1, InvEvents DEF ReaderStep, Kind
<1>3. CASE DecisionStep
  <2>1. CASE Abandon
    BY <2>1 DEF Abandon, IInv, EventsAreAttributed, TasksAreSupported, LogIsSupported, RowsOf
  <2>2. CASE \E t \in pending : Conclude(t)
    BY <2>2, InvConclude
  <2> QED BY <1>3, <2>1, <2>2, InvCounts DEF DecisionStep
<1> QED BY <1>1, <1>2, <1>3 DEF Next

LEMMA Invariance == Spec => []IInv
  BY InvInit, InvStep, PTL DEF Spec

-----------------------------------------------------------------------------
(***************************************************************************)
(* What follows.                                                           *)
(***************************************************************************)

\* However cookies change and events are repeated, no visitor counts for two variants:
\* an event is recorded only for the variant that the visitor's cookie hashes to.
THEOREM SamplesAreDisjointCorrect == Spec => []SamplesAreDisjoint
<1>1. IInv => SamplesAreDisjoint
  BY DEF IInv, EventsAreAttributed, SamplesAreDisjoint, VisitorsOf
<1> QED BY <1>1, Invariance, PTL

\* A recorded decision never claims more impressions or conversions of what it
\* promoted than the table of events holds, then and for ever after.
THEOREM EvidenceStaysCorrect == Spec => []EvidenceStays
<1>1. IInv => EvidenceStays
  BY DEF IInv, LogIsSupported, EvidenceStays, RowsOf
<1> QED BY <1>1, Invariance, PTL

-----------------------------------------------------------------------------
(***************************************************************************)
(* Verdicts.                                                               *)
(***************************************************************************)

\* Nothing to continue with when overdue, no verdict that the operation does not allow for.
LEMMA VerdictsAre ==
  ASSUME IInv, NEW o \in Op, NEW r \in Verdicts(o, CountsNow)
  PROVE  \/ r = Continue /\ o = "decide" /\ ~overdue
         \/ r = NoImprovement /\ o # "promote"
         \/ o # "no_winner" /\ \E i \in DOMAIN Variants : r = Promote(i)
<1> DEFINE N == CountsNow
           c == N[Control]
           vs == [i \in DOMAIN Variants |-> N[Variants[i]]]
           n == Len(Variants)
<1>1. n \in Nat \ {0} /\ DOMAIN Variants = 1..n /\ \A i \in 1..n : Variants[i] \in Arm
  BY VariantsAssumption DEF Arm
<1>2. N \in [Arm -> Sample] /\ Control \in Arm
  BY CountsAreSupported DEF IInv, Supported, Arm
<1> HIDE DEF N
<1>3. c \in Sample /\ vs \in [1..n -> Sample]
  BY <1>1, <1>2
<1> HIDE DEF c, vs, n
<1>4. r \in CASE o = "no_winner" -> {NoImprovement}
              [] o = "promote" -> {Promote(Best(ps)) : ps \in Probabilities(c, vs)}
              [] o = "decide" -> {Decide(c, vs, ps, overdue) : ps \in Probabilities(c, vs)}
  BY DEF Verdicts, Recommendations, c, vs, N
<1>5. ASSUME NEW ps \in Probabilities(c, vs)
      PROVE  /\ Best(ps) \in DOMAIN Variants
             /\ \/ Decide(c, vs, ps, overdue) = Promote(Best(ps))
                \/ Decide(c, vs, ps, overdue) = NoImprovement
                \/ Decide(c, vs, ps, overdue) = Continue /\ ~overdue
  <2> DEFINE late == overdue
  <2>1. /\ Best(ps) \in 1..n
        /\ \/ Decide(c, vs, ps, late) = Promote(Best(ps))
           \/ Decide(c, vs, ps, late) = NoImprovement
           \/ Decide(c, vs, ps, late) = Continue /\ ~late
    <3> HIDE DEF late
    <3> QED BY <1>1, <1>3, RecommendationsAre
  <2> QED BY <1>1, <2>1
<1>6. CASE o = "no_winner"
  BY <1>4, <1>6
<1>7. CASE o = "promote"
  <2>1. PICK ps \in Probabilities(c, vs) : r = Promote(Best(ps))
    BY <1>4, <1>7
  <2> QED BY <1>5, <1>7, <2>1
<1>8. CASE o = "decide"
  <2>1. PICK ps \in Probabilities(c, vs) : r = Decide(c, vs, ps, overdue)
    BY <1>4, <1>8
  <2> QED BY <1>5, <1>8, <2>1
<1> QED BY <1>6, <1>7, <1>8 DEF Op

\* Past the maximum duration a decision is never "continue", whatever the counts and
\* however many variants: decide returns a verdict on each branch it then takes.
THEOREM OverdueAlwaysEndsCorrect == Spec => []OverdueAlwaysEnds
<1>1. IInv => OverdueAlwaysEnds
  <2> SUFFICES ASSUME IInv, overdue PROVE Continue \notin Verdicts("decide", CountsNow)
    BY DEF OverdueAlwaysEnds
  <2>1. "decide" \in Op
    BY DEF Op
  <2> QED BY <2>1, VerdictsAre, VerdictsDiffer
<1> QED BY <1>1, Invariance, PTL

-----------------------------------------------------------------------------
(***************************************************************************)
(* Refinement: each step is one of the life cycle of experiments, or none. *)
(* A mapped task carries the version of the variant that it is to promote. *)
(***************************************************************************)

TaskOK(t) ==
  /\ t.op \in Op /\ t.step \in {"loaded", "analysed"} /\ t.verdict \in Tested \cup {NoVersion}
  /\ DOMAIN t = {"op", "step", "counts", "verdict"}
  /\ t = [op |-> t.op, step |-> t.step, counts |-> t.counts, verdict |-> t.verdict]
  /\ t.step = "loaded" => t.verdict = NoVersion

\* One decision at a time, and the log follows the status.
LifeInv ==
  /\ status \in {"none", "draft", "running", "decided", "stopped"}
  /\ pending = {} \/ \E t : pending = {t} /\ TaskOK(t)
  /\ status \in {"none", "draft", "running"} => log = <<>>
  /\ log = <<>> \/ log = <<log[1]>>
  /\ status = "decided" => log # <<>>
  /\ status = "none" => shown = ControlVersion /\ pending = {}

LEMMA LifeInit == Init => LifeInv
  BY DEF Init, LifeInv

\* The task after its counts were read.
Analysed(t, v) == [t EXCEPT !.step = "analysed", !.counts = CountsNow, !.verdict = v]

\* An analysis gives up its task, or makes it one that may conclude.
LEMMA AnalysisIs ==
  ASSUME IInv, LifeInv, NEW t \in pending, Analyse(t)
  PROVE  /\ TaskOK(t) /\ t.step = "loaded" /\ pending = {t}
         /\ \/ pending' = {} /\ t.op = "decide" /\ ~overdue
            \/ \E v \in Tested \cup {NoVersion} :
                 /\ pending' = {Analysed(t, v)}
                 /\ v = NoVersion => t.op # "promote"
                 /\ v # NoVersion => t.op # "no_winner"
<1>1. TaskOK(t) /\ t.step = "loaded" /\ pending = {t}
  BY DEF LifeInv, Analyse
<1>2. PICK r \in Verdicts(t.op, CountsNow) :
        pending' = IF r = Continue THEN {}
                   ELSE {Analysed(t, IF r = NoImprovement THEN NoVersion ELSE Variants[r.variant])}
  BY DEF Analyse, Analysed
<1>3. t.op \in Op
  BY <1>1 DEF TaskOK
<1> DEFINE o == t.op
<1>4. \/ r = Continue /\ o = "decide" /\ ~overdue
      \/ r = NoImprovement /\ o # "promote"
      \/ o # "no_winner" /\ \E i \in DOMAIN Variants : r = Promote(i)
  BY <1>2, <1>3, VerdictsAre
<1>5. CASE r = Continue
  BY <1>1, <1>2, <1>4, <1>5, VerdictsDiffer
<1>6. CASE r = NoImprovement
  BY <1>1, <1>2, <1>4, <1>6, VerdictsDiffer
<1>7. CASE \E i \in DOMAIN Variants : r = Promote(i)
  <2>1. PICK i \in DOMAIN Variants : r = Promote(i)
    BY <1>7
  <2>2. Variants[i] \in Tested /\ Variants[i] # NoVersion
    BY VersionAssumption DEF Tested, Arm
  <2>3. pending' = {Analysed(t, Variants[i])}
    BY <1>2, <2>1, VerdictsDiffer
  <2>4. o # "no_winner"
    BY <1>4, <2>1, VerdictsDiffer
  <2> QED BY <1>1, <2>2, <2>3, <2>4
<1> QED BY <1>4, <1>5, <1>6, <1>7

LEMMA AnalysedIsOK ==
  ASSUME NEW t, TaskOK(t), NEW v \in Tested \cup {NoVersion}
  PROVE  /\ TaskOK(Analysed(t, v))
         /\ Analysed(t, v).op = t.op /\ Analysed(t, v).step = "analysed" /\ Analysed(t, v).verdict = v
<1> DEFINE N == CountsNow
           u == [op |-> t.op, step |-> "analysed", counts |-> N, verdict |-> v]
<1> HIDE DEF N
<1>1. Analysed(t, v) = u
  <2>1. Analysed(t, v) = [t EXCEPT !.step = "analysed", !.counts = N, !.verdict = v]
    BY DEF Analysed, N
  <2>2. t = [op |-> t.op, step |-> t.step, counts |-> t.counts, verdict |-> t.verdict]
    BY DEF TaskOK
  <2> QED BY <2>1, <2>2
<1>2. TaskOK(u) /\ u.op = t.op /\ u.step = "analysed" /\ u.verdict = v
  BY DEF TaskOK
<1> QED BY <1>1, <1>2

LEMMA LifeStep == IInv /\ LifeInv /\ [Next]_vars => LifeInv'
<1> SUFFICES ASSUME IInv, LifeInv, [Next]_vars PROVE LifeInv'
  OBVIOUS
<1>1. CASE Create \/ Start \/ Stop
  BY <1>1 DEF LifeInv, Create, Start, Stop
<1>2. CASE PassDeadline \/ ReaderStep \/ UNCHANGED vars
  <2>1. UNCHANGED <<status, shown, pending, log>>
    BY <1>2 DEF PassDeadline, ReaderStep, OpenArticle, CheckEvent, InsertEvent, vars
  <2> QED BY <2>1 DEF LifeInv, TaskOK
<1>3. CASE \E o \in Op : Load(o)
  <2>1. PICK o \in Op : Load(o)
    BY <1>3
  <2> DEFINE t == [op |-> o, step |-> "loaded", counts |-> [a \in Arm |-> Zero], verdict |-> NoVersion]
  <2>2. pending' = {t} /\ status = "running" /\ UNCHANGED <<status, shown, log>>
    BY <2>1 DEF Load
  <2>3. TaskOK(t)
    BY DEF TaskOK
  <2> HIDE DEF t
  <2> QED BY <2>2, <2>3 DEF LifeInv
<1>4. CASE \E t \in pending : Analyse(t)
  <2>1. PICK t \in pending : Analyse(t)
    BY <1>4
  <2>2. UNCHANGED <<status, shown, log>>
    BY <2>1 DEF Analyse
  <2>3. pending' = {} \/ \E u : pending' = {u} /\ TaskOK(u)
    BY <2>1, AnalysisIs, AnalysedIsOK
  <2> QED BY <2>1, <2>2, <2>3 DEF LifeInv, TaskOK
<1>5. CASE \E t \in pending : Conclude(t)
  <2>1. PICK t \in pending : Conclude(t)
    BY <1>5
  <2> DEFINE row == DecisionRow(t)
  <2>2. CASE Latch
    <3>1. log' = Append(log, row) /\ status' = "decided" /\ pending' = {} /\ log = <<>>
      BY <2>1, <2>2 DEF Conclude, Latch, LifeInv
    <3> HIDE DEF row
    <3>2. log' = <<row>>
      BY <3>1
    <3> QED BY <3>1, <3>2 DEF LifeInv
  <2>3. CASE ~Latch
    BY <2>1, <2>3 DEF Conclude, LifeInv
  <2> QED BY <2>2, <2>3
<1>6. CASE Abandon
  BY <1>6 DEF Abandon, LifeInv
<1> QED BY <1>1, <1>2, <1>3, <1>4, <1>5, <1>6 DEF Next, DecisionStep

LEMMA LifeInvariance == Spec => [](IInv /\ LifeInv)
<1>1. Init => IInv /\ LifeInv
  BY InvInit, LifeInit
<1>2. IInv /\ LifeInv /\ [Next]_vars => (IInv /\ LifeInv)'
  BY InvStep, LifeStep
<1> QED BY <1>1, <1>2, PTL DEF Spec

\* What the life cycle calls the task.
LifeTask(t) ==
  [handler |-> "request", op |-> t.op, exp |-> "experiment", step |-> t.step,
   verdict |-> IF t.verdict = NoVersion THEN NoVersion ELSE VersionOf(t.verdict)]
LifeTasks == {LifeTask(t) : t \in pending}
LifeArms == IF status = "none" THEN {} ELSE {VersionOf(a) : a \in Tested}
LifeControl == IF status = "none" THEN NoVersion ELSE ControlVersion
LifePool == IF status = "none" THEN {ControlVersion} ELSE Version
LifeDecision ==
  CASE status = "stopped" -> "stopped"
    [] status = "decided" /\ log[1].promoted = NoVersion -> "no_improvement"
    [] status = "decided" /\ log[1].promoted # NoVersion -> "winner"
    [] OTHER -> "none"
LifeWinner == IF log = <<>> THEN NoVersion ELSE log[1].promoted
LifeLog ==
  [i \in DOMAIN log |->
     [decision |-> IF log[i].promoted = NoVersion THEN "no_improvement" ELSE "winner",
      promoted |-> log[i].promoted]]

\* One block and one experiment: what holds of it, and what a change makes of it.
Block1(x) == [b \in {"block"} |-> x]

LEMMA OneIs ==
  ASSUME NEW x
  PROVE  /\ One(x)["experiment"] = x /\ Block1(x)["block"] = x
         /\ \A y : [One(x) EXCEPT !["experiment"] = y] = One(y)
         /\ \A y : [Block1(x) EXCEPT !["block"] = y] = Block1(y)
  BY DEF One, Block1

LEMMA VersionsOfArms ==
  /\ VersionOf(Control) = ControlVersion
  /\ \A a \in Tested : VersionOf(a) = <<a, "version">> /\ VersionOf(a) \notin {ControlVersion, NoVersion}
                       /\ a # NoVersion /\ VersionOf(a) \in Version
  /\ ControlVersion \in Version /\ ControlVersion # NoVersion
  /\ \E a \in Tested : TRUE
<1>1. \A a \in Tested : a # Control /\ a \in Arm
  BY VariantsAssumption DEF Arm
<1>2. Variants[1] \in Tested
  BY VariantsAssumption DEF Tested
<1> QED BY <1>1, <1>2, VersionAssumption, VersionsAssumption DEF VersionOf, Version, Arm

LEMMA LifeStarts == Init => Life!Init
<1> SUFFICES ASSUME Init PROVE Life!Init
  OBVIOUS
<1>1. /\ Block1(shown) \in [{"block"} -> Version]
      /\ Block1(shown) = [b \in {"block"} |-> ControlVersion]
  BY VersionsOfArms DEF Init, Block1
<1>2. One("block") \in {[e \in {"experiment"} |-> b] : b \in {"block"}}
  BY DEF One
<1>3. /\ Block1(LifePool) = [b \in {"block"} |-> {Block1(shown)[b]}]
      /\ LifeArms = {} /\ LifeControl = NoVersion /\ LifeDecision = "none"
      /\ LifeWinner = NoVersion /\ LifeTasks = {}
  BY DEF Init, Block1, LifePool, LifeArms, LifeControl, LifeDecision, LifeWinner, LifeTasks
<1>4. LifeLog = <<>>
  BY DEF Init, LifeLog
<1> QED BY <1>1, <1>2, <1>3, <1>4
        DEF Init, Life!Init, One, Block1, LifePool, LifeArms, LifeControl, LifeDecision, LifeWinner,
            LifeTasks, LifeTask, LifeLog

LEMMA LifeCreates == ASSUME LifeInv, Create PROVE Life!Next
<1> DEFINE variants == {VersionOf(a) : a \in Tested}
<1>1. variants \in SUBSET Life!Fresh /\ variants # {}
  <2>1. Life!Fresh = Version \ {ControlVersion}
    BY DEF Create, Life!Fresh
  <2> QED BY <2>1, VersionsOfArms
<1>2. Version = {ControlVersion} \cup variants
  BY VersionsOfArms DEF Version, Arm
<1>3. /\ status = "none" /\ status' = "draft" /\ shown = ControlVersion /\ log = <<>>
      /\ UNCHANGED <<shown, overdue, readers, checked, rows, pending, log>>
  BY DEF Create, LifeInv
<1>4. Life!CreateExperiment("experiment", "block", variants)
  BY <1>1, <1>2, <1>3 DEF Life!CreateExperiment, Life!Alive, Life!handlerVars, One
<1>5. Life!AdminStep
  BY <1>1, <1>4 DEF Life!AdminStep
<1> QED BY <1>5 DEF Life!Next, Life!ExperimentNext

LEMMA LifeStartsRunning == ASSUME LifeInv, Start PROVE Life!Next
<1>1. /\ status = "draft" /\ status' = "running" /\ log = <<>>
      /\ UNCHANGED <<shown, overdue, pending, log>>
  BY DEF Start, LifeInv
<1>2. Life!StartExperiment("experiment")
  BY <1>1 DEF Life!StartExperiment, Life!Startable, Life!NoOtherRunning, Life!Exists, Life!Alive,
              Life!blockVars, Life!handlerVars, One
<1> QED BY <1>2 DEF Life!Next, Life!ExperimentNext, Life!AdminStep

LEMMA LifeStops == ASSUME LifeInv, Stop PROVE Life!Next
<1>1. /\ status # "none" /\ status' = "stopped" /\ UNCHANGED <<shown, overdue, pending, log>>
  BY DEF Stop
<1>2. Life!StopExperiment("experiment")
  BY <1>1 DEF Life!StopExperiment, Life!Exists, Life!Alive, Life!blockVars, Life!handlerVars, One
<1> QED BY <1>2 DEF Life!Next, Life!ExperimentNext, Life!AdminStep

LEMMA LifePassesDeadline == ASSUME LifeInv, PassDeadline PROVE Life!Next
<1>1. /\ status = "running" /\ ~overdue /\ overdue' = TRUE /\ UNCHANGED <<status, shown, pending, log>>
  BY DEF PassDeadline
<1>2. Life!PassDeadline("experiment")
  BY <1>1 DEF Life!PassDeadline, Life!Running, Life!Exists, Life!Alive, Life!blockVars,
              Life!handlerVars, One
<1> QED BY <1>2 DEF Life!Next, Life!ExperimentNext

\* What the steps of a decision leave alone, in terms of the life cycle.
LEMMA LifeUnchanged ==
  ASSUME UNCHANGED <<status, shown, overdue, log>>
  PROVE  UNCHANGED <<Life!blockVars, Life!rowVars>>
  BY DEF Life!blockVars, Life!rowVars, One

LEMMA LifeLoads == ASSUME LifeInv, NEW o \in Op, Load(o) PROVE Life!Next
<1> DEFINE t == [op |-> o, step |-> "loaded", counts |-> [a \in Arm |-> Zero], verdict |-> NoVersion]
           u == [handler |-> "request", op |-> o, exp |-> "experiment", step |-> "loaded",
                 verdict |-> NoVersion]
<1>1. pending = {} /\ status = "running" /\ pending' = {t} /\ UNCHANGED <<status, shown, overdue, log>>
  BY DEF Load
<1>2. LifeTask(t) = u
  BY DEF LifeTask
<1> HIDE DEF t, u
<1>3. LifeTasks = {} /\ LifeTasks' = {u}
  BY <1>1, <1>2 DEF LifeTasks, LifeTask
<1>4. UNCHANGED <<Life!blockVars, Life!rowVars>>
  BY <1>1, LifeUnchanged
<1>5. Life!LoadRequest("request", o, "experiment")
  BY <1>1, <1>3, <1>4
     DEF Life!LoadRequest, Life!LoadExperiment, Life!LoadTask, Life!Idle, Life!Running, Life!Exists,
         Life!Alive, One, LifeTasks, LifeTask, u
<1> QED BY <1>5 DEF Life!Next, Life!ExperimentNext, Life!RequestStep, Life!Op, Op

\* A task of the life cycle, and what an analysis makes of it.
Asked(o, s, v) ==
  [handler |-> "request", op |-> o, exp |-> "experiment", step |-> s, verdict |-> v]

LEMMA AskedIs ==
  ASSUME NEW o, NEW s, NEW v
  PROVE  /\ Asked(o, s, v).handler = "request" /\ Asked(o, s, v).op = o
         /\ Asked(o, s, v).exp = "experiment" /\ Asked(o, s, v).step = s
         /\ Asked(o, s, v).verdict = v
         /\ \A z : [Asked(o, s, v) EXCEPT !.step = z] = Asked(o, z, v)
         /\ \A z : [Asked(o, s, v) EXCEPT !.verdict = z] = Asked(o, s, z)
  BY DEF Asked

LEMMA LifeAnalyses == ASSUME IInv, LifeInv, NEW t \in pending, Analyse(t) PROVE Life!Next
<1> DEFINE u == LifeTask(t)
<1>1. UNCHANGED <<status, shown, overdue, log>>
  BY DEF Analyse
<1>2. UNCHANGED <<Life!blockVars, Life!rowVars>>
  BY <1>1, LifeUnchanged
<1>3. /\ TaskOK(t) /\ t.step = "loaded" /\ pending = {t}
      /\ \/ pending' = {} /\ t.op = "decide" /\ ~overdue
         \/ \E v \in Tested \cup {NoVersion} :
              /\ pending' = {Analysed(t, v)}
              /\ v = NoVersion => t.op # "promote"
              /\ v # NoVersion => t.op # "no_winner"
  BY AnalysisIs
<1>4. t.verdict = NoVersion
  BY <1>3 DEF TaskOK
<1>5. /\ u.handler = "request" /\ u.op = t.op /\ u.exp = "experiment" /\ u.step = "loaded"
      /\ u.verdict = NoVersion
      /\ u = Asked(t.op, "loaded", NoVersion)
  BY <1>3, <1>4 DEF LifeTask, Asked
<1>6. LifeTasks = {u}
  BY <1>3 DEF LifeTasks
<1>7. status # "none"
  BY DEF LifeInv
<1>8. ASSUME pending' = {}, t.op = "decide", ~overdue PROVE Life!Analyse(u)
  <2>1. LifeTasks' = {}
    BY <1>8 DEF LifeTasks
  <2> HIDE DEF u
  <2>2. Life!MayContinue(u) /\ Life!Finish(u)
    BY <1>5, <1>6, <1>8, <2>1 DEF Life!MayContinue, Life!Finish, One, LifeTasks, LifeTask
  <2> QED BY <1>2, <1>5, <2>2 DEF Life!Analyse
<1>9. ASSUME NEW v \in Tested \cup {NoVersion},
             pending' = {Analysed(t, v)}, v = NoVersion => t.op # "promote",
             v # NoVersion => t.op # "no_winner"
      PROVE  Life!Analyse(u)
  <2> DEFINE w == IF v = NoVersion THEN NoVersion ELSE VersionOf(v)
             y == [u EXCEPT !.step = "analysed", !.verdict = w]
  <2>1. LifeTask(Analysed(t, v)) = y
    <3> DEFINE a == Analysed(t, v)
    <3>1. a.op = t.op /\ a.step = "analysed" /\ a.verdict = v
      BY <1>3, AnalysedIsOK
    <3> HIDE DEF a
    <3>2. LifeTask(a) = Asked(t.op, "analysed", w)
      BY <3>1 DEF LifeTask, Asked
    <3> HIDE DEF u, w
    <3>3. y = Asked(t.op, "analysed", w)
      <4>1. [u EXCEPT !.step = "analysed"] = Asked(t.op, "analysed", NoVersion)
        BY <1>5, AskedIs
      <4>2. [Asked(t.op, "analysed", NoVersion) EXCEPT !.verdict = w] = Asked(t.op, "analysed", w)
        BY AskedIs
      <4> QED BY <4>1, <4>2, Zenon
    <3> QED BY <3>2, <3>3 DEF a
  <2>2. LifeTasks' = {LifeTask(Analysed(t, v))}
    BY <1>9 DEF LifeTasks, LifeTask
  <2> HIDE DEF u, y
  <2>3. Life!Advance(u, y)
    BY <1>6, <2>1, <2>2 DEF Life!Advance, LifeTasks, LifeTask
  <2>4. CASE v # NoVersion
    <3>1. w \in Life!Promotable(u)
      BY <1>5, <1>7, <1>9, <2>4 DEF Life!Promotable, One
    <3> HIDE DEF w
    <3>2. \E x \in Life!Promotable(u) : Life!Advance(u, [u EXCEPT !.step = "analysed", !.verdict = x])
      BY <2>3, <3>1 DEF y
    <3> QED BY <1>2, <1>5, <3>2 DEF Life!Analyse
  <2>5. CASE v = NoVersion
    <3>1. y = [u EXCEPT !.step = "analysed"]
      <4>1. w = NoVersion
        BY <2>5
      <4> HIDE DEF w
      <4> QED BY <1>5, <4>1, AskedIs DEF y
    <3>2. Life!MayDecline(u)
      BY <1>5, <1>9, <2>5 DEF Life!MayDecline
    <3> QED BY <1>2, <1>5, <2>3, <3>1, <3>2 DEF Life!Analyse
  <2> QED BY <2>4, <2>5
<1>10. Life!Analyse(u)
  BY <1>3, <1>8, <1>9
<1>11. u \in LifeTasks /\ u.handler \in {"request"}
  BY <1>5, <1>6
<1> QED BY <1>10, <1>11 DEF Life!Next, Life!ExperimentNext, Life!RequestStep, LifeTasks, LifeTask

LEMMA LifeConcludes == ASSUME LifeInv, NEW t \in pending, Conclude(t) PROVE Life!Next
<1> DEFINE u == LifeTask(t)
           row == DecisionRow(t)
           p == Promoted(t)
           note == [decision |-> IF p = NoVersion THEN "no_improvement" ELSE "winner", promoted |-> p]
<1>1. /\ t.step = "analysed" /\ pending = {t} /\ pending' = {} /\ UNCHANGED overdue
      /\ t.verdict \in Tested \cup {NoVersion}
  BY DEF Conclude, LifeInv, TaskOK
<1>2. p = NoVersion <=> t.verdict = NoVersion
  BY <1>1, VersionsOfArms DEF Promoted
<1>3. u = Asked(t.op, "analysed", p)
  BY <1>1 DEF LifeTask, Asked, Promoted
<1>4. /\ u.handler = "request" /\ u.exp = "experiment" /\ u.step = "analysed" /\ u.verdict = p
  BY <1>3, AskedIs
<1>5. row.promoted = p
  BY DEF DecisionRow
<1>6. Life!DecisionRow(u) = note
  BY <1>4 DEF Life!DecisionRow
<1>7. LifeTasks = {u} /\ LifeTasks' = {}
  BY <1>1 DEF LifeTasks
<1> HIDE DEF u, row, p
<1>8. u \in LifeTasks /\ Life!Finish(u)
  BY <1>7 DEF Life!Finish, LifeTasks, LifeTask
<1>9. CASE ~Latch
  <2>1. UNCHANGED <<log, status, shown, overdue>> /\ status # "running"
    BY <1>1, <1>9 DEF Conclude, Latch
  <2>2. UNCHANGED <<Life!blockVars, Life!rowVars>>
    BY <2>1, LifeUnchanged
  <2>3. ~Life!Latch(u.exp)
    BY <1>4, <2>1 DEF Life!Latch, Life!Running, One
  <2>4. Life!Conclude(u)
    BY <1>4, <1>8, <2>2, <2>3 DEF Life!Conclude, Life!blockVars, Life!rowVars
  <2> QED BY <1>4, <1>8, <2>4 DEF Life!Next, Life!ExperimentNext, Life!RequestStep, LifeTasks, LifeTask
<1>10. CASE Latch
  <2>1. /\ log = <<>> /\ log' = <<row>> /\ status = "running" /\ status' = "decided"
        /\ shown' = IF p = NoVersion THEN shown ELSE p
    <3>1. /\ status = "running" /\ status' = "decided" /\ log' = Append(log, row)
          /\ shown' = IF t.verdict = NoVersion THEN shown ELSE p
      BY <1>10 DEF Conclude, Latch, row, p
    <3>2. log = <<>>
      BY <3>1 DEF LifeInv
    <3> QED BY <1>2, <3>1, <3>2
  <2>2. LifeLog = <<>> /\ LifeLog' = <<note>>
    BY <1>5, <2>1 DEF LifeLog
  <2>3. LifeDecision' = note.decision /\ LifeWinner' = p
    BY <1>5, <2>1 DEF LifeDecision, LifeWinner
  <2>4. One(LifeLog)' = [One(LifeLog) EXCEPT !["experiment"] = Append(@, note)]
    BY <2>2 DEF One
  <2>5. /\ One(status)' = [One(status) EXCEPT !["experiment"] = "decided"]
        /\ One(LifeDecision)' = [One(LifeDecision) EXCEPT !["experiment"] = note.decision]
        /\ One(LifeWinner)' = [One(LifeWinner) EXCEPT !["experiment"] = p]
    BY <2>1, <2>3 DEF One
  <2>6. Block1(shown)' = IF p = NoVersion THEN Block1(shown)
                         ELSE [Block1(shown) EXCEPT ![One("block")["experiment"]] = p]
    BY <2>1, OneIs DEF Block1
  <2>7. Life!Latch(u.exp)
    BY <1>4, <2>1 DEF Life!Latch, Life!Running, Life!Exists, Life!Alive, One
  <2>8. UNCHANGED <<LifePool, LifeControl, LifeArms, overdue>>
    BY <1>1, <2>1 DEF LifePool, LifeControl, LifeArms, Version
  <2> HIDE DEF note
  <2>9. Life!DecisionRow(u).decision = note.decision
    BY <1>6
  <2>10. Life!Conclude(u)
    <3>1. /\ Life!Repointed(u) = IF p = NoVersion THEN Block1(shown)
                                 ELSE [Block1(shown) EXCEPT ![One("block")["experiment"]] = p]
      BY <1>4 DEF Life!Repointed, Block1
    <3> QED BY <1>4, <1>6, <1>8, <2>4, <2>5, <2>6, <2>7, <2>8, <2>9, <3>1
            DEF Life!Conclude, Block1, LifePool, LifeControl, LifeArms, LifeLog, LifeDecision, LifeWinner
  <2> QED BY <1>4, <1>8, <2>10 DEF Life!Next, Life!ExperimentNext, Life!RequestStep, LifeTasks, LifeTask
<1> QED BY <1>9, <1>10

LEMMA LifeAbandons == ASSUME LifeInv, Abandon PROVE Life!Next
<1>1. PICK t : pending = {t} /\ TaskOK(t)
  BY DEF Abandon, LifeInv
<1> DEFINE u == LifeTask(t)
<1>2. pending' = {} /\ UNCHANGED <<status, shown, overdue, log>>
  BY DEF Abandon
<1>3. LifeTasks = {u} /\ LifeTasks' = {}
  BY <1>1, <1>2 DEF LifeTasks
<1>4. u.handler = "request"
  BY DEF LifeTask
<1>5. UNCHANGED <<Life!blockVars, Life!rowVars>>
  BY <1>2, LifeUnchanged
<1> HIDE DEF u
<1>6. u \in LifeTasks /\ Life!Abandon(u)
  BY <1>3, <1>4, <1>5 DEF Life!Abandon, Life!Finish, LifeTasks, LifeTask
<1> QED BY <1>4, <1>6 DEF Life!Next, Life!ExperimentNext, Life!RequestStep, LifeTasks, LifeTask

\* Readers and their events change nothing that the life cycle knows of.
LEMMA LifeStutters ==
  ASSUME UNCHANGED <<status, shown, overdue, pending, log>>
  PROVE  UNCHANGED Life!vars
<1>1. UNCHANGED <<Life!blockVars, Life!rowVars>>
  BY LifeUnchanged
<1>2. LifeTasks' = LifeTasks
  BY DEF LifeTasks, LifeTask
<1> QED BY <1>1, <1>2 DEF Life!vars, Life!handlerVars, LifeTasks, LifeTask

LEMMA LifeSteps == IInv /\ LifeInv /\ [Next]_vars => [Life!Next]_(Life!vars)
<1> SUFFICES ASSUME IInv, LifeInv, [Next]_vars PROVE Life!Next \/ UNCHANGED Life!vars
  OBVIOUS
<1>1. CASE ReaderStep \/ UNCHANGED vars
  <2>1. UNCHANGED <<status, shown, overdue, pending, log>>
    BY <1>1 DEF ReaderStep, OpenArticle, CheckEvent, InsertEvent, vars
  <2> QED BY <2>1, LifeStutters
<1>2. CASE DecisionStep
  BY <1>2, LifeLoads, LifeAnalyses, LifeConcludes, LifeAbandons DEF DecisionStep
<1>3. CASE Create \/ Start \/ Stop \/ PassDeadline
  BY <1>3, LifeCreates, LifeStartsRunning, LifeStops, LifePassesDeadline
<1> QED BY <1>1, <1>2, <1>3 DEF Next

\* A measured experiment is one of the life cycle: whatever the events, the engine
\* comes to no verdict that module Experiments does not allow for, and a decision takes
\* the same steps there.
THEOREM ExperimentsImplemented == Spec => ImplementsExperiments
  BY LifeStarts, LifeSteps, LifeInvariance, PTL DEF Spec, ImplementsExperiments, Life!Spec
=============================================================================
