---------------------------- MODULE SavingProofs ----------------------------
(***************************************************************************)
(* Proofs about Saving, for every number of tabs, blocks, versions and     *)
(* contents, whatever happens between loading an article and writing it.   *)
(*                                                                         *)
(* What a tab has loaded may be old, and yet it is true: blocks keep their *)
(* kinds and versions their contents while the article exists.  So the     *)
(* merge, which pairs by kind and reuses a version by content, puts the    *)
(* right block and the right content at each place of the draft, and what  *)
(* was in the article before plays no part.                                *)
(***************************************************************************)
EXTENDS Saving, FiniteSetTheorems, WellFoundedInduction, TLAPS

-----------------------------------------------------------------------------
(***************************************************************************)
(* The merge pairs blocks in order and by kind, as many as can be.  The    *)
(* table and the walk through it are recursive functions; that they are    *)
(* defined and what they return follow from the cell nearest to the end    *)
(* for which they would fail.                                              *)
(***************************************************************************)

\* A set of natural numbers that is not empty has a least one.
LEMMA Least ==
  ASSUME NEW T, T \subseteq Nat, T # {}
  PROVE  \E m \in T : \A n \in T : m <= n
<1> DEFINE R == OpToRel(<, Nat)
<1>1. IsWellFoundedOn(R, Nat)
  BY NatLessThanWellFounded
<1>2. \A x, y \in Nat : y < x => <<y, x>> \in R
  BY DEF OpToRel
<1> HIDE DEF R
<1>3. PICK x \in T : \A y \in T : ~(<<y, x>> \in R)
  BY <1>1, WFMin
<1>4. ASSUME NEW n \in T PROVE x <= n
  <2>1. x \in Nat /\ n \in Nat
    OBVIOUS
  <2>2. ~(n < x)
    BY <1>2, <1>3, <2>1
  <2> QED BY <2>1, <2>2
<1> QED BY <1>4

\* How far a cell is from the end.
Left(p, n, x) == Len(p) + Len(n) + 2 - x[1] - x[2]

LEMMA NextCells ==
  ASSUME NEW S, NEW p \in Seq(S), NEW n \in Seq(S), NEW x \in Cells(p, n)
  PROVE  /\ x = <<x[1], x[2]>> /\ x[1] \in 1..(Len(p) + 1) /\ x[2] \in 1..(Len(n) + 1)
         /\ Len(p) \in Nat /\ Len(n) \in Nat
         /\ Left(p, n, x) \in Nat
         /\ x[1] <= Len(p) /\ x[2] <= Len(n) =>
              \A y \in {<<x[1] + 1, x[2] + 1>>, <<x[1] + 1, x[2]>>, <<x[1], x[2] + 1>>} :
                y \in Cells(p, n) /\ Left(p, n, y) < Left(p, n, x)
<1>1. Len(p) \in Nat /\ Len(n) \in Nat
  OBVIOUS
<1>2. x = <<x[1], x[2]>> /\ x[1] \in 1..(Len(p) + 1) /\ x[2] \in 1..(Len(n) + 1)
  BY DEF Cells
<1>3. Left(p, n, x) \in Nat
  BY <1>1, <1>2 DEF Left
<1>4. ASSUME x[1] <= Len(p), x[2] <= Len(n),
             NEW y \in {<<x[1] + 1, x[2] + 1>>, <<x[1] + 1, x[2]>>, <<x[1], x[2] + 1>>}
      PROVE  y \in Cells(p, n) /\ Left(p, n, y) < Left(p, n, x)
  <2>1. y[1] \in {x[1], x[1] + 1} /\ y[2] \in {x[2], x[2] + 1} /\ y[1] + y[2] > x[1] + x[2]
        /\ y = <<y[1], y[2]>>
    BY <1>2, <1>4
  <2>2. y[1] \in 1..(Len(p) + 1) /\ y[2] \in 1..(Len(n) + 1)
    BY <1>1, <1>2, <1>4, <2>1
  <2>3. Left(p, n, y) < Left(p, n, x)
    BY <1>1, <1>2, <2>1, <2>2 DEF Left
  <2> QED BY <2>1, <2>2, <2>3 DEF Cells
<1> QED BY <1>1, <1>2, <1>3, <1>4

\* What holds of a cell when it holds of all that are nearer to the end holds of all.
LEMMA FromTheEnd ==
  ASSUME NEW S, NEW p \in Seq(S), NEW n \in Seq(S), NEW Good,
         \A x \in Cells(p, n) :
           (\A y \in Cells(p, n) : Left(p, n, y) < Left(p, n, x) => y \in Good) => x \in Good
  PROVE  Cells(p, n) \subseteq Good
<1> DEFINE Bad == Cells(p, n) \ Good
           T == {Left(p, n, x) : x \in Bad}
<1> SUFFICES ASSUME Bad # {} PROVE FALSE
  OBVIOUS
<1>1. \A x \in Cells(p, n) : Left(p, n, x) \in Nat
  BY NextCells
<1>2. PICK m \in T : \A k \in T : m <= k
  <2>1. T \subseteq Nat /\ T # {}
    BY <1>1
  <2> HIDE DEF T
  <2> QED BY <2>1, Least
<1>3. PICK x \in Bad : m = Left(p, n, x)
  OBVIOUS
<1>4. ASSUME NEW y \in Cells(p, n), Left(p, n, y) < Left(p, n, x) PROVE y \in Good
  <2>1. Left(p, n, y) \in Nat /\ Left(p, n, x) \in Nat
    BY <1>1
  <2>2. Left(p, n, y) \notin T
    <3> HIDE DEF T
    <3> QED BY <1>2, <1>3, <1>4, <2>1
  <2> QED BY <2>2
<1> QED BY <1>4

\* H looks at the later cells of a table only to fill a cell.
Ahead(H, F, p, n) ==
  \A x \in Cells(p, n) : \A f, g \in F :
    (\A y \in Cells(p, n) : Left(p, n, y) < Left(p, n, x) => f[y] = g[y]) => H[<<x, f>>] = H[<<x, g>>]

Filled(H, F, p, n) == \E f \in F : \A x \in Cells(p, n) : f[x] = H[<<x, f>>]

\* A table can be filled from its end, when each cell looks at later cells only.
LEMMA TableExists ==
  ASSUME NEW S, NEW p \in Seq(S), NEW n \in Seq(S), NEW V, V # {},
         NEW F, F = [Cells(p, n) -> V], NEW H, H \in [Cells(p, n) \X F -> V], Ahead(H, F, p, n)
  PROVE  Filled(H, F, p, n)
<1> DEFINE Good(k) == \E f \in F :
                        \A x \in Cells(p, n) : Left(p, n, x) < k => f[x] = H[<<x, f>>]
           Bad == {k \in Nat : ~Good(k)}
<1>1. \A x \in Cells(p, n) : Left(p, n, x) \in Nat
  BY NextCells
<1>2. Good(0)
  <2> PICK v \in V : TRUE
    OBVIOUS
  <2> DEFINE f == [x \in Cells(p, n) |-> v]
  <2>1. f \in F /\ \A x \in Cells(p, n) : ~(Left(p, n, x) < 0)
    BY <1>1
  <2> QED BY <2>1
<1>3. ASSUME NEW k \in Nat, Good(k) PROVE Good(k + 1)
  <2>1. PICK f \in F :
          \A x \in Cells(p, n) : Left(p, n, x) < k => f[x] = H[<<x, f>>]
    BY <1>3
  <2> DEFINE g == [x \in Cells(p, n) |-> H[<<x, f>>]]
  <2>2. g \in F /\ \A x \in Cells(p, n) : g[x] = H[<<x, f>>]
    OBVIOUS
  <2> HIDE DEF g
  <2>3. ASSUME NEW x \in Cells(p, n), Left(p, n, x) < k + 1
        PROVE  g[x] = H[<<x, g>>]
    <3>1. ASSUME NEW y \in Cells(p, n), Left(p, n, y) < Left(p, n, x) PROVE f[y] = g[y]
      <4>1. Left(p, n, x) \in Nat /\ Left(p, n, y) \in Nat
        BY <1>1
      <4>2. Left(p, n, y) < k
        BY <2>3, <3>1, <4>1
      <4> QED BY <2>1, <2>2, <4>2
    <3>2. H[<<x, f>>] = H[<<x, g>>]
      BY <2>2, <3>1 DEF Ahead
    <3> QED BY <2>2, <3>2
  <2> QED BY <2>2, <2>3
<1> HIDE DEF Good
<1>4. Bad = {}
  <2> SUFFICES ASSUME Bad # {} PROVE FALSE
    OBVIOUS
  <2>1. PICK k \in Bad : \A m \in Bad : k <= m
    BY Least
  <2>2. k \in Nat /\ k # 0 /\ ~Good(k)
    BY <1>2
  <2>3. k - 1 \in Nat /\ k - 1 \notin Bad
    BY <2>1, <2>2
  <2>4. Good(k - 1) /\ (k - 1) + 1 = k
    BY <2>2, <2>3
  <2>5. Good((k - 1) + 1)
    BY <1>3, <2>3, <2>4
  <2> QED BY <2>2, <2>4, <2>5
<1> DEFINE most == Len(p) + Len(n) + 2
<1>5. Good(most)
  BY <1>4
<1>6. PICK f \in F :
        \A x \in Cells(p, n) : Left(p, n, x) < most => f[x] = H[<<x, f>>]
  BY <1>5 DEF Good
<1>7. ASSUME NEW x \in Cells(p, n) PROVE Left(p, n, x) < most
  <2>1. x[1] \in 1..(Len(p) + 1) /\ x[2] \in 1..(Len(n) + 1) /\ Len(p) \in Nat /\ Len(n) \in Nat
    BY NextCells
  <2> QED BY <2>1 DEF Left
<1> QED BY <1>6, <1>7 DEF Filled

\* What the table has in a cell, and what the walk returns from it, given f for the
\* cells after it.
Count(f, p, n, x) ==
  IF x[1] > Len(p) \/ x[2] > Len(n) THEN 0
  ELSE IF p[x[1]] = n[x[2]] THEN f[<<x[1] + 1, x[2] + 1>>] + 1
  ELSE IF f[<<x[1] + 1, x[2]>>] >= f[<<x[1], x[2] + 1>>] THEN f[<<x[1] + 1, x[2]>>]
  ELSE f[<<x[1], x[2] + 1>>]

Walk(f, p, n, x) ==
  IF x[1] > Len(p) \/ x[2] > Len(n) THEN {}
  ELSE IF p[x[1]] = n[x[2]] THEN {x} \cup f[<<x[1] + 1, x[2] + 1>>]
  ELSE IF Common(p, n)[<<x[1] + 1, x[2]>>] >= Common(p, n)[<<x[1], x[2] + 1>>]
         THEN f[<<x[1] + 1, x[2]>>]
  ELSE f[<<x[1], x[2] + 1>>]

\* Both look at the cells after x only.
LEMMA LooksAhead ==
  ASSUME NEW S, NEW p \in Seq(S), NEW n \in Seq(S), NEW x \in Cells(p, n), NEW f, NEW g,
         \A y \in Cells(p, n) : Left(p, n, y) < Left(p, n, x) => f[y] = g[y]
  PROVE  Count(f, p, n, x) = Count(g, p, n, x) /\ Walk(f, p, n, x) = Walk(g, p, n, x)
<1>1. CASE x[1] > Len(p) \/ x[2] > Len(n)
  BY <1>1 DEF Count, Walk
<1>2. CASE ~(x[1] > Len(p) \/ x[2] > Len(n))
  <2>1. x[1] <= Len(p) /\ x[2] <= Len(n)
    <3>1. x[1] \in 1..(Len(p) + 1) /\ x[2] \in 1..(Len(n) + 1) /\ Len(p) \in Nat /\ Len(n) \in Nat
      BY NextCells
    <3> QED BY <1>2, <3>1
  <2>2. \A y \in {<<x[1] + 1, x[2] + 1>>, <<x[1] + 1, x[2]>>, <<x[1], x[2] + 1>>} : f[y] = g[y]
    BY <2>1, NextCells
  <2>3. /\ f[<<x[1] + 1, x[2] + 1>>] = g[<<x[1] + 1, x[2] + 1>>]
        /\ f[<<x[1] + 1, x[2]>>] = g[<<x[1] + 1, x[2]>>]
        /\ f[<<x[1], x[2] + 1>>] = g[<<x[1], x[2] + 1>>]
    BY <2>2
  <2> QED BY <1>2, <2>3 DEF Count, Walk
<1> QED BY <1>1, <1>2

\* Where the cells after x are, unless x is at the end.
LEMMA StepsAhead ==
  ASSUME NEW S, NEW p \in Seq(S), NEW n \in Seq(S), NEW x \in Cells(p, n),
         ~(x[1] > Len(p) \/ x[2] > Len(n))
  PROVE  /\ x[1] <= Len(p) /\ x[2] <= Len(n)
         /\ <<x[1] + 1, x[2] + 1>> \in Cells(p, n)
         /\ <<x[1] + 1, x[2]>> \in Cells(p, n) /\ <<x[1], x[2] + 1>> \in Cells(p, n)
<1>1. x[1] \in 1..(Len(p) + 1) /\ x[2] \in 1..(Len(n) + 1) /\ Len(p) \in Nat /\ Len(n) \in Nat
  BY NextCells
<1>2. x[1] <= Len(p) /\ x[2] <= Len(n)
  BY <1>1
<1> QED BY <1>2, NextCells

\* The table is filled as lcs_matches says.
LEMMA CommonIs ==
  ASSUME NEW S, NEW p \in Seq(S), NEW n \in Seq(S)
  PROVE  /\ Common(p, n) \in [Cells(p, n) -> Nat]
         /\ \A x \in Cells(p, n) : Common(p, n)[x] = Count(Common(p, n), p, n, x)
<1> DEFINE F == [Cells(p, n) -> Nat]
           H == [a \in Cells(p, n) \X F |-> Count(a[2], p, n, a[1])]
<1>1. ASSUME NEW x \in Cells(p, n), NEW f \in F PROVE Count(f, p, n, x) \in Nat
  <2>1. CASE x[1] > Len(p) \/ x[2] > Len(n)
    BY <2>1 DEF Count
  <2>2. CASE ~(x[1] > Len(p) \/ x[2] > Len(n))
    <3>1. /\ f[<<x[1] + 1, x[2] + 1>>] \in Nat
          /\ f[<<x[1] + 1, x[2]>>] \in Nat /\ f[<<x[1], x[2] + 1>>] \in Nat
      BY <2>2, StepsAhead
    <3> QED BY <2>2, <3>1 DEF Count
  <2> QED BY <2>1, <2>2
<1>2. \A x \in Cells(p, n) : \A f \in F : H[<<x, f>>] = Count(f, p, n, x)
  OBVIOUS
<1>3. H \in [Cells(p, n) \X F -> Nat]
  BY <1>1
<1> HIDE DEF H
<1>4. Ahead(H, F, p, n)
  <2> SUFFICES ASSUME NEW x \in Cells(p, n), NEW f \in F, NEW g \in F,
                      \A y \in Cells(p, n) : Left(p, n, y) < Left(p, n, x) => f[y] = g[y]
               PROVE  H[<<x, f>>] = H[<<x, g>>]
    BY DEF Ahead
  <2>1. Count(f, p, n, x) = Count(g, p, n, x)
    BY LooksAhead
  <2> QED BY <1>2, <2>1
<1>5. PICK f \in F : \A x \in Cells(p, n) : f[x] = H[<<x, f>>]
  <2>1. Nat # {} /\ F = [Cells(p, n) -> Nat]
    OBVIOUS
  <2> HIDE DEF F
  <2>2. Filled(H, F, p, n)
    BY <1>3, <1>4, <2>1, TableExists
  <2> QED BY <2>2 DEF Filled
<1>6. \A x \in Cells(p, n) : f[x] = Count(f, p, n, x)
  BY <1>2, <1>5
<1>7. f = [x \in Cells(p, n) |-> Count(f, p, n, x)]
  BY <1>6
<1> DEFINE c == CHOOSE g : g = [x \in Cells(p, n) |-> Count(g, p, n, x)]
<1>8. Common(p, n) = c
  BY DEF Common, Count
<1>9. c = [x \in Cells(p, n) |-> Count(c, p, n, x)]
  BY <1>7, Zenon
<1> HIDE DEF c
<1>10. ASSUME NEW x \in Cells(p, n) PROVE c[x] = Count(c, p, n, x)
  BY <1>9, Zenon
<1> DEFINE Good == {x \in Cells(p, n) : c[x] \in Nat}
<1>11. ASSUME NEW x \in Cells(p, n),
              \A y \in Cells(p, n) : Left(p, n, y) < Left(p, n, x) => y \in Good
       PROVE  x \in Good
  <2>1. CASE x[1] > Len(p) \/ x[2] > Len(n)
    <3>1. Count(c, p, n, x) = 0
      BY <2>1 DEF Count
    <3> QED BY <1>10, <3>1
  <2>2. CASE ~(x[1] > Len(p) \/ x[2] > Len(n))
    <3>1. /\ c[<<x[1] + 1, x[2] + 1>>] \in Nat
          /\ c[<<x[1] + 1, x[2]>>] \in Nat /\ c[<<x[1], x[2] + 1>>] \in Nat
      BY <1>11, <2>2, StepsAhead, NextCells
    <3> QED BY <1>10, <2>2, <3>1 DEF Count
  <2> QED BY <2>1, <2>2
<1>12. Cells(p, n) \subseteq Good
  BY <1>11, FromTheEnd
<1>13. \A x \in Cells(p, n) : c[x] \in Nat
  BY <1>12
<1>14. c \in [Cells(p, n) -> Nat]
  <2>1. c = [x \in Cells(p, n) |-> c[x]]
    BY <1>9
  <2> QED BY <1>13, <2>1
<1> QED BY <1>8, <1>10, <1>14

\* The walk is a function of the cells, and LcsMatches is where it leads from the first.
LEMMA WalkIs ==
  ASSUME NEW S, NEW p \in Seq(S), NEW n \in Seq(S)
  PROVE  \E f : /\ LcsMatches(p, n) = f[<<1, 1>>]
                /\ \A x \in Cells(p, n) : f[x] = Walk(f, p, n, x)
<1> DEFINE V == SUBSET Cells(p, n)
           F == [Cells(p, n) -> V]
           H == [a \in Cells(p, n) \X F |-> Walk(a[2], p, n, a[1])]
<1>1. ASSUME NEW x \in Cells(p, n), NEW f \in F PROVE Walk(f, p, n, x) \in V
  <2>1. CASE x[1] > Len(p) \/ x[2] > Len(n)
    BY <2>1 DEF Walk
  <2>2. CASE ~(x[1] > Len(p) \/ x[2] > Len(n))
    <3>1. /\ f[<<x[1] + 1, x[2] + 1>>] \in V
          /\ f[<<x[1] + 1, x[2]>>] \in V /\ f[<<x[1], x[2] + 1>>] \in V
      BY <2>2, StepsAhead
    <3> QED BY <2>2, <3>1 DEF Walk
  <2> QED BY <2>1, <2>2
<1>2. \A x \in Cells(p, n) : \A f \in F : H[<<x, f>>] = Walk(f, p, n, x)
  OBVIOUS
<1>3. H \in [Cells(p, n) \X F -> V]
  BY <1>1
<1> HIDE DEF H
<1>4. Ahead(H, F, p, n)
  <2> SUFFICES ASSUME NEW x \in Cells(p, n), NEW f \in F, NEW g \in F,
                      \A y \in Cells(p, n) : Left(p, n, y) < Left(p, n, x) => f[y] = g[y]
               PROVE  H[<<x, f>>] = H[<<x, g>>]
    BY DEF Ahead
  <2>1. Walk(f, p, n, x) = Walk(g, p, n, x)
    BY LooksAhead
  <2> QED BY <1>2, <2>1
<1>5. PICK f \in F : \A x \in Cells(p, n) : f[x] = H[<<x, f>>]
  <2>1. V # {} /\ F = [Cells(p, n) -> V]
    OBVIOUS
  <2> HIDE DEF F, V
  <2>2. Filled(H, F, p, n)
    BY <1>3, <1>4, <2>1, TableExists
  <2> QED BY <2>2 DEF Filled
<1>6. \A x \in Cells(p, n) : f[x] = Walk(f, p, n, x)
  BY <1>2, <1>5
<1>7. f = [x \in Cells(p, n) |-> Walk(f, p, n, x)]
  BY <1>6
<1> DEFINE w == CHOOSE g : g = [x \in Cells(p, n) |-> Walk(g, p, n, x)]
<1>8. LcsMatches(p, n) = w[<<1, 1>>]
  BY DEF LcsMatches, Walk
<1>9. w = [x \in Cells(p, n) |-> Walk(w, p, n, x)]
  BY <1>7, Zenon
<1> HIDE DEF w
<1>10. \A x \in Cells(p, n) : w[x] = Walk(w, p, n, x)
  BY <1>9, Zenon
<1> QED BY <1>8, <1>10

\* Matches at or after the cell x, in order.
InOrderFrom(p, n, x, pairs) ==
  /\ \A y \in pairs : /\ y = <<y[1], y[2]>> /\ y[1] \in x[1]..Len(p) /\ y[2] \in x[2]..Len(n)
                      /\ p[y[1]] = n[y[2]]
  /\ \A y, z \in pairs : y[1] < z[1] <=> y[2] < z[2]

\* What the walk returns from a cell on: matches in order, as many as the table has there.
LEMMA WalkReturns ==
  ASSUME NEW S, NEW p \in Seq(S), NEW n \in Seq(S), NEW f,
         \A x \in Cells(p, n) : f[x] = Walk(f, p, n, x)
  PROVE  \A x \in Cells(p, n) :
           /\ InOrderFrom(p, n, x, f[x])
           /\ IsFiniteSet(f[x]) /\ Cardinality(f[x]) = Common(p, n)[x]
<1> DEFINE Right(x) == /\ InOrderFrom(p, n, x, f[x])
                       /\ IsFiniteSet(f[x]) /\ Cardinality(f[x]) = Common(p, n)[x]
           Good == {x \in Cells(p, n) : Right(x)}
<1>1. ASSUME NEW x \in Cells(p, n),
             \A y \in Cells(p, n) : Left(p, n, y) < Left(p, n, x) => y \in Good
      PROVE  x \in Good
  <2>1. f[x] = Walk(f, p, n, x) /\ Common(p, n)[x] = Count(Common(p, n), p, n, x)
    BY CommonIs
  <2>2. x = <<x[1], x[2]>> /\ x[1] \in 1..(Len(p) + 1) /\ x[2] \in 1..(Len(n) + 1)
        /\ Len(p) \in Nat /\ Len(n) \in Nat
    BY NextCells
  <2>3. CASE x[1] > Len(p) \/ x[2] > Len(n)
    <3>1. f[x] = {} /\ Common(p, n)[x] = 0
      BY <2>1, <2>3 DEF Walk, Count
    <3> QED BY <3>1, FS_EmptySet DEF InOrderFrom
  <2>4. CASE ~(x[1] > Len(p) \/ x[2] > Len(n))
    <3>1. x[1] <= Len(p) /\ x[2] <= Len(n)
      BY <2>2, <2>4
    <3>2. \A y \in {<<x[1] + 1, x[2] + 1>>, <<x[1] + 1, x[2]>>, <<x[1], x[2] + 1>>} :
            y \in Cells(p, n) /\ Right(y)
      BY <1>1, <3>1, NextCells
    <3>3. CASE p[x[1]] = n[x[2]]
      <4> DEFINE d == <<x[1] + 1, x[2] + 1>>
                 r == f[d]
      <4>1. f[x] = {x} \cup r /\ Common(p, n)[x] = Common(p, n)[d] + 1
        BY <2>1, <2>4, <3>3 DEF Walk, Count
      <4>2. InOrderFrom(p, n, d, r) /\ IsFiniteSet(r) /\ Cardinality(r) = Common(p, n)[d]
        BY <3>2
      <4>3. d[1] = x[1] + 1 /\ d[2] = x[2] + 1
        OBVIOUS
      <4> HIDE DEF r, d
      <4>4. ASSUME NEW y \in r
            PROVE  /\ y = <<y[1], y[2]>> /\ y[1] \in (x[1] + 1)..Len(p) /\ y[2] \in (x[2] + 1)..Len(n)
                   /\ p[y[1]] = n[y[2]]
        BY <4>2, <4>3 DEF InOrderFrom
      <4>5. ASSUME NEW y \in {x} \cup r
            PROVE  /\ y = <<y[1], y[2]>> /\ y[1] \in x[1]..Len(p) /\ y[2] \in x[2]..Len(n)
                   /\ p[y[1]] = n[y[2]]
        <5>1. CASE y = x
          BY <2>2, <3>1, <3>3, <5>1
        <5>2. CASE y \in r
          BY <2>2, <4>4, <5>2
        <5> QED BY <5>1, <5>2
      <4>6. ASSUME NEW y \in {x} \cup r, NEW z \in {x} \cup r PROVE y[1] < z[1] <=> y[2] < z[2]
        <5>1. CASE y \in r /\ z \in r
          BY <4>2, <5>1 DEF InOrderFrom
        <5>2. CASE y = x /\ z = x
          BY <2>2, <5>2
        <5>3. CASE y = x /\ z \in r
          BY <2>2, <4>4, <5>3
        <5>4. CASE y \in r /\ z = x
          BY <2>2, <4>4, <5>4
        <5> QED BY <5>1, <5>2, <5>3, <5>4
      <4>7. x \notin r
        BY <2>2, <4>4
      <4>8. IsFiniteSet(f[x]) /\ Cardinality(f[x]) = Common(p, n)[x]
        BY <4>1, <4>2, <4>7, FS_AddElement
      <4> QED BY <4>1, <4>5, <4>6, <4>8 DEF InOrderFrom
    <3>4. CASE p[x[1]] # n[x[2]]
      <4>1. PICK y \in {<<x[1] + 1, x[2]>>, <<x[1], x[2] + 1>>} :
              f[x] = f[y] /\ Common(p, n)[x] = Common(p, n)[y]
        BY <2>1, <2>4, <3>4 DEF Walk, Count
      <4>2. InOrderFrom(p, n, y, f[y]) /\ IsFiniteSet(f[y]) /\ Cardinality(f[y]) = Common(p, n)[y]
        BY <3>2
      <4>3. y[1] \in {x[1], x[1] + 1} /\ y[2] \in {x[2], x[2] + 1}
        OBVIOUS
      <4>4. ASSUME NEW z \in f[y]
            PROVE  /\ z = <<z[1], z[2]>> /\ z[1] \in x[1]..Len(p) /\ z[2] \in x[2]..Len(n)
                   /\ p[z[1]] = n[z[2]]
        <5>1. z = <<z[1], z[2]>> /\ z[1] \in y[1]..Len(p) /\ z[2] \in y[2]..Len(n) /\ p[z[1]] = n[z[2]]
          BY <4>2 DEF InOrderFrom
        <5> QED BY <2>2, <4>3, <5>1
      <4> QED BY <4>1, <4>2, <4>4 DEF InOrderFrom
    <3> QED BY <3>3, <3>4
  <2> QED BY <2>3, <2>4
<1> HIDE DEF Right
<1>2. Cells(p, n) \subseteq Good
  BY <1>1, FromTheEnd
<1> QED BY <1>2 DEF Right

\* No matches in order are more than the table has.
LEMMA MostFrom ==
  ASSUME NEW S, NEW p \in Seq(S), NEW n \in Seq(S)
  PROVE  \A x \in Cells(p, n) : \A pairs :
           InOrderFrom(p, n, x, pairs) =>
             IsFiniteSet(pairs) /\ Cardinality(pairs) <= Common(p, n)[x]
<1> DEFINE Bound(x) == \A pairs : InOrderFrom(p, n, x, pairs) =>
                         IsFiniteSet(pairs) /\ Cardinality(pairs) <= Common(p, n)[x]
           Good == {x \in Cells(p, n) : Bound(x)}
<1>1. ASSUME NEW x \in Cells(p, n),
             \A y \in Cells(p, n) : Left(p, n, y) < Left(p, n, x) => y \in Good
      PROVE  x \in Good
  <2> SUFFICES ASSUME NEW Q, InOrderFrom(p, n, x, Q)
               PROVE  IsFiniteSet(Q) /\ Cardinality(Q) <= Common(p, n)[x]
    OBVIOUS
  <2>1. Common(p, n)[x] = Count(Common(p, n), p, n, x)
    BY CommonIs
  <2>2. x[1] \in 1..(Len(p) + 1) /\ x[2] \in 1..(Len(n) + 1) /\ Len(p) \in Nat /\ Len(n) \in Nat
    BY NextCells
  <2>3. ASSUME NEW y \in Q
        PROVE  /\ y = <<y[1], y[2]>> /\ y[1] \in x[1]..Len(p) /\ y[2] \in x[2]..Len(n)
               /\ p[y[1]] = n[y[2]]
    BY DEF InOrderFrom
  <2>4. ASSUME NEW y \in Q, NEW z \in Q PROVE y[1] < z[1] <=> y[2] < z[2]
    BY DEF InOrderFrom
  <2>5. CASE x[1] > Len(p) \/ x[2] > Len(n)
    <3>1. Q = {}
      BY <2>2, <2>3, <2>5
    <3>2. Common(p, n)[x] = 0
      BY <2>1, <2>5 DEF Count
    <3> QED BY <3>1, <3>2, FS_EmptySet
  <2>6. CASE ~(x[1] > Len(p) \/ x[2] > Len(n))
    <3> DEFINE d == <<x[1] + 1, x[2] + 1>>
               a == <<x[1] + 1, x[2]>>
               b == <<x[1], x[2] + 1>>
    <3>1. x[1] <= Len(p) /\ x[2] <= Len(n)
      BY <2>2, <2>6
    <3>2. Bound(d) /\ Bound(a) /\ Bound(b)
      BY <1>1, <3>1, NextCells
    <3>3. Common(p, n)[d] \in Nat /\ Common(p, n)[a] \in Nat /\ Common(p, n)[b] \in Nat
      BY <2>6, StepsAhead, CommonIs
    <3>4. CASE p[x[1]] = n[x[2]]
      \* At most one pair is in the row or the column of x.
      <4> DEFINE R == {y \in Q : y[1] > x[1] /\ y[2] > x[2]}
      <4>1. Common(p, n)[x] = Common(p, n)[d] + 1
        BY <2>1, <2>6, <3>4 DEF Count
      <4>2. InOrderFrom(p, n, d, R)
        <5>1. ASSUME NEW y \in R
              PROVE  /\ y = <<y[1], y[2]>> /\ y[1] \in (x[1] + 1)..Len(p)
                     /\ y[2] \in (x[2] + 1)..Len(n) /\ p[y[1]] = n[y[2]]
          BY <2>2, <2>3
        <5>2. d[1] = x[1] + 1 /\ d[2] = x[2] + 1
          OBVIOUS
        <5> HIDE DEF d
        <5> QED BY <2>4, <5>1, <5>2 DEF InOrderFrom
      <4>3. IsFiniteSet(R) /\ Cardinality(R) <= Common(p, n)[d]
        BY <3>2, <4>2
      <4>4. Cardinality(R) \in Nat
        BY <4>3, FS_CardinalityType
      <4>5. CASE Q \subseteq R
        <5>1. Q = R
          BY <4>5
        <5> HIDE DEF R, d
        <5> QED BY <3>3, <4>1, <4>3, <4>4, <5>1
      <4>6. CASE ~(Q \subseteq R)
        <5>1. PICK z \in Q : z \notin R
          BY <4>6
        <5>2. ASSUME NEW y \in Q, y \notin R PROVE y = z
          <6>1. /\ y = <<y[1], y[2]>> /\ y[1] \in x[1]..Len(p) /\ y[2] \in x[2]..Len(n)
                /\ z = <<z[1], z[2]>> /\ z[1] \in x[1]..Len(p) /\ z[2] \in x[2]..Len(n)
            BY <2>3
          <6>2. (y[1] = x[1] \/ y[2] = x[2]) /\ (z[1] = x[1] \/ z[2] = x[2])
            BY <2>2, <5>1, <5>2, <6>1
          <6>3. (y[1] < z[1] <=> y[2] < z[2]) /\ (z[1] < y[1] <=> z[2] < y[2])
            BY <2>4
          <6>4. y[1] = z[1] /\ y[2] = z[2]
            BY <2>2, <6>1, <6>2, <6>3
          <6> QED BY <6>1, <6>4
        <5>3. Q = R \cup {z}
          BY <5>1, <5>2
        <5>4. IsFiniteSet(Q) /\ Cardinality(Q) <= Cardinality(R) + 1
          <6> HIDE DEF R
          <6>1. IsFiniteSet(R \cup {z}) /\ Cardinality(R \cup {z}) = Cardinality(R) + 1
            BY <4>3, <5>1, FS_AddElement
          <6> QED BY <4>4, <5>3, <6>1
        <5> HIDE DEF R, d
        <5>5. Cardinality(Q) \in Nat
          BY <5>4, FS_CardinalityType
        <5> QED BY <3>3, <4>1, <4>3, <4>4, <5>4, <5>5
      <4> QED BY <4>5, <4>6
    <3>5. CASE p[x[1]] # n[x[2]]
      \* No two pairs are one in the row of x and one in its column.
      <4>1. Common(p, n)[a] <= Common(p, n)[x] /\ Common(p, n)[b] <= Common(p, n)[x]
        BY <2>1, <2>6, <3>3, <3>5 DEF Count
      <4>2. (\A y \in Q : y[1] > x[1]) \/ (\A y \in Q : y[2] > x[2])
        <5> SUFFICES ASSUME NEW y \in Q, ~(y[1] > x[1]), NEW z \in Q, ~(z[2] > x[2]) PROVE FALSE
          OBVIOUS
        <5>1. y[1] = x[1] /\ z[2] = x[2] /\ y[1] \in Int /\ y[2] \in Int /\ z[1] \in Int /\ z[2] \in Int
              /\ y[2] >= x[2] /\ z[1] >= x[1]
          BY <2>2, <2>3
        <5>2. y[2] # x[2] /\ z[1] # x[1]
          BY <2>3, <3>5, <5>1
        <5>3. y[1] < z[1] <=> y[2] < z[2]
          BY <2>4
        <5> QED BY <2>2, <5>1, <5>2, <5>3
      <4>3. InOrderFrom(p, n, a, Q) \/ InOrderFrom(p, n, b, Q)
        <5>1. a[1] = x[1] + 1 /\ a[2] = x[2] /\ b[1] = x[1] /\ b[2] = x[2] + 1
          OBVIOUS
        <5> HIDE DEF a, b
        <5>2. CASE \A y \in Q : y[1] > x[1]
          <6>1. \A y \in Q : y[1] \in a[1]..Len(p) /\ y[2] \in a[2]..Len(n)
            BY <2>2, <2>3, <5>1, <5>2
          <6> QED BY <2>3, <2>4, <6>1 DEF InOrderFrom
        <5>3. CASE \A y \in Q : y[2] > x[2]
          <6>1. \A y \in Q : y[1] \in b[1]..Len(p) /\ y[2] \in b[2]..Len(n)
            BY <2>2, <2>3, <5>1, <5>3
          <6> QED BY <2>3, <2>4, <6>1 DEF InOrderFrom
        <5> QED BY <4>2, <5>2, <5>3
      <4>4. /\ IsFiniteSet(Q)
            /\ Cardinality(Q) <= Common(p, n)[a] \/ Cardinality(Q) <= Common(p, n)[b]
        BY <3>2, <4>3
      <4>5. Cardinality(Q) \in Nat /\ Common(p, n)[x] \in Nat
        BY <4>4, FS_CardinalityType, CommonIs
      <4> HIDE DEF a, b
      <4> QED BY <3>3, <4>1, <4>4, <4>5
    <3> QED BY <3>4, <3>5
  <2> QED BY <2>5, <2>6
<1> HIDE DEF Bound
<1>2. Cells(p, n) \subseteq Good
  BY <1>1, FromTheEnd
<1> QED BY <1>2 DEF Bound

LEMMA KindsAre ==
  ASSUME NEW s \in Seq(Loaded)
  PROVE  Kinds(s) \in Seq(Kind)
<1>1. Len(s) \in Nat /\ DOMAIN s = 1..Len(s) /\ \A i \in 1..Len(s) : s[i] \in Loaded
  OBVIOUS
<1>2. \A i \in 1..Len(s) : s[i].kind \in Kind
  BY <1>1 DEF Loaded
<1>3. Kinds(s) \in [1..Len(s) -> Kind]
  BY <1>1, <1>2 DEF Kinds
<1> QED BY <1>1, <1>3

\* The merge is a pairing, and no pairing has more pairs.
LEMMA MatchesAreMost ==
  ASSUME NEW S, NEW p \in Seq(S), NEW n \in Seq(S)
  PROVE  /\ LcsMatches(p, n) \in Pairings(p, n)
         /\ \A pairs \in Pairings(p, n) : Cardinality(pairs) <= Cardinality(LcsMatches(p, n))
<1>1. PICK f : /\ LcsMatches(p, n) = f[<<1, 1>>]
               /\ \A x \in Cells(p, n) : f[x] = Walk(f, p, n, x)
  BY WalkIs
<1>2. <<1, 1>> \in Cells(p, n) /\ DOMAIN p = 1..Len(p) /\ DOMAIN n = 1..Len(n)
  BY DEF Cells
<1>3. /\ InOrderFrom(p, n, <<1, 1>>, f[<<1, 1>>])
      /\ Cardinality(f[<<1, 1>>]) = Common(p, n)[<<1, 1>>]
  BY <1>1, <1>2, WalkReturns
<1>4. \A y \in f[<<1, 1>>] : y \in (DOMAIN p) \X (DOMAIN n) /\ p[y[1]] = n[y[2]]
  BY <1>2, <1>3 DEF InOrderFrom
<1>5. LcsMatches(p, n) \in Pairings(p, n)
  BY <1>1, <1>3, <1>4 DEF InOrderFrom, Pairings
<1>6. ASSUME NEW pairs \in Pairings(p, n) PROVE InOrderFrom(p, n, <<1, 1>>, pairs)
  BY <1>2 DEF InOrderFrom, Pairings
<1> QED BY <1>1, <1>2, <1>3, <1>5, <1>6, MostFrom

-----------------------------------------------------------------------------
(***************************************************************************)
(* New rows are numbered in document order, without gap and without tie.   *)
(***************************************************************************)

LEMMA RankIsNumbering ==
  ASSUME NEW m \in Nat, NEW S, S \subseteq 1..m
  PROVE  /\ IsFiniteSet(S) /\ Cardinality(S) \in Nat
         /\ \A k \in S : Rank(S, k) \in 1..Cardinality(S)
         /\ \A k, l \in S : Rank(S, k) = Rank(S, l) => k = l
         /\ \A r \in 1..Cardinality(S) : \E k \in S : Rank(S, k) = r
<1> DEFINE Upto(n) == {k \in S : k <= n}
           f == [k \in S |-> Rank(S, k)]
<1>1. IsFiniteSet(S) /\ Cardinality(S) \in Nat
  <2>1. IsFiniteSet(1..m) /\ S \in SUBSET (1..m)
    BY FS_Interval
  <2> QED BY <2>1, FS_Subset, FS_CardinalityType
<1>2. \A n : Rank(S, n) = Cardinality(Upto(n))
  BY DEF Rank
<1>3. ASSUME NEW n PROVE IsFiniteSet(Upto(n)) /\ Cardinality(Upto(n)) \in 0..Cardinality(S)
  <2>1. Upto(n) \in SUBSET S
    OBVIOUS
  <2> HIDE DEF Upto
  <2>2. IsFiniteSet(Upto(n)) /\ Cardinality(Upto(n)) <= Cardinality(S)
    BY <1>1, <2>1, FS_Subset
  <2>3. Cardinality(Upto(n)) \in Nat
    BY <2>2, FS_CardinalityType
  <2> QED BY <1>1, <2>2, <2>3
<1>4. ASSUME NEW k \in S PROVE Rank(S, k) \in 1..Cardinality(S)
  <2>1. k \in Upto(k)
    OBVIOUS
  <2> HIDE DEF Upto
  <2>2. Cardinality(Upto(k)) # 0
    BY <1>3, <2>1, FS_EmptySet
  <2> QED BY <1>1, <1>2, <1>3, <2>2
<1>5. ASSUME NEW k \in S, NEW l \in S, k < l PROVE Rank(S, k) # Rank(S, l)
  <2>1. Upto(k) \in SUBSET Upto(l) /\ l \in Upto(l) /\ l \notin Upto(k)
    <3>1. k \in Int /\ l \in Int /\ \A j \in S : j \in Int
      OBVIOUS
    <3>2. ASSUME NEW j \in Upto(k) PROVE j \in Upto(l)
      BY <1>5, <3>1
    <3>3. l \in Upto(l) /\ l \notin Upto(k)
      BY <1>5, <3>1
    <3> QED BY <3>2, <3>3
  <2> HIDE DEF Upto
  <2>2. Cardinality(Upto(l)) # Cardinality(Upto(k))
    BY <1>3, <2>1, FS_Subset
  <2> QED BY <1>2, <2>2
<1>6. ASSUME NEW k \in S, NEW l \in S, Rank(S, k) = Rank(S, l) PROVE k = l
  <2>1. k \in Int /\ l \in Int
    OBVIOUS
  <2>2. ~(k < l) /\ ~(l < k)
    BY <1>5, <1>6
  <2> QED BY <2>1, <2>2
<1>7. \A r \in 1..Cardinality(S) : \E k \in S : Rank(S, k) = r
  <2>1. f \in Injection(S, 1..Cardinality(S))
    BY <1>4, <1>6 DEF Injection, IsInjective
  <2>2. IsFiniteSet(1..Cardinality(S)) /\ Cardinality(1..Cardinality(S)) = Cardinality(S)
    BY <1>1, FS_Interval
  <2> HIDE DEF f
  <2>3. f \in Surjection(S, 1..Cardinality(S))
    BY <2>1, <2>2, FS_Injection
  <2> QED BY <2>3 DEF Surjection, f
<1> QED BY <1>1, <1>4, <1>6, <1>7

-----------------------------------------------------------------------------
(***************************************************************************)
(* The order in which live blocks are read.                                *)
(***************************************************************************)

\* The live rows hold the places from 0 to n - 1, each of them one.
Placed(rs, n) ==
  /\ \A b \in Live(rs) : rs[b].position \in 0..(n - 1)
  /\ \A b, c \in Live(rs) : rs[b].position = rs[c].position => b = c
  /\ \A i \in 0..(n - 1) : \E b \in Live(rs) : rs[b].position = i

\* As many of them are before a place as the place says.
LEMMA CountBelow ==
  ASSUME NEW rs, NEW n \in Nat, Placed(rs, n), NEW k \in 0..n
  PROVE  Cardinality({c \in Live(rs) : rs[c].position < k}) = k
<1> DEFINE B == {c \in Live(rs) : rs[c].position < k}
           f == [c \in B |-> rs[c].position]
<1>1. f \in Injection(B, 0..(k - 1)) /\ f \in Surjection(B, 0..(k - 1))
  <2>1. f \in [B -> 0..(k - 1)]
    BY DEF Placed
  <2>2. \A b, c \in B : f[b] = f[c] => b = c
    BY DEF Placed
  <2>3. ASSUME NEW i \in 0..(k - 1) PROVE \E b \in B : f[b] = i
    <3>1. i \in 0..(n - 1) /\ i < k
      OBVIOUS
    <3>2. PICK b \in Live(rs) : rs[b].position = i
      BY <3>1 DEF Placed
    <3> QED BY <3>1, <3>2
  <2> HIDE DEF f, B
  <2> QED BY <2>1, <2>2, <2>3 DEF Injection, IsInjective, Surjection
<1>2. IsFiniteSet(0..(k - 1)) /\ Cardinality(0..(k - 1)) = k
  BY FS_Interval
<1> HIDE DEF f, B
<1>3. Cardinality(B) = Cardinality(0..(k - 1))
  BY <1>1, <1>2, FS_Injection
<1> QED BY <1>2, <1>3 DEF B

LEMMA InOrderIs ==
  ASSUME NEW rs, NEW n \in Nat, Placed(rs, n)
  PROVE  /\ Cardinality(Live(rs)) = n
         /\ DOMAIN InOrder(rs) = 1..n
         /\ \A i \in 1..n : InOrder(rs)[i] \in Live(rs) /\ rs[InOrder(rs)[i]].position = i - 1
<1>1. Cardinality(Live(rs)) = n
  <2>1. {c \in Live(rs) : rs[c].position < n} = Live(rs)
    BY DEF Placed
  <2> QED BY <2>1, CountBelow
<1>2. ASSUME NEW i \in 1..n
      PROVE  InOrder(rs)[i] \in Live(rs) /\ rs[InOrder(rs)[i]].position = i - 1
  <2> DEFINE Before(b) == Cardinality({c \in Live(rs) : rs[c].position < rs[b].position})
  <2>1. \A b \in Live(rs) : Before(b) = rs[b].position
    <3> SUFFICES ASSUME NEW b \in Live(rs) PROVE Before(b) = rs[b].position
      OBVIOUS
    <3>1. rs[b].position \in 0..n
      BY DEF Placed
    <3> QED BY <3>1, CountBelow
  <2>2. PICK b \in Live(rs) : rs[b].position = i - 1
    BY DEF Placed
  <2>3. InOrder(rs)[i] = CHOOSE c \in Live(rs) : Before(c) = i - 1
    BY <1>1 DEF InOrder
  <2> HIDE DEF Before
  <2>4. \E c \in Live(rs) : Before(c) = i - 1
    BY <2>1, <2>2
  <2>5. InOrder(rs)[i] \in Live(rs) /\ Before(InOrder(rs)[i]) = i - 1
    BY <2>3, <2>4
  <2> QED BY <2>1, <2>5
<1>3. DOMAIN InOrder(rs) = 1..n
  BY <1>1 DEF InOrder
<1> QED BY <1>1, <1>2, <1>3

-----------------------------------------------------------------------------
(***************************************************************************)
(* What the merge returns.                                                 *)
(***************************************************************************)

\* What a save loaded of the rows is still true of them.
Fresh(save) ==
  /\ \A i \in DOMAIN save.previous :
       LET old == save.previous[i] IN
       /\ old.block \in Block /\ rows[old.block].kind = old.kind
       /\ old.version \in Version /\ pool[old.version].block = old.block
  /\ \A i, j \in DOMAIN save.previous :
       save.previous[i].block = save.previous[j].block => i = j

\* Each place of the draft gets a block of its own and of its kind, new or loaded,
\* and a version of that block with the content that was written.
Assigned(merged, draft) ==
  /\ DOMAIN merged.blocks = DOMAIN draft
  /\ merged.inserted \subseteq merged.versioned /\ merged.versioned \subseteq DOMAIN draft
  /\ \A k \in DOMAIN draft : merged.blocks[k].kind = draft[k].kind
  /\ \A k \in merged.inserted : merged.blocks[k].block = Len(rows) + Rank(merged.inserted, k)
  /\ \A k \in DOMAIN draft \ merged.inserted :
       /\ merged.blocks[k].block \in Block
       /\ rows[merged.blocks[k].block].kind = draft[k].kind
  /\ \A k, l \in DOMAIN draft : merged.blocks[k].block = merged.blocks[l].block => k = l
  /\ \A k \in merged.versioned : merged.blocks[k].version = Len(pool) + Rank(merged.versioned, k)
  /\ \A k \in DOMAIN draft \ merged.versioned :
       /\ merged.blocks[k].version \in Version
       /\ pool[merged.blocks[k].version].block = merged.blocks[k].block
       /\ pool[merged.blocks[k].version].content = draft[k].content

LEMMA DraftIs ==
  ASSUME NEW draft \in Draft
  PROVE  /\ draft \in Seq(Paragraph) /\ Len(draft) \in 0..MaxLength
         /\ DOMAIN draft = 1..Len(draft)
         /\ Kinds(draft) \in Seq(Kind) /\ DOMAIN Kinds(draft) = DOMAIN draft
         /\ \A k \in DOMAIN draft : /\ draft[k].kind \in Kind /\ draft[k].content \in Content
                                    /\ draft[k] = [kind |-> draft[k].kind, content |-> draft[k].content]
<1>1. PICK n \in 0..MaxLength : draft \in [1..n -> Paragraph]
  BY DEF Draft
<1>2. n \in Nat
  BY UnitAssumption
<1>3. draft \in Seq(Paragraph) /\ Len(draft) = n /\ DOMAIN draft = 1..n
  BY <1>1, <1>2
<1>4. Kinds(draft) = [i \in 1..n |-> draft[i].kind]
  BY <1>3 DEF Kinds
<1>5. Kinds(draft) \in [1..n -> Kind]
  BY <1>1, <1>4 DEF Paragraph
<1>6. ASSUME NEW k \in DOMAIN draft
      PROVE  /\ draft[k].kind \in Kind /\ draft[k].content \in Content
             /\ draft[k] = [kind |-> draft[k].kind, content |-> draft[k].content]
  <2>1. draft[k] \in Paragraph
    BY <1>1, <1>3
  <2> QED BY <2>1 DEF Paragraph
<1> QED BY <1>2, <1>3, <1>4, <1>5, <1>6

LEMMA MergeIs ==
  ASSUME rows \in Seq(Row), pool \in Seq(VersionRow), NEW save \in Save, Fresh(save),
         NEW draft \in Draft
  PROVE  Assigned(Merge(save, draft), draft)
<1> DEFINE prev == save.previous
           pairs == LcsMatches(Kinds(prev), Kinds(draft))
           matched == {pair[2] : pair \in pairs}
           At(n) == (CHOOSE pair \in pairs : pair[2] = n)[1]
           Changed(n) == prev[At(n)].version \notin save.known
                         \/ pool[prev[At(n)].version].content # draft[n].content
           inserted == DOMAIN draft \ matched
           versioned == inserted \cup {n \in matched : Changed(n)}
           BlockAt(n) == IF n \in matched THEN prev[At(n)].block ELSE Len(rows) + Rank(inserted, n)
           VersionAt(n) == IF n \in versioned THEN Len(pool) + Rank(versioned, n) ELSE prev[At(n)].version
           blocks == [n \in DOMAIN draft |-> [block |-> BlockAt(n), kind |-> draft[n].kind,
                                              version |-> VersionAt(n)]]
<1>1. Merge(save, draft) = [blocks |-> blocks, inserted |-> inserted, versioned |-> versioned]
  BY DEF Merge
<1>2. prev \in Seq(Loaded) /\ Kinds(prev) \in Seq(Kind) /\ DOMAIN Kinds(prev) = DOMAIN prev
  <2>1. prev \in Seq(Loaded)
    BY DEF Save
  <2>2. Kinds(prev) \in Seq(Kind) /\ DOMAIN Kinds(prev) = DOMAIN prev
    BY <2>1, KindsAre DEF Kinds
  <2> QED BY <2>1, <2>2
<1>3. pairs \in Pairings(Kinds(prev), Kinds(draft))
  BY <1>2, DraftIs, MatchesAreMost
<1> HIDE DEF pairs
<1>4. /\ \A x \in pairs : x[1] \in DOMAIN prev /\ x[2] \in DOMAIN draft
                          /\ prev[x[1]].kind = draft[x[2]].kind
      /\ \A x, y \in pairs : x[1] < y[1] <=> x[2] < y[2]
  BY <1>2, <1>3, DraftIs DEF Pairings, Kinds
<1>5. ASSUME NEW n \in matched
      PROVE  At(n) \in DOMAIN prev /\ n \in DOMAIN draft /\ prev[At(n)].kind = draft[n].kind
  <2>1. PICK x \in pairs : x[2] = n
    OBVIOUS
  <2>2. (CHOOSE pair \in pairs : pair[2] = n) \in pairs /\ (CHOOSE pair \in pairs : pair[2] = n)[2] = n
    BY <2>1
  <2> QED BY <1>4, <2>2
<1>6. ASSUME NEW k \in matched, NEW l \in matched, At(k) = At(l)
      PROVE  k = l
  <2> DEFINE x == CHOOSE pair \in pairs : pair[2] = k
             y == CHOOSE pair \in pairs : pair[2] = l
  <2>1. x \in pairs /\ x[2] = k /\ y \in pairs /\ y[2] = l
    OBVIOUS
  <2>2. x[1] = y[1]
    BY <1>6
  <2> HIDE DEF x, y
  <2>3. x[1] \in Int /\ k \in Int /\ l \in Int
    <3>1. x[1] \in DOMAIN prev /\ k \in DOMAIN draft /\ l \in DOMAIN draft
      BY <1>4, <2>1
    <3>2. DOMAIN prev \subseteq Int /\ DOMAIN draft \subseteq Int
      BY <1>2, DraftIs
    <3> QED BY <3>1, <3>2
  <2>4. ~(k < l) /\ ~(l < k)
    BY <1>4, <2>1, <2>2, <2>3
  <2> QED BY <2>3, <2>4
<1>7. matched \subseteq DOMAIN draft
  BY <1>4
<1>8. ASSUME NEW n \in matched
      PROVE  /\ prev[At(n)].block \in Block
             /\ rows[prev[At(n)].block].kind = draft[n].kind
             /\ prev[At(n)].version \in Version
             /\ pool[prev[At(n)].version].block = prev[At(n)].block
  BY <1>5 DEF Fresh
<1>9. ASSUME NEW k \in matched, NEW l \in matched, prev[At(k)].block = prev[At(l)].block
      PROVE  k = l
  <2>1. At(k) = At(l)
    BY <1>5, <1>9 DEF Fresh
  <2> QED BY <1>6, <2>1
<1> HIDE DEF At, matched, prev
<1>10. /\ \A k \in inserted : Rank(inserted, k) \in Nat \ {0}
       /\ \A k, l \in inserted : Rank(inserted, k) = Rank(inserted, l) => k = l
  <2>1. inserted \subseteq 1..Len(draft) /\ Len(draft) \in Nat
    BY DraftIs
  <2> HIDE DEF inserted
  <2>2. /\ \A k \in inserted : Rank(inserted, k) \in 1..Cardinality(inserted)
        /\ \A k, l \in inserted : Rank(inserted, k) = Rank(inserted, l) => k = l
    BY <2>1, RankIsNumbering
  <2>3. Cardinality(inserted) \in Nat
    BY <2>1, RankIsNumbering
  <2> QED BY <2>2, <2>3
<1>11. Len(rows) \in Nat /\ Block = 1..Len(rows)
  BY DEF Block
<1>12. ASSUME NEW k \in DOMAIN draft, NEW l \in DOMAIN draft, BlockAt(k) = BlockAt(l) PROVE k = l
  <2>1. CASE k \in matched /\ l \in matched
    BY <1>9, <1>12, <2>1
  <2>2. CASE k \notin matched /\ l \notin matched
    <3>1. k \in inserted /\ l \in inserted
      BY <2>2
    <3>2. Len(rows) + Rank(inserted, k) = Len(rows) + Rank(inserted, l)
      BY <1>12, <2>2
    <3> HIDE DEF inserted
    <3> QED BY <1>10, <1>11, <3>1, <3>2
  <2>3. ASSUME NEW a \in matched, NEW b \in inserted PROVE BlockAt(a) # BlockAt(b)
    <3>1. BlockAt(a) \in 1..Len(rows)
      BY <1>8, <1>11
    <3>2. BlockAt(b) = Len(rows) + Rank(inserted, b)
      OBVIOUS
    <3> HIDE DEF BlockAt, inserted
    <3> QED BY <1>10, <1>11, <3>1, <3>2
  <2>4. CASE k \in matched /\ l \notin matched
    BY <1>12, <2>3, <2>4
  <2>5. CASE k \notin matched /\ l \in matched
    BY <1>12, <2>3, <2>5
  <2> QED BY <2>1, <2>2, <2>4, <2>5
<1>13. \A k \in DOMAIN draft \ versioned : k \in matched /\ pool[prev[At(k)].version].content = draft[k].content
  OBVIOUS
<1>14. inserted \subseteq versioned /\ versioned \subseteq DOMAIN draft
  BY <1>7
<1>15. /\ \A k \in inserted : BlockAt(k) = Len(rows) + Rank(inserted, k)
       /\ \A k \in DOMAIN draft \ inserted : BlockAt(k) = prev[At(k)].block /\ k \in matched
       /\ \A k \in versioned : VersionAt(k) = Len(pool) + Rank(versioned, k)
       /\ \A k \in DOMAIN draft \ versioned : VersionAt(k) = prev[At(k)].version
                                              /\ BlockAt(k) = prev[At(k)].block
  BY <1>13
<1> HIDE DEF inserted, versioned, BlockAt, VersionAt
<1> QED BY <1>1, <1>8, <1>12, <1>13, <1>14, <1>15 DEF Assigned

-----------------------------------------------------------------------------
(***************************************************************************)
(* What a save writes.                                                     *)
(***************************************************************************)

\* Blocks and versions are numbered from 1.
LEMMA AssignedTypes ==
  ASSUME rows \in Seq(Row), pool \in Seq(VersionRow), NEW draft \in Draft, NEW merged,
         Assigned(merged, draft), NEW k \in DOMAIN draft
  PROVE  merged.blocks[k].block \in Nat /\ merged.blocks[k].version \in Nat
<1>1. /\ Len(rows) \in Nat /\ Block = 1..Len(rows) /\ Len(pool) \in Nat /\ Version = 1..Len(pool)
  BY DEF Block, Version
<1>2. ASSUME NEW S, S \subseteq DOMAIN draft, k \in S PROVE Rank(S, k) \in Nat
  <2>1. S \subseteq 1..Len(draft) /\ Len(draft) \in Nat
    BY <1>2, DraftIs
  <2>2. Cardinality(S) \in Nat /\ Rank(S, k) \in 1..Cardinality(S)
    BY <1>2, <2>1, RankIsNumbering
  <2> QED BY <2>2
<1>3. merged.inserted \subseteq DOMAIN draft /\ merged.versioned \subseteq DOMAIN draft
  BY DEF Assigned
<1>4. merged.blocks[k].block \in Nat
  <2>1. CASE k \in merged.inserted
    <3>1. merged.blocks[k].block = Len(rows) + Rank(merged.inserted, k)
      BY <2>1 DEF Assigned
    <3>2. Rank(merged.inserted, k) \in Nat
      BY <1>2, <1>3, <2>1
    <3> QED BY <1>1, <3>1, <3>2
  <2>2. CASE k \notin merged.inserted
    <3>1. merged.blocks[k].block \in Block
      BY <2>2 DEF Assigned
    <3> QED BY <1>1, <3>1
  <2> QED BY <2>1, <2>2
<1>5. merged.blocks[k].version \in Nat
  <2>1. CASE k \in merged.versioned
    <3>1. merged.blocks[k].version = Len(pool) + Rank(merged.versioned, k)
      BY <2>1 DEF Assigned
    <3>2. Rank(merged.versioned, k) \in Nat
      BY <1>2, <1>3, <2>1
    <3> QED BY <1>1, <3>1, <3>2
  <2>2. CASE k \notin merged.versioned
    <3>1. merged.blocks[k].version \in Version
      BY <2>2 DEF Assigned
    <3> QED BY <1>1, <3>1
  <2> QED BY <2>1, <2>2
<1> QED BY <1>4, <1>5

\* A row that is parked, or parked deeper, is not live.
LEMMA RowDeeper ==
  ASSUME NEW r \in Row
  PROVE  LET d == [r EXCEPT !.position = @ - Unit] IN
         /\ d \in Row /\ d.kind = r.kind /\ d.version = r.version
         /\ d.position \in Int /\ d.position < 0
<1>1. r.position \in Int /\ r.position < MaxLength
  BY DEF Row
<1>2. r.position - Unit \in Int /\ r.position - Unit < 0 /\ r.position - Unit < MaxLength
  BY <1>1, UnitAssumption
<1> QED BY <1>2 DEF Row

\* The rows of the draft are placed in its order, all others are parked deeper.
RowsWritten(rs, draft, new) ==
  /\ rs \in Seq(Row)
  /\ \A b \in Block : b \in DOMAIN rs
  /\ \A k \in DOMAIN draft : LET b == new[k].block IN
       /\ b \in DOMAIN rs
       /\ rs[b].kind = draft[k].kind /\ rs[b].position = k - 1 /\ rs[b].version = new[k].version
  /\ \A b \in DOMAIN rs :
       \/ \E k \in DOMAIN draft : new[k].block = b
       \/ /\ b \in Block
          /\ rs[b].kind = rows[b].kind /\ rs[b].version = rows[b].version
          /\ rs[b].position \in Int /\ rs[b].position < 0

LEMMA RowsAfterIs ==
  ASSUME rows \in Seq(Row), pool \in Seq(VersionRow), NEW draft \in Draft, NEW merged,
         Assigned(merged, draft)
  PROVE  RowsWritten(RowsAfter(merged), draft, merged.blocks)
<1> DEFINE ins == merged.inserted
           new == merged.blocks
<1>1. /\ Cardinality(ins) \in Nat
      /\ \A k \in ins : Rank(ins, k) \in 1..Cardinality(ins)
      /\ \A r \in 1..Cardinality(ins) : \E k \in ins : Rank(ins, k) = r
  <2>1. ins \subseteq 1..Len(draft) /\ Len(draft) \in Nat
    BY DraftIs DEF Assigned
  <2> HIDE DEF ins
  <2> QED BY <2>1, RankIsNumbering
<1>2. Len(rows) \in Nat /\ Block = 1..Len(rows)
  BY DEF Block
<1>3. /\ DOMAIN RowsAfter(merged) = 1..(Len(rows) + Cardinality(ins))
      /\ RowsAfter(merged) = [b \in DOMAIN RowsAfter(merged) |-> RowsAfter(merged)[b]]
  BY DEF RowsAfter
<1>4. ASSUME NEW k \in DOMAIN draft
      PROVE  /\ new[k].block \in DOMAIN RowsAfter(merged)
             /\ RowsAfter(merged)[new[k].block] =
                  [kind |-> draft[k].kind, position |-> k - 1, version |-> new[k].version]
  <2>1. new[k].block \in 1..(Len(rows) + Cardinality(ins))
    <3>1. CASE k \in ins
      <4>1. new[k].block = Len(rows) + Rank(ins, k)
        BY <3>1 DEF Assigned
      <4> HIDE DEF ins, new
      <4> QED BY <1>1, <1>2, <3>1, <4>1
    <3>2. CASE k \notin ins
      <4>1. new[k].block \in 1..Len(rows)
        BY <1>2, <3>2 DEF Assigned
      <4> HIDE DEF ins, new
      <4> QED BY <1>1, <1>2, <4>1
    <3> QED BY <3>1, <3>2
  <2>2. PlaceOf(new[k].block, new) = {k}
    BY DEF PlaceOf, Assigned
  <2>3. (CHOOSE n \in PlaceOf(new[k].block, new) : TRUE) = k
    BY <2>2
  <2>4. new[k].kind = draft[k].kind
    BY DEF Assigned
  <2> QED BY <1>3, <2>1, <2>2, <2>3, <2>4 DEF RowsAfter, Pointer
<1>5. ASSUME NEW b \in DOMAIN RowsAfter(merged), ~\E k \in DOMAIN draft : new[k].block = b
      PROVE  b \in Block /\ RowsAfter(merged)[b] = [rows[b] EXCEPT !.position = @ - Unit]
  <2>1. PlaceOf(b, new) = {}
    BY <1>5 DEF PlaceOf, Assigned
  <2>2. b \in Block
    <3>1. \A k \in ins : k \in DOMAIN draft /\ new[k].block = Len(rows) + Rank(ins, k)
      BY DEF Assigned
    <3>2. b \in 1..(Len(rows) + Cardinality(ins))
      BY <1>3
    <3> HIDE DEF ins, new
    <3>3. \A r \in 1..Cardinality(ins) : b # Len(rows) + r
      BY <1>1, <1>5, <3>1
    <3>4. ~(b > Len(rows))
      <4> SUFFICES ASSUME b > Len(rows) PROVE FALSE
        OBVIOUS
      <4>1. b - Len(rows) \in 1..Cardinality(ins)
        BY <1>1, <1>2, <3>2
      <4> QED BY <1>2, <3>2, <3>3, <4>1
    <3> QED BY <1>1, <1>2, <3>2, <3>4
  <2>3. RowsAfter(merged)[b] = AllParked(rows)[b]
    BY <1>3, <2>1 DEF RowsAfter
  <2>4. AllParked(rows)[b] = [rows[b] EXCEPT !.position = @ - Unit]
    BY <2>2 DEF AllParked, Deeper, Block
  <2> QED BY <2>2, <2>3, <2>4
<1>6. RowsAfter(merged) \in Seq(Row)
  <2>1. ASSUME NEW k \in DOMAIN draft
        PROVE  [kind |-> draft[k].kind, position |-> k - 1, version |-> new[k].version] \in Row
    <3>1. k \in 1..Len(draft) /\ Len(draft) \in 0..MaxLength /\ draft[k].kind \in Kind
      BY DraftIs
    <3>2. k - 1 \in Int /\ k - 1 < MaxLength
      BY <3>1, UnitAssumption
    <3>3. new[k].version \in Nat
      BY AssignedTypes
    <3> QED BY <3>1, <3>2, <3>3 DEF Row
  <2>2. ASSUME NEW b \in Block PROVE [rows[b] EXCEPT !.position = @ - Unit] \in Row
    <3>1. rows[b] \in Row
      BY DEF Block
    <3> QED BY <3>1, RowDeeper
  <2>3. ASSUME NEW b \in DOMAIN RowsAfter(merged) PROVE RowsAfter(merged)[b] \in Row
    <3>1. CASE \E k \in DOMAIN draft : new[k].block = b
      <4>1. PICK k \in DOMAIN draft : new[k].block = b
        BY <3>1
      <4>2. RowsAfter(merged)[b] =
              [kind |-> draft[k].kind, position |-> k - 1, version |-> new[k].version]
        BY <1>4, <4>1
      <4> QED BY <2>1, <4>2
    <3>2. CASE ~\E k \in DOMAIN draft : new[k].block = b
      <4>1. b \in Block /\ RowsAfter(merged)[b] = [rows[b] EXCEPT !.position = @ - Unit]
        BY <1>5, <3>2
      <4> QED BY <2>2, <4>1
    <3> QED BY <3>1, <3>2
  <2> DEFINE N == Len(rows) + Cardinality(ins)
  <2>4. N \in Nat
    BY <1>1, <1>2
  <2>5. RowsAfter(merged) \in [1..N -> Row]
    <3> HIDE DEF N
    <3>1. RowsAfter(merged) = [b \in 1..N |-> RowsAfter(merged)[b]]
      BY <1>3 DEF N
    <3>2. \A b \in 1..N : RowsAfter(merged)[b] \in Row
      BY <1>3, <2>3 DEF N
    <3> QED BY <3>1, <3>2
  <2> HIDE DEF N
  <2> QED BY <2>4, <2>5
<1>7. \A b \in Block : b \in DOMAIN RowsAfter(merged)
  <2> HIDE DEF ins
  <2> QED BY <1>1, <1>2, <1>3
<1>8. ASSUME NEW k \in DOMAIN draft
      PROVE  LET b == new[k].block IN
             /\ b \in DOMAIN RowsAfter(merged)
             /\ RowsAfter(merged)[b].kind = draft[k].kind
             /\ RowsAfter(merged)[b].position = k - 1
             /\ RowsAfter(merged)[b].version = new[k].version
  <2> DEFINE rs == RowsAfter(merged)
             b == new[k].block
             v == new[k].version
             d == draft[k].kind
  <2>1. b \in DOMAIN rs /\ rs[b] = [kind |-> d, position |-> k - 1, version |-> v]
    BY <1>4
  <2> HIDE DEF rs, b, v, d
  <2>2. b \in DOMAIN rs /\ rs[b].kind = d /\ rs[b].position = k - 1 /\ rs[b].version = v
    BY <2>1
  <2> QED BY <2>2 DEF rs, b, v, d
<1>9. ASSUME NEW b \in DOMAIN RowsAfter(merged), ~\E k \in DOMAIN draft : new[k].block = b
      PROVE  /\ b \in Block
             /\ RowsAfter(merged)[b].kind = rows[b].kind
             /\ RowsAfter(merged)[b].version = rows[b].version
             /\ RowsAfter(merged)[b].position \in Int /\ RowsAfter(merged)[b].position < 0
  <2>1. b \in Block /\ RowsAfter(merged)[b] = [rows[b] EXCEPT !.position = @ - Unit]
    BY <1>5, <1>9
  <2>2. rows[b] \in Row
    BY <2>1 DEF Block
  <2> QED BY <2>1, <2>2, RowDeeper
<1> QED BY <1>6, <1>7, <1>8, <1>9 DEF RowsWritten

\* The versions that were there stay as they are, and each new one has the content
\* that was written.
PoolWritten(vs, draft, merged) ==
  /\ vs \in Seq(VersionRow)
  /\ \A v \in Version : v \in DOMAIN vs /\ vs[v] = pool[v]
  /\ \A k \in merged.versioned : LET v == merged.blocks[k].version IN
       v \in DOMAIN vs /\ vs[v].block = merged.blocks[k].block /\ vs[v].content = draft[k].content

LEMMA PoolAfterIs ==
  ASSUME rows \in Seq(Row), pool \in Seq(VersionRow), NEW draft \in Draft, NEW merged,
         Assigned(merged, draft)
  PROVE  PoolWritten(PoolAfter(merged, draft), draft, merged)
<1> DEFINE ver == merged.versioned
           new == merged.blocks
           vs == PoolAfter(merged, draft)
<1>1. /\ Cardinality(ver) \in Nat
      /\ \A k \in ver : Rank(ver, k) \in 1..Cardinality(ver)
      /\ \A k, l \in ver : Rank(ver, k) = Rank(ver, l) => k = l
      /\ \A r \in 1..Cardinality(ver) : \E k \in ver : Rank(ver, k) = r
  <2>1. ver \subseteq 1..Len(draft) /\ Len(draft) \in Nat
    BY DraftIs DEF Assigned
  <2> HIDE DEF ver
  <2> QED BY <2>1, RankIsNumbering
<1>2. Len(pool) \in Nat /\ Version = 1..Len(pool)
  BY DEF Version
<1>3. DOMAIN vs = 1..(Len(pool) + Cardinality(ver)) /\ vs = [v \in DOMAIN vs |-> vs[v]]
  BY DEF PoolAfter
<1>4. \A k \in ver : new[k].version = Len(pool) + Rank(ver, k)
  BY DEF Assigned
<1>5. ASSUME NEW v \in Version PROVE v \in DOMAIN vs /\ vs[v] = pool[v]
  <2>1. v \in 1..(Len(pool) + Cardinality(ver))
    <3> HIDE DEF ver
    <3> QED BY <1>1, <1>2
  <2> QED BY <1>3, <2>1 DEF PoolAfter
<1>6. ASSUME NEW k \in ver
      PROVE  /\ new[k].version \in DOMAIN vs
             /\ vs[new[k].version] =
                  [block |-> new[k].block, content |-> draft[k].content, variant |-> FALSE]
  <2>1. new[k].version \in 1..(Len(pool) + Cardinality(ver)) /\ new[k].version \notin Version
    <3> HIDE DEF ver, new
    <3> QED BY <1>1, <1>2, <1>4
  <2>2. \A l \in ver : new[l].version = new[k].version => l = k
    <3> HIDE DEF ver, new
    <3> QED BY <1>1, <1>2, <1>4
  <2>3. (CHOOSE n \in ver : new[n].version = new[k].version) = k
    <3> HIDE DEF ver, new
    <3> QED BY <2>2
  <2> QED BY <1>3, <2>1, <2>3 DEF PoolAfter
<1>7. ASSUME NEW v \in DOMAIN vs, v \notin Version PROVE \E k \in ver : new[k].version = v
  <2>1. v \in 1..(Len(pool) + Cardinality(ver))
    BY <1>3
  <2> HIDE DEF ver, new, vs
  <2>2. v - Len(pool) \in 1..Cardinality(ver)
    BY <1>1, <1>2, <1>7, <2>1
  <2>3. PICK k \in ver : Rank(ver, k) = v - Len(pool)
    BY <1>1, <2>2
  <2> QED BY <1>2, <1>4, <2>1, <2>3
<1>8. vs \in Seq(VersionRow)
  <2>1. ASSUME NEW k \in ver
        PROVE  [block |-> new[k].block, content |-> draft[k].content, variant |-> FALSE] \in VersionRow
    <3>1. k \in DOMAIN draft
      BY DEF Assigned
    <3>2. draft[k].content \in Content
      BY <3>1, DraftIs
    <3>3. new[k].block \in Nat
      BY <3>1, AssignedTypes
    <3> QED BY <3>2, <3>3 DEF VersionRow
  <2>2. \A v \in Version : pool[v] \in VersionRow
    BY DEF Version
  <2>3. ASSUME NEW v \in DOMAIN vs PROVE vs[v] \in VersionRow
    <3>1. CASE v \in Version
      BY <1>5, <2>2, <3>1
    <3>2. CASE v \notin Version
      <4>1. PICK k \in ver : new[k].version = v
        BY <1>7, <3>2
      <4>2. vs[v] = [block |-> new[k].block, content |-> draft[k].content, variant |-> FALSE]
        BY <1>6, <4>1
      <4> QED BY <2>1, <4>2
    <3> QED BY <3>1, <3>2
  <2> DEFINE N == Len(pool) + Cardinality(ver)
  <2>4. N \in Nat
    BY <1>1, <1>2
  <2>5. vs \in [1..N -> VersionRow]
    <3>1. DOMAIN vs = 1..N /\ vs = [v \in DOMAIN vs |-> vs[v]]
      BY <1>3
    <3> HIDE DEF N, vs
    <3> QED BY <2>3, <3>1
  <2> HIDE DEF N, vs
  <2> QED BY <2>4, <2>5
<1>9. ASSUME NEW k \in ver
      PROVE  LET v == new[k].version IN
             v \in DOMAIN vs /\ vs[v].block = new[k].block /\ vs[v].content = draft[k].content
  <2> DEFINE b == new[k].block
             v == new[k].version
             c == draft[k].content
  <2>1. v \in DOMAIN vs /\ vs[v] = [block |-> b, content |-> c, variant |-> FALSE]
    BY <1>6
  <2> HIDE DEF vs, b, v, c
  <2>2. v \in DOMAIN vs /\ vs[v].block = b /\ vs[v].content = c
    BY <2>1
  <2> QED BY <2>2 DEF vs, b, v, c
<1> QED BY <1>5, <1>8, <1>9 DEF PoolWritten

-----------------------------------------------------------------------------
(***************************************************************************)
(* The invariant.                                                          *)
(***************************************************************************)

\* Each live row shows what was asked for at its place.
Shown ==
  \A b \in Live(rows) :
    intended[rows[b].position + 1] =
      [kind |-> rows[b].kind, content |-> pool[rows[b].version].content]

SavesAreSound ==
  exists => \A t \in Tab :
    /\ saves[t].answers # 0 => Fresh(saves[t])
    /\ saves[t].answers = 2 =>
         \A i \in DOMAIN saves[t].previous : saves[t].previous[i].version \in saves[t].known

IInv ==
  /\ TypeOK
  /\ Placed(rows, Len(intended))
  /\ Shown
  /\ PointersResolve
  /\ SavesAreSound
  /\ ~exists => rows = <<>> /\ pool = <<>> /\ intended = <<>>

LEMMA InvInit == Init => IInv
<1> SUFFICES ASSUME Init PROVE IInv
  OBVIOUS
<1>1. Live(rows) = {} /\ Len(intended) = 0 /\ Block = {}
  BY DEF Init, Live, Block
<1>2. intended \in Draft
  <2>1. <<>> \in [1..0 -> Paragraph] /\ 0 \in 0..MaxLength
    BY UnitAssumption
  <2> QED BY <2>1 DEF Init, Draft
<1>3. TypeOK
  BY <1>2 DEF Init, TypeOK, Save, Idle
<1> QED BY <1>1, <1>3 DEF Init, IInv, Placed, Shown, PointersResolve, SavesAreSound, Idle

\* Blocks that stay keep their kind, and versions that stay never change.
Kept ==
  /\ \A b \in Block : b \in DOMAIN rows' /\ rows'[b].kind = rows[b].kind
  /\ \A v \in Version : v \in DOMAIN pool' /\ pool'[v] = pool[v]

\* So what a save loaded stays true.
LEMMA SavesStay ==
  ASSUME IInv, Kept, exists, NEW t \in Tab, saves'[t] = saves[t]
  PROVE  /\ saves'[t].answers # 0 => Fresh(saves[t])'
         /\ saves'[t].answers = 2 =>
              \A i \in DOMAIN saves'[t].previous : saves'[t].previous[i].version \in saves'[t].known
<1>1. /\ saves[t].answers # 0 => Fresh(saves[t])
      /\ saves[t].answers = 2 =>
           \A i \in DOMAIN saves[t].previous : saves[t].previous[i].version \in saves[t].known
  BY DEF IInv, SavesAreSound
<1>2. ASSUME Fresh(saves[t]) PROVE Fresh(saves[t])'
  BY <1>2 DEF Fresh, Kept, Block, Version
<1> QED BY <1>1, <1>2

LEMMA AbandonStep ==
  ASSUME IInv, NEW t \in Tab, saves' = [saves EXCEPT ![t] = Idle],
         UNCHANGED <<exists, rows, pool, intended>>
  PROVE  IInv'
<1>1. Idle \in Save
  BY DEF Idle, Save
<1>2. TypeOK'
  BY <1>1 DEF IInv, TypeOK
<1>3. Kept
  BY DEF Kept, Block, Version
<1>4. ASSUME exists, NEW u \in Tab
      PROVE  /\ saves'[u].answers # 0 => Fresh(saves[u])'
             /\ saves'[u].answers = 2 =>
                  \A i \in DOMAIN saves'[u].previous : saves'[u].previous[i].version \in saves'[u].known
  <2>1. CASE u = t
    <3>1. saves'[u].answers = 0
      BY <2>1 DEF IInv, TypeOK, Idle
    <3> QED BY <3>1
  <2>2. CASE u # t
    <3>1. saves'[u] = saves[u]
      BY <2>2 DEF IInv, TypeOK
    <3> QED BY <1>3, <1>4, <3>1, SavesStay
  <2> QED BY <2>1, <2>2
<1>5. SavesAreSound'
  BY <1>4 DEF SavesAreSound
<1>6. Placed(rows, Len(intended))' /\ Shown' /\ PointersResolve'
  BY DEF IInv, Placed, Live, Shown, PointersResolve, Block, Version
<1> QED BY <1>2, <1>5, <1>6 DEF IInv

\* The first query loads what is true, and the second all versions of it.
LEMMA LoadStep ==
  ASSUME IInv, NEW t \in Tab, Load(t)
  PROVE  IInv'
<1> DEFINE live == [i \in DOMAIN InOrder(rows) |-> LoadedBlock(InOrder(rows)[i])]
           save == saves[t]
           n == Len(intended)
<1>1. /\ save \in Save /\ save.answers \in {0, 1} /\ saves \in [Tab -> Save]
      /\ UNCHANGED <<exists, rows, pool, intended>>
      /\ saves' = [saves EXCEPT ![t] = Answered(saves[t], QueryOrder[saves[t].answers + 1])]
  BY DEF Load, IInv, TypeOK, Save
<1>2. /\ n \in Nat /\ rows \in Seq(Row) /\ pool \in Seq(VersionRow) /\ Placed(rows, n)
  BY DraftIs, UnitAssumption DEF IInv, TypeOK
<1>3. /\ DOMAIN live = 1..n
      /\ \A i \in 1..n : /\ InOrder(rows)[i] \in Live(rows) /\ live[i] = LoadedBlock(InOrder(rows)[i])
                         /\ rows[InOrder(rows)[i]].position = i - 1
  <2> HIDE DEF n
  <2> QED BY <1>2, InOrderIs
<1>4. ASSUME NEW i \in 1..n
      PROVE  /\ live[i] \in Loaded
             /\ live[i].block \in Block /\ rows[live[i].block].kind = live[i].kind
             /\ live[i].version \in Version /\ pool[live[i].version].block = live[i].block
             /\ rows[live[i].block].position = i - 1
  <2> DEFINE b == InOrder(rows)[i]
  <2>1. b \in Live(rows) /\ live[i] = LoadedBlock(b) /\ rows[b].position = i - 1
    BY <1>3
  <2> HIDE DEF b, live, n
  <2>2. b \in Block /\ b \in Nat /\ rows[b] \in Row
    BY <1>2, <2>1 DEF Live, Block
  <2>3. rows[b].kind \in Kind /\ rows[b].version \in Nat
    BY <2>2 DEF Row
  <2>4. rows[b].version \in Version /\ pool[rows[b].version].block = b
    BY <2>2 DEF IInv, PointersResolve
  <2> QED BY <2>1, <2>2, <2>3, <2>4 DEF LoadedBlock, Loaded
<1>5. ASSUME NEW i \in 1..n, NEW j \in 1..n, live[i].block = live[j].block PROVE i = j
  <2>1. i - 1 = j - 1
    BY <1>4, <1>5
  <2> HIDE DEF n, live
  <2> QED BY <1>2, <2>1
<1>6. live \in Seq(Loaded)
  <2>1. live = [i \in 1..n |-> live[i]]
    BY <1>3
  <2> HIDE DEF live, n
  <2>2. live \in [1..n -> Loaded]
    BY <1>4, <2>1
  <2> QED BY <1>2, <2>2
<1>7. CASE save.answers = 0
  <2> DEFINE next == [answers |-> 1, previous |-> live, known |-> save.known]
  <2>1. saves' = [saves EXCEPT ![t] = next] /\ exists
    BY <1>1, <1>7 DEF Answered, QueryOrder, Load
  <2> HIDE DEF live, n
  <2>2. next \in Save /\ next.answers = 1 /\ next.previous = live
    BY <1>1, <1>6, <1>7 DEF Save
  <2> HIDE DEF next
  <2>3. Fresh(next)
    BY <1>3, <1>4, <1>5, <2>2 DEF Fresh
  <2>4. saves'[t] = next /\ (\A u \in Tab \ {t} : saves'[u] = saves[u]) /\ saves' \in [Tab -> Save]
    BY <1>1, <2>1, <2>2
  <2>5. ASSUME NEW u \in Tab
        PROVE  /\ saves'[u].answers # 0 => Fresh(saves'[u])
               /\ saves'[u].answers = 2 =>
                    \A i \in DOMAIN saves'[u].previous : saves'[u].previous[i].version \in saves'[u].known
    BY <2>1, <2>2, <2>3, <2>4 DEF IInv, SavesAreSound
  <2>6. SavesAreSound'
    <3>1. ASSUME NEW u \in Tab, Fresh(saves'[u]) PROVE Fresh(saves[u])'
      BY <1>1, <3>1 DEF Fresh, Block, Version
    <3>2. exists' = exists
      BY <1>1
    <3> QED BY <2>5, <2>1, <3>1, <3>2 DEF SavesAreSound
  <2> QED BY <1>1, <2>4, <2>6 DEF IInv, TypeOK, Placed, Live, Shown, PointersResolve, Block, Version
<1>8. CASE save.answers = 1
  <2> DEFINE next == [answers |-> 2, previous |-> save.previous, known |-> Version]
  <2>1. saves' = [saves EXCEPT ![t] = next]
    BY <1>1, <1>8 DEF Answered, QueryOrder
  <2>2. Version \subseteq Nat
    BY <1>2 DEF Version
  <2> HIDE DEF live, n
  <2>3. next \in Save /\ next.answers = 2 /\ next.previous = save.previous /\ next.known = Version
    BY <1>1, <1>8, <2>2 DEF Save
  <2> HIDE DEF next
  <2>4. exists => Fresh(next)
    BY <1>8, <2>3 DEF Fresh, IInv, SavesAreSound
  <2>5. saves'[t] = next /\ (\A u \in Tab \ {t} : saves'[u] = saves[u]) /\ saves' \in [Tab -> Save]
    BY <1>1, <2>1, <2>3
  <2>6. ASSUME NEW u \in Tab, exists
        PROVE  /\ saves'[u].answers # 0 => Fresh(saves'[u])
               /\ saves'[u].answers = 2 =>
                    \A i \in DOMAIN saves'[u].previous : saves'[u].previous[i].version \in saves'[u].known
    <3>1. CASE u = t
      <4>1. \A i \in DOMAIN next.previous : next.previous[i].version \in next.known
        BY <2>3, <2>4, <2>6 DEF Fresh
      <4> QED BY <2>4, <2>5, <2>6, <3>1, <4>1
    <3>2. CASE u # t
      BY <2>5, <2>6, <3>2 DEF IInv, SavesAreSound
    <3> QED BY <3>1, <3>2
  <2>7. SavesAreSound'
    <3>1. ASSUME NEW u \in Tab, Fresh(saves'[u]) PROVE Fresh(saves[u])'
      BY <1>1, <3>1 DEF Fresh, Block, Version
    <3>2. exists' = exists
      BY <1>1
    <3> QED BY <2>6, <2>1, <3>1, <3>2 DEF SavesAreSound
  <2> QED BY <1>1, <2>5, <2>7 DEF IInv, TypeOK, Placed, Live, Shown, PointersResolve, Block, Version
<1> QED BY <1>1, <1>7, <1>8

LEMMA VariantStep ==
  ASSUME IInv, NEW b \in Block, NEW c \in Content, CreateVariant(b, c)
  PROVE  IInv' /\ Kept
<1> DEFINE new == [block |-> b, content |-> c, variant |-> TRUE]
<1>1. pool \in Seq(VersionRow) /\ rows \in Seq(Row) /\ pool' = Append(pool, new)
      /\ UNCHANGED <<exists, rows, saves, intended>>
  BY DEF IInv, TypeOK, CreateVariant
<1>2. new \in VersionRow
  BY <1>1 DEF VersionRow, Block
<1> HIDE DEF new
<1>3. pool' \in Seq(VersionRow) /\ \A v \in Version : v \in DOMAIN pool' /\ pool'[v] = pool[v]
  BY <1>1, <1>2 DEF Version
<1>4. Kept
  BY <1>1, <1>3 DEF Kept, Block
<1>5. exists
  BY DEF IInv, Block
<1>6. SavesAreSound'
  <2>1. ASSUME NEW t \in Tab
        PROVE  /\ saves'[t].answers # 0 => Fresh(saves[t])'
               /\ saves'[t].answers = 2 =>
                    \A i \in DOMAIN saves'[t].previous : saves'[t].previous[i].version \in saves'[t].known
    <3>1. saves'[t] = saves[t]
      BY <1>1
    <3> QED BY <1>4, <1>5, <3>1, SavesStay
  <2> QED BY <2>1 DEF SavesAreSound
<1>7. Placed(rows, Len(intended))'
  BY <1>1 DEF IInv, Placed, Live
<1>8. PointersResolve'
  BY <1>1, <1>3 DEF IInv, PointersResolve, Block, Version
<1>9. Shown'
  BY <1>1, <1>3 DEF IInv, PointersResolve, Shown, Live, Block
<1>10. TypeOK'
  BY <1>1, <1>3 DEF IInv, TypeOK
<1> QED BY <1>1, <1>4, <1>5, <1>6, <1>7, <1>8, <1>9, <1>10 DEF IInv

LEMMA DeleteStep ==
  ASSUME IInv, DeleteDocument
  PROVE  IInv'
<1>1. rows' = <<>> /\ pool' = <<>> /\ intended' = <<>> /\ ~exists' /\ saves' = saves /\ exists' \in BOOLEAN
  BY DEF DeleteDocument
<1>2. intended' \in Draft
  <2>1. <<>> \in [1..0 -> Paragraph] /\ 0 \in 0..MaxLength
    BY UnitAssumption
  <2> QED BY <1>1, <2>1 DEF Draft
<1>3. Live(rows)' = {} /\ Len(intended)' = 0 /\ Block' = {}
  BY <1>1 DEF Live, Block
<1> QED BY <1>1, <1>2, <1>3 DEF IInv, TypeOK, Placed, Shown, PointersResolve, SavesAreSound

LEMMA PromoteStep ==
  ASSUME IInv, NEW b \in Block, NEW v \in VariantsOf(b), Promote(b, v)
  PROVE  IInv' /\ Kept
<1> DEFINE n == Len(intended)
           row == [rows[b] EXCEPT !.version = v]
           place == rows[b].position + 1
<1>1. /\ rows \in Seq(Row) /\ pool \in Seq(VersionRow) /\ UNCHANGED <<exists, pool, saves>>
      /\ b \in DOMAIN rows /\ rows[b] \in Row /\ v \in Version /\ v \in Nat /\ pool[v].block = b
      /\ pool[v] \in VersionRow
  BY DEF IInv, TypeOK, Promote, VariantsOf, Block, Version
<1>2. rows' = [rows EXCEPT ![b] = row]
  BY DEF Promote
<1>3. /\ row \in Row /\ row.kind = rows[b].kind /\ row.position = rows[b].position
      /\ row.version = v
  BY <1>1 DEF Row
<1> HIDE DEF row
<1>4. /\ rows' \in Seq(Row) /\ DOMAIN rows' = DOMAIN rows
      /\ \A c \in DOMAIN rows : rows'[c] = IF c = b THEN row ELSE rows[c]
  BY <1>1, <1>2, <1>3
<1>5. Kept
  BY <1>1, <1>3, <1>4 DEF Kept, Block, Version
<1>6. Live(rows)' = Live(rows) /\ \A c \in Live(rows) : rows'[c].position = rows[c].position
  BY <1>3, <1>4 DEF Live
<1>7. intended \in [1..n -> Paragraph] /\ n \in 0..MaxLength
  BY DraftIs DEF IInv, TypeOK
<1>8. /\ intended' \in [1..n -> Paragraph]
      /\ \A c \in Live(rows) : intended'[rows[c].position + 1] =
           IF c = b THEN [kind |-> rows[b].kind, content |-> pool[v].content]
           ELSE intended[rows[c].position + 1]
  <2>1. CASE b \in Live(rows)
    <3>1. intended' = [intended EXCEPT ![place].content = pool[v].content]
      BY <2>1 DEF Promote
    <3>2. place \in 1..n /\ intended[place] =
            [kind |-> rows[b].kind, content |-> pool[rows[b].version].content]
      <4>1. rows[b].position \in 0..(n - 1)
        BY <2>1 DEF IInv, Placed
      <4> QED BY <1>7, <2>1, <4>1, UnitAssumption DEF IInv, Shown
    <3>3. [intended[place] EXCEPT !.content = pool[v].content]
            = [kind |-> rows[b].kind, content |-> pool[v].content]
      BY <3>2
    <3>4. [kind |-> rows[b].kind, content |-> pool[v].content] \in Paragraph
      BY <1>1 DEF Row, VersionRow, Paragraph
    <3> HIDE DEF place, n
    <3>5. intended' = [intended EXCEPT ![place] = [kind |-> rows[b].kind, content |-> pool[v].content]]
      BY <3>1, <3>3
    <3>6. ASSUME NEW c \in Live(rows), c # b PROVE rows[c].position + 1 # place
      <4>1. rows[c].position # rows[b].position /\ rows[c].position \in Int /\ rows[b].position \in Int
        BY <2>1, <3>6 DEF IInv, Placed
      <4> QED BY <4>1 DEF place
    <3>7. ASSUME NEW c \in Live(rows) PROVE rows[c].position + 1 \in 1..n
      <4>1. rows[c].position \in 0..(n - 1)
        BY DEF IInv, Placed, n
      <4> QED BY <1>7, <4>1, UnitAssumption
    <3> QED BY <1>7, <3>2, <3>4, <3>5, <3>6, <3>7 DEF place
  <2>2. CASE b \notin Live(rows)
    BY <1>7, <2>2 DEF Promote
  <2> QED BY <2>1, <2>2
<1>9. intended' \in Draft /\ Len(intended') = n
  <2>1. n \in Nat
    BY <1>7, UnitAssumption
  <2> HIDE DEF n
  <2> QED BY <1>7, <1>8, <2>1 DEF Draft
<1>10. Placed(rows, Len(intended))'
  BY <1>6, <1>9 DEF IInv, Placed
<1>11. Shown'
  <2> HIDE DEF n, place
  <2>1. ASSUME NEW c \in Live(rows)
        PROVE  intended'[rows[c].position + 1] =
                 [kind |-> rows'[c].kind, content |-> pool[rows'[c].version].content]
    <3>1. c \in DOMAIN rows
      BY DEF Live
    <3>2. CASE c = b
      BY <1>3, <1>4, <1>8, <3>1, <3>2
    <3>3. CASE c # b
      BY <1>4, <1>8, <3>1, <3>3 DEF IInv, Shown
    <3> QED BY <3>2, <3>3
  <2> QED BY <1>1, <1>6, <2>1 DEF Shown
<1>12. PointersResolve'
  BY <1>1, <1>3, <1>4 DEF IInv, PointersResolve, Block, Version
<1>13. exists
  BY <1>1 DEF IInv
<1>14. SavesAreSound'
  <2>1. ASSUME NEW t \in Tab
        PROVE  /\ saves'[t].answers # 0 => Fresh(saves[t])'
               /\ saves'[t].answers = 2 =>
                    \A i \in DOMAIN saves'[t].previous : saves'[t].previous[i].version \in saves'[t].known
    <3>1. saves'[t] = saves[t]
      BY <1>1
    <3> QED BY <1>5, <1>13, <3>1, SavesStay
  <2> QED BY <2>1 DEF SavesAreSound
<1>15. TypeOK'
  BY <1>1, <1>4, <1>9 DEF IInv, TypeOK
<1> QED BY <1>1, <1>5, <1>10, <1>11, <1>12, <1>13, <1>14, <1>15 DEF IInv

\* A save that is not refused writes the draft, whatever happened since it loaded.
LEMMA WriteStep ==
  ASSUME IInv, NEW t \in Tab, NEW draft \in Draft, saves[t].answers = 2, exists, UNCHANGED exists,
         saves' = [saves EXCEPT ![t] = Idle], NEW merged, merged = Merge(saves[t], draft),
         rows' = RowsAfter(merged), pool' = PoolAfter(merged, draft), intended' = draft
  PROVE  IInv' /\ Kept
<1> DEFINE new == merged.blocks
           n == Len(draft)
<1>1. /\ rows \in Seq(Row) /\ pool \in Seq(VersionRow) /\ saves \in [Tab -> Save]
      /\ n \in Nat /\ n <= MaxLength /\ DOMAIN draft = 1..n /\ \A k \in 1..n : draft[k] \in Paragraph
  BY DraftIs, UnitAssumption DEF IInv, TypeOK
<1>2. Assigned(merged, draft)
  BY <1>1, MergeIs DEF IInv, SavesAreSound
<1>3. RowsWritten(rows', draft, new)
  BY <1>1, <1>2, RowsAfterIs
<1>4. PoolWritten(pool', draft, merged)
  BY <1>1, <1>2, PoolAfterIs
<1>5. ASSUME NEW k \in 1..n
      PROVE  /\ new[k].version \in DOMAIN pool'
             /\ pool'[new[k].version].block = new[k].block
             /\ pool'[new[k].version].content = draft[k].content
  <2>1. CASE k \in merged.versioned
    BY <1>4, <2>1 DEF PoolWritten
  <2>2. CASE k \notin merged.versioned
    <3>1. /\ new[k].version \in Version
          /\ pool[new[k].version].block = new[k].block
          /\ pool[new[k].version].content = draft[k].content
      BY <1>1, <1>2, <2>2 DEF Assigned
    <3> QED BY <1>4, <3>1 DEF PoolWritten
  <2> QED BY <2>1, <2>2
<1>6. \A k, l \in 1..n : new[k].block = new[l].block => k = l
  BY <1>1, <1>2 DEF Assigned
<1> HIDE DEF new, n
<1>7. /\ \A b \in Block : b \in DOMAIN rows'
      /\ \A k \in 1..n : /\ new[k].block \in DOMAIN rows'
                         /\ rows'[new[k].block].kind = draft[k].kind
                         /\ rows'[new[k].block].position = k - 1
                         /\ rows'[new[k].block].version = new[k].version
      /\ \A b \in DOMAIN rows' :
           \/ \E k \in 1..n : new[k].block = b
           \/ /\ b \in Block
              /\ rows'[b].kind = rows[b].kind /\ rows'[b].version = rows[b].version
              /\ rows'[b].position \in Int /\ rows'[b].position < 0
  <2>1. /\ \A b \in Block : b \in DOMAIN rows'
        /\ \A k \in DOMAIN draft : LET b == new[k].block IN
             /\ b \in DOMAIN rows'
             /\ rows'[b].kind = draft[k].kind /\ rows'[b].position = k - 1
             /\ rows'[b].version = new[k].version
        /\ \A b \in DOMAIN rows' :
             \/ \E k \in DOMAIN draft : new[k].block = b
             \/ /\ b \in Block
                /\ rows'[b].kind = rows[b].kind /\ rows'[b].version = rows[b].version
                /\ rows'[b].position \in Int /\ rows'[b].position < 0
    BY <1>3, Zenon DEF RowsWritten
  <2>2. DOMAIN draft = 1..n
    BY <1>1
  <2>3. ASSUME NEW k \in 1..n
        PROVE  /\ new[k].block \in DOMAIN rows'
               /\ rows'[new[k].block].kind = draft[k].kind
               /\ rows'[new[k].block].position = k - 1
               /\ rows'[new[k].block].version = new[k].version
    <3>1. k \in DOMAIN draft
      BY <2>2
    <3> QED BY <2>1, <3>1, Zenon
  <2>4. ASSUME NEW b \in DOMAIN rows', ~\E k \in 1..n : new[k].block = b
        PROVE  /\ b \in Block
               /\ rows'[b].kind = rows[b].kind /\ rows'[b].version = rows[b].version
               /\ rows'[b].position \in Int /\ rows'[b].position < 0
    <3>1. ~\E k \in DOMAIN draft : new[k].block = b
      BY <2>2, <2>4
    <3> QED BY <2>1, <3>1, Zenon
  <2> QED BY <2>1, <2>3, <2>4, Zenon
<1>8. ASSUME NEW b \in Block, NEW k \in 1..n, new[k].block = b
      PROVE  rows'[b].kind = rows[b].kind
  <2>1. k \notin merged.inserted
    <3> SUFFICES ASSUME k \in merged.inserted PROVE FALSE
      OBVIOUS
    <3>1. b = Len(rows) + Rank(merged.inserted, k) /\ merged.inserted \subseteq 1..n
      BY <1>1, <1>2, <1>8 DEF Assigned, new
    <3>2. Cardinality(merged.inserted) \in Nat /\ Rank(merged.inserted, k) \in 1..Cardinality(merged.inserted)
      BY <1>1, <3>1, RankIsNumbering
    <3>3. b \in 1..Len(rows) /\ Len(rows) \in Nat
      BY <1>1 DEF Block
    <3> QED BY <3>1, <3>2, <3>3
  <2>2. rows[b].kind = draft[k].kind
    BY <1>1, <1>2, <1>8, <2>1 DEF Assigned, new
  <2>3. rows'[b].kind = draft[k].kind
    BY <1>7, <1>8
  <2> QED BY <2>2, <2>3
<1>9. Kept
  <2>1. \A b \in Block : b \in DOMAIN rows' /\ rows'[b].kind = rows[b].kind
    BY <1>7, <1>8
  <2>2. \A v \in Version : v \in DOMAIN pool' /\ pool'[v] = pool[v]
    BY <1>4 DEF PoolWritten
  <2> QED BY <2>1, <2>2 DEF Kept
<1>10. \A b : b \in Live(rows)' <=> \E k \in 1..n : new[k].block = b
  <2>1. ASSUME NEW b \in Live(rows)' PROVE \E k \in 1..n : new[k].block = b
    <3>1. b \in DOMAIN rows' /\ rows'[b].position >= 0
      BY DEF Live
    <3> QED BY <1>7, <3>1
  <2>2. ASSUME NEW k \in 1..n PROVE new[k].block \in Live(rows)'
    <3>1. rows'[new[k].block].position = k - 1 /\ new[k].block \in DOMAIN rows'
      BY <1>7
    <3>2. k - 1 >= 0
      BY <1>1
    <3> QED BY <3>1, <3>2 DEF Live
  <2> QED BY <2>1, <2>2
<1>11. Placed(rows, Len(intended))'
  <2>1. Len(intended)' = n
    BY DEF n
  <2>2. ASSUME NEW b \in Live(rows)' PROVE rows'[b].position \in 0..(n - 1)
    <3>1. PICK k \in 1..n : new[k].block = b
      BY <1>10
    <3>2. rows'[b].position = k - 1
      BY <1>7, <3>1
    <3> QED BY <1>1, <3>2
  <2>3. ASSUME NEW b \in Live(rows)', NEW c \in Live(rows)', rows'[b].position = rows'[c].position
        PROVE  b = c
    <3>1. PICK k \in 1..n : new[k].block = b
      BY <1>10
    <3>2. PICK l \in 1..n : new[l].block = c
      BY <1>10
    <3>3. k - 1 = l - 1
      BY <1>7, <2>3, <3>1, <3>2
    <3>4. k = l
      BY <1>1, <3>3
    <3> QED BY <3>1, <3>2, <3>4
  <2>4. ASSUME NEW i \in 0..(n - 1) PROVE \E b \in Live(rows)' : rows'[b].position = i
    <3>1. i + 1 \in 1..n /\ (i + 1) - 1 = i
      BY <1>1
    <3>2. rows'[new[i + 1].block].position = i
      BY <1>7, <3>1
    <3>3. new[i + 1].block \in Live(rows)'
      BY <1>10, <3>1
    <3> QED BY <3>2, <3>3
  <2> QED BY <2>1, <2>2, <2>3, <2>4 DEF Placed
<1>12. Shown'
  <2>1. ASSUME NEW b \in Live(rows)'
        PROVE  draft[rows'[b].position + 1] =
                 [kind |-> rows'[b].kind, content |-> pool'[rows'[b].version].content]
    <3>1. PICK k \in 1..n : new[k].block = b
      BY <1>10
    <3>2. rows'[b].kind = draft[k].kind /\ rows'[b].position = k - 1 /\ rows'[b].version = new[k].version
      BY <1>7, <3>1
    <3>3. rows'[b].position + 1 = k
      BY <1>1, <3>2
    <3>4. rows'[b].kind = draft[k].kind /\ pool'[rows'[b].version].content = draft[k].content
      BY <1>5, <3>2
    <3>5. draft[k] = [kind |-> draft[k].kind, content |-> draft[k].content]
      BY <1>1, DraftIs
    <3> QED BY <3>3, <3>4, <3>5
  <2> QED BY <2>1 DEF Shown
<1>13. PointersResolve'
  <2>1. ASSUME NEW b \in DOMAIN rows'
        PROVE  rows'[b].version \in DOMAIN pool' /\ pool'[rows'[b].version].block = b
    <3>1. ASSUME NEW k \in 1..n, new[k].block = b
          PROVE  rows'[b].version \in DOMAIN pool' /\ pool'[rows'[b].version].block = b
      <4>1. rows'[b].version = new[k].version
        BY <1>7, <3>1
      <4> QED BY <1>5, <3>1, <4>1
    <3>2. ASSUME b \in Block, rows'[b].version = rows[b].version
          PROVE  rows'[b].version \in DOMAIN pool' /\ pool'[rows'[b].version].block = b
      <4>1. rows[b].version \in Version /\ pool[rows[b].version].block = b
        BY <3>2 DEF IInv, PointersResolve
      <4> QED BY <1>4, <3>2, <4>1 DEF PoolWritten
    <3> QED BY <1>7, <3>1, <3>2
  <2> QED BY <2>1 DEF PointersResolve, Block, Version
<1>14. saves' \in [Tab -> Save] /\ saves'[t].answers = 0 /\ \A u \in Tab \ {t} : saves'[u] = saves[u]
  BY <1>1 DEF Idle, Save
<1>15. SavesAreSound'
  <2>1. ASSUME NEW u \in Tab
        PROVE  /\ saves'[u].answers # 0 => Fresh(saves[u])'
               /\ saves'[u].answers = 2 =>
                    \A i \in DOMAIN saves'[u].previous : saves'[u].previous[i].version \in saves'[u].known
    <3>1. CASE u = t
      BY <1>14, <3>1
    <3>2. CASE u # t
      BY <1>9, <1>14, <3>2, SavesStay
    <3> QED BY <3>1, <3>2
  <2> QED BY <2>1 DEF SavesAreSound
<1>16. TypeOK'
  BY <1>3, <1>4, <1>14 DEF IInv, TypeOK, RowsWritten, PoolWritten
<1> QED BY <1>9, <1>11, <1>12, <1>13, <1>15, <1>16 DEF IInv

\* Every step keeps the invariant, and the kinds of blocks unless the article goes.
LEMMA NextKeeps ==
  ASSUME IInv, Next
  PROVE  IInv' /\ (Kept \/ rows' = <<>>)
<1>1. ASSUME NEW t \in Tab, Load(t) PROVE IInv' /\ Kept
  BY <1>1, LoadStep DEF Load, Kept, Block, Version
<1>2. ASSUME NEW t \in Tab, Abandon(t) PROVE IInv' /\ Kept
  BY <1>2, AbandonStep DEF Abandon, Kept, Block, Version
<1>3. ASSUME NEW t \in Tab, NEW draft \in Draft, SaveDraft(t, draft) PROVE IInv' /\ Kept
  <2>1. saves[t].answers = 2 /\ saves' = [saves EXCEPT ![t] = Idle] /\ UNCHANGED exists
    BY <1>3 DEF SaveDraft
  <2>2. CASE exists /\ Savable(rows)
    <3> DEFINE merged == Merge(saves[t], draft)
    <3>1. rows' = RowsAfter(merged) /\ pool' = PoolAfter(merged, draft) /\ intended' = draft
      BY <1>3, <2>2 DEF SaveDraft
    <3> HIDE DEF merged
    <3>2. merged = Merge(saves[t], draft)
      BY DEF merged
    <3> QED BY <2>1, <2>2, <3>1, <3>2, WriteStep
  <2>3. CASE ~(exists /\ Savable(rows))
    <3>1. UNCHANGED <<rows, pool, intended>>
      BY <1>3, <2>3 DEF SaveDraft
    <3> QED BY <2>1, <3>1, AbandonStep DEF Kept, Block, Version
  <2> QED BY <2>2, <2>3
<1> QED BY <1>1, <1>2, <1>3, VariantStep, PromoteStep, DeleteStep DEF Next, DeleteDocument

LEMMA InvStep == IInv /\ [Next]_vars => IInv'
<1>1. CASE UNCHANGED vars
  BY <1>1 DEF vars, IInv, TypeOK, Placed, Live, Shown, PointersResolve, SavesAreSound, Fresh, Block, Version
<1> QED BY <1>1, NextKeeps

LEMMA Invariance == Spec => []IInv
  BY InvInit, InvStep, PTL DEF Spec

-----------------------------------------------------------------------------
(***************************************************************************)
(* The theorems.                                                           *)
(***************************************************************************)

\* Kinds, positions, pointers and what tabs have loaded are always of their types.
THEOREM TypeCorrect == Spec => []TypeOK
  BY Invariance, PTL DEF IInv

\* Whatever other tabs, experiments and failures come between loading and writing,
\* readers see what the last save asked for and the winners promoted since.
THEOREM ReadersSeeWhatWasAsked == Spec => []ArticleAsIntended
<1>1. IInv => ArticleAsIntended
  <2> SUFFICES ASSUME IInv PROVE Article(rows, pool) = intended
    BY DEF ArticleAsIntended
  <2> DEFINE n == Len(intended)
  <2>1. n \in Nat /\ DOMAIN intended = 1..n /\ intended \in Seq(Paragraph)
    BY DraftIs, UnitAssumption DEF IInv, TypeOK
  <2> HIDE DEF n
  <2>2. /\ DOMAIN InOrder(rows) = 1..n
        /\ \A i \in 1..n : InOrder(rows)[i] \in Live(rows) /\ rows[InOrder(rows)[i]].position = i - 1
    BY <2>1, InOrderIs DEF IInv, n
  <2>3. ASSUME NEW i \in 1..n
        PROVE  [kind |-> rows[InOrder(rows)[i]].kind,
                content |-> pool[rows[InOrder(rows)[i]].version].content] = intended[i]
    <3>1. (i - 1) + 1 = i
      BY <2>1
    <3> QED BY <2>2, <3>1 DEF IInv, Shown
  <2>4. Article(rows, pool) =
          [i \in 1..n |-> [kind |-> rows[InOrder(rows)[i]].kind,
                           content |-> pool[rows[InOrder(rows)[i]].version].content]]
    BY <2>2 DEF Article
  <2>5. intended = [i \in 1..n |-> intended[i]]
    BY <2>1
  <2>6. [i \in 1..n |-> [kind |-> rows[InOrder(rows)[i]].kind,
                         content |-> pool[rows[InOrder(rows)[i]].version].content]]
          = [i \in 1..n |-> intended[i]]
    BY <2>3, Zenon
  <2> QED BY <2>4, <2>5, <2>6
<1> QED BY <1>1, Invariance, PTL

\* The places of an article have no gap and no tie.
THEOREM PlacesAreFilled == Spec => []PositionsAreContiguous
<1>1. IInv => PositionsAreContiguous
  <2> SUFFICES ASSUME IInv PROVE PositionsAreContiguous
    OBVIOUS
  <2> DEFINE n == Len(intended)
  <2>1. n \in Nat
    BY DraftIs, UnitAssumption DEF IInv, TypeOK
  <2> HIDE DEF n
  <2>2. Placed(rows, n)
    BY DEF IInv, n
  <2>3. Cardinality(Live(rows)) = n
    BY <2>1, <2>2, InOrderIs
  <2>4. {rows[b].position : b \in Live(rows)} = 0..(n - 1)
    BY <2>2 DEF Placed
  <2> QED BY <2>3, <2>4 DEF PositionsAreContiguous
<1> QED BY <1>1, Invariance, PTL

\* No block, parked ones included, points to a version that is not there or not its own.
THEOREM PointersAreOwn == Spec => []PointersResolve
  BY Invariance, PTL DEF IInv

\* What the queries of a load return fits together although other writes come between them.
THEOREM LoadsFitTogether == Spec => []SnapshotResolves
<1>1. IInv => SnapshotResolves
  BY DEF IInv, SavesAreSound, SnapshotResolves
<1> QED BY <1>1, Invariance, PTL

\* No sequence of stale saves, promotions and dropped blocks changes the kind of a block.
THEOREM KindsLast == Spec => KindIsForever
<1>1. IInv /\ [Next]_vars =>
        [\A b \in Block \cap DOMAIN rows' : rows'[b].kind = rows[b].kind]_vars
  BY NextKeeps DEF Kept
<1> QED BY <1>1, Invariance, PTL DEF Spec, KindIsForever

\* An article whose dropped blocks were all dropped by the last save can be saved.
THEOREM ParkedOnceIsSavable == Spec => []SavableOnceParked
<1>1. IInv => SavableOnceParked
  <2> SUFFICES ASSUME IInv, \A b \in Block : rows[b].position >= -Unit
               PROVE  Savable(rows)
    BY DEF SavableOnceParked
  <2>1. \A b \in Block : /\ rows[b].position \in Int /\ rows[b].position < MaxLength
                         /\ rows[b].position >= -Unit
    <3>1. \A b \in Block : rows[b] \in Row
      BY DEF IInv, TypeOK, Block
    <3> QED BY <3>1 DEF Row
  <2>2. MaxLength \in Int /\ Unit \in Int /\ MaxLength < Unit /\ 0 < Unit
    BY UnitAssumption
  <2>3. ~Collides(rows, Parked(rows))
    BY <2>1, <2>2 DEF Collides, Parked, Live, Block
  <2> DEFINE deeper == Deeper(rows, Parked(rows))
  <2>4. DOMAIN deeper = Block
    BY DEF Deeper, Block
  <2>5. ASSUME NEW b \in Block
        PROVE  /\ b \in Live(rows) => deeper[b].position = rows[b].position /\ rows[b].position >= 0
               /\ b \notin Live(rows) => /\ deeper[b].position = rows[b].position - Unit
                                         /\ rows[b].position < 0
    <3>1. rows[b] \in Row
      BY DEF IInv, TypeOK, Block
    <3>2. CASE b \in Live(rows)
      BY <3>2 DEF Deeper, Parked, Live, Block
    <3>3. CASE b \notin Live(rows)
      <4>1. deeper[b] = [rows[b] EXCEPT !.position = @ - Unit]
        BY <3>3 DEF Deeper, Parked, Block
      <4>2. deeper[b].position = rows[b].position - Unit
        BY <3>1, <4>1 DEF Row
      <4>3. rows[b].position < 0
        BY <2>1, <3>3 DEF Live, Block
      <4> QED BY <3>3, <4>2, <4>3
    <3> QED BY <3>2, <3>3
  <2>6. Live(rows) \subseteq Block
    BY DEF Live, Block
  <2> HIDE DEF deeper
  <2>7. ~Collides(deeper, Live(rows))
    <3> SUFFICES ASSUME NEW b \in Live(rows), NEW c \in Block,
                        deeper[c].position = deeper[b].position - Unit
                 PROVE  FALSE
      BY <2>4 DEF Collides
    <3>1. b \in Block /\ deeper[b].position = rows[b].position /\ rows[b].position >= 0
      BY <2>5, <2>6
    <3>2. CASE c \in Live(rows)
      <4>1. deeper[c].position = rows[c].position /\ rows[c].position >= 0
        BY <2>5, <3>2
      <4> QED BY <2>1, <2>2, <3>1, <4>1
    <3>3. CASE c \notin Live(rows)
      <4>1. deeper[c].position = rows[c].position - Unit /\ rows[c].position < 0
        BY <2>5, <3>3
      <4> QED BY <2>1, <2>2, <3>1, <4>1
    <3> QED BY <3>2, <3>3
  <2> QED BY <2>3, <2>7 DEF Savable, deeper
<1> QED BY <1>1, Invariance, PTL

\* The merge keeps as many blocks as any pairing in order and by kind, however long
\* the article and the draft: the ties that lcs_matches breaks lose nothing.
THEOREM MergeIsLongest == Spec => []MergeKeepsTheMost
<1>1. IInv => MergeKeepsTheMost
  <2> SUFFICES ASSUME IInv, NEW t \in Tab, saves[t].answers = 2,
                      NEW n \in UNION {[1..k -> Kind] : k \in 0..MaxLength}
               PROVE  LET p == Kinds(saves[t].previous) IN
                      /\ LcsMatches(p, n) \in Pairings(p, n)
                      /\ \A pairs \in Pairings(p, n) : Cardinality(pairs) <= Cardinality(LcsMatches(p, n))
    BY DEF MergeKeepsTheMost
  <2>1. saves[t].previous \in Seq(Loaded)
    BY DEF IInv, TypeOK, Save
  <2>2. Kinds(saves[t].previous) \in Seq(Kind)
    BY <2>1, KindsAre
  <2>3. n \in Seq(Kind)
    BY UnitAssumption
  <2> QED BY <2>2, <2>3, MatchesAreMost
<1> QED BY <1>1, Invariance, PTL
=============================================================================
