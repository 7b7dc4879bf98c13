-------------------------- MODULE DashboardsProofs --------------------------
(***************************************************************************)
(* Proofs about Dashboards, for every number of articles, page loads,      *)
(* bands and events, and whatever is lost or happens between two queries.  *)
(*                                                                         *)
(* The page loads that were heard of never become fewer, so that a figure  *)
(* that was right when it was asked for bounds nothing too low later; and  *)
(* a page load has one view at most, so that no age counts it twice.       *)
(***************************************************************************)
EXTENDS Dashboards, FiniteSetTheorems, WellFoundedInduction, TLAPS

-----------------------------------------------------------------------------
(***************************************************************************)
(* Least and greatest elements.                                            *)
(***************************************************************************)

\* A set of natural numbers that is not empty has a least one.
LEMMA Least ==
  ASSUME NEW T, T \subseteq Nat, T # {}
  PROVE  \E m \in T : \A n \in T : m <= n
<1> DEFINE R == OpToRel(<, Nat)
<1>1. IsWellFoundedOn(R, Nat)
  BY NatLessThanWellFounded
<1>2. \A x, y \in Nat : y < x => <<y, x>> \in R
  BY DEF OpToRel
<1> HIDE DEF R
<1>3. PICK x \in T : \A y \in T : ~(<<y, x>> \in R)
  BY <1>1, WFMin
<1>4. ASSUME NEW n \in T PROVE x <= n
  <2>1. x \in Nat /\ n \in Nat
    OBVIOUS
  <2>2. ~(n < x)
    BY <1>2, <1>3, <2>1
  <2> QED BY <2>1, <2>2
<1> QED BY <1>4

LEMMA MinIs ==
  ASSUME NEW T, T \subseteq Nat, T # {}
  PROVE  Min(T) \in T /\ \A n \in T : Min(T) <= n
<1>1. \E m \in T : \A n \in T : m <= n
  BY Least
<1> QED BY <1>1 DEF Min

\* A bounded one has a greatest.
LEMMA MaxIs ==
  ASSUME NEW T, NEW b \in Nat, T \subseteq 0..b, T # {}
  PROVE  Max(T) \in T /\ \A n \in T : n <= Max(T)
<1> DEFINE U == {b - n : n \in T}
<1>1. U \subseteq Nat
  <2>1. \A n \in T : b - n \in Nat
    OBVIOUS
  <2> QED BY <2>1
<1>2. U # {}
  OBVIOUS
<1> HIDE DEF U
<1>3. PICK m \in U : \A n \in U : m <= n
  BY <1>1, <1>2, Least
<1>4. PICK k \in T : m = b - k
  BY DEF U
<1>5. ASSUME NEW n \in T PROVE k >= n
  <2>1. b - n \in U /\ n \in 0..b /\ k \in 0..b
    BY DEF U
  <2>2. b - k <= b - n
    BY <1>3, <1>4, <2>1
  <2> QED BY <2>1, <2>2
<1>6. Max(T) \in T /\ \A n \in T : Max(T) >= n
  BY <1>5 DEF Max
<1>7. ASSUME NEW n \in T PROVE n <= Max(T)
  <2>1. n \in 0..b /\ Max(T) \in 0..b /\ Max(T) >= n
    BY <1>6
  <2> QED BY <2>1
<1> QED BY <1>6, <1>7

-----------------------------------------------------------------------------

ViewPages(d) == PagesOf({r \in Events(d) : r.type = "view"})

Types ==
  /\ rows \subseteq Row /\ IsFiniteSet(rows)
  /\ published \subseteq documents /\ documents \subseteq Document
  /\ blocks \in [Document -> Layout]

\* A page load has one view at most.
OneView ==
  \A r, s \in rows : r.type = "view" /\ s.type = "view" /\ r.page = s.page => r = s

StatsPage ==
  [page : {"stats"}, document : Document, layout : Layout, done : 0..3, views : Nat,
   reach : [Band -> Nat], seen : [Block -> Nat]]

\* What a statistics page holds, between any two of its queries.
Stats(q) ==
  /\ q \in StatsPage
  /\ \A a, b \in Band : a <= b => q.reach[b] <= q.reach[a]
  /\ \A b \in Band : q.reach[b] <= Cardinality(Heard(q.document))
  /\ \A c \in Block : q.seen[c] <= Cardinality(Heard(q.document))

\* What a dashboard holds.
Board(q) ==
  /\ q = [page |-> "board", listed |-> q.listed, done |-> q.done,
          recent |-> q.recent, lifetime |-> q.lifetime]
  /\ q.done \in 0..2
  /\ q.listed \cap documents \subseteq published
  /\ q.done \in {1, 2} => \A d \in DOMAIN q.recent \cap documents :
       /\ q.recent[d].cur \in Nat /\ q.recent[d].prev \in Nat
       /\ q.recent[d].cur + q.recent[d].prev <= Cardinality(ViewPages(d))
  /\ q.done = 2 => \A d \in DOMAIN q.recent \cap documents :
       q.recent[d].cur + q.recent[d].prev <= Total(q, d).views

IInv ==
  /\ Types
  /\ OneView
  /\ \A q \in request : Stats(q) \/ Board(q)

-----------------------------------------------------------------------------
(***************************************************************************)
(* Sets of page loads.                                                     *)
(***************************************************************************)

LEMMA PagesAreFinite ==
  ASSUME NEW E, IsFiniteSet(E)
  PROVE  IsFiniteSet(PagesOf(E)) /\ Cardinality(PagesOf(E)) \in Nat
<1> DEFINE f == [r \in E |-> r.page]
<1>1. f \in Surjection(E, PagesOf(E))
  <2>1. f \in [E -> PagesOf(E)]
    BY DEF PagesOf
  <2>2. \A p \in PagesOf(E) : \E r \in E : f[r] = p
    BY DEF PagesOf
  <2> QED BY <2>1, <2>2 DEF Surjection
<1> HIDE DEF f
<1>2. IsFiniteSet(PagesOf(E))
  BY <1>1, FS_Surjection
<1> QED BY <1>2, FS_CardinalityType

\* Whatever was selected of the events of an article, page loads were heard of.
LEMMA SelectedAreHeard ==
  ASSUME Types, NEW d, NEW E, E \subseteq Events(d)
  PROVE  /\ PagesOf(E) \subseteq Heard(d)
         /\ IsFiniteSet(PagesOf(E)) /\ Cardinality(PagesOf(E)) \in Nat
         /\ Cardinality(PagesOf(E)) <= Cardinality(Heard(d))
         /\ IsFiniteSet(Heard(d)) /\ Cardinality(Heard(d)) \in Nat
<1>1. E \subseteq rows /\ \A r \in E : PageOf[r.page] = d
  BY DEF Events
<1>2. PagesOf(E) \subseteq Heard(d)
  BY <1>1 DEF PagesOf, Heard
<1>3. IsFiniteSet(PagesOf(rows))
  BY PagesAreFinite DEF Types
<1>4. Heard(d) \subseteq PagesOf(rows)
  BY DEF Heard
<1>5. IsFiniteSet(Heard(d))
  BY <1>3, <1>4, FS_Subset
<1> QED BY <1>2, <1>5, FS_Subset, FS_CardinalityType

\* The depth of a page load is a band it reported, or nothing.
LEMMA DepthIs ==
  ASSUME Types, NEW p, NEW d
  PROVE  /\ Depth(p, d) \in 0..100
         /\ Depth(p, d) # 0 =>
              \E r \in Events(d) : r.page = p /\ r.type = "banded_scroll" /\ r.about = Depth(p, d)
<1> DEFINE E == {e \in Events(d) : e.page = p /\ e.type = "banded_scroll"}
           T == {0} \cup {r.about : r \in E}
<1>1. \A r \in E : r.about \in 1..100
  BY BandAssumption DEF Types, Row, Events
<1>2. T \subseteq 0..100 /\ T # {}
  BY <1>1
<1>3. Max(T) \in T
  BY <1>2, MaxIs
<1>4. Depth(p, d) = Max(T)
  BY DEF Depth
<1> HIDE DEF T
<1>5. Depth(p, d) \in T
  BY <1>3, <1>4
<1> QED BY <1>2, <1>5 DEF T

\* Page loads that were heard of, and that viewed, stay so.
LEMMA PagesGrow ==
  ASSUME IInv, [Next]_vars
  PROVE  /\ \A d : Heard(d) \subseteq Heard(d)'
         /\ \A d \in documents' : ViewPages(d) \subseteq ViewPages(d)'
         /\ documents' \subseteq documents
<1>1. documents' \subseteq documents
  BY DEF Next, AuthorStep, ReaderStep, OwnerStep, Publish, Edit, DeleteDocument, PassWeek,
         RecordEvent, OpenStats, OpenBoard, StatsQuery, BoardQuery, Answer, vars
<1>2. \A r \in rows : \E s \in rows' : s.page = r.page /\ s.type = r.type
  <2>1. CASE rows \subseteq rows'
    BY <2>1
  <2>2. CASE PassWeek
    <3>1. ASSUME NEW r \in rows PROVE Older(r).page = r.page /\ Older(r).type = r.type
      BY DEF Older, IInv, Types, Row
    <3> QED BY <2>2, <3>1 DEF PassWeek
  <2> QED BY <2>1, <2>2 DEF Next, AuthorStep, ReaderStep, OwnerStep, Publish, Edit, DeleteDocument,
         RecordEvent, OpenStats, OpenBoard, StatsQuery, BoardQuery, Answer, vars
<1>3. \A d : Heard(d) \subseteq Heard(d)'
  BY <1>2 DEF Heard, PagesOf
<1>4. \A d \in documents' : ViewPages(d) \subseteq ViewPages(d)'
  BY <1>1, <1>2 DEF ViewPages, Events, PagesOf
<1> QED BY <1>1, <1>3, <1>4

-----------------------------------------------------------------------------
(***************************************************************************)
(* What the queries return.                                                *)
(***************************************************************************)

\* A reach is never below that of a deeper band, nor above what was heard of.
LEMMA ReachNarrows ==
  ASSUME Types, NEW d
  PROVE  /\ BandReach(d) \in [Band -> Nat]
         /\ \A a, b \in Band : a <= b => BandReach(d)[b] <= BandReach(d)[a]
         /\ \A b \in Band : BandReach(d)[b] <= Cardinality(Heard(d))
<1> DEFINE P(b) == {p \in Page : Depth(p, d) >= b}
<1>1. IsFiniteSet(Heard(d))
  BY SelectedAreHeard
<1>2. ASSUME NEW b \in Band
      PROVE  P(b) \subseteq Heard(d) /\ IsFiniteSet(P(b)) /\ Cardinality(P(b)) \in Nat
             /\ Cardinality(P(b)) <= Cardinality(Heard(d))
  <2>1. ASSUME NEW p \in P(b) PROVE p \in Heard(d)
    <3>1. Depth(p, d) # 0
      BY DepthIs, BandAssumption
    <3>2. PICK r \in Events(d) : r.page = p
      BY <3>1, DepthIs
    <3> QED BY <3>2 DEF Heard, PagesOf, Events
  <2>2. P(b) \in SUBSET Heard(d)
    BY <2>1
  <2> QED BY <1>1, <2>2, FS_Subset, FS_CardinalityType
<1>3. ASSUME NEW a \in Band, NEW b \in Band, a <= b
      PROVE  Cardinality(P(b)) <= Cardinality(P(a))
  <2>1. P(b) \in SUBSET P(a)
    BY <1>3, DepthIs, BandAssumption
  <2> QED BY <1>2, <2>1, FS_Subset
<1> QED BY <1>2, <1>3 DEF BandReach

LEMMA ImpressionsAreHeard ==
  ASSUME Types, NEW d
  PROVE  /\ Impressions(d) \in [Block -> Nat]
         /\ \A c \in Block : Impressions(d)[c] <= Cardinality(Heard(d))
<1>1. ASSUME NEW c
      PROVE  LET E == {r \in Events(d) : r.type = "block_impression" /\ r.about = c}
             IN  Cardinality(PagesOf(E)) \in Nat /\ Cardinality(PagesOf(E)) <= Cardinality(Heard(d))
  BY SelectedAreHeard
<1> QED BY <1>1 DEF Impressions

\* No page load is counted by two ages.
LEMMA AgesAreDistinct ==
  ASSUME Types, OneView, NEW d
  PROVE  /\ Cardinality(ViewPages(d)) \in Nat
         /\ ViewsOfAge(d, 0) \in Nat /\ ViewsOfAge(d, 1) \in Nat
         /\ ViewsOfAge(d, 0) + ViewsOfAge(d, 1) <= Cardinality(ViewPages(d))
<1> DEFINE A(age) == PagesOf({r \in Events(d) : r.type = "view" /\ r.about = age})
           V == ViewPages(d)
<1>1. IsFiniteSet(V) /\ Cardinality(V) \in Nat
  BY SelectedAreHeard DEF ViewPages
<1>2. A(0) \subseteq V /\ A(1) \subseteq V
  BY DEF ViewPages, PagesOf
<1>3. A(0) \cap A(1) = {}
  BY DEF OneView, PagesOf, Events
<1>4. /\ IsFiniteSet(A(0)) /\ IsFiniteSet(A(1))
      /\ Cardinality(A(0)) \in Nat /\ Cardinality(A(1)) \in Nat
  BY <1>1, <1>2, FS_Subset, FS_CardinalityType
<1>5. ViewsOfAge(d, 0) = Cardinality(A(0)) /\ ViewsOfAge(d, 1) = Cardinality(A(1))
  BY DEF ViewsOfAge
<1> HIDE DEF A, V
<1>6. Cardinality(A(0) \cup A(1)) = Cardinality(A(0)) + Cardinality(A(1))
  BY <1>3, <1>4, FS_Union, FS_EmptySet
<1>7. Cardinality(A(0) \cup A(1)) <= Cardinality(V)
  BY <1>1, <1>2, FS_Subset
<1> QED BY <1>1, <1>4, <1>5, <1>6, <1>7 DEF V

-----------------------------------------------------------------------------
(***************************************************************************)
(* The invariant.                                                          *)
(***************************************************************************)

LEMMA InvInit == Init => IInv
  BY FS_EmptySet DEF Init, IInv, Types, OneView

LEMMA TypesStep ==
  ASSUME IInv, [Next]_vars
  PROVE  Types' /\ OneView'
<1>1. CASE UNCHANGED <<rows, published, documents, blocks>>
  BY <1>1 DEF IInv, Types, OneView
<1>2. ASSUME NEW d \in Document, Publish(d) \/ Edit(d) \/ DeleteDocument(d)
      PROVE  Types' /\ OneView'
  BY <1>2 DEF Publish, Edit, DeleteDocument, IInv, Types, OneView
<1>3. CASE PassWeek
  <2>1. ASSUME NEW r \in rows
        PROVE  Older(r) \in Row /\ Older(r).page = r.page /\ Older(r).type = r.type
    BY DEF Older, IInv, Types, Row
  <2>2. rows' = {Older(r) : r \in rows} /\ UNCHANGED <<published, documents, blocks>>
    BY <1>3 DEF PassWeek
  <2> DEFINE f == [r \in rows |-> Older(r)]
  <2>3. f \in Surjection(rows, rows')
    <3>1. f \in [rows -> rows']
      BY <2>2
    <3>2. \A s \in rows' : \E r \in rows : f[r] = s
      BY <2>2
    <3> QED BY <3>1, <3>2 DEF Surjection
  <2> HIDE DEF f
  <2>4. IsFiniteSet(rows')
    BY <2>3, FS_Surjection DEF IInv, Types
  <2>5. OneView'
    BY <2>1, <2>2 DEF IInv, OneView
  <2> QED BY <2>1, <2>2, <2>4, <2>5 DEF IInv, Types
<1>4. ASSUME NEW event \in Row, RecordEvent(event)
      PROVE  Types' /\ OneView'
  <2>1. rows' = rows \cup {event} /\ UNCHANGED <<published, documents, blocks>> /\ ~Sent(event)
    BY <1>4 DEF RecordEvent
  <2>2. IsFiniteSet(rows')
    BY <2>1, FS_AddElement DEF IInv, Types
  <2>3. OneView'
    BY <2>1 DEF IInv, OneView, Sent
  <2> QED BY <2>1, <2>2, <2>3 DEF IInv, Types
<1>5. CASE OwnerStep
  BY <1>1, <1>5 DEF OwnerStep, OpenStats, OpenBoard, StatsQuery, BoardQuery, Answer
<1> QED BY <1>1, <1>2, <1>3, <1>4, <1>5 DEF Next, AuthorStep, ReaderStep, vars

\* What a page holds stays right whatever happens.
LEMMA HeldStays ==
  ASSUME IInv, [Next]_vars, NEW q
  PROVE  (Stats(q) => Stats(q)') /\ (Board(q) => Board(q)')
<1>1. Types' /\ OneView'
  BY TypesStep
<1>2. /\ \A d : Heard(d) \subseteq Heard(d)'
      /\ \A d \in documents' : ViewPages(d) \subseteq ViewPages(d)'
      /\ documents' \subseteq documents
  BY PagesGrow
<1>3. ASSUME NEW d
      PROVE  /\ Cardinality(Heard(d)) \in Nat /\ Cardinality(Heard(d)') \in Nat
             /\ Cardinality(Heard(d)) <= Cardinality(Heard(d)')
  <2>1. IsFiniteSet(Heard(d)) /\ Cardinality(Heard(d)) \in Nat
    BY SelectedAreHeard DEF IInv
  <2>2. IsFiniteSet(PagesOf(rows)')
    BY <1>1, PagesAreFinite DEF Types, PagesOf
  <2>3. Heard(d)' \subseteq PagesOf(rows)'
    BY DEF Heard
  <2>4. IsFiniteSet(Heard(d)')
    BY <2>2, <2>3, FS_Subset
  <2>5. Heard(d) \in SUBSET Heard(d)'
    BY <1>2
  <2> QED BY <2>1, <2>4, <2>5, FS_Subset, FS_CardinalityType
<1>4. ASSUME Stats(q) PROVE Stats(q)'
  <2>1. q.document \in Document /\ q.reach \in [Band -> Nat] /\ q.seen \in [Block -> Nat]
    BY <1>4 DEF Stats, StatsPage
  <2>2. ASSUME NEW n \in Nat, n <= Cardinality(Heard(q.document))
        PROVE  n <= Cardinality(Heard(q.document)')
    BY <1>3, <2>2
  <2>3. /\ \A b \in Band : q.reach[b] <= Cardinality(Heard(q.document)')
        /\ \A c \in Block : q.seen[c] <= Cardinality(Heard(q.document)')
    BY <1>4, <2>1, <2>2 DEF Stats
  <2> QED BY <1>4, <2>3 DEF Stats
<1>5. ASSUME Board(q) PROVE Board(q)'
  <2>1. q.listed \cap documents' \subseteq published'
    BY <1>2, <1>5 DEF Board, Next, AuthorStep, ReaderStep, OwnerStep, Publish, Edit,
       DeleteDocument, PassWeek, RecordEvent, OpenStats, OpenBoard, StatsQuery, BoardQuery, Answer, vars
  <2>2. ASSUME NEW d \in documents'
        PROVE  /\ Cardinality(ViewPages(d)) \in Nat /\ Cardinality(ViewPages(d)') \in Nat
               /\ Cardinality(ViewPages(d)) <= Cardinality(ViewPages(d)')
    <3>1. ViewPages(d)' \subseteq Heard(d)'
      BY DEF ViewPages, Events, PagesOf, Heard
    <3>2. IsFiniteSet(PagesOf(rows)')
      BY <1>1, PagesAreFinite DEF Types, PagesOf
    <3>3. Heard(d)' \subseteq PagesOf(rows)'
      BY DEF Heard
    <3>4. IsFiniteSet(ViewPages(d)')
      BY <3>1, <3>2, <3>3, FS_Subset
    <3>5. ViewPages(d) \in SUBSET ViewPages(d)'
      BY <1>2
    <3> QED BY <3>4, <3>5, FS_Subset, FS_CardinalityType
  <2>3. q.done \in {1, 2} => \A d \in DOMAIN q.recent \cap documents' :
          /\ q.recent[d].cur \in Nat /\ q.recent[d].prev \in Nat
          /\ q.recent[d].cur + q.recent[d].prev <= Cardinality(ViewPages(d)')
    <3> SUFFICES ASSUME q.done \in {1, 2}, NEW d \in DOMAIN q.recent \cap documents'
                 PROVE  /\ q.recent[d].cur \in Nat /\ q.recent[d].prev \in Nat
                        /\ q.recent[d].cur + q.recent[d].prev <= Cardinality(ViewPages(d)')
      OBVIOUS
    <3>1. /\ q.recent[d].cur \in Nat /\ q.recent[d].prev \in Nat
          /\ q.recent[d].cur + q.recent[d].prev <= Cardinality(ViewPages(d))
      BY <1>2, <1>5 DEF Board
    <3> QED BY <2>2, <3>1
  <2>4. q.done = 2 => \A d \in DOMAIN q.recent \cap documents' :
          q.recent[d].cur + q.recent[d].prev <= Total(q, d).views
    BY <1>2, <1>5 DEF Board
  <2> QED BY <1>5, <2>1, <2>3, <2>4 DEF Board, Total, Nobody
<1> QED BY <1>4, <1>5

\* Filling in one figure of a statistics page leaves the others.
LEMMA FilledIn ==
  ASSUME NEW a \in StatsPage
  PROVE  /\ \A v \in Nat : LET u == [a EXCEPT !.views = v] IN
              /\ u \in StatsPage /\ u.document = a.document /\ u.reach = a.reach /\ u.seen = a.seen
         /\ \A f \in [Band -> Nat] : LET u == [a EXCEPT !.reach = f] IN
              /\ u \in StatsPage /\ u.document = a.document /\ u.reach = f /\ u.seen = a.seen
         /\ \A f \in [Block -> Nat] : LET u == [a EXCEPT !.seen = f] IN
              /\ u \in StatsPage /\ u.document = a.document /\ u.reach = a.reach /\ u.seen = f
<1>1. ASSUME NEW v \in Nat
      PROVE  LET u == [a EXCEPT !.views = v] IN
             /\ u \in StatsPage /\ u.document = a.document /\ u.reach = a.reach /\ u.seen = a.seen
  BY DEF StatsPage
<1>2. ASSUME NEW f \in [Band -> Nat]
      PROVE  LET u == [a EXCEPT !.reach = f] IN
             /\ u \in StatsPage /\ u.document = a.document /\ u.reach = f /\ u.seen = a.seen
  BY DEF StatsPage
<1>3. ASSUME NEW f \in [Block -> Nat]
      PROVE  LET u == [a EXCEPT !.seen = f] IN
             /\ u \in StatsPage /\ u.document = a.document /\ u.reach = a.reach /\ u.seen = f
  BY DEF StatsPage
<1> QED BY <1>1, <1>2, <1>3

\* A query of the statistics page gets what holds when it is asked.
LEMMA StatsQueried ==
  ASSUME IInv, NEW q, Stats(q), StatsQuery(q)
  PROVE  \A u \in request' : Stats(u)
<1> DEFINE d == q.document
           asked == [q EXCEPT !.done = @ + 1]
<1>1. q \in StatsPage
  BY DEF Stats
<1>2. q.done \in {0, 1, 2} /\ Len(StatsQueries) = 3
  BY <1>1 DEF StatsQuery, StatsQueries, StatsPage
<1>3. \/ request' = {[asked EXCEPT !.views = Views(d)]}
      \/ request' = {[asked EXCEPT !.reach = BandReach(d)]}
      \/ request' = {[asked EXCEPT !.seen = Impressions(d)]}
  BY <1>2 DEF StatsQuery, StatsQueries
<1>4. /\ asked \in StatsPage /\ asked.document = d
      /\ asked.reach = q.reach /\ asked.seen = q.seen
  BY <1>1, <1>2 DEF StatsPage
<1>5. Views(d) \in Nat
  BY SelectedAreHeard DEF Views, IInv
<1>6. /\ BandReach(d) \in [Band -> Nat]
      /\ \A a, b \in Band : a <= b => BandReach(d)[b] <= BandReach(d)[a]
      /\ \A b \in Band : BandReach(d)[b] <= Cardinality(Heard(d))
  BY ReachNarrows DEF IInv
<1>7. /\ Impressions(d) \in [Block -> Nat]
      /\ \A c \in Block : Impressions(d)[c] <= Cardinality(Heard(d))
  BY ImpressionsAreHeard DEF IInv
<1>8. /\ \A a, b \in Band : a <= b => q.reach[b] <= q.reach[a]
      /\ \A b \in Band : q.reach[b] <= Cardinality(Heard(d))
      /\ \A c \in Block : q.seen[c] <= Cardinality(Heard(d))
  BY DEF Stats
<1> HIDE DEF asked, d
<1>9. ASSUME NEW u \in StatsPage, u.document = d, u.reach \in {q.reach, BandReach(d)},
             u.seen \in {q.seen, Impressions(d)}
      PROVE  Stats(u)
  BY <1>6, <1>7, <1>8, <1>9 DEF Stats
<1>10. CASE request' = {[asked EXCEPT !.views = Views(d)]}
  <2> DEFINE u == [asked EXCEPT !.views = Views(d)]
  <2>1. u \in StatsPage /\ u.document = d /\ u.reach = q.reach /\ u.seen = q.seen
    BY <1>4, <1>5, FilledIn
  <2> HIDE DEF u
  <2>2. Stats(u)
    BY <1>9, <2>1
  <2> QED BY <1>10, <2>2 DEF u
<1>11. CASE request' = {[asked EXCEPT !.reach = BandReach(d)]}
  <2> DEFINE u == [asked EXCEPT !.reach = BandReach(d)]
  <2>1. u \in StatsPage /\ u.document = d /\ u.reach = BandReach(d) /\ u.seen = q.seen
    BY <1>4, <1>6, FilledIn
  <2> HIDE DEF u
  <2>2. Stats(u)
    BY <1>9, <2>1
  <2> QED BY <1>11, <2>2 DEF u
<1>12. CASE request' = {[asked EXCEPT !.seen = Impressions(d)]}
  <2> DEFINE u == [asked EXCEPT !.seen = Impressions(d)]
  <2>1. u \in StatsPage /\ u.document = d /\ u.reach = q.reach /\ u.seen = Impressions(d)
    BY <1>4, <1>7, FilledIn
  <2> HIDE DEF u
  <2>2. Stats(u)
    BY <1>9, <2>1
  <2> QED BY <1>12, <2>2 DEF u
<1> QED BY <1>3, <1>10, <1>11, <1>12

\* So does one of the dashboard; the second returns no fewer views than the first.
LEMMA BoardQueried ==
  ASSUME IInv, NEW q, Board(q), BoardQuery(q)
  PROVE  \A u \in request' : Board(u) /\ (u.done = 2 => u.listed = q.listed /\ u.lifetime = Lifetime)
<1>1. q = [page |-> "board", listed |-> q.listed, done |-> q.done,
           recent |-> q.recent, lifetime |-> q.lifetime]
  BY DEF Board
<1>2. q.done \in {0, 1} /\ Len(BoardQueries) = 2
  BY DEF Board, BoardQuery, BoardQueries
<1>3. q.listed \cap documents \subseteq published
  BY DEF Board
<1>4. \A d : /\ Cardinality(ViewPages(d)) \in Nat
             /\ ViewsOfAge(d, 0) \in Nat /\ ViewsOfAge(d, 1) \in Nat
             /\ ViewsOfAge(d, 0) + ViewsOfAge(d, 1) <= Cardinality(ViewPages(d))
  BY AgesAreDistinct DEF IInv
<1>5. CASE q.done = 0
  <2>1. request' = {[[q EXCEPT !.done = @ + 1] EXCEPT !.recent = RecentViews]}
    BY <1>5 DEF BoardQuery, BoardQueries
  <2> DEFINE u == [page |-> "board", listed |-> q.listed, done |-> 1,
                   recent |-> RecentViews, lifetime |-> q.lifetime]
  <2>2. [[q EXCEPT !.done = @ + 1] EXCEPT !.recent = RecentViews] = u
    <3> DEFINE asked == [q EXCEPT !.done = @ + 1]
    <3>1. asked = [page |-> "board", listed |-> q.listed, done |-> q.done + 1,
                   recent |-> q.recent, lifetime |-> q.lifetime]
      BY <1>1
    <3> HIDE DEF asked
    <3>2. [asked EXCEPT !.recent = RecentViews] = u
      BY <3>1, <1>5
    <3> QED BY <3>2 DEF asked
  <2>3. \A d \in DOMAIN RecentViews :
          RecentViews[d] = [cur |-> ViewsOfAge(d, 0), prev |-> ViewsOfAge(d, 1)]
    BY DEF RecentViews
  <2>4. /\ u = [page |-> "board", listed |-> u.listed, done |-> u.done,
                recent |-> u.recent, lifetime |-> u.lifetime]
        /\ u.listed = q.listed /\ u.done = 1 /\ u.recent = RecentViews
    OBVIOUS
  <2> HIDE DEF u
  <2>5. Board(u)
    BY <1>3, <1>4, <2>3, <2>4 DEF Board
  <2> QED BY <2>1, <2>2, <2>4, <2>5
<1>6. CASE q.done = 1
  <2>1. request' = {[[q EXCEPT !.done = @ + 1] EXCEPT !.lifetime = Lifetime]}
    BY <1>6 DEF BoardQuery, BoardQueries
  <2> DEFINE u == [page |-> "board", listed |-> q.listed, done |-> 2,
                   recent |-> q.recent, lifetime |-> Lifetime]
  <2>2. [[q EXCEPT !.done = @ + 1] EXCEPT !.lifetime = Lifetime] = u
    <3> DEFINE asked == [q EXCEPT !.done = @ + 1]
    <3>1. asked = [page |-> "board", listed |-> q.listed, done |-> q.done + 1,
                   recent |-> q.recent, lifetime |-> q.lifetime]
      BY <1>1
    <3> HIDE DEF asked
    <3>2. [asked EXCEPT !.lifetime = Lifetime] = u
      BY <3>1, <1>6
    <3> QED BY <3>2 DEF asked
  <2>3. /\ u = [page |-> "board", listed |-> u.listed, done |-> u.done,
                recent |-> u.recent, lifetime |-> u.lifetime]
        /\ u.listed = q.listed /\ u.done = 2 /\ u.recent = q.recent /\ u.lifetime = Lifetime
    OBVIOUS
  <2> HIDE DEF u
  <2>4. ASSUME NEW d \in DOMAIN q.recent \cap documents
        PROVE  /\ q.recent[d].cur \in Nat /\ q.recent[d].prev \in Nat
               /\ q.recent[d].cur + q.recent[d].prev <= Cardinality(ViewPages(d))
    BY <1>6 DEF Board
  <2>5. \A d \in Document : Views(d) = Cardinality(ViewPages(d))
    BY DEF Views, ViewPages
  <2>6. ASSUME NEW d \in documents PROVE Total(u, d).views = Cardinality(ViewPages(d))
    <3>1. CASE d \in DOMAIN Lifetime
      BY <2>3, <2>5, <3>1 DEF Total, Lifetime
    <3>2. CASE d \notin DOMAIN Lifetime
      <4>1. Total(u, d).views = 0
        BY <2>3, <3>2 DEF Total, Nobody
      <4>2. ViewPages(d) = {} \/ d \in Document
        BY DEF ViewPages, PagesOf, Events, IInv, Types, Row
      <4>3. CASE ViewPages(d) = {}
        BY <4>1, <4>3, FS_EmptySet
      <4>4. CASE d \in Document
        <5>1. ~(Cardinality(ViewPages(d)) > 0)
          BY <2>5, <3>2, <4>4 DEF Lifetime
        <5> QED BY <1>4, <4>1, <5>1
      <4> QED BY <4>2, <4>3, <4>4
    <3> QED BY <3>1, <3>2
  <2>7. Board(u)
    BY <1>3, <2>3, <2>4, <2>6 DEF Board
  <2> QED BY <2>1, <2>2, <2>3, <2>7
<1> QED BY <1>2, <1>5, <1>6

LEMMA InvStep == IInv /\ [Next]_vars => IInv'
<1> SUFFICES ASSUME IInv, [Next]_vars PROVE IInv'
  OBVIOUS
<1>1. Types' /\ OneView'
  BY TypesStep
<1>2. \A q \in request : Stats(q)' \/ Board(q)'
  BY HeldStays DEF IInv
<1>3. ASSUME UNCHANGED <<rows, documents, published>>, \A q \in request' : Stats(q) \/ Board(q)
      PROVE  IInv'
  <2>1. ASSUME NEW q \in request' PROVE Stats(q)' \/ Board(q)'
    BY <1>3, HeldStays
  <2> QED BY <1>1, <2>1 DEF IInv
<1>4. CASE request' \subseteq request
  BY <1>1, <1>2, <1>4 DEF IInv
<1>5. ASSUME NEW d \in Document, OpenStats(d) PROVE IInv'
  <2> DEFINE q == [page |-> "stats", document |-> d, layout |-> blocks[d], done |-> 0,
                   views |-> 0, reach |-> [b \in Band |-> 0], seen |-> [b \in Block |-> 0]]
  <2>1. blocks[d] \in Layout /\ Cardinality(Heard(d)) \in Nat
    BY SelectedAreHeard DEF IInv, Types
  <2>2. /\ q \in StatsPage
        /\ q.document = d /\ q.reach = [b \in Band |-> 0] /\ q.seen = [b \in Block |-> 0]
    BY <2>1 DEF StatsPage
  <2>3. Stats(q)
    <3> HIDE DEF q
    <3> QED BY <2>1, <2>2 DEF Stats
  <2>4. request' = {q} /\ UNCHANGED <<rows, documents, published>>
    BY <1>5 DEF OpenStats
  <2> HIDE DEF q
  <2> QED BY <1>3, <2>3, <2>4
<1>6. CASE OpenBoard
  <2> DEFINE q == [page |-> "board", listed |-> published, done |-> 0,
                   recent |-> <<>>, lifetime |-> <<>>]
  <2>1. Board(q)
    BY DEF Board
  <2>2. request' = {q} /\ UNCHANGED <<rows, documents, published>>
    BY <1>6 DEF OpenBoard
  <2> HIDE DEF q
  <2> QED BY <1>3, <2>1, <2>2
<1>7. ASSUME NEW q \in request, StatsQuery(q) PROVE IInv'
  <2>1. Stats(q)
    BY <1>7 DEF IInv, StatsQuery, Board, Stats, StatsPage
  <2>2. \A u \in request' : Stats(u)
    BY <1>7, <2>1, StatsQueried
  <2> QED BY <1>3, <1>7, <2>2 DEF StatsQuery
<1>8. ASSUME NEW q \in request, BoardQuery(q) PROVE IInv'
  <2>1. Board(q)
    BY <1>8 DEF IInv, BoardQuery, Stats, StatsPage
  <2>2. \A u \in request' : Board(u)
    BY <1>8, <2>1, BoardQueried
  <2> QED BY <1>3, <1>8, <2>2 DEF BoardQuery
<1> QED BY <1>4, <1>5, <1>6, <1>7, <1>8 DEF Next, AuthorStep, ReaderStep, OwnerStep, Publish, Edit,
     DeleteDocument, PassWeek, RecordEvent, Answer, vars

LEMMA Invariance == Spec => []IInv
  BY InvInit, InvStep, PTL DEF Spec

-----------------------------------------------------------------------------
(***************************************************************************)
(* The theorems.                                                           *)
(***************************************************************************)

\* Only the last query of a dashboard answers one.
LEMMA AnsweredByQuery ==
  ASSUME IInv, Next, NEW u \in request', u \notin request,
         u.page = "board", u.done = Len(BoardQueries)
  PROVE  \E q \in request : BoardQuery(q) /\ Board(q)
<1>1. u.done = 2
  BY DEF BoardQueries
<1>2. ASSUME NEW q \in request, StatsQuery(q) PROVE FALSE
  <2>1. Stats(q)
    BY <1>2 DEF IInv, StatsQuery, Board, Stats, StatsPage
  <2>2. Stats(u)
    BY <1>2, <2>1, StatsQueried
  <2> QED BY <2>2 DEF Stats, StatsPage
<1>3. ASSUME NEW q \in request, BoardQuery(q) PROVE Board(q)
  BY <1>3 DEF IInv, BoardQuery, Stats, StatsPage
<1>4. ASSUME NEW d \in Document PROVE ~OpenStats(d)
  BY DEF OpenStats
<1>5. ~OpenBoard
  BY <1>1 DEF OpenBoard
<1> QED BY <1>2, <1>3, <1>4, <1>5 DEF Next, AuthorStep, ReaderStep, OwnerStep, Publish, Edit,
     DeleteDocument, PassWeek, RecordEvent, Answer

\* Whatever events are lost and whatever happens between the three queries of a
\* statistics page, no band is said to be reached by more page loads than one
\* before it, and no block by more page loads than ever reported anything.
THEOREM FunnelIsRight == Spec => []FunnelNarrows
<1>1. IInv => FunnelNarrows
  <2> SUFFICES ASSUME IInv, NEW q \in request, q.done = 3, q.page = "stats"
               PROVE  /\ \A a, b \in Band : a <= b => q.reach[b] <= q.reach[a]
                      /\ \A i \in DOMAIN q.layout :
                           EstimatedReach(q, i) <= Cardinality(Heard(q.document))
    BY DEF FunnelNarrows, Answered, StatsQueries
  <2>1. Stats(q)
    BY DEF IInv, Board
  <2> DEFINE most == Cardinality(Heard(q.document))
  <2>2. most \in Nat
    BY SelectedAreHeard DEF IInv
  <2>3. /\ q.layout \in Seq(Block)
        /\ q.reach \in [Band -> Nat] /\ q.seen \in [Block -> Nat]
        /\ \A b \in Band : q.reach[b] <= most
        /\ \A c \in Block : q.seen[c] <= most
    BY <2>1, LayoutAssumption DEF Stats, StatsPage
  <2> HIDE DEF most
  <2>4. ASSUME NEW i \in DOMAIN q.layout PROVE EstimatedReach(q, i) <= most
    <3> DEFINE total == Len(q.layout)
               T == {b \in Band : i * 100 <= b * total}
               R == {q.reach[BandFor(i, total)], q.seen[q.layout[i]]}
    <3>1. total \in Nat /\ i \in 1..total /\ q.layout[i] \in Block
      BY <2>3
    <3>2. 100 \in T /\ T \subseteq Nat
      <4>1. i * 100 <= 100 * total
        <5> HIDE DEF total
        <5> QED BY <3>1
      <4>2. 100 \in T
        <5> HIDE DEF total
        <5> QED BY <4>1, BandAssumption
      <4>3. T \subseteq Band
        OBVIOUS
      <4> HIDE DEF T
      <4> QED BY <4>2, <4>3, BandAssumption
    <3>3. BandFor(i, total) = Min(T)
      BY DEF BandFor
    <3>4. Min(T) \in T
      BY <3>2, MinIs
    <3>5. BandFor(i, total) \in Band
      BY <3>3, <3>4
    <3> HIDE DEF T, total
    <3>6. R \subseteq 0..most /\ R # {}
      BY <2>2, <2>3, <3>1, <3>5
    <3>7. EstimatedReach(q, i) = Max(R)
      BY DEF EstimatedReach, total
    <3> HIDE DEF R
    <3>8. Max(R) \in R
      BY <2>2, <3>6, MaxIs
    <3>9. Max(R) \in 0..most
      BY <3>6, <3>8
    <3> QED BY <2>2, <3>7, <3>9
  <2> QED BY <2>1, <2>4 DEF Stats, most
<1> QED BY <1>1, Invariance, PTL

\* The recent views of an article never exceed its lifetime views, although
\* events, edits and deletions come between the two queries.
THEOREM RecentIsWithinLifetime == Spec => []RecentWithinLifetime
<1>1. IInv => RecentWithinLifetime
  <2> SUFFICES ASSUME IInv, NEW q \in request, q.done = 2, q.page = "board",
                      NEW d \in Measured(q) \cap documents
               PROVE  q.recent[d].cur + q.recent[d].prev <= Total(q, d).views
    BY DEF RecentWithinLifetime, Answered, BoardQueries
  <2>1. Board(q)
    BY DEF IInv, Stats, StatsPage
  <2> QED BY <2>1 DEF Board, Measured
<1> QED BY <1>1, Invariance, PTL

\* When a dashboard complains that few readers finish an article, the article is
\* published and one of its views is of a page load that did not report the end.
THEOREM NudgeHasCause == Spec => NudgeIsDeserved
<1>1. ASSUME IInv, Next, NEW u \in request', u \notin request,
             u.page = "board", u.done = Len(BoardQueries), NEW d \in Nudged(u)
      PROVE  /\ d \in published
             /\ \E r \in Events(d) : r.type = "view" /\ Depth(r.page, d) < 100
  <2>1. PICK q \in request : BoardQuery(q) /\ Board(q)
    BY <1>1, AnsweredByQuery
  <2>2. u.listed = q.listed /\ u.lifetime = Lifetime
    BY <1>1, <2>1, BoardQueried DEF BoardQueries
  <2>3. d \in q.listed /\ Total(u, d).views >= MinViews /\ Total(u, d).completed < Total(u, d).views
    BY <1>1, <2>2 DEF Nudged, Measured, Unfinished
  <2>4. d \in DOMAIN Lifetime
    BY <2>2, <2>3, BoundsAssumption DEF Total, Nobody
  <2>5. Views(d) > 0 /\ Completed(d) < Views(d)
    BY <2>2, <2>3, <2>4 DEF Total, Lifetime
  <2> DEFINE V == PagesOf({r \in Events(d) : r.type = "view"})
             C == PagesOf({r \in Events(d) : r.type = "banded_scroll" /\ r.about = 100})
  <2>6. Cardinality(C) < Cardinality(V)
    BY <2>5 DEF Views, Completed
  <2>7. /\ IsFiniteSet(C) /\ Cardinality(C) \in Nat
        /\ IsFiniteSet(V) /\ Cardinality(V) \in Nat
    BY <1>1, SelectedAreHeard DEF IInv
  <2>8. ~(V \subseteq C)
    <3> HIDE DEF V, C
    <3> SUFFICES ASSUME V \subseteq C PROVE FALSE
      OBVIOUS
    <3>1. Cardinality(V) <= Cardinality(C)
      BY <2>7, FS_Subset
    <3> QED BY <2>6, <2>7, <3>1
  <2>9. PICK r \in Events(d) : r.type = "view" /\ r.page \notin C
    BY <2>8 DEF PagesOf
  <2>10. Depth(r.page, d) # 100
    BY <1>1, <2>9, DepthIs DEF PagesOf, IInv
  <2>11. Depth(r.page, d) < 100
    <3>1. Depth(r.page, d) \in 0..100
      BY <1>1, DepthIs DEF IInv
    <3> HIDE DEF V, C
    <3> QED BY <2>10, <3>1
  <2>12. d \in published
    BY <2>1, <2>3, <2>9 DEF Events, Board
  <2> QED BY <2>9, <2>11, <2>12
<1>2. IInv /\ [Next]_vars =>
        [\A q \in request' :
           q \notin request /\ q.page = "board" /\ q.done = Len(BoardQueries) =>
             \A d \in Nudged(q) :
               /\ d \in published
               /\ \E r \in Events(d) : r.type = "view" /\ Depth(r.page, d) < 100]_vars
  BY <1>1
<1> QED BY <1>2, Invariance, PTL DEF Spec, NudgeIsDeserved
=============================================================================
