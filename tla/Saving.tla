------------------------------- MODULE Saving -------------------------------
(***************************************************************************)
(* Saving an article: several tabs load the blocks of one document, merge  *)
(* what the author wrote into what they loaded, and write the result.      *)
(*                                                                         *)
(* A save is get_document (blocks and versions are separate queries), the  *)
(* call of the video provider, the merge, and one transaction.  Anything   *)
(* may happen in between: another tab saves, an experiment promotes a      *)
(* variant, the document is deleted.                                       *)
(*                                                                         *)
(* Rows are never removed from the table blocks while their document       *)
(* exists: a dropped block is parked at a negative position.  So a block   *)
(* is its index in the sequence rows, which is the order of their rowids,  *)
(* and a version is its index in pool.                                     *)
(***************************************************************************)
EXTENDS Integers, Sequences, FiniteSets

CONSTANTS
  Tab,             \* saves that may be in flight
  Kind,            \* kinds of blocks
  Content,         \* contents of blocks
  Unit,            \* how far a row is parked (1000000000), more than any article is long
  MaxLength,       \* bound on the blocks of an article
  MaxBlocks,       \* bound on the rows of blocks
  MaxVersions,     \* bound on the rows of block_versions
  MaxGenerations   \* bound on how often a row is parked

ASSUME UnitAssumption == Unit \in Nat /\ MaxLength \in Nat /\ MaxLength < Unit
ASSUME BoundAssumption == {MaxBlocks, MaxVersions, MaxGenerations} \subseteq Nat

VARIABLES
  exists,     \* is the document still there?
  rows,       \* blocks, in the order of insertion
  pool,       \* block_versions, in the order of insertion
  saves,      \* what each tab has loaded
  intended    \* history: the article the writes so far asked for

vars == <<exists, rows, pool, saves, intended>>

Block == DOMAIN rows
Version == DOMAIN pool

\* Positions at and above 0 are places in the article, all others are parked.
Row == [kind : Kind, position : {p \in Int : p < MaxLength}, version : Nat]
VersionRow == [block : Nat, content : Content, variant : BOOLEAN]
Paragraph == [kind : Kind, content : Content]

\* The articles an author can write.
Draft == UNION {[1..n -> Paragraph] : n \in 0..MaxLength}

\* answers: queries answered so far; previous: the live blocks in order; known: the
\* versions that were loaded.
Loaded == [block : Nat, kind : Kind, version : Nat]
Save == [answers : 0..2, previous : Seq(Loaded), known : SUBSET Nat]

Idle == [answers |-> 0, previous |-> <<>>, known |-> {}]

TypeOK ==
  /\ exists \in BOOLEAN
  /\ rows \in Seq(Row)
  /\ pool \in Seq(VersionRow)
  /\ saves \in [Tab -> Save]
  /\ intended \in Draft

-----------------------------------------------------------------------------
(***************************************************************************)
(* The article as readers see it.                                          *)
(***************************************************************************)

Live(rs) == {b \in DOMAIN rs : rs[b].position >= 0}

\* SELECT ... WHERE position >= 0 ORDER BY position
InOrder(rs) ==
  [i \in 1..Cardinality(Live(rs)) |->
     CHOOSE b \in Live(rs) :
       Cardinality({c \in Live(rs) : rs[c].position < rs[b].position}) = i - 1]

Article(rs, vs) ==
  [i \in DOMAIN InOrder(rs) |->
     LET row == rs[InOrder(rs)[i]] IN [kind |-> row.kind, content |-> vs[row.version].content]]

-----------------------------------------------------------------------------
(***************************************************************************)
(* Merging a draft into the loaded blocks.                                 *)
(***************************************************************************)

Kinds(s) == [i \in DOMAIN s |-> s[i].kind]

\* The cells <<i, j>> of the table of lcs_matches, its last row and column included.
Cells(p, n) == (1..(Len(p) + 1)) \X (1..(Len(n) + 1))

\* The most blocks that p from i on and n from j on share.
Common(p, n) ==
  LET common[x \in Cells(p, n)] ==
        LET i == x[1]
            j == x[2] IN
        IF i > Len(p) \/ j > Len(n) THEN 0
        ELSE IF p[i] = n[j] THEN common[<<i + 1, j + 1>>] + 1
        ELSE IF common[<<i + 1, j>>] >= common[<<i, j + 1>>] THEN common[<<i + 1, j>>]
        ELSE common[<<i, j + 1>>]
  IN common

\* (mutant) Block by block, whatever their kinds.
SamePlace(p, n) == {<<i, i>> : i \in DOMAIN p \cap DOMAIN n}

\* The pairs <<previous index, new index>> that lcs_matches returns.
LcsMatches(p, n) ==
  LET common == Common(p, n)
      pairs[x \in Cells(p, n)] ==
        LET i == x[1]
            j == x[2] IN
        IF i > Len(p) \/ j > Len(n) THEN {}
        ELSE IF p[i] = n[j] THEN {x} \cup pairs[<<i + 1, j + 1>>]
        ELSE IF common[<<i + 1, j>>] >= common[<<i, j + 1>>] THEN pairs[<<i + 1, j>>]
        ELSE pairs[<<i, j + 1>>]
  IN pairs[<<1, 1>>]

\* How many members of S are at most n: new rows are numbered in document order.
Rank(S, n) == Cardinality({k \in S : k <= n})

\* What merge_blocks makes of the loaded blocks and a draft: the block and the
\* version for each place of the draft, and the versions to insert.
Merge(save, draft) ==
  LET prev == save.previous
      pairs == LcsMatches(Kinds(prev), Kinds(draft))
      matched == {pair[2] : pair \in pairs}
      Old(n) == prev[(CHOOSE pair \in pairs : pair[2] = n)[1]]
      Changed(n) == Old(n).version \notin save.known
                    \/ pool[Old(n).version].content # draft[n].content
      inserted == DOMAIN draft \ matched
      versioned == inserted \cup {n \in matched : Changed(n)}
      BlockAt(n) == IF n \in matched THEN Old(n).block ELSE Len(rows) + Rank(inserted, n)
      VersionAt(n) == IF n \in versioned THEN Len(pool) + Rank(versioned, n) ELSE Old(n).version
  IN [blocks |-> [n \in DOMAIN draft |-> [block |-> BlockAt(n), kind |-> draft[n].kind,
                                          version |-> VersionAt(n)]],
      inserted |-> inserted, versioned |-> versioned]

-----------------------------------------------------------------------------
(***************************************************************************)
(* Parking.  An UPDATE visits its rows in the order of their rowids and    *)
(* checks the unique index (document_id, position) after each.             *)
(***************************************************************************)

Deeper(rs, S) == [b \in DOMAIN rs |-> IF b \in S THEN [rs[b] EXCEPT !.position = @ - Unit] ELSE rs[b]]

\* Some row moves to a position that another row holds, or has yet to leave.
Collides(rs, S) ==
  \E b \in S, c \in DOMAIN rs :
    /\ rs[c].position = rs[b].position - Unit
    /\ c \in S => c > b

Parked(rs) == DOMAIN rs \ Live(rs)

\* (mutant) Both steps in one UPDATE.
SavableAtOnce(rs) == ~Collides(rs, DOMAIN rs)

\* Parked rows go one generation deeper, then the live rows are parked.
Savable(rs) == ~Collides(rs, Parked(rs)) /\ ~Collides(Deeper(rs, Parked(rs)), Live(rs))

\* (mutant) The live rows wait for the loop to renumber them.
OnlyParkedDeeper(rs) == Deeper(rs, Parked(rs))

\* (mutant) Parked above the article.
AllRaised(rs) == [b \in DOMAIN rs |-> [rs[b] EXCEPT !.position = @ + Unit]]

AllParked(rs) == Deeper(rs, DOMAIN rs)

-----------------------------------------------------------------------------

Init ==
  /\ exists = TRUE
  /\ rows = <<>>
  /\ pool = <<>>
  /\ saves = [t \in Tab |-> Idle]
  /\ intended = <<>>

\* (mutant) The queries of get_document the other way round.
VersionsFirst == <<"versions", "blocks">>

QueryOrder == <<"blocks", "versions">>

LoadedBlock(b) == [block |-> b, kind |-> rows[b].kind, version |-> rows[b].version]

Answered(save, query) ==
  [answers |-> save.answers + 1,
   previous |-> IF query = "blocks" THEN [i \in DOMAIN InOrder(rows) |-> LoadedBlock(InOrder(rows)[i])]
                ELSE save.previous,
   known |-> IF query = "versions" THEN Version ELSE save.known]

\* get_document: nothing to save when there is no document, else the next query.
Load(t) ==
  /\ saves[t].answers < 2
  /\ saves[t].answers = 0 => exists
  /\ saves' = [saves EXCEPT ![t] = Answered(@, QueryOrder[@.answers + 1])]
  /\ UNCHANGED <<exists, rows, pool, intended>>

\* (mutant) The pointer of a row that exists is left alone.
PointerKept(b, new) == IF b \in Block THEN rows[b].version ELSE new.version

\* The pointer a save writes is that of the merge, not of the row.
Pointer(b, new) == new.version

PlaceOf(b, blocks) == {n \in DOMAIN blocks : blocks[n].block = b}

\* The rows after the loop over the merged blocks, all others parked.
RowsAfter(merged) ==
  [b \in 1..(Len(rows) + Cardinality(merged.inserted)) |->
     IF PlaceOf(b, merged.blocks) = {} THEN AllParked(rows)[b]
     ELSE LET n == CHOOSE n \in PlaceOf(b, merged.blocks) : TRUE
              new == merged.blocks[n] IN
          [kind |-> new.kind, position |-> n - 1, version |-> Pointer(b, new)]]

PoolAfter(merged, draft) ==
  [v \in 1..(Len(pool) + Cardinality(merged.versioned)) |->
     IF v \in Version THEN pool[v]
     ELSE LET n == CHOOSE n \in merged.versioned : merged.blocks[n].version = v IN
          [block |-> merged.blocks[n].block, content |-> draft[n].content, variant |-> FALSE]]

WithinBounds ==
  /\ Len(rows') <= MaxBlocks /\ Len(pool') <= MaxVersions
  /\ \A b \in DOMAIN rows' : rows'[b].position >= -(MaxGenerations * Unit)

\* apply_markdown, once the video metadata is there: the transaction is rolled
\* back when a row collides, or when the document is gone.
SaveDraft(t, draft) ==
  /\ saves[t].answers = 2
  /\ saves' = [saves EXCEPT ![t] = Idle]
  /\ IF exists /\ Savable(rows)
       THEN LET merged == Merge(saves[t], draft) IN
            /\ rows' = RowsAfter(merged)
            /\ pool' = PoolAfter(merged, draft)
            /\ intended' = draft
            /\ WithinBounds
       ELSE UNCHANGED <<rows, pool, intended>>
  /\ UNCHANGED exists

\* The client hangs up, a call fails, or the process dies.
Abandon(t) ==
  /\ saves[t] # Idle
  /\ saves' = [saves EXCEPT ![t] = Idle]
  /\ UNCHANGED <<exists, rows, pool, intended>>

-----------------------------------------------------------------------------
(***************************************************************************)
(* What happens to the document meanwhile.                                 *)
(***************************************************************************)

\* An experiment adds a variant to the pool of a block.
CreateVariant(b, c) ==
  /\ Len(pool) < MaxVersions
  /\ pool' = Append(pool, [block |-> b, content |-> c, variant |-> TRUE])
  /\ UNCHANGED <<exists, rows, saves, intended>>

\* (mutant) A variant of some experiment.
AnyVariant(b) == {v \in Version : pool[v].variant}

VariantsOf(b) == {v \in Version : pool[v].variant /\ pool[v].block = b}

\* A decision repoints the block, parked or not.
Promote(b, v) ==
  /\ rows' = [rows EXCEPT ![b].version = v]
  /\ intended' = IF b \in Live(rows)
                   THEN [intended EXCEPT ![rows[b].position + 1].content = pool[v].content]
                   ELSE intended
  /\ UNCHANGED <<exists, pool, saves>>

\* The deletion cascades.
DeleteDocument ==
  /\ exists
  /\ exists' = FALSE
  /\ rows' = <<>>
  /\ pool' = <<>>
  /\ intended' = <<>>
  /\ UNCHANGED saves

Next ==
  \/ \E t \in Tab : Load(t) \/ Abandon(t) \/ \E draft \in Draft : SaveDraft(t, draft)
  \/ \E b \in Block, c \in Content : CreateVariant(b, c)
  \/ \E b \in Block : \E v \in VariantsOf(b) : Promote(b, v)
  \/ DeleteDocument

Spec == Init /\ [][Next]_vars

-----------------------------------------------------------------------------
(***************************************************************************)
(* Properties.                                                             *)
(***************************************************************************)

\* Whatever the tabs, experiments and failures in between, readers see the article
\* of the last save that succeeded with the winners promoted since: no mixture of
\* two saves, and no block of an earlier one.
ArticleAsIntended == Article(rows, pool) = intended

\* The live blocks fill the positions from 0 without a gap and without a tie.
PositionsAreContiguous ==
  {rows[b].position : b \in Live(rows)} = 0..(Cardinality(Live(rows)) - 1)

\* current_version_id has no foreign key: still every block, parked ones included,
\* shows a version that is there and is its own.
PointersResolve ==
  \A b \in Block : rows[b].version \in Version /\ pool[rows[b].version].block = b

\* The three queries of get_document are no transaction, and yet the content of
\* every block that was loaded is among the versions that were loaded.
SnapshotResolves ==
  \A t \in Tab :
    exists /\ saves[t].answers = 2 =>
      \A i \in DOMAIN saves[t].previous : saves[t].previous[i].version \in saves[t].known

\* A block never changes its kind, so a variant written for a heading is never
\* shown as something else, even when stale tabs bring back a block that was dropped.
KindIsForever ==
  [][\A b \in Block \cap DOMAIN rows' : rows'[b].kind = rows[b].kind]_vars

\* The merge pairs blocks in order and by kind, and no such pairing keeps more
\* blocks.
Pairings(p, n) ==
  {pairs \in SUBSET ((DOMAIN p) \X (DOMAIN n)) :
     /\ \A x \in pairs : p[x[1]] = n[x[2]]
     /\ \A x, y \in pairs : x[1] < y[1] <=> x[2] < y[2]}

MergeKeepsTheMost ==
  \A t \in Tab : saves[t].answers = 2 =>
    LET p == Kinds(saves[t].previous) IN
    \A n \in UNION {[1..k -> Kind] : k \in 0..MaxLength} :
      /\ LcsMatches(p, n) \in Pairings(p, n)
      /\ \A pairs \in Pairings(p, n) : Cardinality(pairs) <= Cardinality(LcsMatches(p, n))

\* Rows are parked in two steps so that an article whose dropped blocks were dropped
\* by the last save can be saved.
SavableOnceParked == (\A b \in Block : rows[b].position >= -Unit) => Savable(rows)

\* "Rows are parked in two steps so the bands stay disjoint": no save is refused
\* because a row collides with another.
AlwaysSavable == Savable(rows)
=============================================================================
