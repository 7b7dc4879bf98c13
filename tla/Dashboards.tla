----------------------------- MODULE Dashboards -----------------------------
(***************************************************************************)
(* What the owner is told about the readers: the statistics page of an     *)
(* article and the dashboard, computed from the events that browsers       *)
(* report.                                                                 *)
(*                                                                         *)
(* A page load reports a view, the scroll bands it has passed and the      *)
(* blocks it has shown, each at most once.  Any of these events may be     *)
(* lost or overtake another, and a page that was rendered before an edit   *)
(* reports blocks the article no longer has.                               *)
(*                                                                         *)
(* Both pages are computed from several queries with no transaction around *)
(* them: events, edits and deletions happen in between.                    *)
(*                                                                         *)
(* Of the figures on these pages reads, shares, reading times and traffic  *)
(* sources are left out: each is a single count.                           *)
(***************************************************************************)
EXTENDS Integers, Sequences, FiniteSets, FiniteSetsExt, Functions

CONSTANTS
  Document,   \* articles
  Page,       \* page loads, named by the identifier the tracker makes up
  PageOf,     \* the article each of them shows
  Block,      \* blocks
  Layout,     \* what the visible blocks of an article may be: sequences of blocks
  Band,       \* the scroll bands, in percent: 25, 50, 75 and 100 in the code
  MinViews,   \* views an article has before it is nudged about: 5 in the code
  MaxRows     \* bound on the number of events recorded

ASSUME PageAssumption == PageOf \in [Page -> Document]
ASSUME LayoutAssumption == Layout \subseteq Seq(Block)
ASSUME BandAssumption == Band \subseteq 1..100 /\ 100 \in Band /\ IsFiniteSet(Band)
ASSUME BoundsAssumption == MinViews \in Nat \ {0} /\ MaxRows \in Nat

VARIABLES
  documents,   \* the articles that exist
  published,   \* the published ones
  blocks,      \* the visible blocks of each article, in order
  rows,        \* analytics_events
  request      \* the page being computed for the owner: a set of at most one

vars == <<documents, published, blocks, rows, request>>

\* about: for a view its age, this week, the week before or older; for a scroll
\* event the band; for an impression the block.
Row == [page : Page, type : {"view"}, about : 0..2]
       \cup [page : Page, type : {"banded_scroll"}, about : Band]
       \cup [page : Page, type : {"block_impression"}, about : Block]

-----------------------------------------------------------------------------
(***************************************************************************)
(* The queries.  Every count is of distinct page loads.                    *)
(***************************************************************************)

\* The events of an article; deleting it sets their document_id to NULL.
Events(d) == IF d \in documents THEN {r \in rows : PageOf[r.page] = d} ELSE {}

PagesOf(events) == {r.page : r \in events}

Views(d) == Cardinality(PagesOf({r \in Events(d) : r.type = "view"}))

ViewsOfAge(d, age) == Cardinality(PagesOf({r \in Events(d) : r.type = "view" /\ r.about = age}))

\* The deepest band a page load has reported, 0 if it has reported none.
Depth(p, d) ==
  Max({0} \cup {r.about : r \in {e \in Events(d) : e.page = p /\ e.type = "banded_scroll"}})

\* (mutant) The page loads that reported the very band.
BandReachExact(d) ==
  [b \in Band |-> Cardinality(PagesOf({r \in Events(d) : r.type = "banded_scroll" /\ r.about = b}))]

BandReach(d) == [b \in Band |-> Cardinality({p \in Page : Depth(p, d) >= b})]

Impressions(d) ==
  [b \in Block |-> Cardinality(PagesOf({r \in Events(d) : r.type = "block_impression" /\ r.about = b}))]

\* The page loads that reported the end of the article.
Completed(d) ==
  Cardinality(PagesOf({r \in Events(d) : r.type = "banded_scroll" /\ r.about = 100}))

-----------------------------------------------------------------------------

Init ==
  /\ documents = Document
  /\ published = {}
  /\ blocks \in [Document -> Layout]
  /\ rows = {}
  /\ request = {}

Publish(d) ==
  /\ d \in documents \ published
  /\ published' = published \cup {d}
  /\ UNCHANGED <<documents, blocks, rows, request>>

\* The author adds, drops or moves blocks.
Edit(d) ==
  /\ d \in documents
  /\ \E l \in Layout : blocks' = [blocks EXCEPT ![d] = l]
  /\ UNCHANGED <<documents, published, rows, request>>

DeleteDocument(d) ==
  /\ documents' = documents \ {d}
  /\ published' = published \ {d}
  /\ UNCHANGED <<blocks, rows, request>>

\* What the event endpoint takes: articles that are published, blocks that they have.
Accepted(event) ==
  /\ PageOf[event.page] \in published
  /\ event.type = "block_impression" => event.about \in Range(blocks[PageOf[event.page]])

\* The page load has already sent its event of this kind.
Sent(event) ==
  \E r \in rows :
    /\ r.page = event.page /\ r.type = event.type
    /\ event.type # "view" => r.about = event.about

RecordEvent(event) ==
  /\ event.type = "view" => event.about = 0
  /\ ~Sent(event)
  /\ Accepted(event)
  /\ Cardinality(rows) < MaxRows
  /\ rows' = rows \cup {event}
  /\ UNCHANGED <<documents, published, blocks, request>>

Older(r) == IF r.type = "view" /\ r.about < 2 THEN [r EXCEPT !.about = @ + 1] ELSE r

PassWeek ==
  /\ rows' = {Older(r) : r \in rows}
  /\ UNCHANGED <<documents, published, blocks, request>>

-----------------------------------------------------------------------------
(***************************************************************************)
(* The statistics page of an article: its blocks, then three queries.      *)
(***************************************************************************)

StatsQueries == <<"article_stats", "band_reach", "block_impressions">>

OpenStats(d) ==
  /\ request = {}
  /\ d \in documents
  /\ request' = {[page |-> "stats", document |-> d, layout |-> blocks[d], done |-> 0,
                  views |-> 0, reach |-> [b \in Band |-> 0], seen |-> [b \in Block |-> 0]]}
  /\ UNCHANGED <<documents, published, blocks, rows>>

StatsQuery(q) ==
  /\ q.page = "stats"
  /\ q.done < Len(StatsQueries)
  /\ request' =
       {LET d == q.document
            asked == [q EXCEPT !.done = @ + 1] IN
        CASE StatsQueries[q.done + 1] = "article_stats" -> [asked EXCEPT !.views = Views(d)]
          [] StatsQueries[q.done + 1] = "band_reach" -> [asked EXCEPT !.reach = BandReach(d)]
          [] StatsQueries[q.done + 1] = "block_impressions" -> [asked EXCEPT !.seen = Impressions(d)]}
  /\ UNCHANGED <<documents, published, blocks, rows>>

\* The band that is closest above the end of the block, with all blocks of one length.
BandFor(i, total) == Min({b \in Band : i * 100 <= b * total})

\* The page loads that got as far as the block, by what they scrolled and by
\* what they saw.
EstimatedReach(q, i) ==
  Max({q.reach[BandFor(i, Len(q.layout))], q.seen[q.layout[i]]})

-----------------------------------------------------------------------------
(***************************************************************************)
(* The dashboard: the list of articles, then two queries.                  *)
(***************************************************************************)

\* (mutant) The other way round.
LifetimeFirst == <<"lifetime", "recent">>

BoardQueries == <<"recent", "lifetime">>

Nobody == [views |-> 0, completed |-> 0]

OpenBoard ==
  /\ request = {}
  /\ request' = {[page |-> "board", listed |-> published, done |-> 0,
                  recent |-> <<>>, lifetime |-> <<>>]}
  /\ UNCHANGED <<documents, published, blocks, rows>>

\* Articles that nobody viewed in the last two weeks are not in the answer.
RecentViews ==
  [d \in {e \in Document : ViewsOfAge(e, 0) + ViewsOfAge(e, 1) > 0} |->
     [cur |-> ViewsOfAge(d, 0), prev |-> ViewsOfAge(d, 1)]]

\* Nor are articles that nobody ever viewed in this one.
Lifetime ==
  [d \in {e \in Document : Views(e) > 0} |-> [views |-> Views(d), completed |-> Completed(d)]]

BoardQuery(q) ==
  /\ q.page = "board"
  /\ q.done < Len(BoardQueries)
  /\ request' =
       {LET asked == [q EXCEPT !.done = @ + 1] IN
        CASE BoardQueries[q.done + 1] = "recent" -> [asked EXCEPT !.recent = RecentViews]
          [] BoardQueries[q.done + 1] = "lifetime" -> [asked EXCEPT !.lifetime = Lifetime]}
  /\ UNCHANGED <<documents, published, blocks, rows>>

\* The articles with a line of figures, and the lifetime figures of one.
Measured(q) == q.listed \cap DOMAIN q.recent
Total(q, d) == IF d \in DOMAIN q.lifetime THEN q.lifetime[d] ELSE Nobody

\* The rate of d is below that of e; without views nobody failed to finish.
Lower(q, d, e) ==
  LET Rate(f) == IF Total(q, f).views = 0 THEN [views |-> 1, completed |-> 1] ELSE Total(q, f) IN
  Rate(d).completed * Rate(e).views < Rate(e).completed * Rate(d).views

\* (mutant) An article everybody finished.
Praised(q, d) == TRUE

Unfinished(q, d) == Total(q, d).completed < Total(q, d).views

\* The articles the nudge may be about: lowest completion, and not complete.
Nudged(q) ==
  LET known == {d \in Measured(q) : Total(q, d).views >= MinViews} IN
  {d \in known : Unfinished(q, d) /\ \A e \in known : ~Lower(q, e, d)}

\* The page is rendered.
Answer(q) ==
  /\ q.done = IF q.page = "stats" THEN Len(StatsQueries) ELSE Len(BoardQueries)
  /\ request' = {}
  /\ UNCHANGED <<documents, published, blocks, rows>>

-----------------------------------------------------------------------------

AuthorStep == \E d \in Document : Publish(d) \/ Edit(d) \/ DeleteDocument(d)

ReaderStep == PassWeek \/ \E event \in Row : RecordEvent(event)

OwnerStep ==
  \/ \E d \in Document : OpenStats(d)
  \/ OpenBoard
  \/ \E q \in request : StatsQuery(q) \/ BoardQuery(q) \/ Answer(q)

Next == AuthorStep \/ ReaderStep \/ OwnerStep

Spec == Init /\ [][Next]_vars

-----------------------------------------------------------------------------
(***************************************************************************)
(* Properties.                                                             *)
(***************************************************************************)

Answered(queries) == {q \in request : q.done = Len(queries)}

\* The page loads that an article has been heard of from.
Heard(d) == {p \in PagesOf(rows) : PageOf[p] = d}

\* Whatever events are lost, and whatever happens between the queries, no more
\* page loads are said to have reached the next band than this one, and none is
\* made up: a reach is never above the number of page loads that reported at all.
FunnelNarrows ==
  \A q \in Answered(StatsQueries) : q.page = "stats" =>
    /\ \A a, b \in Band : a <= b => q.reach[b] <= q.reach[a]
    /\ \A i \in DOMAIN q.layout : EstimatedReach(q, i) <= Cardinality(Heard(q.document))

\* The views of the last two weeks never exceed those of all time, although the
\* two come from different queries: unless the article is gone by the second.
RecentWithinLifetime ==
  \A q \in Answered(BoardQueries) : q.page = "board" =>
    \A d \in Measured(q) \cap documents :
      q.recent[d].cur + q.recent[d].prev <= Total(q, d).views

\* "Only so many percent of readers reach the end": when the dashboard says so, the
\* article is there, is published, and has a counted view whose page load has not
\* reported the end, though views and scroll events are lost independently.
NudgeIsDeserved ==
  [][\A q \in request' :
       q \notin request /\ q.page = "board" /\ q.done = Len(BoardQueries) =>
         \A d \in Nudged(q) :
           /\ d \in published
           /\ \E r \in Events(d) : r.type = "view" /\ Depth(r.page, d) < 100]_vars
=============================================================================
