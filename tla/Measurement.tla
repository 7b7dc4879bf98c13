----------------------------- MODULE Measurement -----------------------------
(***************************************************************************)
(* How an experiment is measured: readers open the article, their browsers *)
(* report impressions and conversions, the event endpoint checks and       *)
(* inserts them, and a decision is computed from the rows that are there   *)
(* when it looks.                                                          *)
(*                                                                         *)
(* One experiment and one decision at a time: concurrent decisions are the *)
(* subject of module Experiments, which this module implements, with the   *)
(* verdict that it leaves open computed from the counts.                   *)
(*                                                                         *)
(* Events are best effort.  Once its article is open a browser may send    *)
(* each of its events any number of times (the page is reloaded), in any   *)
(* order, or not at all (blocked, rate limited, offline).                  *)
(***************************************************************************)
EXTENDS Engine, FiniteSets

CONSTANTS
  Visitor,         \* values of the anonymous visitor cookie
  Control,         \* identifier of the control variant
  ControlVersion,  \* identifier of the block version that variant shows
  Variants,        \* identifiers of the other variants, in the order of their rows
  Assigned,        \* the variant each visitor hashes to
  NoVersion,       \* SQL NULL
  MaxInserts       \* bound on the events that are checked but not yet inserted

Tested == {Variants[i] : i \in DOMAIN Variants}
Arm == {Control} \cup Tested

ASSUME VariantsAssumption == Variants \in Seq(Tested) /\ Variants # <<>> /\ Control \notin Tested
ASSUME AssignedAssumption == Assigned \in [Visitor -> Arm]
ASSUME VersionAssumption == ControlVersion \notin Arm \cup {NoVersion} /\ NoVersion \notin Arm
ASSUME VersionsAssumption == \A a \in Tested : <<a, "version">> \notin {ControlVersion, NoVersion}
ASSUME InsertsAssumption == MaxInserts \in Nat

VARIABLES
  status,    \* experiments.status
  shown,     \* the version the block shows without the experiment
  overdue,   \* has it run longer than max_duration_ms?
  readers,   \* visitors whose browser shows the article with the experiment on it
  checked,   \* events that passed the checks of the endpoint, not yet inserted
  rows,      \* the events of the experiment in analytics_events
  pending,   \* the decision in flight, a set of at most one: what was asked for, how
             \* far it is, the counts it read and the variant to promote, or NULL
  log        \* rows of experiment_decisions

vars == <<status, shown, overdue, readers, checked, rows, pending, log>>

Op == {"decide", "promote", "no_winner"}
Event == [visitor : Visitor, arm : Arm, kind : {"impression", "conversion"}]

\* A variant's own version, named after the variant.
VersionOf(a) == IF a = Control THEN ControlVersion ELSE <<a, "version">>
Version == {VersionOf(a) : a \in Arm}

-----------------------------------------------------------------------------
(***************************************************************************)
(* Counting.                                                               *)
(***************************************************************************)

Zero == [impressions |-> 0, conversions |-> 0]

\* (mutant) Without the filter on the event type.
VisitorsOfAnyEvent(a, k) == {r.visitor : r \in {q \in rows : q.arm = a}}

\* COUNT(DISTINCT CASE WHEN event_type = k THEN visitor_id END) ... GROUP BY variant_id
VisitorsOf(a, k) == {r.visitor : r \in {q \in rows : q.arm = a /\ q.kind = k}}

CountsNow ==
  [a \in Arm |-> [impressions |-> Cardinality(VisitorsOf(a, "impression")),
                  conversions |-> Cardinality(VisitorsOf(a, "conversion"))]]

\* The counts are looked up by the identifier of a variant.
CountOf(counts, id) == IF id \in DOMAIN counts THEN counts[id] ELSE Zero

-----------------------------------------------------------------------------

Init ==
  /\ status = "none"
  /\ shown = ControlVersion
  /\ overdue = FALSE
  /\ readers = {}
  /\ checked = {}
  /\ rows = {}
  /\ pending = {}
  /\ log = <<>>

Create ==
  /\ status = "none"
  /\ status' = "draft"
  /\ UNCHANGED <<shown, overdue, readers, checked, rows, pending, log>>

Start ==
  /\ status = "draft"
  /\ status' = "running"
  /\ UNCHANGED <<shown, overdue, readers, checked, rows, pending, log>>

Stop ==
  /\ status # "none"
  /\ status' = "stopped"
  /\ UNCHANGED <<shown, overdue, readers, checked, rows, pending, log>>

PassDeadline ==
  /\ status = "running"
  /\ ~overdue
  /\ overdue' = TRUE
  /\ UNCHANGED <<status, shown, readers, checked, rows, pending, log>>

-----------------------------------------------------------------------------
(***************************************************************************)
(* Readers and their events.                                               *)
(***************************************************************************)

\* The published article is rendered with the visitor's variant while the
\* experiment runs.
OpenArticle(v) ==
  /\ status = "running"
  /\ readers' = readers \cup {v}
  /\ UNCHANGED <<status, shown, overdue, checked, rows, pending, log>>

\* (mutant) Crediting whatever variant the browser names.
VerifyNothing(visitor, arm) == TRUE

\* The server computes the assignment again and compares.
VerifyAssignment(visitor, arm) == Assigned[visitor] = arm

\* An event from the page of v arrives.  Its cookie is w's if the reader has
\* got a new one since the page was rendered.
CheckEvent(v, w, kind) ==
  LET event == [visitor |-> w, arm |-> Assigned[v], kind |-> kind] IN
  /\ v \in readers
  /\ status = "running"
  /\ VerifyAssignment(w, event.arm)
  /\ Cardinality(checked) < MaxInserts
  /\ checked' = checked \cup {event}
  /\ UNCHANGED <<status, shown, overdue, readers, rows, pending, log>>

\* A second conversion of a visitor violates a unique index and is ignored.
InsertEvent(event) ==
  /\ checked' = checked \ {event}
  /\ rows' = IF event.kind = "conversion"
               /\ \E r \in rows : r.kind = "conversion" /\ r.visitor = event.visitor
             THEN rows ELSE rows \cup {event}
  /\ UNCHANGED <<status, shown, overdue, readers, pending, log>>

-----------------------------------------------------------------------------
(***************************************************************************)
(* Decisions.                                                              *)
(***************************************************************************)

Load(o) ==
  /\ pending = {}
  /\ status = "running"
  /\ pending' = {[op |-> o, step |-> "loaded", counts |-> [a \in Arm |-> Zero],
                  verdict |-> NoVersion]}
  /\ UNCHANGED <<status, shown, overdue, readers, checked, rows, log>>

\* What the operation makes of the counts: "continue", or a verdict.
Verdicts(o, counts) ==
  LET vs == [i \in DOMAIN Variants |-> counts[Variants[i]]] IN
  CASE o = "no_winner" -> {NoImprovement}
    [] o = "promote" -> {Promote(Best(ps)) : ps \in Probabilities(counts[Control], vs)}
    [] o = "decide" -> Recommendations(counts[Control], vs, overdue)

Analyse(t) ==
  /\ t.step = "loaded"
  /\ \E r \in Verdicts(t.op, CountsNow) :
       pending' =
         IF r = Continue THEN {}
         ELSE {[t EXCEPT !.step = "analysed", !.counts = CountsNow,
                         !.verdict = IF r = NoImprovement THEN NoVersion
                                     ELSE Variants[r.variant]]}
  /\ UNCHANGED <<status, shown, overdue, readers, checked, rows, log>>

Max1(n) == IF n = 0 THEN 1 ELSE n

\* Rate of w minus rate of c.
RateDifference(w, c) ==
  LET wi == Max1(w.impressions)
      ci == Max1(c.impressions) IN
  <<w.conversions * ci - c.conversions * wi, wi * ci>>

Promoted(t) == IF t.verdict = NoVersion THEN NoVersion ELSE VersionOf(t.verdict)

\* effect: the difference of two rates as a fraction <<numerator, denominator>>,
\* or <<>> for NULL.  The control's counts are looked up by its version, the effect is not.
DecisionRow(t) ==
  LET won == t.verdict # NoVersion IN
  [promoted |-> Promoted(t),
   control |-> CountOf(t.counts, ControlVersion),
   variant |-> IF won THEN CountOf(t.counts, t.verdict) ELSE Zero,
   effect |-> IF won THEN RateDifference(t.counts[t.verdict], t.counts[Control]) ELSE <<>>]

\* (mutant) A decision that does not look whether the experiment was stopped.
LatchedUnlessDecided == status # "decided"

Latch == status = "running"

Conclude(t) ==
  /\ t.step = "analysed"
  /\ pending' = {}
  /\ IF Latch
       THEN /\ log' = Append(log, DecisionRow(t))
            /\ status' = "decided"
            /\ shown' = IF t.verdict = NoVersion THEN shown ELSE Promoted(t)
       ELSE UNCHANGED <<log, status, shown>>
  /\ UNCHANGED <<overdue, readers, checked, rows>>

\* The client of the decision hangs up.
Abandon ==
  /\ pending # {}
  /\ pending' = {}
  /\ UNCHANGED <<status, shown, overdue, readers, checked, rows, log>>

-----------------------------------------------------------------------------

ReaderStep ==
  \/ \E v \in Visitor : OpenArticle(v)
  \/ \E v, w \in Visitor, k \in {"impression", "conversion"} : CheckEvent(v, w, k)
  \/ \E event \in checked : InsertEvent(event)

DecisionStep ==
  \/ \E o \in Op : Load(o)
  \/ \E t \in pending : Analyse(t) \/ Conclude(t)
  \/ Abandon

Next == Create \/ Start \/ Stop \/ PassDeadline \/ ReaderStep \/ DecisionStep

Spec == Init /\ [][Next]_vars

-----------------------------------------------------------------------------
(***************************************************************************)
(* Properties.                                                             *)
(***************************************************************************)

\* The variants sample disjoint sets of visitors, so the engine may treat them as
\* independent: whatever cookies change and pages reload, nobody counts twice.
SamplesAreDisjoint ==
  \A a, b \in Arm : \A k, l \in {"impression", "conversion"} :
    a # b => VisitorsOf(a, k) \cap VisitorsOf(b, l) = {}

\* A recorded decision rests on events that are in the table and stay there: the
\* counts in its row never exceed those of today, though events go on arriving
\* after the counts were read and even after the experiment was closed.
EvidenceStays ==
  \A i \in 1..Len(log) :
    \A a \in Tested :
      log[i].promoted = VersionOf(a) =>
        /\ log[i].variant.impressions <=
             Cardinality({r \in rows : r.arm = a /\ r.kind = "impression"})
        /\ log[i].variant.conversions <=
             Cardinality({r \in rows : r.arm = a /\ r.kind = "conversion"})

\* The hard stop: past the maximum duration the engine comes to an end whatever the
\* events say, so that the worker's next look concludes the experiment (decide: no
\* branch that an overdue experiment takes returns Continue).
OverdueAlwaysEnds == overdue => Continue \notin Verdicts("decide", CountsNow)

\* The refinement of Experiments: one document, one block, one experiment and one
\* request, where the request decides as the engine recommends.
One(x) == [e \in {"experiment"} |-> x]

Life == INSTANCE Experiments WITH
  Document <- {"document"}, Block <- {"block"}, DocumentOf <- [b \in {"block"} |-> "document"],
  Experiment <- {"experiment"}, Request <- {"request"}, Worker <- "worker", MaxFailures <- 0,
  documents <- {"document"},
  versions <- [b \in {"block"} |-> IF status = "none" THEN {ControlVersion} ELSE Version],
  current <- [b \in {"block"} |-> shown],
  status <- One(status),
  subject <- One("block"),
  control <- One(IF status = "none" THEN NoVersion ELSE ControlVersion),
  arms <- One(IF status = "none" THEN {} ELSE {VersionOf(a) : a \in Tested}),
  overdue <- One(overdue),
  decision <- One(CASE status = "stopped" -> "stopped"
                    [] status = "decided" /\ log[1].promoted = NoVersion -> "no_improvement"
                    [] status = "decided" /\ log[1].promoted # NoVersion -> "winner"
                    [] OTHER -> "none"),
  winner <- One(IF log = <<>> THEN NoVersion ELSE log[1].promoted),
  log <- One([i \in DOMAIN log |->
                [decision |-> IF log[i].promoted = NoVersion THEN "no_improvement" ELSE "winner",
                 promoted |-> log[i].promoted]]),
  tasks <- {[handler |-> "request", op |-> t.op, exp |-> "experiment", step |-> t.step,
             verdict |-> IF t.verdict = NoVersion THEN NoVersion ELSE VersionOf(t.verdict)] :
              t \in pending},
  todo <- {}, failures <- 0

\* The engine, fed with the counts, only ever comes to verdicts the life cycle of
\* experiments allows for.
ImplementsExperiments == Life!Spec
=============================================================================
