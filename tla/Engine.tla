------------------------------- MODULE Engine -------------------------------
(***************************************************************************)
(* The decision engine of crates/experiments: the probability that a       *)
(* variant beats the control, the sequential correction and the stopping   *)
(* rules, as pure operators over the counts of one experiment.             *)
(*                                                                         *)
(* A probability is exact, for any counts: a number of parts of which the   *)
(* scale makes one, where the scale is a common denominator of all terms   *)
(* that one decision adds up.  The code adds the same terms in floating    *)
(* point and in log space.                                                 *)
(***************************************************************************)
EXTENDS Integers, Sequences, Combinatorics, FiniteSetsExt

CONSTANTS
  Confidence,   \* confidence_threshold, in percent
  NoWinner,     \* no_winner_prob, in percent
  MinSample     \* min_sample_per_variant

ASSUME ConfidenceAssumption == Confidence \in 1..100 /\ NoWinner \in 0..100
ASSUME MinSampleAssumption == MinSample \in Nat

\* What the database counts for one variant.
Sample == [impressions : Nat, conversions : Nat]

-----------------------------------------------------------------------------
(***************************************************************************)
(* The posterior of a sample is Beta(1 + conversions, 1 + impressions -    *)
(* conversions).  The second parameter is computed in u64: it is only      *)
(* meaningful up to one conversion more than there are impressions.        *)
(***************************************************************************)

Alpha(s) == 1 + s.conversions
BetaOf(s) == 1 + s.impressions - s.conversions

Wraps(s) == BetaOf(s) < 0

TotalImpressions(c, vs) ==
  c.impressions + MapThenSumSet(LAMBDA i : vs[i].impressions, DOMAIN vs)

LeastCommonMultiple(x, y) == x * Min({n \in 1..y : (x * n) % y = 0})

\* The least common multiple of 1..m, of which every m * choose(m - 1, k) is a divisor.
MultipleUpTo[m \in Nat] == IF m = 0 THEN 1 ELSE LeastCommonMultiple(MultipleUpTo[m - 1], m)

\* The control and a variant together have their impressions and four of the prior,
\* so that no m in a term is larger than this one.
Scale(c, vs) == MultipleUpTo[TotalImpressions(c, vs) + 2]

\* A term of the sum in prob_beta_lt, with every beta function written as
\* 1 / B(a, b) = (a + b - 1) * choose(a + b - 2, a - 1).
Term(ax, bx, ay, by, j, scale) ==
  LET n == ax + bx - 1
      m == ax + bx + by + j - 1
      numerator == choose(by + j - 1, j) * n * choose(n - 1, ax - 1)
      denominator == m * choose(m - 1, ax + j - 1) IN
  numerator * (scale \div denominator)

\* P(X < Y) for X ~ Beta(ax, bx), Y ~ Beta(ay, by).
ProbBetaLt(ax, bx, ay, by, scale) ==
  IF 0 \in {ax, bx, ay, by} THEN 0
  ELSE MapThenSumSet(LAMBDA j : Term(ax, bx, ay, by, j, scale), 0..(ay - 1))

\* (mutant) The arguments the wrong way round.
ProbBeatsControlSwapped(c, v, scale) == ProbBetaLt(Alpha(v), BetaOf(v), Alpha(c), BetaOf(c), scale)

ProbBeatsControl(c, v, scale) == ProbBetaLt(Alpha(c), BetaOf(c), Alpha(v), BetaOf(v), scale)

\* Beyond that the subtraction wraps around and the probability is meaningless.
ProbOutcomes(c, v, scale) ==
  IF Wraps(c) \/ Wraps(v) THEN {0, scale} ELSE {ProbBeatsControl(c, v, scale)}

-----------------------------------------------------------------------------
(***************************************************************************)
(* The stopping rules, for the control c, the sequence vs of variants and  *)
(* the sequence ps of their probabilities.                                 *)
(***************************************************************************)

Looks(c, vs) ==
  LET looks == IF MinSample = 0 THEN 1 ELSE TotalImpressions(c, vs) \div MinSample IN
  IF looks = 0 THEN 1 ELSE looks

\* p >= 1 - (1 - confidence_threshold) / n_looks
Clear(p, c, vs) ==
  LET n == Looks(c, vs) IN p * 100 * n >= Scale(c, vs) * (100 * n - (100 - Confidence))

Hopeless(p, c, vs) == p * 100 < Scale(c, vs) * NoWinner

\* (mutant) The least probable one.
Worst(ps) == CHOOSE i \in DOMAIN ps : \A k \in DOMAIN ps : ps[i] <= ps[k]

\* The best variant; of equals the last one, as Iterator::max_by has it.
Best(ps) ==
  CHOOSE i \in DOMAIN ps :
    /\ \A k \in DOMAIN ps : ps[k] <= ps[i]
    /\ \A k \in DOMAIN ps : k > i => ps[k] < ps[i]

TooFewSamples(c, v) == v.impressions < MinSample /\ c.impressions < MinSample

Continue == [type |-> "continue", variant |-> 0]
NoImprovement == [type |-> "no_winner", variant |-> 0]
Promote(i) == [type |-> "promote", variant |-> i]

\* (mutant) The deadline alone does not end an experiment.
GivesUpWhenHopeless(p, c, vs, overdue) == Hopeless(p, c, vs)

\* Out of time, or out of hope.
GivesUp(p, c, vs, overdue) == overdue \/ Hopeless(p, c, vs)

Decide(c, vs, ps, overdue) ==
  LET best == Best(ps)
      tooFew == TooFewSamples(c, vs[best])
      clear == Clear(ps[best], c, vs) IN
  CASE vs = <<>> -> Continue
    [] vs # <<>> /\ tooFew -> IF overdue THEN NoImprovement ELSE Continue
    [] vs # <<>> /\ ~tooFew /\ clear -> Promote(best)
    [] OTHER -> IF GivesUp(ps[best], c, vs, overdue) THEN NoImprovement ELSE Continue

\* Every probability the engine may have computed, one per variant.
Probabilities(c, vs) ==
  LET Outcomes(i) == ProbOutcomes(c, vs[i], Scale(c, vs)) IN
  {ps \in [DOMAIN vs -> UNION {Outcomes(i) : i \in DOMAIN vs}] : \A i \in DOMAIN vs : ps[i] \in Outcomes(i)}

Recommendations(c, vs, overdue) == {Decide(c, vs, ps, overdue) : ps \in Probabilities(c, vs)}
=============================================================================
