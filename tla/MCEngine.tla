------------------------------ MODULE MCEngine ------------------------------
(***************************************************************************)
(* Evidence arriving at the engine one visitor at a time, and what the     *)
(* engine makes of it, whatever the least sample it is configured with.    *)
(***************************************************************************)
EXTENDS Integers, Sequences, FiniteSets

CONSTANTS
  Confidence, NoWinner,
  MinSamples,      \* the least samples to try, 0 for none
  MaxImpressions,  \* bound on the visitors counted for one variant
  VariantCount     \* variants besides the control

VARIABLES minSample, control, variants, overdue

INSTANCE Engine WITH MinSample <- minSample

vars == <<minSample, control, variants, overdue>>

\* A common denominator must divide into each of the terms.
ASSUME ScaleIsExact ==
  \A m \in 1..12 : \A k \in 0..(m - 1) : MultipleUpTo[m] % (m * choose(m - 1, k)) = 0

None == [impressions |-> 0, conversions |-> 0]

\* The counts a reader's browser produces when none of its events is lost.
Samples == {s \in [impressions : 0..MaxImpressions, conversions : 0..MaxImpressions] :
              s.conversions <= s.impressions}

Init ==
  /\ minSample \in MinSamples
  /\ control = None
  /\ variants = [i \in 1..VariantCount |-> None]
  /\ overdue = FALSE

Seen(s) == [s EXCEPT !.impressions = @ + 1]
Converted(s) == [s EXCEPT !.conversions = @ + 1]

ControlEvent ==
  /\ control' \in {Seen(control), Converted(control)} \cap Samples
  /\ UNCHANGED <<minSample, variants, overdue>>

VariantEvent(i) ==
  /\ \E s \in {Seen(variants[i]), Converted(variants[i])} \cap Samples :
       variants' = [variants EXCEPT ![i] = s]
  /\ UNCHANGED <<minSample, control, overdue>>

PassDeadline == overdue' = TRUE /\ UNCHANGED <<minSample, control, variants>>

Next == ControlEvent \/ (\E i \in 1..VariantCount : VariantEvent(i)) \/ PassDeadline

Spec == Init /\ [][Next]_vars

\* One denominator for all the probabilities of a state.
Whole == Scale(control, variants)

Beats(i) == ProbBeatsControl(control, variants[i], Whole)

Verdicts == Recommendations(control, variants, overdue)

-----------------------------------------------------------------------------
(***************************************************************************)
(* The reference: Beta(a, b) is the a-th smallest of a + b - 1 independent *)
(* uniform draws.  Shuffle the draws of X and Y; X < Y iff the ax-th draw  *)
(* of X comes before the ay-th of Y.                                       *)
(***************************************************************************)

Nth(S, k) == CHOOSE x \in S : Cardinality({y \in S : y <= x}) = k

Shuffles(n, m) == {S \in SUBSET (1..(n + m)) : Cardinality(S) = n}

\* Of all shuffles, those with X < Y make up this part of the whole.
IsOrderStatisticLt(p, whole, ax, bx, ay, by) ==
  LET n == ax + bx - 1
      m == ay + by - 1
      before == {X \in Shuffles(n, m) : Nth(X, ax) < Nth((1..(n + m)) \ X, ay)} IN
  p * choose(n + m, n) = Cardinality(before) * whole

\* The series in prob_beta_lt is the exact probability that the variant's
\* conversion rate exceeds the control's, for all counts within the bound.
ProbabilityIsExact ==
  \A i \in 1..VariantCount :
    IsOrderStatisticLt(Beats(i), Whole, Alpha(control), BetaOf(control), Alpha(variants[i]), BetaOf(variants[i]))

\* Whatever the least sample, none at all included, and the number of interim looks, a promoted variant has a better
\* conversion rate than the control, by posterior mean, and none of the other
\* variants has a better chance of beating the control.
PromotedVariantIsBest ==
  \A i \in 1..VariantCount :
    Promote(i) \in Verdicts =>
      LET Observed(s) == s.impressions + 2 IN
      /\ Alpha(variants[i]) * Observed(control) > Alpha(control) * Observed(variants[i])
      /\ \A k \in 1..VariantCount : Beats(i) >= Beats(k)
=============================================================================
