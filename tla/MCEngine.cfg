\* Two variants and a control, up to four visitors each; enough data are two, one, or none at all.
CONSTANTS
  Confidence = 90
  NoWinner = 10
  MinSamples = {0, 1, 2}
  MaxImpressions = 4
  VariantCount = 2
SPECIFICATION Spec
INVARIANTS
  ProbabilityIsExact
  PromotedVariantIsBest
