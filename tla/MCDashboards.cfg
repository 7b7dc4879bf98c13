\* Three page loads, two articles; the bands in the middle and at the end.
CONSTANTS
  first = first
  second = second
  p1 = p1
  p2 = p2
  p3 = p3
  top = top
  end = end
  Document = {first, second}
  Page = {p1, p2, p3}
  PageOf <- TwoAndOne
  Block = {top, end}
  Layout <- TopOrNot
  Band = {50, 100}
  MinViews = 1
  MaxRows = 3
SPECIFICATION Spec
SYMMETRY Symmetry
INVARIANTS
  FunnelNarrows
  RecentWithinLifetime
PROPERTIES
  NudgeIsDeserved
