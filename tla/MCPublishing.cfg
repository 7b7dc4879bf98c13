\* Two overlapping requests on two documents, over crashes and restarts.
CONSTANTS
  Document = {d1, d2}
  Writer = {w1, w2}
  Title <- MCTitle
  Untitled = untitled
  Slug <- MCSlug
  SlugsOf <- MCSlugsOf
  Text = {before, after}
  NoText = NoText
  NoSlug = NoSlug
  NoDocument = NoDocument
  untitled = untitled
  essay = essay
  u1 = u1
  e1 = e1
  e2 = e2
SPECIFICATION Spec
SYMMETRY Symmetry
INVARIANTS
  OnlyPublishedAreFound
  IndexIsOwed
PROPERTIES
  PublishedUrlIsStable
