\* Two experiments on the two blocks of a document, one concurrent request and the worker.
CONSTANTS
  Document = {d1}
  Block = {b1, b2}
  d1 = d1
  DocumentOf <- OneDocument
  Experiment = {e1, e2}
  Version = {v1, v2, v3, v4}
  Request = {r1}
  Worker = worker
  NoVersion = NoVersion
  MaxFailures = 1
SPECIFICATION Spec
SYMMETRY Symmetry
INVARIANTS
  TypeOK
  AtMostOneDecision
  LogMatchesStatus
  OneRunningPerBlock
  OnlyPromotedVariantsAreCanonical
PROPERTIES
  ImplementsDecisionRecord
