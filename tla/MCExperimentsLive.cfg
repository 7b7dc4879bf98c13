\* Liveness: two experiments on one block, one request, the worker and a failure.
CONSTANTS
  Document = {d1}
  Block = {b1}
  d1 = d1
  DocumentOf <- OneDocument
  Experiment = {e1, e2}
  Version = {v1, v2, v3}
  Request = {r1}
  Worker = worker
  NoVersion = NoVersion
  MaxFailures = 1
SPECIFICATION FairSpec
PROPERTIES
  OverdueIsConcluded
