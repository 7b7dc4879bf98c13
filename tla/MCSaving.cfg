\* Two tabs saving an article of up to two blocks, with an experiment on it.
\* Once the document is deleted and no save is in flight nothing is left to do.
CHECK_DEADLOCK FALSE
CONSTANTS
  Tab = {t1, t2}
  Kind = {heading, paragraph}
  Content = {x, y}
  Unit = 100
  MaxLength = 2
  MaxBlocks = 3
  MaxVersions = 3
  MaxGenerations = 2
SPECIFICATION Spec
SYMMETRY Symmetry
INVARIANTS
  TypeOK
  ArticleAsIntended
  PositionsAreContiguous
  PointersResolve
  SnapshotResolves
  MergeKeepsTheMost
  SavableOnceParked
PROPERTIES
  KindIsForever
