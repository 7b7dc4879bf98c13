\* One tab and contents that do not matter.
\* Once the document is deleted and no save is in flight nothing is left to do.
CHECK_DEADLOCK FALSE
CONSTANTS
  Tab = {t1}
  Kind = {heading, paragraph}
  Content = {x}
  Unit = 100
  MaxLength = 2
  MaxBlocks = 3
  MaxVersions = 3
  MaxGenerations = 3
SPECIFICATION Spec
INVARIANT AlwaysSavable
