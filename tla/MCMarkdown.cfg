\* Four lines are enough for a block between two others, and for a fence that closes and a line after it.
CONSTANTS
  Kinds <- AllKinds
  MaxLines = 4
SPECIFICATION ParserSpec
INVARIANTS
  NothingIsDropped
  UntouchedSaveKeeps
PROPERTY ParseEnds
\* The parse ends.
CHECK_DEADLOCK FALSE
