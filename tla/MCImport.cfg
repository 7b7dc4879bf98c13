\* Two images in the archive, a file that is none, and an address elsewhere.
CONSTANTS
  Word = {"a", "b", "notes", "https"}
  Picture = {"a", "b"}
  Other = {"notes"}
  Remote = {"https"}
  MaxPieces = 3
SPECIFICATION Spec
INVARIANTS
  TextIsKept
  ScannersAgree
PROPERTY ImportEnds
\* The import ends.
CHECK_DEADLOCK FALSE
