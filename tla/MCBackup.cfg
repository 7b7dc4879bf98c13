\* Two uploads, one archive, a migration between any two steps.
CONSTANTS
  Media = {a, b}
  MaxVersion = 2
SPECIFICATION Spec
SYMMETRY Symmetry
INVARIANTS
  NothingIsLost
  MediaResolves
  RestoredIsTheArchive
  CreatedIsRestorable
