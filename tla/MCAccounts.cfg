\* Two visitors of a fresh installation, two requests at a time, and a slot of the limit left over.
CONSTANTS
  Person = {p1, p2}
  Client = {c1}
  Request = {r1, r2}
  Token = {t1, t2}
  Document = {d1}
  Comment = {m1}
  MaxLogins = 2
  MaxComments = 1
  NoClient = NoClient
  NoDocument = NoDocument
SPECIFICATION Spec
SYMMETRY Symmetry
INVARIANTS
  OneOwner
  FailuresAreBounded
  CommentsResolve
