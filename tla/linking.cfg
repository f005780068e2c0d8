SPECIFICATION Spec
CONSTANTS
  Addresses = {a1, a2}
  Users = {u1, u2, u3}
  Members = {u1, u2}
  Appointed = {u2}
  Sessions = {s1, s2}
  Callbacks = {c1, c2, c3}
  Messages = {m1, m2}
  None = None
  Connections = 2
SYMMETRY Symmetry
INVARIANTS
  TypeOK
  LinksAreGranted
  AlreadyLinkedIsTrue
  LinkedSessionKeepsUser
  RightAnswer
CHECK_DEADLOCK FALSE
