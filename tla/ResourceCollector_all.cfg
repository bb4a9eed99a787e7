SPECIFICATION Spec
CONSTANTS
  p1 = p1
  p2 = p2
  p3 = p3
  p4 = p4
  Null = Null
  Ptrs = {p1, p2, p3, p4}
  Fds = {3, 4, 5, 6}
  MaxMem = 3
  MaxFile = 3
CHECK_DEADLOCK FALSE
INVARIANTS
  TypeOK
  SlotsExact
  NothingLeft
PROPERTY ImplementsOwner
