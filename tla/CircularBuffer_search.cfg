SPECIFICATION Spec
CONSTANTS
  p1 = p1
  p2 = p2
  NullPtr = NullPtr
  NotFound = NotFound
  MaxWrites = 3
  Ptrs = {p1, p2}
  Sizes = {0, 1, 2}
  Offsets = {0, 1, 2, 3, 4, 5, 6}
INVARIANT SearchIsConcatenation
PROPERTY ImplementsQueue
