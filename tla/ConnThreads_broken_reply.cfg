SPECIFICATION Spec
CONSTANTS
  c1 = c1
  c2 = c2
  t1 = t1
  NoOne = NoOne
  Conns = {c1, c2}
  Ticks = {t1}
  Script <- SmallPackets
  Impatient = {c1}
  Stalling = {}
  Faults = {}
  Chunk = 1
CHECK_DEADLOCK FALSE
INVARIANT FullPayloadReturned
