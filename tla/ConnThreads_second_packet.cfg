SPECIFICATION FairSpec
CONSTANTS
  c1 = c1
  c2 = c2
  t1 = t1
  NoOne = NoOne
  Conns = {c1, c2}
  Ticks = {}
  Script <- TwoPackets
  Impatient = {}
  Stalling = {}
  Faults = {}
  Chunk = 1
CHECK_DEADLOCK FALSE
PROPERTY EveryPacketAnswered
