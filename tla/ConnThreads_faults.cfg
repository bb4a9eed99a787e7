SPECIFICATION FairSpec
CONSTANTS
  c1 = c1
  c2 = c2
  t1 = t1
  NoOne = NoOne
  Conns = {c1, c2}
  Ticks = {t1}
  Script <- LineAndPacket
  Impatient = {c1}
  Stalling = {c1}
  Faults = {"malloc", "enomem", "write", "fstat", "lseek", "send", "sigpipe"}
  Chunk = 2
CHECK_DEADLOCK FALSE
INVARIANTS
  TypeOK
  LockDiscipline
  BufferInBounds
  FileIsLog
  LinesIntact
  ReplyComplete
PROPERTIES
  ImplementsPayloadLog
  ImplementsThreadLife
  StayingClientServed
  TimestampWritten
