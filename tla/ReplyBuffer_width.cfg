SPECIFICATION FairSpec
CONSTANTS
  Half = 16
  MaxTransfer = 12
  MaxSize = 70
CHECK_DEADLOCK FALSE
INVARIANTS
  ReplyCovers
  PiecesPositive
PROPERTY ReplyEnds
