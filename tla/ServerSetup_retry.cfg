SPECIFICATION FairSpec
CONSTANTS
  Fds = {3, 4, 5, 6}
  MaxFiles = 3
  MaxFailures = 3
CHECK_DEADLOCK FALSE
INVARIANTS
  TypeOK
  DescriptorsAccounted
  ReadyToAccept
PROPERTY SetupEnds
