SPECIFICATION FairSpec
CONSTANTS
  t1 = t1
  t2 = t2
  t3 = t3
  Threads = {t1, t2, t3}
  Caller = Caller
  NoOne = NoOne
  Faults = {"malloc", "create"}
CHECK_DEADLOCK FALSE
INVARIANTS
  SuccessMeansHeld
  DataOutlivesThread
PROPERTY StartedReturns
