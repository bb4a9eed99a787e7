SPECIFICATION FairSpec
CONSTANTS
  c1 = c1
  c2 = c2
  c3 = c3
  a1 = a1
  a2 = a2
  a3 = a3
  Null = Null
  Conns = {c1, c2, c3}
  Nodes = {a1, a2, a3}
  Quitters = {c1, c2, c3}
  Leavers = {c1, c2, c3}
  Stayers = {c3}
  Faults = {"accept", "spawn", "node", "signal"}
CHECK_DEADLOCK FALSE
INVARIANTS
  TypeOK
  ListIntact
  ParamsOutliveThread
  MutexOutlivesThreads
PROPERTIES
  ImplementsRegistry
  AcceptedUntilDamaged
  ShutdownCompletes
  JoinLoopShortens
  SignalEndsServer
  RefusedSocketClosed
