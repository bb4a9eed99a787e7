SPECIFICATION FairSpec
CONSTANTS
  MaxCalls = 2
  Faults = {"fork", "waitpid", "open", "dup2", "execv"}
CHECK_DEADLOCK FALSE
INVARIANTS
  CallerReturnsOnce
  ResultIsChilds
  OutputRedirected
PROPERTY CallReturns
