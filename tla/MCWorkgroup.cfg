\* One task, as in the example, on four elements for two iterations.
SPECIFICATION FairSpec
CONSTANTS
  N = 4
  NTasks = 1
  MaxIters = 2
  Tolerance = 1
  InitialIt = {0}
INVARIANTS
  GhostsOfIteration
  Lockstep
  NoStrandedMessage
  CleanExit
PROPERTY Exits
