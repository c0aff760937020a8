SPECIFICATION Spec
CONSTANTS
  NPes = 2
  PoolSize = 2
  NumBlocks = 1
  NIters = 4
  Programs = {"basic"}
INVARIANTS
  ExitWhenAllHandled
