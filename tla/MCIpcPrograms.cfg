SPECIFICATION Spec
CONSTANTS
  NPes = 2
  PoolSize = 4
  NumBlocks = 2
  NIters = 8
  Programs = {"basic", "pingpong"}
INVARIANTS
  AssertionsHold
  BlocksConserved
  ExitAfterPeer
  RetainedFree
  OneBall
