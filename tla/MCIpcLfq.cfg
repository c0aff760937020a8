\* The head wraps at the same places as the nodes.
SPECIFICATION FairSpec
CONSTANTS
  Producers = {p1, p2, p3}
  Values = {1, 2}
  N = 2
  SizeMod = 2
  MaxEnqueues = 3
INVARIANTS
  IInv
  MutualExclusion
  AssertionsHold
  Fifo
  NodesHoldQueue
PROPERTIES
  ImplementsQueue
  DequeueReturns
