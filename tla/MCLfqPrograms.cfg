\* Both programs, both ways to start, no segment left by an earlier run.  A
\* process whose peer has failed waits for ever: that is no deadlock of the
\* protocol, and NobodyLeftWaiting says where it may not happen.
SPECIFICATION Spec
CONSTANTS
  NumMsgs = 4
  Capacity = 4
  Leftovers <- Fresh
  Programs = {"lfq", "xpmem"}
INVARIANTS
  OneCreator
  IterationsAligned
  DataAwaitsReader
  NobodyLeftWaiting
CHECK_DEADLOCK FALSE
