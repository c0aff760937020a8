\* The member it is never initialised: elements start from different values.
SPECIFICATION FairSpec
CONSTANTS
  N = 2
  NTasks = 1
  MaxIters = 2
  Tolerance = 1
  InitialIt = {0, 1}
PROPERTY Exits
\* Elements out of step stop waiting for each other: the stop is the
\* counterexample to Exits, not a deadlock report.
CHECK_DEADLOCK FALSE
