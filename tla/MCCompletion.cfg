\* Three PEs, on both kinds of machine layer.
SPECIFICATION FairSpec
CONSTANTS
  NPes = 3
  Layers = {TRUE, FALSE}
INVARIANTS
  TypeOK
  NoFalseCompletion
  RoundsApart
PROPERTY ExitOnAllPes
\* The program ends when every PE has exited.
CHECK_DEADLOCK FALSE
