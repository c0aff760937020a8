\* One, two and three ranks, entries with and without a size.
SPECIFICATION Spec
CONSTANTS
  Sizes = {1, 2, 3}
  NIters = 2
  MaxSerial = 9
INVARIANTS
  TakeTurns
  Listening
  LeavesNothing
PROPERTY Exits
