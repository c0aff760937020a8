\* Two broadcasts overtake each other: the flush of the buffer.
SPECIFICATION FairSpec
CONSTANTS
  NPes = 2
  Creator = 0
  ArrayIndices = {}
  Children <- Star
  ChareMax = 15
  BcastMod = 65536
  Instances <- Overtaking
PROPERTIES
  ConsumedLeavesBuffer
CHECK_DEADLOCK FALSE
