SPECIFICATION FairSpec
CONSTANTS
  NPes = 3
  Creator = 0
  ArrayIndices = {1, 3}
  Children <- Star
  ChareMax = 15
  BcastMod = 65536
  Instances <- All
INVARIANTS
  ConstructedFirst
  MessageConserved
  NoStrandedMessage
PROPERTIES
  SendsHandled
  OrderedBroadcasts
  BroadcastsReachAll
CHECK_DEADLOCK FALSE
