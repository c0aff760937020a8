\* The processes of the lfq test open the queues at the same time.
SPECIFICATION Spec
CONSTANTS
  NumMsgs = 2
  Capacity = 2
  Leftovers <- Fresh
  Programs = {"lfq"}
INVARIANT ReceivesInOrder
CHECK_DEADLOCK FALSE
