\* Element 0 driven from outside, three values at each port of its adder and
\* both components activated up to twice; and four elements that exchange.
SPECIFICATION Spec
CONSTANTS
  NumElts = 4
  NumIters = 4
  Coms <- Components
  NIn <- Inputs
  Wire <- Wires
  MaxValues = 3
  MaxActivations = 2
INVARIANTS
  InStep
  NothingLost
  NoIdleWork
  QdAccurate
  ExchangeComplete
\* The elements are idle when no message is left and everything was activated.
CHECK_DEADLOCK FALSE
