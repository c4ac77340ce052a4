SPECIFICATION Spec
CONSTANTS
  HeaderSize = 2
  InputSize = 9
  ControlSize = 17
  DrainSize = 64
  PieceSizes = {1, 2}
  MaxPackets = 3
INVARIANT EveryEventInjected
\* Both ends may have closed.
CHECK_DEADLOCK FALSE
