SPECIFICATION ControlSpec
CONSTANTS
  HeaderSize = 2
  InputSize = 3
  ControlSize = 5
  DrainSize = 4
  PieceSizes = {2}
  MaxPackets = 3
  Keys = {shift}
  Coordinates = {9}
  Width = 5
  AbsRange = 7
  IntMax = 31
INVARIANTS ControlTypeOK InjectedFaithfully NoKeyStuck PointerLands
\* Both ends may have closed.
CHECK_DEADLOCK FALSE
