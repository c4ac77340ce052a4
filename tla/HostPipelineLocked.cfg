SPECIFICATION Spec
CONSTANTS
  Modes = {small, large}
  MaxFrames = 4
  IdrPeriod = 3
  FrameRate = 2
  Bitrates = {640}
INVARIANT NeverCrashes
\* The process ends, or crashes.
CHECK_DEADLOCK FALSE
