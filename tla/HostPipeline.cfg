SPECIFICATION FairSpec
CONSTANTS
  Modes = {small, large}
  MaxFrames = 7
  IdrPeriod = 3
  FrameRate = 2
  Bitrates = {640}
INVARIANTS TypeOK AcquireWhenReleased FramesAccounted NothingLeftUp
PROPERTY StopEnds
\* The process ends, or crashes.
CHECK_DEADLOCK FALSE
