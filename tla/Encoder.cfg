SPECIFICATION Spec
CONSTANTS
  IdrPeriod = 3
  FrameRate = 2
  Bitrates = {96, 640}
  MaxFrames = 8
INVARIANTS TypeOK 
PROPERTY ForcedIsNext
