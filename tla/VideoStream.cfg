\* Two sessions over one assembler map: what reaches the decoder.
SPECIFICATION Spec
CONSTANTS
  MaxUdpPayload = 2
  FrameSizes <- Sizes
  FrameTimeout = 1
  MaxFrames = 2
  MaxDups = 1
  MaxSessions = 2
INVARIANTS AssemblersWaiting FramesWhole
PROPERTIES ImplementsFrameStream DropsJustified
\* The host may stop encoding and the network run empty.
CHECK_DEADLOCK FALSE
