\* Ctrl+C while the host is there.
SPECIFICATION FairSpec
CONSTANTS
  MaxSilence = 1
  Positions = {here, there}
PROPERTY StopEnds
\* The client exits.
CHECK_DEADLOCK FALSE
