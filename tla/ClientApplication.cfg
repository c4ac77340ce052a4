SPECIFICATION FairSpec
CONSTANTS
  MaxSilence = 1
  Positions = {here, there}
INVARIANTS TypeOK ResourcesOutliveUsers AllJoinedOrNone DeviceReleased
PROPERTIES LossNoticed OnlyUdpBlocks PointerFollows
\* The client exits.
CHECK_DEADLOCK FALSE
