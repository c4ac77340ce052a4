SPECIFICATION FairSpec
CONSTANTS
  k1 = k1
  k2 = k2
  None = None
  Conns <- Two
  MaxClients = 1
  MaxPackets = 1
INVARIANTS TypeOK ShutdownIsFinal OnlySilentFreedEarly
PROPERTY ShutdownReturns
\* The server stops.
CHECK_DEADLOCK FALSE
