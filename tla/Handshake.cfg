SPECIFICATION FairSpec
CONSTANTS
  c1 = c1
  c2 = c2
  right = right
  wrong = wrong
  NoPassword = NoPassword
  None = None
  Clients <- Two
  Passwords <- Words
  HostPassword = right
  AuthSettings = {TRUE, FALSE}
  MayBeOutdated <- Second
  Eager <- Second
  MaxClients = 1
  MaxInFlight = 1
  Late = TRUE
INVARIANTS TypeOK OnlyAuthorised ConnectedIsServed AuthShutsOut
PROPERTIES BothReturn PlacesFreed
\* Everybody may have left.
CHECK_DEADLOCK FALSE
