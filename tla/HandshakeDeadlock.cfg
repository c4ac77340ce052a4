SPECIFICATION FairSpec
CONSTANTS
  c1 = c1
  c2 = c2
  right = right
  wrong = wrong
  NoPassword = NoPassword
  None = None
  Clients <- One
  Passwords <- Words
  HostPassword = right
  AuthSettings = {TRUE}
  MayBeOutdated <- Nobody
  Eager <- Nobody
  MaxClients = 1
  MaxInFlight = 1
  Late = FALSE
PROPERTY ValidClientConnects
\* Everybody may have left.
CHECK_DEADLOCK FALSE
