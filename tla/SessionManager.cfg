SPECIFICATION FairSpec
CONSTANTS
  s1 = s1
  c1 = c1
  c2 = c2
  here = here
  NoClient = NoClient
  InMap = InMap
  Sessions <- OneSession
  Clients <- TwoClients
  Addresses <- OnePlace
  Timeout = 1
INVARIANTS TypeOK StateMatchesClient
PROPERTIES NoStealing StaleRemoved
