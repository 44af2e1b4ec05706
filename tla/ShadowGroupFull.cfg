\* Two clients and a group with one place.
CONSTANTS
  c1 = c1
  c2 = c2
  r1 = r1
  r2 = r2
  None = None
  Client <- TwoClients
  Request <- TwoRequests
  Timeouts <- ShortTimeouts
  MaxClient = 1
  MaxInFlight = 2
SPECIFICATION FairSpec
PROPERTY EveryRequestEnds
