\* Two clients in a group for two, two slots each, two requests.
CONSTANTS
  c1 = c1
  c2 = c2
  r1 = r1
  r2 = r2
  None = None
  Client <- TwoClients
  Request <- TwoRequests
  Timeouts <- ShortTimeouts
  MaxClient = 2
  MaxInFlight = 2
SPECIFICATION FairSpec
INVARIANTS TypeOK CalledAtMostOnce SlotUntilAnswered OnlyLateRepliesIgnored KeeperIsSafe
PROPERTY EveryWatchedRequestEnds
