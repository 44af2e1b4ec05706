SPECIFICATION Spec
CONSTANTS
  d1 = d1
  d2 = d2
  d3 = d3
  Device <- MCDevice
  ObjectList <- MCObjectList
  MaxDevices = 2
  TsmSize = 2
  SubscribeType = {"none", "object", "increment"}
  Command = {c1}
  Poll = poll
  MaxInFlight = 2
  MaxQueue = 3
  Budgets <- MCBudgets
  Size = 2
  None = none
  MaxMessages = 4
  Traffic <- MCTraffic
  Scenarios <- MCScenarios
\* the gateway may stop: a null mutex, a freed device
CHECK_DEADLOCK FALSE
INVARIANTS
  TypeOK
  NeverStuck
  AnswersMatch
  ListComplete
  UndefinedOnlyIfMixed
  NothingLost
  CachedInOrder
PROPERTIES
  CommandsKept
  SubscriptionsSettle
  CommandsAreSent
  CacheIsFifo
  Reconnects
