\* Two configurations, two slaves, two addresses, one restart, one event.
CONSTANTS
  twice = twice
  other = other
  s1 = s1
  s2 = s2
  tcp = tcp
  serial = serial
  None = None
  Torn = Torn
  Garbage = Garbage
  Config <- Configs
  Intervals <- PollingIntervals
  Slave <- SlaveIds
  Address <- AddressSet
  Serial <- SerialPorts
  Slaves <- SlavesOf
  Addresses <- AddressesOf
  MaxPass = 1
  MaxRestarts = 1
  MaxEvents = 1
SPECIFICATION ModbusFairSpec
INVARIANTS ContextsTyped ConnectionsArePolled
PROPERTIES PublishedIsRead SlavesAreRead
