\* Four messages, two brokers, a cache of two records, one restart.
CONSTANTS
  b1 = b1
  b2 = b2
  p1 = p1
  p2 = p2
  Broker <- Brokers
  Passwords <- PolicyPasswords
  Capacity = 2
  MaxMsgs = 4
  MaxRestarts = 1
SPECIFICATION FairSpec
INVARIANTS TypeOK PipelineOrdered
PROPERTIES OrderReserved LossOnlyWhenFull BacklogDrains
