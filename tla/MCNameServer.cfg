CONSTANTS
  s1 = s1
  s2 = s2
  p1 = p1
  None = None
  Slaves = {s1}
  SyncTries = 1
  MaxChanges = 0
  MaxStarts = 2
  Brokers = {1, 2}
  Clients = {p1}
  MaxFds = 2
  MaxConnects = 3
  MaxMessages = 2
SPECIFICATION FairNSSpec
INVARIANTS NSTypeOK NoStandbyForBroker FailedLeavesNoTrace
PROPERTY Answered
CHECK_DEADLOCK FALSE
