CONSTANTS
  order = order
  c1 = c1
  c2 = c2
  RegisterAck = RegisterAck
  None = None
  Topics = {order}
  IpNodes = {c1}
  Messages <- MessagesPersistence
  TopicRequests <- RequestsRecover
  reTry_Time = 0
  SendBuffer = 1
  MaxQueues = 1
  MaxArrivals = 1
  MaxSockets = 0
  MaxSaves = 1
  MaxCrashes = 1
SPECIFICATION PersistenceSpec
INVARIANTS PersistenceTypeOK RecoveredNotLost RedeliveredWasSaved
CHECK_DEADLOCK FALSE
