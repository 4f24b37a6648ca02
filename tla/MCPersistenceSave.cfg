CONSTANTS
  order = order
  c1 = c1
  c2 = c2
  RegisterAck = RegisterAck
  None = None
  Topics = {order}
  IpNodes = {c1}
  Messages <- MessagesPersistence
  TopicRequests <- RequestsSave
  reTry_Time = 0
  SendBuffer = 1
  MaxQueues = 2
  MaxArrivals = 2
  MaxSockets = 0
  MaxSaves = 1
  MaxCrashes = 0
SPECIFICATION PersistenceSpec
INVARIANT SavedMessagesMapped
PROPERTY QueuedIsSaved
CHECK_DEADLOCK FALSE
