CONSTANTS
  order = order
  c1 = c1
  RegisterAck = RegisterAck
  None = None
  Topics = {order}
  IpNodes = {c1, c2}
  c2 = c2
  Messages <- MessagesPersistence
  TopicRequests <- RequestsSubscribe
  reTry_Time = 0
  SendBuffer = 1
  MaxQueues = 1
  MaxArrivals = 0
  MaxSockets = 2
  MaxSaves = 1
  MaxCrashes = 0
SPECIFICATION PersistenceSpec
INVARIANT SavedConsumersKnown
CHECK_DEADLOCK FALSE
SYMMETRY ConsumerSymmetry
