CONSTANTS
  order = order
  delivery = delivery
  c1 = c1
  RegisterAck = RegisterAck
  None = None
  Topics = {order}
  IpNodes = {c1}
  Messages <- MessagesLiveness
  TopicRequests <- RequestsLiveness
  reTry_Time = 1
  SendBuffer = 1
  MaxQueues = 2
  MaxArrivals = 2
  MaxSockets = 1
SPECIFICATION Spec
PROPERTY FailedSendIsKept
CHECK_DEADLOCK FALSE
