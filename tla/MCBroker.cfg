CONSTANTS
  order = order
  delivery = delivery
  c1 = c1
  RegisterAck = RegisterAck
  None = None
  Topics = {order, delivery}
  IpNodes = {c1}
  Messages <- MessagesQueues
  TopicRequests <- RequestsQueues
  reTry_Time = 1
  SendBuffer = 1
  MaxQueues = 3
  MaxArrivals = 2
  MaxSockets = 2
SPECIFICATION Spec
INVARIANTS TypeOK SubscribersConnected NothingPushedBeforeFirstAck OnlyLatestOpen QueueOwnership TopicIsolation Conservation
PROPERTIES ImplementsStore PushedOncePerConsumer
CHECK_DEADLOCK FALSE
