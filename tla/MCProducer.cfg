CONSTANTS
  p1 = p1
  t1 = t1
  None = None
  Producers = {p1}
  TopicRegisters = {t1}
  reTry_Time = 2
  MaxSends = 2
  MaxTopics = 1
  MaxLives = 2
SPECIFICATION FairSpec
INVARIANTS TypeOK AckMeansAccepted AtMostOneCopy
PROPERTIES OneWayWaits ReplyExpectedReturns
CHECK_DEADLOCK FALSE
