CONSTANTS
  Received <- TwoTopics
  BufferCap = 2
  MaxReads = 5
SPECIFICATION FairSpec
INVARIANTS TypeOK ExactlyOnce EmptyTopIsHarmless
PROPERTIES PrintsInOrder DeliversInOrder
CHECK_DEADLOCK FALSE
