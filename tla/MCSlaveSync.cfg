CONSTANTS
  s1 = s1
  s2 = s2
  None = None
  Slaves = {s1, s2}
  SyncTries = 3
  MaxChanges = 3
  MaxStarts = 2
SPECIFICATION FairSyncSpec
INVARIANT SyncTypeOK
PROPERTIES AckMeansHeld ImplementsReplica GivenUpForGood CatchesUp
CHECK_DEADLOCK FALSE
