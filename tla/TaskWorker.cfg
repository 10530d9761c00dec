CONSTANTS
  w1 = w1 w2 = w2 p1 = p1 p2 = p2
  e1 = e1 e2 = e2 e3 = e3 e4 = e4 other = other broken = broken
  Workers = {w1, w2}
  Partitions = {p1, p2}
  Events = {e1, e2, e3, e4}
  Foreign = other
  Broken = broken
  Failing = {e2}
  Deployments <- SmallDeployments
  MaxWaiting = 1
  Attempts = 2
  MaxStalls = 1
  NoOne = NoOne
  NoJob = NoJob
SPECIFICATION FairSpec
INVARIANTS EnqueuedBeforeCommitted RunsAreExcused BacklogIsBounded
PROPERTIES EveryEventIsWorkedOff
CHECK_DEADLOCK FALSE
