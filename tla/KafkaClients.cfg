CONSTANTS
  s1 = s1 s2 = s2 k1 = k1 k2 = k2 k3 = k3
  Sends = {s1, s2}
  Batches = {s2}
  Rejected = {s2}
  Producers = {k1, k2, k3}
  MaxFaults = 3
  None = None
SPECIFICATION FairSpec
INVARIANTS OneProducer PutOnce NothingLeftBehind
PROPERTIES ClientsMakeProgress
CHECK_DEADLOCK FALSE
