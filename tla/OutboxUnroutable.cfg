CONSTANTS
  Relays = {r1}
  Keys = {k1, k2}
  NumEvents = 2
  BatchSize = 1
  MaxAttempts = 2
  Rejected = {}
  Unroutable = {1}
  MaxFaults = 0
  MaxOutages = 0
  MaxOps = 0
  None = None
  Orphan = Orphan
SPECIFICATION FairSpec
PROPERTY FailingRowsDoNotBlock
