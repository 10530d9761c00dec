CONSTANTS
  Relays = {r1, r2}
  Keys = {k1, k2}
  NumEvents = 3
  BatchSize = 2
  MaxAttempts = 2
  Rejected = {2}
  Unroutable = {}
  MaxFaults = 1
  MaxOutages = 1
  MaxOps = 1
  None = None
  Orphan = Orphan
SPECIFICATION Spec
SYMMETRY Symmetry
INVARIANTS TypeOK NoDoubleSend DuplicatesAreBoundedByFaults OnlyRejectedRowsAreCounted
PROPERTIES OrderHoldsPerRelay DeliversAtLeastOnce
