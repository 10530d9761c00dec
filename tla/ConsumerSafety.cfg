CONSTANTS
  Members = {m1, m2}
  Partitions = {p1}
  LogLen = 3
  Concurrently = 1
  MaxRetries = 1
  Permanent = {2}
  Failing = {1}
  Unparkable = {}
  MaxFaults = 2
  MaxRebalances = 2
  MaxOutages = 1
  MaxStops = 1
  NoOne = NoOne
SPECIFICATION Spec
SYMMETRY Symmetry
INVARIANTS TypeOK NothingIsSkipped SettlesInOrder RedeliveryHasACause RetriedBeforeParked
CHECK_DEADLOCK FALSE
