CONSTANTS
  Members = {m1}
  Partitions = {p1, p2}
  LogLen = 2
  Concurrently = 1
  MaxRetries = 1
  Permanent = {1}
  Failing = {0}
  Unparkable = {1}
  MaxFaults = 1
  MaxRebalances = 1
  MaxOutages = 1
  MaxStops = 1
  NoOne = NoOne
SPECIFICATION FairSpec
PROPERTIES EveryRecordIsSettled StopCompletes
CHECK_DEADLOCK FALSE
