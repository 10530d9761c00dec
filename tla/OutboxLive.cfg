CONSTANTS
  Relays = {r1}
  Keys = {k1}
  NumEvents = 4
  BatchSize = 2
  MaxAttempts = 2
  Rejected = {2}
  Unroutable = {1}
  MaxFaults = 2
  MaxOutages = 1
  MaxOps = 1
  None = None
  Orphan = Orphan
SPECIFICATION FairSpec
PROPERTIES NoPassAfterShutdownBegins EveryEventIsPublished RejectedRowsAreParked ShutdownCompletes
