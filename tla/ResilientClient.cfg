CONSTANTS
  a = a b = b c = c
  Calls = {a, b, c}
  Configs <- SmallConfigs
  None = None
SPECIFICATION FairSpec
INVARIANTS LimiterIsSound OneInFlight
PROPERTIES AttemptsKeepToTheirTime EverythingSettles
CHECK_DEADLOCK FALSE
