CONSTANTS
  t1 = t1 t2 = t2 r1 = r1 r2 = r2 r3 = r3 c1 = c1 c2 = c2
  Tasks = {t1, t2}
  Requests = {r1, r2, r3}
  Versions = {1, 2, 3}
  Workloads <- SmallWorkloads
  Careless = {r1}
  Connections = {c1, c2}
  MaxFaults = 1
  None = None
SPECIFICATION FairSpec
INVARIANTS AnswersAreTrue PoolIsClean
PROPERTIES KeepsThePromise EveryRequestIsAnswered
CHECK_DEADLOCK FALSE
