CONSTANTS
  Requests = {q1, q2}
  Bodies = {b1}
  MaxFaults = 0
  Nobody = Nobody
SPECIFICATION Spec
INVARIANT LockReleasedOnError
CHECK_DEADLOCK FALSE
