CONSTANTS
  Requests = {q1, q2, q3}
  Bodies = {b1, b2}
  MaxFaults = 2
  Nobody = Nobody
SPECIFICATION Spec
SYMMETRY Symmetry
INVARIANTS ExtraRunsAreExcused ReplaysItsOwnRequest HolderOwnsTheEntry AnswerIsKept
CHECK_DEADLOCK FALSE
