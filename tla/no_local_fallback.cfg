\* A message for a remote agent that cannot be reached.
SPECIFICATION Spec
CONSTANTS
  Message = {m1, m2}
  Delegation = {d1}
  MaxAttempts = 2
  Threshold = 1
  MaxRestarts = 1
PROPERTY FallsBackOnFailure
CHECK_DEADLOCK FALSE
