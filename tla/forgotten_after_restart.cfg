\* A delegated task whose server is restarted after the run has completed.
SPECIFICATION Spec
CONSTANTS
  Message = {m1, m2}
  Delegation = {d1}
  MaxAttempts = 2
  Threshold = 1
  MaxRestarts = 1
INVARIANT CompletedIsNotForgotten
CHECK_DEADLOCK FALSE
