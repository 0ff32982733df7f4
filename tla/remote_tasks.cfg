\* Two messages with two attempts each, of which either can open the breaker
\* against the other; a delegated task, and a restart of the server.
SPECIFICATION FairSpec
CONSTANTS
  Message = {m1, m2}
  Delegation = {d1}
  MaxAttempts = 2
  Threshold = 1
  MaxRestarts = 1
INVARIANTS TypeOK FallbackMeansFailures CompletionIsTrue RunningMeansRun
PROPERTIES FinalStatus EverythingSettles
CHECK_DEADLOCK FALSE
