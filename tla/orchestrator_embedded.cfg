\* A process without the HTTP server: no recovery sweep.  One task of a channel,
\* one with a pre-inserted row.
SPECIFICATION Spec
CONSTANTS
  t1 = t1
  t2 = t2
  r1 = r1
  r2 = r2
  Task = {t1, t2}
  Run = {r1, r2}
  TaskOf <- OnePerTask
  HttpTask = {t2}
  Prompt = {p1, p2}
  NoPrompt = NoPrompt
  MaxRedesigns = 3
  Sweeping = FALSE
  MaxCrashes = 2
INVARIANTS TypeOK LostOnlyInCreation
PROPERTIES ContractSpec EscalatedNeverCompletes PauseHoldsAtGates
CHECK_DEADLOCK FALSE
