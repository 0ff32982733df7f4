\* A server process: the sweep re-executes whatever is incomplete.
SPECIFICATION FairSpec
CONSTANTS
  t1 = t1
  t2 = t2
  r1 = r1
  r2 = r2
  Task = {t1}
  Run = {r1, r2}
  TaskOf <- AllForT1
  HttpTask = {}
  Prompt = {p1}
  NoPrompt = NoPrompt
  MaxRedesigns = 2
  Sweeping = TRUE
  MaxCrashes = 1
INVARIANTS SteeringSettled NothingLeaks
PROPERTIES EndedIsNotReexecuted SharedContractSpec Settles EveryRunEnds
