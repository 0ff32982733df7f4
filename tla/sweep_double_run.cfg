\* A server process whose sweep fires while a task is running.
SPECIFICATION Spec
CONSTANTS
  t1 = t1
  t2 = t2
  r1 = r1
  r2 = r2
  Task = {t1}
  Run = {r1, r2}
  TaskOf <- AllForT1
  HttpTask = {}
  Prompt = {p1}
  NoPrompt = NoPrompt
  MaxRedesigns = 2
  Sweeping = TRUE
  MaxCrashes = 0
INVARIANT OneRunPerTask
