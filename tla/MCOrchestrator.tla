--------------------------- MODULE MCOrchestrator ---------------------------
(* Instances of the orchestrator for TLC.                                  *)
EXTENDS Orchestrator

CONSTANTS
  t1, t2,        \* tasks
  r1, r2         \* invocations

\* Every invocation executes t1, or one invocation for each task.
AllForT1 == [r \in Run |-> t1]
OnePerTask == [r \in Run |-> IF r = r1 THEN t1 ELSE t2]
=============================================================================
