------------------------- MODULE SharedTaskContract -------------------------
(***************************************************************************)
(* What the orchestrator promises in every process, also in a server whose *)
(* sweep runs a second invocation beside the first.  TaskContract does not *)
(* hold there: an outcome can be overwritten while another invocation of   *)
(* the task is still at work.  What is left is that work on a task is only *)
(* taken up while the task has no outcome, that whoever works last leaves  *)
(* an outcome behind, and that nobody touches a task nobody works on.      *)
(* Work is left undone only where the process dies, and deaths are counted.*)
(***************************************************************************)
EXTENDS Naturals

CONSTANT Task

VARIABLES
  phase,  \* [Task -> Phase]
  busy,   \* the tasks somebody works on
  deaths  \* how often the process has died

sharedVars == <<phase, busy, deaths>>

Outcome == {"completed", "failed", "cancelled"}
Phase   == {"absent", "open"} \cup Outcome

Init ==
  /\ phase = [t \in Task |-> "absent"]
  /\ busy = {}
  /\ deaths = 0

\* Work on a task that has no outcome is taken up; its row may be created by it.
Begin(t) ==
  /\ t \notin busy /\ phase[t] \notin Outcome
  /\ busy' = busy \cup {t}
  /\ \E p \in {phase[t], "open"} : phase' = [phase EXCEPT ![t] = p]
  /\ UNCHANGED deaths

\* While somebody works on it, the task may be opened, ended and opened again;
\* it does not disappear.
Work(t) ==
  /\ t \in busy
  /\ \E p \in Phase \ {"absent"} : phase' = [phase EXCEPT ![t] = p]
  /\ UNCHANGED <<busy, deaths>>

\* The last one leaves: the task has an outcome, unless its row never existed.
Finish(t) ==
  /\ t \in busy
  /\ busy' = busy \ {t}
  /\ \/ \E o \in Outcome : phase' = [phase EXCEPT ![t] = o]
     \/ phase[t] = "absent" /\ UNCHANGED phase
  /\ UNCHANGED deaths

\* The process dies: nobody works on anything, and the rows stay as they are.
Die ==
  /\ busy' = {}
  /\ deaths' = deaths + 1
  /\ UNCHANGED phase

Next ==
  \/ \E t \in Task : Begin(t) \/ Work(t) \/ Finish(t)
  \/ Die

Spec == Init /\ [][Next]_sharedVars

=============================================================================
