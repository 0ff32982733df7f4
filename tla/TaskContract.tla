---------------------------- MODULE TaskContract ----------------------------
(***************************************************************************)
(* What the orchestrator promises about a task, as its callers see it: a   *)
(* task is opened once, ends at most once, keeps the outcome it ended      *)
(* with, and a task whose cancellation was accepted before its outcome was *)
(* decided never completes.  How the pipeline works, what is in memory and *)
(* what is in the database are left to the module that implements this.    *)
(***************************************************************************)
CONSTANT Task

VARIABLES
  phase,       \* [Task -> Phase]
  cancelAsked  \* the open tasks whose cancellation was accepted

contractVars == <<phase, cancelAsked>>

Outcome == {"completed", "failed", "cancelled"}
Phase   == {"absent", "open"} \cup Outcome

Init ==
  /\ phase = [t \in Task |-> "absent"]
  /\ cancelAsked = {}

\* A task is submitted: its row exists from now on.
Open(t) ==
  /\ phase[t] = "absent"
  /\ phase' = [phase EXCEPT ![t] = "open"]
  /\ UNCHANGED cancelAsked

\* A cancel request is accepted while the task is still undecided.
AskCancel(t) ==
  /\ phase[t] = "open"
  /\ cancelAsked' = cancelAsked \cup {t}
  /\ UNCHANGED phase

\* The task ends.  It completes only if nobody had cancelled it, and it is
\* cancelled only if somebody had.
End(t, outcome) ==
  /\ phase[t] = "open"
  /\ outcome = "completed" => t \notin cancelAsked
  /\ outcome = "cancelled" => t \in cancelAsked
  /\ phase' = [phase EXCEPT ![t] = outcome]
  /\ cancelAsked' = cancelAsked \ {t}

\* The process dies: cancel requests live in memory only.
Forget ==
  /\ cancelAsked' = {}
  /\ UNCHANGED phase

Next ==
  \/ \E t \in Task : Open(t)
  \/ \E t \in Task : AskCancel(t)
  \/ \E t \in Task, o \in Outcome : End(t, o)
  \/ Forget

Spec == Init /\ [][Next]_contractVars

=============================================================================
