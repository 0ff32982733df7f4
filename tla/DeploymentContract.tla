------------------------- MODULE DeploymentContract -------------------------
(***************************************************************************)
(* What a deployment promises to whoever created it: one run at a time,    *)
(* no run once it has stopped, and a run that a crash has interrupted is   *)
(* not repeated.  A cancellation stops a deployment that is not busy; of   *)
(* one that is busy it promises nothing.                                   *)
(***************************************************************************)
CONSTANT Deployment

VARIABLE phase

Init == phase = [d \in Deployment |-> "none"]

\* Several deployments may begin a run with one event, which may be the end of
\* a run (of one that may begin again at once), a creation or a stop.
BeginsFrom(p) ==
    \E D \in SUBSET {d \in Deployment : p[d] = "ready"} :
       phase' = [d \in Deployment |-> IF d \in D THEN "busy" ELSE p[d]]

Begin == BeginsFrom(phase)

Finish(d) == phase[d] = "busy" /\ BeginsFrom([phase EXCEPT ![d] = "ready"])

Create(d) == phase[d] = "none" /\ BeginsFrom([phase EXCEPT ![d] = "ready"])

Stop(d) ==
    /\ phase[d] \in {"ready", "lost"}
    /\ BeginsFrom([phase EXCEPT ![d] = "stopped"])

\* The process dies.  One that was cancelled while it was busy has stopped.
Crash ==
    \E D \in SUBSET {d \in Deployment : phase[d] = "busy"} :
       phase' = [d \in Deployment |->
                   IF phase[d] # "busy" THEN phase[d]
                   ELSE IF d \in D THEN "stopped" ELSE "lost"]

Next ==
    \/ Begin
    \/ Crash
    \/ \E d \in Deployment : Finish(d) \/ Create(d) \/ Stop(d)

Spec == Init /\ [][Next]_phase

=============================================================================
