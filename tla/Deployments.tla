---------------------------- MODULE Deployments ----------------------------
(***************************************************************************)
(* Deployed workflows: deploy/workflow-deployer.ts with the cron scheduler *)
(* and the event bus.  A deployment runs its blueprint through             *)
(* orchestrator.run() once, on a schedule, or on an event.                 *)
(*                                                                         *)
(* Rows are in SQLite and survive a crash; scheduled jobs, listeners and   *)
(* awaited runs are memory.  emit() calls the listeners before it returns, *)
(* so that an event starts runs inside the segment that emits it.          *)
(***************************************************************************)
EXTENDS Naturals, FiniteSets

CONSTANTS
    Deployment,
    TriggerEvents,   \* events a deployment may be triggered by
    MaxActive,       \* MAX_ACTIVE_DEPLOYMENTS
    MaxCrashes       \* bound: crashes of the process

\* The deployer's own events, and all others.
BusEvent == {"created", "cancelled", "executed", "failed", "other"}

ASSUME DeploymentsAssumption ==
    /\ TriggerEvents \subseteq BusEvent
    /\ MaxActive \in Nat
    /\ MaxCrashes \in Nat
    /\ IsFiniteSet(Deployment)

VARIABLES
    status,       \* the row's status, or absent
    trigger,      \* "once", "cron" or the event of the row
    jobs,         \* cron jobs of this process
    listeners,    \* listeners of this process on the event bus
    inFlight,     \* awaited runs of each deployment
    crashes,      \* crashes so far
    cancelled,    \* history: deployments that were cancelled
    hitRun        \* history: those that were cancelled during a run

vars == <<status, trigger, jobs, listeners, inFlight, crashes, cancelled, hitRun>>

Status == {"absent", "active", "running", "cancelled"}

Trigger == {"once", "cron"} \cup TriggerEvents

TypeOK ==
    /\ status \in [Deployment -> Status]
    /\ trigger \in [Deployment -> Trigger]
    /\ jobs \in SUBSET Deployment
    /\ listeners \in SUBSET Deployment
    /\ inFlight \in [Deployment -> Nat]
    /\ crashes \in 0..MaxCrashes
    /\ cancelled \in SUBSET Deployment
    /\ hitRun \in SUBSET Deployment

Init ==
    /\ status = [d \in Deployment |-> "absent"]
    /\ trigger = [d \in Deployment |-> "once"]
    /\ jobs = {}
    /\ listeners = {}
    /\ inFlight = [d \in Deployment |-> 0]
    /\ crashes = 0
    /\ cancelled = {}
    /\ hitRun = {}

\* What the limit counts.
Live == {d \in Deployment : status[d] \in {"active", "running"}}

\* Mutant: a row that is running already is locked again.
ExecutesAnyway(D, st, fl) ==
    LET locked == {d \in D : st[d] \in {"active", "running"}} IN
    /\ status' = [d \in Deployment |-> IF d \in locked THEN "running" ELSE st[d]]
    /\ inFlight' = [d \in Deployment |-> fl[d] + (IF d \in locked THEN 1 ELSE 0)]

\* Mutant: the lock only excludes a run that is going on.
ExecutesUnlessRunning(D, st, fl) ==
    LET locked == {d \in D : st[d] # "running"} IN
    /\ status' = [d \in Deployment |-> IF d \in locked THEN "running" ELSE st[d]]
    /\ inFlight' = [d \in Deployment |-> fl[d] + (IF d \in locked THEN 1 ELSE 0)]

\* _executeDeployment() for each d in D up to its await, rows being st and runs
\* in flight fl: who finds the row active locks it, the others return.
Executes(D, st, fl) ==
    LET locked == {d \in D : st[d] = "active"} IN
    /\ status' = [d \in Deployment |-> IF d \in locked THEN "running" ELSE st[d]]
    /\ inFlight' = [d \in Deployment |-> fl[d] + (IF d \in locked THEN 1 ELSE 0)]

\* emit(e): every listener of e on the bus, whether its deployment is still
\* wanted or not.
Listening(e) == {d \in listeners : trigger[d] = e}

Emits(e, st, fl) == Executes(Listening(e), st, fl)

-----------------------------------------------------------------------------

\* Mutant: only the rows that are running count.
DeployCountsRunning(d, t) ==
    /\ status[d] = "absent"
    /\ Cardinality({x \in Deployment : status[x] = "running"}) < MaxActive
    /\ trigger' = [trigger EXCEPT ![d] = t]
    /\ Executes(Listening("created") \cup (IF t = "once" THEN {d} ELSE {}),
                [status EXCEPT ![d] = "active"], inFlight)
    /\ jobs' = IF t = "cron" THEN jobs \cup {d} ELSE jobs
    /\ listeners' = IF t \in TriggerEvents THEN listeners \cup {d} ELSE listeners
    /\ UNCHANGED <<crashes, cancelled, hitRun>>

\* deploy().  The row is inserted active; its creation may be what others wait
\* for; then a run once is executed at once, a job scheduled, or a listener put
\* on the bus.
Deploy(d, t) ==
    /\ status[d] = "absent"
    /\ Cardinality(Live) < MaxActive
    /\ trigger' = [trigger EXCEPT ![d] = t]
    /\ Executes(Listening("created") \cup (IF t = "once" THEN {d} ELSE {}),
                [status EXCEPT ![d] = "active"], inFlight)
    /\ jobs' = IF t = "cron" THEN jobs \cup {d} ELSE jobs
    /\ listeners' = IF t \in TriggerEvents THEN listeners \cup {d} ELSE listeners
    /\ UNCHANGED <<crashes, cancelled, hitRun>>

\* Mutant: the job is left to find out for itself.
CancelKeepsJob(d) ==
    /\ d \in Live
    /\ Emits("cancelled", [status EXCEPT ![d] = "cancelled"], inFlight)
    /\ cancelled' = cancelled \cup {d}
    /\ hitRun' = IF inFlight[d] > 0 THEN hitRun \cup {d} ELSE hitRun
    /\ UNCHANGED <<trigger, jobs, listeners, crashes>>

\* cancel().  The job is cancelled; the listener is forgotten by the deployer but
\* not taken off the bus.
Cancel(d) ==
    /\ d \in Live
    /\ jobs' = jobs \ {d}
    /\ Emits("cancelled", [status EXCEPT ![d] = "cancelled"], inFlight)
    /\ cancelled' = cancelled \cup {d}
    /\ hitRun' = IF inFlight[d] > 0 THEN hitRun \cup {d} ELSE hitRun
    /\ UNCHANGED <<trigger, listeners, crashes>>

\* A minute that matches the cron expression.
Tick(d) ==
    /\ d \in jobs
    /\ status[d] = "active"
    /\ Executes({d}, status, inFlight)
    /\ UNCHANGED <<trigger, jobs, listeners, crashes, cancelled, hitRun>>

\* Somebody else emits an event that is listened to.
OtherEvent ==
    /\ \E d \in Listening("other") : status[d] = "active"
    /\ Emits("other", status, inFlight)
    /\ UNCHANGED <<trigger, jobs, listeners, crashes, cancelled, hitRun>>

\* Mutant: the end of one run is handled twice.
FinishTwice(d, e) ==
    /\ status[d] \in {"running", "cancelled"}
    /\ Emits(e, [status EXCEPT ![d] = "active"], [inFlight EXCEPT ![d] = @ - 1])
    /\ UNCHANGED <<trigger, jobs, listeners, crashes, cancelled, hitRun>>

\* Mutant: a run that throws leaves its row running.
FinishKeepsLock(d, e) ==
    /\ inFlight[d] > 0
    /\ Emits(e, [status EXCEPT ![d] = IF e = "failed" THEN @ ELSE "active"],
             [inFlight EXCEPT ![d] = @ - 1])
    /\ UNCHANGED <<trigger, jobs, listeners, crashes, cancelled, hitRun>>

\* The run returns (executed, whatever the task's status) or throws (failed).
\* The row becomes active, whatever it was; then the event is emitted, which may
\* be the one this deployment waits for.
Finish(d, e) ==
    /\ inFlight[d] > 0
    /\ Emits(e, [status EXCEPT ![d] = "active"], [inFlight EXCEPT ![d] = @ - 1])
    /\ UNCHANGED <<trigger, jobs, listeners, crashes, cancelled, hitRun>>

\* Mutant: the next process releases the locks.
CrashReleases ==
    /\ crashes < MaxCrashes
    /\ crashes' = crashes + 1
    /\ jobs' = {}
    /\ listeners' = {}
    /\ inFlight' = [d \in Deployment |-> 0]
    /\ status' = [d \in Deployment |-> IF status[d] = "running" THEN "active" ELSE status[d]]
    /\ UNCHANGED <<trigger, cancelled, hitRun>>

\* The process dies and is started again.  Nothing is scheduled anew.
Crash ==
    /\ crashes < MaxCrashes
    /\ crashes' = crashes + 1
    /\ jobs' = {}
    /\ listeners' = {}
    /\ inFlight' = [d \in Deployment |-> 0]
    /\ UNCHANGED <<status, trigger, cancelled, hitRun>>

Ends(d) == \E e \in {"executed", "failed"} : Finish(d, e)

Next ==
    \/ \E d \in Deployment : \E t \in Trigger : Deploy(d, t)
    \/ \E d \in Deployment : Cancel(d)
    \/ \E d \in Deployment : Tick(d)
    \/ OtherEvent
    \/ \E d \in Deployment : Ends(d)
    \/ Crash

Spec == Init /\ [][Next]_vars

\* Every run of the orchestrator settles; a job's minute comes round again.
FairSpec ==
    /\ Spec
    /\ \A d \in Deployment : WF_vars(Ends(d)) /\ WF_vars(Tick(d))

-----------------------------------------------------------------------------
(***************************************************************************)
(* Properties                                                              *)
(***************************************************************************)

\* A row that is running without a run in flight was interrupted by a crash.
PhaseOf(st, runs) ==
    CASE st = "absent" -> "none"
      [] st # "absent" /\ runs > 0 -> "busy"
      [] st = "active" /\ runs = 0 -> "ready"
      [] st = "running" /\ runs = 0 -> "lost"
      [] st = "cancelled" /\ runs = 0 -> "stopped"

Contract ==
    INSTANCE DeploymentContract WITH
        phase <- [d \in Deployment |-> PhaseOf(status[d], inFlight[d])]

\* The deployer implements the contract: the conditional update of the row is a
\* lock that holds against events, minutes, cancellations and crashes, also while
\* one run's end is the event that starts the next (workflow-deployer.ts:272-330).
ContractSpec == Contract!Spec

\* Two runs of a deployment are never awaited at once, although the end of a run
\* makes the row active whatever it finds there.
OneRunAtATime ==
    \A d \in Deployment : inFlight[d] <= IF status[d] = "active" THEN 0 ELSE 1

\* The limit is checked when a deployment is created, but a run that ends makes
\* its cancelled deployment count again (workflow-deployer.ts:149, 305).  More
\* than MaxActive deployments are active only because of such ones.
LimitHolds == Cardinality(Live \ hitRun) <= MaxActive

\* A cancellation is final: no run starts after it, except for a deployment on an
\* event whose run was cancelled: its row becomes active again and its listener
\* is still on the bus (workflow-deployer.ts:203-225).
CancelIsFinal ==
    [][\A d \in cancelled :
          \/ d \in hitRun /\ trigger[d] \in TriggerEvents
          \/ inFlight'[d] <= inFlight[d]]_vars

\* Jobs and rows agree: nothing is scheduled for a cancelled deployment, not even
\* when the cancellation met a run and the row is active again.
NoJobAfterCancel == jobs \cap cancelled = {}

\* A cancelled deployment comes to rest, also when a run was in flight.
CancelQuiets ==
    \A d \in Deployment :
       d \in cancelled /\ trigger[d] \in {"once", "cron"} ~> [](inFlight[d] = 0)

\* A scheduled deployment that is at rest is run again, until it is cancelled or
\* the process dies: neither a failure nor another's end leaves it locked.
ScheduledRunsAgain ==
    \A d \in Deployment : d \in jobs /\ inFlight[d] = 0
                            ~> inFlight[d] > 0 \/ d \notin jobs

=============================================================================
