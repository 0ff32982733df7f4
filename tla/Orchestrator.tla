---------------------------- MODULE Orchestrator ----------------------------
(***************************************************************************)
(* The task lifecycle of Qualixar OS (engine/orchestrator.ts) with the     *)
(* parts it drives: the tasks table, the checkpoint rows of                *)
(* engine/durability.ts, the heartbeat timers of engine/heartbeat.ts, the  *)
(* steering state machine (module Steering), the POST /api/tasks route and *)
(* the periodic recovery sweep of the HTTP server.                         *)
(*                                                                         *)
(* An invocation of run() is a "run".  Node runs one synchronous segment   *)
(* at a time, from one await to the next, so a segment is one action: the  *)
(* result of the awaited call arrives, run() reacts to it, evaluates       *)
(* handleSteering and reaches its next await.  Only where a crash between  *)
(* two database writes of one segment matters is the segment cut into      *)
(* several actions; the program counters in Sync mark those cuts, and no   *)
(* other run, command or timer moves while a run is at one of them.        *)
(***************************************************************************)
EXTENDS Steering, Naturals, FiniteSets

CONSTANTS
  Run,           \* run() invocations that can be live at the same time
  TaskOf,        \* [Run -> Task]: the task an invocation executes
  HttpTask,      \* the tasks created by POST /api/tasks
  MaxRedesigns,  \* MAX_REDESIGNS
  Sweeping,      \* TRUE in a process that serves HTTP: it sweeps every 5 minutes
  MaxCrashes     \* bound: how often the process dies and is started again

ASSUME ConstantsAssumption ==
  /\ TaskOf \in [Run -> Task]
  /\ HttpTask \subseteq Task
  /\ MaxRedesigns \in Nat \ {0}
  /\ Sweeping \in BOOLEAN
  /\ MaxCrashes \in Nat

VARIABLES
  \* in the database: they survive a crash
  status,          \* [Task -> tasks.status], "none" when there is no row
  prompt,          \* [Task -> tasks.prompt]
  checkpoints,     \* the tasks that have checkpoint:saved rows
  \* in memory
  activeStatuses,  \* the keys of the activeStatuses map
  heartbeat,       \* the tasks with a heartbeat interval
  pc,              \* [Run -> where the invocation is]
  held,            \* [Run -> TRUE while it polls a pause before step pc]
  redesignCount,   \* [Run -> the local redesignCount]
  options,         \* [Run -> options]: the prompt, and whether taskId is given
  sweepQueue,      \* incomplete tasks the sweep has read and not yet re-executed
  \* bound
  crashes

dbVars  == <<status, prompt, checkpoints>>
runVars == <<pc, held, redesignCount, options>>
vars    == <<dbVars, activeStatuses, heartbeat, runVars, sweepQueue, crashes, steeringVars>>

Incomplete == {"pending", "running", "pending_human_review"}
Terminal   == {"completed", "failed", "cancelled"}
Status     == {"none"} \cup Incomplete \cup Terminal

\* The steps run() enters through handleSteering.
GatedStep == {"memory", "forge", "simulate", "security", "run", "judge", "output"}
\* The awaits of the redesign loop, which has no handleSteering.
RedesignStep == {"redesign", "resecure", "rerun", "rerunRetry", "rejudge"}
\* Positions inside a synchronous segment, between two of its writes.
Sync == {"start", "inserted", "updated", "mark", "finalise", "clear"}
PC == {"idle", "save"} \cup GatedStep \cup RedesignStep \cup Sync

\* The options of an invocation, as far as they matter.
Options == [prompt : Prompt \cup {NoPrompt}, taskId : BOOLEAN]
NoOptions == [prompt |-> NoPrompt, taskId |-> FALSE]

TypeOK ==
  /\ SteeringTypeOK
  /\ status \in [Task -> Status]
  /\ prompt \in [Task -> Prompt \cup {NoPrompt}]
  /\ checkpoints \subseteq Task
  /\ activeStatuses \subseteq Task
  /\ heartbeat \subseteq Task
  /\ pc \in [Run -> PC]
  /\ held \in [Run -> BOOLEAN]
  /\ redesignCount \in [Run -> 0 .. MaxRedesigns]
  /\ options \in [Run -> Options]
  /\ sweepQueue \subseteq Task
  /\ crashes \in 0 .. MaxCrashes

Init ==
  /\ SteeringInit
  /\ status = [t \in Task |-> "none"]
  /\ prompt = [t \in Task |-> NoPrompt]
  /\ checkpoints = {}
  /\ activeStatuses = {}
  /\ heartbeat = {}
  /\ pc = [r \in Run |-> "idle"]
  /\ held = [r \in Run |-> FALSE]
  /\ redesignCount = [r \in Run |-> 0]
  /\ options = [r \in Run |-> NoOptions]
  /\ sweepQueue = {}
  /\ crashes = 0

-----------------------------------------------------------------------------
(* Helpers.                                                                *)

RunsOf(t) == {r \in Run : TaskOf[r] = t}
LiveRun(t) == \E r \in RunsOf(t) : pc[r] # "idle"

\* No synchronous segment is under way: an I/O callback, a timer or a command
\* may be served.
LoopFree == sweepQueue = {} /\ \A r \in Run : pc[r] \notin Sync

\* The run has a result to react to.
Awaiting(r, step) == LoopFree /\ pc[r] = step /\ ~held[r]

\* The invocation returns or throws.
Leave(r) ==
  /\ pc' = [pc EXCEPT ![r] = "idle"]
  /\ held' = [held EXCEPT ![r] = FALSE]
  /\ redesignCount' = [redesignCount EXCEPT ![r] = 0]
  /\ options' = [options EXCEPT ![r] = NoOptions]

\* Mutant: cleanup forgets to stop the heartbeat.
CleanupKeepsHeartbeat(t) ==
  /\ UNCHANGED heartbeat
  /\ activeStatuses' = activeStatuses \ {t}
  /\ states' = [states EXCEPT ![t] = Unregistered]
  /\ redirectPayloads' = [redirectPayloads EXCEPT ![t] = NoPrompt]

\* cleanup: everything is keyed by the task, not by the invocation.
Cleanup(t) ==
  /\ heartbeat' = heartbeat \ {t}
  /\ activeStatuses' = activeStatuses \ {t}
  /\ states' = [states EXCEPT ![t] = Unregistered]
  /\ redirectPayloads' = [redirectPayloads EXCEPT ![t] = NoPrompt]

\* The task ends in outcome s and the invocation returns.
EndRun(r, s) ==
  /\ status' = [status EXCEPT ![TaskOf[r]] = s]
  /\ Cleanup(TaskOf[r])
  /\ Leave(r)
  /\ UNCHANGED <<prompt, sweepQueue, crashes>>

\* An error leaves run(): the update of a row that is not there changes nothing.
Throw(r) ==
  /\ EndRun(r, IF status[TaskOf[r]] = "none" THEN "none" ELSE "failed")
  /\ UNCHANGED checkpoints

-----------------------------------------------------------------------------
(* The end of a segment: handleSteering and what run() does with it.       *)

\* Mutant: only the intermediate cancelling state is recognised.
HandleCancellingOnly(t, s) ==
  IF s \in {"pausing", "paused"} THEN "wait"
  ELSE IF s = "cancelling" THEN "cancel" ELSE "continue"

\* Mutant: only the intermediate pausing state makes the run wait.
HandlePausingOnly(t, s) ==
  IF s = "pausing" THEN "wait"
  ELSE IF s \in {"cancelling", "cancelled"} THEN "cancel" ELSE "continue"

\* What handleSteering(t) answers in steering state s (an unregistered task reads
\* as running).  "wait" stands for the polling loop.
HandleSteering(t, s) ==
  IF s \in {"pausing", "paused"} THEN "wait"
  ELSE IF s \in {"cancelling", "cancelled"} THEN "cancel"
  ELSE IF s = "redirecting" /\ redirectPayloads[t] # NoPrompt THEN "redirect"
  ELSE "continue"

\* Mutant: the invocation stops but leaves the row as it is.
CancelledResultUnrecorded(r, row, saved) ==
  /\ status' = row
  /\ checkpoints' = saved
  /\ Cleanup(TaskOf[r])
  /\ Leave(r)

\* buildCancelledResult: the row says cancelled and the invocation returns.
CancelledResult(r, row, saved) ==
  /\ status' = [row EXCEPT ![TaskOf[r]] = "cancelled"]
  /\ checkpoints' = saved
  /\ Cleanup(TaskOf[r])
  /\ Leave(r)

\* The run goes on into step.  Formatting the output is followed at once by its
\* checkpoint and the final status, so the run stops at the cut between them.
Proceed(r, step, saved) ==
  /\ pc' = [pc EXCEPT ![r] = IF step = "output" THEN "finalise" ELSE step]
  /\ held' = [held EXCEPT ![r] = FALSE]
  /\ checkpoints' = IF step = "output" THEN saved \cup {TaskOf[r]} ELSE saved
  /\ UNCHANGED <<options, activeStatuses, heartbeat, redirectPayloads>>

\* The run polls the pause before step.
Hold(r, step, saved) ==
  /\ pc' = [pc EXCEPT ![r] = step]
  /\ held' = [held EXCEPT ![r] = TRUE]
  /\ checkpoints' = saved
  /\ UNCHANGED <<options, activeStatuses, heartbeat, redirectPayloads>>

\* handleRedirect: run() starts over.  handleSteering has just cleared the payload
\* that handleRedirect reads, so the prompt is the one the run already had.
StartOver(r, saved) ==
  /\ redirectPayloads' = [redirectPayloads EXCEPT ![TaskOf[r]] = NoPrompt]
  /\ pc' = [pc EXCEPT ![r] = "start"]
  /\ held' = [held EXCEPT ![r] = FALSE]
  /\ checkpoints' = saved
  /\ options' = [options EXCEPT ![r].taskId = TRUE]
  /\ UNCHANGED <<activeStatuses, heartbeat>>

\* run() reaches the handleSteering before step.  row, saved, count and s are the
\* status column, the checkpoints, redesignCount and the steering state after
\* what the segment has done so far.
Gate(r, step, row, saved, count, s) ==
  LET answer == HandleSteering(TaskOf[r], s) IN
  /\ UNCHANGED <<prompt, sweepQueue, crashes>>
  /\ IF answer = "cancel" THEN CancelledResult(r, row, saved)
     ELSE /\ status' = row
          /\ states' = [states EXCEPT ![TaskOf[r]] = s]
          /\ redesignCount' = [redesignCount EXCEPT ![r] = IF answer = "redirect" THEN 0 ELSE count]
          /\ IF answer = "wait" THEN Hold(r, step, saved)
             ELSE IF answer = "redirect" THEN StartOver(r, saved)
             ELSE Proceed(r, step, saved)

\* A step has its result and its checkpoint; next is the step after it.
StepDone(r, next) ==
  Gate(r, next, status, checkpoints \cup {TaskOf[r]}, redesignCount[r], states[TaskOf[r]])

\* A poll of the pause loop finds the task no longer paused.
Wake(r) ==
  /\ LoopFree /\ held[r]
  /\ states[TaskOf[r]] \notin {"pausing", "paused"}
  /\ Gate(r, pc[r], status, checkpoints, redesignCount[r], states[TaskOf[r]])

\* Mutant: the pause has no time limit.
PauseForever(r) == FALSE /\ held[r] /\ UNCHANGED vars

\* The pause loop gives up after PAUSE_MAX_WAIT_MS; the task is still paused.
PauseTimeout(r) ==
  /\ LoopFree /\ held[r]
  /\ states[TaskOf[r]] \in {"pausing", "paused"}
  /\ Proceed(r, pc[r], checkpoints)
  /\ UNCHANGED <<status, prompt, states, redesignCount, sweepQueue, crashes>>

-----------------------------------------------------------------------------
(* Step 1: creation and initialisation.                                    *)

\* A channel (CLI, MCP, Discord, Telegram, a deployment) calls run() with a new
\* task and no taskId, or POST /api/tasks inserts the row as pending and then calls
\* run() with its taskId.
Submit(r, p) ==
  LET t == TaskOf[r] IN
  /\ LoopFree /\ status[t] = "none" /\ ~LiveRun(t)
  /\ pc' = [pc EXCEPT ![r] = "start"]
  /\ options' = [options EXCEPT ![r] = [prompt |-> p, taskId |-> t \in HttpTask]]
  /\ IF t \in HttpTask
       THEN /\ status' = [status EXCEPT ![t] = "pending"]
            /\ prompt' = [prompt EXCEPT ![t] = p]
       ELSE UNCHANGED <<status, prompt>>
  /\ UNCHANGED <<checkpoints, activeStatuses, heartbeat, held, redesignCount, sweepQueue,
                 crashes, steeringVars>>

\* The heartbeat starts, the budget check passes, and the row is inserted or,
\* when it is there already, updated.
Start(r) ==
  LET t == TaskOf[r]
      existingTask == status[t] # "none"
  IN /\ pc[r] = "start"
     /\ heartbeat' = heartbeat \cup {t}
     /\ status' = [status EXCEPT ![t] = IF existingTask THEN "running" ELSE "pending"]
     /\ prompt' = [prompt EXCEPT ![t] = options[r].prompt]
     /\ pc' = [pc EXCEPT ![r] = IF existingTask THEN "updated" ELSE "inserted"]
     /\ UNCHANGED <<checkpoints, activeStatuses, held, redesignCount, options, sweepQueue,
                    crashes, steeringVars>>

\* The budget check denies the task: run() throws.
BudgetDenied(r) == pc[r] = "start" /\ Throw(r)

\* Mutant: run() does not write the init checkpoint.
RegisterUnsaved(r) ==
  LET t == TaskOf[r] IN
  /\ pc[r] \in {"inserted", "updated"}
  /\ activeStatuses' = activeStatuses \cup {t}
  /\ states' = IF pc[r] = "inserted" THEN [states EXCEPT ![t] = "running"] ELSE states
  /\ pc' = [pc EXCEPT ![r] = "mark"]
  /\ UNCHANGED <<dbVars, heartbeat, held, redesignCount, options, sweepQueue,
                 crashes, redirectPayloads>>

\* The in-memory maps and the init checkpoint.  Only a task whose row run()
\* itself inserted is registered with steering.
Register(r) ==
  LET t == TaskOf[r] IN
  /\ pc[r] \in {"inserted", "updated"}
  /\ activeStatuses' = activeStatuses \cup {t}
  /\ states' = IF pc[r] = "inserted" THEN [states EXCEPT ![t] = "running"] ELSE states
  /\ checkpoints' = checkpoints \cup {t}
  /\ pc' = [pc EXCEPT ![r] = "mark"]
  /\ UNCHANGED <<status, prompt, heartbeat, held, redesignCount, options, sweepQueue,
                 crashes, redirectPayloads>>

\* The row becomes running and run() reaches its first handleSteering.
MarkRunning(r) ==
  /\ pc[r] = "mark"
  /\ Gate(r, "memory", [status EXCEPT ![TaskOf[r]] = "running"], checkpoints, 0,
          states[TaskOf[r]])

-----------------------------------------------------------------------------
(* Steps 2 to 7: memory, forge, simulate, security, run, judge.            *)

\* autoInvoke answers or fails: a failure is logged and the pipeline goes on.
MemoryDone(r) == Awaiting(r, "memory") /\ StepDone(r, "forge")

\* The team is designed; options and mode decide whether it is simulated first.
ForgeDone(r) ==
  Awaiting(r, "forge") /\ \E next \in {"simulate", "security"} : StepDone(r, next)

SimulateDone(r) == Awaiting(r, "simulate") /\ StepDone(r, "security")

SecurityAllows(r) == Awaiting(r, "security") /\ StepDone(r, "run")

\* A denied task fails; run() returns a failed result.
SecurityDenies(r) ==
  /\ Awaiting(r, "security")
  /\ EndRun(r, "failed")
  /\ UNCHANGED checkpoints

SwarmDone(r) == Awaiting(r, "run") /\ StepDone(r, "judge")

\* An awaited call rejects: forge and swarm failures fail the task themselves, the
\* others reach the outer catch, with the same writes.
Fails(r) ==
  /\ LoopFree /\ ~held[r]
  /\ pc[r] \in {"forge", "simulate", "security", "run", "judge",
                "redesign", "resecure", "rerunRetry", "rejudge"}
  /\ Throw(r)

\* A verdict arrives, of the first round or of a redesign.
Judged(r) == Awaiting(r, "judge") \/ Awaiting(r, "rejudge")

\* The judges approve: on to the output step.
JudgeApproves(r) ==
  /\ Judged(r)
  /\ StepDone(r, "output")

-----------------------------------------------------------------------------
(* Step 8: the redesign loop.  None of its awaits is preceded by           *)
(* handleSteering.                                                         *)

\* Mutant: the loop never looks at MAX_REDESIGNS.
JudgeRejectsUnbounded(r) ==
  /\ Judged(r)
  /\ checkpoints' = checkpoints \cup {TaskOf[r]}
  /\ redesignCount' = [redesignCount EXCEPT ![r] = @ + 1]
  /\ pc' = [pc EXCEPT ![r] = "redesign"]
  /\ UNCHANGED <<status, prompt, activeStatuses, heartbeat, held, options, sweepQueue,
                 crashes, steeringVars>>

\* The judges reject (or ask for a revision) and the loop makes another redesign.
JudgeRejects(r) ==
  /\ Judged(r)
  /\ redesignCount[r] + 1 < MaxRedesigns
  /\ checkpoints' = checkpoints \cup {TaskOf[r]}
  /\ redesignCount' = [redesignCount EXCEPT ![r] = @ + 1]
  /\ pc' = [pc EXCEPT ![r] = "redesign"]
  /\ UNCHANGED <<status, prompt, activeStatuses, heartbeat, held, options, sweepQueue,
                 crashes, steeringVars>>

\* The same verdict when the task has cost more than three times its budget: the
\* loop ends with the rejected output.
BudgetCapStops(r) ==
  /\ Judged(r)
  /\ redesignCount[r] + 1 < MaxRedesigns
  /\ Gate(r, "output", status, checkpoints \cup {TaskOf[r]}, redesignCount[r] + 1,
          states[TaskOf[r]])

\* The last allowed rejection escalates to a human.  The steering:cancelled event
\* it emits reaches the handler of Steering, which takes it for what it is: the
\* table has no transition from running to cancelled.
Escalate(r) ==
  LET t == TaskOf[r] IN
  /\ Judged(r)
  /\ redesignCount[r] + 1 >= MaxRedesigns
  /\ Gate(r, "output", [status EXCEPT ![t] = "pending_human_review"],
          checkpoints \cup {t}, redesignCount[r] + 1, Transition(states[t], "cancelled"))

\* The step of the redesign loop is over and the next one is awaited.
GoesOn(r, from, to) ==
  /\ Awaiting(r, from)
  /\ pc' = [pc EXCEPT ![r] = to]
  /\ UNCHANGED <<dbVars, activeStatuses, heartbeat, held, redesignCount, options,
                 sweepQueue, crashes, steeringVars>>

RedesignDone(r)     == GoesOn(r, "redesign", "resecure")
RedesignAllowed(r)  == GoesOn(r, "resecure", "rerun")
RedesignRunFails(r) == GoesOn(r, "rerun", "rerunRetry")   \* retried once, 2 s later

\* The swarm of a redesign is given options, not options with the taskId: without
\* one it spawns its agents for a task named like the prompt, whose foreign key
\* the database rejects, and the run fails.
RedesignRunDone(r) ==
  /\ options[r].taskId
  /\ GoesOn(r, "rerun", "rejudge") \/ GoesOn(r, "rerunRetry", "rejudge")

\* Mutant: a denied redesign is designed again instead of ending the loop.
RedesignDeniedRetries(r) == GoesOn(r, "resecure", "redesign")

\* Security denies the redesign: the loop ends with the rejected output.
RedesignDenied(r) ==
  /\ Awaiting(r, "resecure")
  /\ Gate(r, "output", status, checkpoints, redesignCount[r], states[TaskOf[r]])

-----------------------------------------------------------------------------
(* Steps 11 and 12: output and finalisation.                               *)

\* Mutant: off by one, the escalated run is not recognised.
FinaliseOffByOne(r) ==
  /\ pc[r] = "finalise"
  /\ status' = [status EXCEPT ![TaskOf[r]] =
                  IF redesignCount[r] > MaxRedesigns THEN "failed" ELSE "completed"]
  /\ pc' = [pc EXCEPT ![r] = "clear"]
  /\ UNCHANGED <<prompt, checkpoints, activeStatuses, heartbeat, held, redesignCount,
                 options, sweepQueue, crashes, steeringVars>>

\* The final status is written.
Finalise(r) ==
  /\ pc[r] = "finalise"
  /\ status' = [status EXCEPT ![TaskOf[r]] =
                  IF redesignCount[r] >= MaxRedesigns THEN "failed" ELSE "completed"]
  /\ pc' = [pc EXCEPT ![r] = "clear"]
  /\ UNCHANGED <<prompt, checkpoints, activeStatuses, heartbeat, held, redesignCount,
                 options, sweepQueue, crashes, steeringVars>>

\* The checkpoints are deleted and the output is being saved to the working
\* directory.
ClearCheckpoints(r) ==
  /\ pc[r] = "clear"
  /\ checkpoints' = checkpoints \ {TaskOf[r]}
  /\ pc' = [pc EXCEPT ![r] = "save"]
  /\ UNCHANGED <<status, prompt, activeStatuses, heartbeat, held, redesignCount,
                 options, sweepQueue, crashes, steeringVars>>

\* The output is saved, or saving it failed and was logged.
SaveDone(r) ==
  /\ Awaiting(r, "save")
  /\ Cleanup(TaskOf[r])
  /\ Leave(r)
  /\ UNCHANGED <<dbVars, sweepQueue, crashes>>

-----------------------------------------------------------------------------
(* Steering commands, recovery and crashes.                                *)

\* The task is known to the orchestrator; steering may still refuse the request.
Command(t) ==
  /\ LoopFree /\ t \in activeStatuses
  /\ UNCHANGED <<dbVars, activeStatuses, heartbeat, runVars, sweepQueue, crashes>>

Pause(t)       == Command(t) /\ RequestPause(t)
Resume(t)      == Command(t) /\ RequestResume(t)
Redirect(t, p) == Command(t) /\ RequestRedirect(t, p)
Cancel(t)      == Command(t) /\ RequestCancel(t)

\* Mutant: every task with a checkpoint counts as incomplete.
CheckpointedTasks(row) == {t \in checkpoints : row[t] # "none"}

\* getIncompleteTaskIds over a status column.
IncompleteTasks(row) == {t \in checkpoints : row[t] \in Incomplete}

\* recoverIncompleteTasks begins: running tasks whose heartbeat is older than five
\* minutes become pending, then the incomplete tasks are read.  The sweep waits
\* for free invocation slots: that is the bound Run.
Sweep ==
  /\ Sweeping /\ LoopFree
  /\ \E stale \in SUBSET {t \in Task \ heartbeat : status[t] = "running"} :
       status' = [t \in Task |-> IF t \in stale THEN "pending" ELSE status[t]]
  /\ sweepQueue' = IncompleteTasks(status')
  /\ \A t \in sweepQueue' : \E r \in RunsOf(t) : pc[r] = "idle"
  /\ UNCHANGED <<prompt, checkpoints, activeStatuses, heartbeat, runVars, crashes,
                 steeringVars>>

\* The sweep re-executes one of them from the first step, with the prompt of its
\* row; run() returns to the loop at its first await.
Recover(r) ==
  LET t == TaskOf[r] IN
  /\ t \in sweepQueue
  /\ \A q \in Run : pc[q] \notin Sync
  /\ pc[r] = "idle"
  /\ sweepQueue' = sweepQueue \ {t}
  /\ pc' = [pc EXCEPT ![r] = "start"]
  /\ options' = [options EXCEPT ![r] = [prompt |-> prompt[t], taskId |-> TRUE]]
  /\ UNCHANGED <<dbVars, activeStatuses, heartbeat, held, redesignCount, crashes,
                 steeringVars>>

\* The process dies, between any two writes, and is started again.
Crash ==
  /\ crashes < MaxCrashes
  /\ crashes' = crashes + 1
  /\ activeStatuses' = {}
  /\ heartbeat' = {}
  /\ states' = [t \in Task |-> Unregistered]
  /\ redirectPayloads' = [t \in Task |-> NoPrompt]
  /\ pc' = [r \in Run |-> "idle"]
  /\ held' = [r \in Run |-> FALSE]
  /\ redesignCount' = [r \in Run |-> 0]
  /\ options' = [r \in Run |-> NoOptions]
  /\ sweepQueue' = {}
  /\ UNCHANGED dbVars

-----------------------------------------------------------------------------

\* The steps of one invocation after its creation.
RunStep(r) ==
  \/ Start(r) \/ BudgetDenied(r) \/ Register(r) \/ MarkRunning(r)
  \/ Wake(r) \/ PauseTimeout(r)
  \/ MemoryDone(r) \/ ForgeDone(r) \/ SimulateDone(r)
  \/ SecurityAllows(r) \/ SecurityDenies(r) \/ SwarmDone(r)
  \/ Fails(r)
  \/ JudgeApproves(r) \/ JudgeRejects(r) \/ BudgetCapStops(r) \/ Escalate(r)
  \/ RedesignDone(r) \/ RedesignAllowed(r) \/ RedesignDenied(r)
  \/ RedesignRunFails(r) \/ RedesignRunDone(r)
  \/ Finalise(r) \/ ClearCheckpoints(r) \/ SaveDone(r)

Steer(t) == Pause(t) \/ Resume(t) \/ Cancel(t) \/ (\E p \in Prompt : Redirect(t, p))

Next ==
  \/ \E r \in Run, p \in Prompt : Submit(r, p)
  \/ \E r \in Run : RunStep(r)
  \/ \E t \in Task : Steer(t)
  \/ Sweep
  \/ \E r \in Run : Recover(r)
  \/ Crash

Spec == Init /\ [][Next]_vars

\* Every awaited call is answered (they have timeouts), every timer fires, and a
\* synchronous segment runs to its end.  Nobody has to send a command, submit a
\* task or crash.
Fairness ==
  /\ \A r \in Run : WF_vars(RunStep(r)) /\ WF_vars(Recover(r))
  /\ WF_vars(Sweep)

FairSpec == Spec /\ Fairness

-----------------------------------------------------------------------------
(* Properties.                                                             *)

\* The steering states a request passes through are never left behind: between
\* two segments a task is running, paused or cancelled, because the handlers of
\* Steering run inside the request (so handleSteering never sees redirecting).
SteeringSettled ==
  \A t \in Task : states[t] \in {Unregistered, "running", "paused", "cancelled"}

\* Nothing of a task stays behind in memory once its last invocation is gone: no
\* heartbeat timer keeps ticking, no status answers for it, and no steering state
\* or redirect prompt waits for a task that cannot read it.
NothingLeaks ==
  \A t \in Task :
    /\ t \in heartbeat => LiveRun(t)
    /\ t \in activeStatuses => LiveRun(t)
    /\ states[t] # Unregistered => t \in activeStatuses
    /\ redirectPayloads[t] # NoPrompt => states[t] # Unregistered

\* The run has not reached its first checkpoint: the row may have no checkpoint yet.
Creating(t) == \E r \in RunsOf(t) : pc[r] \in {"start", "inserted", "updated"}

\* A task without an outcome has a checkpoint, so that the sweep of the next process
\* finds it, but for one whose process has died between its creation and the first
\* checkpoint: nobody executes it any more.  Such a row says pending, or, if it was
\* inserted over HTTP, perhaps already running (orchestrator.ts:214); an escalated
\* task is never lost.
LostOnlyInCreation ==
  \A t \in Task :
    status[t] \in Incomplete /\ t \notin checkpoints =>
      /\ status[t] = "pending" \/ (status[t] = "running" /\ t \in HttpTask)
      /\ Creating(t) \/ (crashes > 0 /\ ~LiveRun(t))

\* No invocation is started for a task whose row says it has ended, whatever
\* checkpoints a crash left behind.
EndedIsNotReexecuted ==
  [][\A r \in Run : status[TaskOf[r]] \in Terminal => ~(pc[r] = "idle" /\ pc'[r] # "idle")]_vars

\* While a task is escalated to a human, the invocation that escalated it will
\* not report it completed: the redesign counter outlives the escalation.
EscalatedNeverCompletes ==
  [][\A t \in Task : status[t] = "pending_human_review" => status'[t] # "completed"]_vars

\* Pausing works at every gate: a paused task enters a step that asks
\* handleSteering first only when the one-hour limit of the pause has passed.
PauseHoldsAtGates ==
  [][\A r \in Run :
       /\ states[TaskOf[r]] = "paused"
       /\ pc'[r] \in GatedStep \cup {"finalise"}
       /\ pc'[r] # pc[r]
       => held'[r] \/ held[r]]_vars

\* A user who was told that a redirect was accepted does not get the answer to the
\* old prompt: no task completes while a redirect prompt is pending.
\* (docs: "Change a task's prompt mid-execution".)
RedirectTakesEffect ==
  [][\A t \in Task :
       status[t] \in Incomplete /\ redirectPayloads[t] \notin {NoPrompt, prompt[t]}
         => status'[t] # "completed"]_vars

\* The sweep is for tasks that are stuck: a task that an invocation is executing
\* is not executed a second time beside it.
OneRunPerTask ==
  \A q, r \in Run : TaskOf[q] = TaskOf[r] /\ pc[q] # "idle" /\ pc[r] # "idle" => q = r

\* Agents of a paused task stop at the next checkpoint: the verdict that finds the
\* task paused does not start another redesign.
PauseStopsRedesign ==
  [][\A r \in Run :
       states[TaskOf[r]] = "paused" /\ pc[r] \in {"judge", "rejudge"}
         => pc'[r] # "redesign"]_vars

\* The abstract task the orchestrator implements.
Contract == INSTANCE TaskContract WITH
  phase <- [t \in Task |-> IF status[t] = "none" THEN "absent"
                           ELSE IF status[t] \in Incomplete THEN "open" ELSE status[t]],
  cancelAsked <- {t \in Task : status[t] \in Incomplete /\ states[t] = "cancelled"}

\* In a process that does not sweep, the orchestrator implements the contract: an
\* outcome is final, and an accepted cancellation is never answered by completed.
ContractSpec == Contract!Spec

\* The contract that is left when invocations of a task may overlap.
Shared == INSTANCE SharedTaskContract WITH
  phase <- [t \in Task |-> IF status[t] = "none" THEN "absent"
                           ELSE IF status[t] \in Incomplete THEN "open" ELSE status[t]],
  busy <- {t \in Task : LiveRun(t)},
  deaths <- crashes

\* In every process, work on a task is taken up only while it has no outcome, the
\* last invocation to leave leaves an outcome behind, however the invocations of
\* the task overlapped, unless the process has died, and a task nobody executes
\* keeps its row as it is.
SharedContractSpec == Shared!Spec

\* A client that reads the outcome of a task nobody executes reads it for ever:
\* neither the sweep nor another task's invocation takes it up again.
OutcomeStands ==
  [][\A t \in Task : status[t] \in Terminal /\ ~LiveRun(t)
       => ~LiveRun(t)' /\ status'[t] = status[t]]_vars

\* Only a crash abandons a task: when its last invocation returns or throws, the
\* row is not left undecided.
NothingAbandoned ==
  [][\A t \in Task : LiveRun(t) /\ ~LiveRun(t)' /\ crashes' = crashes
       => status'[t] \notin Incomplete]_vars

\* A checkpointed task that has not ended reaches an outcome, across crashes and
\* whatever the user pauses: a pause is limited, a lost task is swept up, and the
\* invocations the sweep adds all come to an end.
Settles == \A t \in Task : t \in checkpoints ~> status[t] \in Terminal

\* Every invocation of run() returns or throws, also the ones a sweep started
\* beside it and the ones the user keeps pausing and resuming.
EveryRunEnds == \A r \in Run : pc[r] # "idle" ~> pc[r] = "idle"

\* How far an invocation at step p is from its end, in moves, when c redesigns
\* have been made: the steps after p, five more for each redesign that is left,
\* and the polling of a pause before each of them.
Ahead ==
  [p \in PC |->
     CASE p = "idle" -> 0 [] p = "save" -> 1 [] p = "clear" -> 2 [] p = "finalise" -> 3
       [] p = "output" -> 4 [] p \in {"judge", "rejudge"} -> 5 [] p \in {"run", "rerunRetry"} -> 6
       [] p \in {"security", "rerun"} -> 7 [] p \in {"simulate", "resecure"} -> 8
       [] p \in {"forge", "redesign"} -> 9 [] p = "memory" -> 10 [] p = "mark" -> 11
       [] p \in {"inserted", "updated"} -> 12 [] p = "start" -> 13]
RedesignsLeft(p, c) ==
  IF p \in {"idle", "save", "clear", "finalise", "output"} THEN 0
  ELSE IF p \in {"start", "inserted", "updated", "mark"} THEN MaxRedesigns ELSE MaxRedesigns - c
Distance(p, polls, c) == 2 * (Ahead[p] + 5 * RedesignsLeft(p, c)) + polls
MovesLeft(r) == Distance(pc[r], IF held[r] THEN 1 ELSE 0, redesignCount[r])

\* A live invocation only ever moves towards its end, whatever the judges answer,
\* whatever the user pauses, redirects and resumes, and whatever other invocations
\* of the same task do: run() is never started over, no redesign is made twice.
OnlyAdvances ==
  [][\A r \in Run : pc[r] # "idle" =>
       \/ UNCHANGED <<pc[r], held[r], redesignCount[r]>>
       \/ MovesLeft(r)' < MovesLeft(r)]_vars

-----------------------------------------------------------------------------
(* The inductive invariants behind the properties.                         *)

\* At most one invocation is inside a synchronous segment.
OneSegment == \A q, r \in Run : pc[q] \in Sync /\ pc[r] \in Sync => q = r

\* What is known of an invocation from where it is.
RunInv ==
  \A r \in Run :
    /\ redesignCount[r] = MaxRedesigns => pc[r] \in {"output", "finalise", "clear", "save"}
    /\ held[r] => pc[r] \in GatedStep
    /\ pc[r] = "output" => held[r]
    /\ pc[r] = "mark" => TaskOf[r] \in checkpoints
    /\ pc[r] = "clear" => status[TaskOf[r]] \in Terminal
    /\ pc[r] \in Sync => TaskOf[r] \notin sweepQueue
    /\ pc[r] = "start" /\ status[TaskOf[r]] # "none" /\ TaskOf[r] \notin HttpTask
         => TaskOf[r] \in checkpoints

\* What the sweep has still to re-execute has not ended since it was read.
SweepReadsIncomplete == sweepQueue \subseteq IncompleteTasks(status)

\* An undecided task that is being executed has an invocation that has still to
\* decide it: not every one of them is past its final write.
UndecidedIsOwned ==
  \A t \in Task : LiveRun(t) /\ status[t] \in Incomplete
    => \E r \in RunsOf(t) : pc[r] \notin {"idle", "clear", "save"}

\* In every process.
SafetyInv ==
  /\ TypeOK
  /\ OneSegment
  /\ RunInv
  /\ SweepReadsIncomplete
  /\ SteeringSettled
  /\ NothingLeaks
  /\ LostOnlyInCreation

\* In a process that does not sweep, what the row of a task says follows from the
\* position of its only invocation.
RowFollows(r) ==
  LET t == TaskOf[r]
      decided == pc[r] \in {"clear", "save"}
      underway == pc[r] \notin {"idle", "start", "clear", "save"}
  IN /\ pc[r] = "start" => status[t] \in {"none", "pending"}
     /\ pc[r] \in {"start", "inserted", "updated"} => t \notin activeStatuses
     /\ decided => status[t] \in Terminal
     /\ underway => status[t] \in Incomplete
     /\ underway /\ status[t] = "pending_human_review" => redesignCount[r] = MaxRedesigns
     /\ pc[r] = "finalise" => states[t] # "cancelled"

SingleRunInv == \A r \in Run : RowFollows(r)

EmbeddedInv ==
  /\ SafetyInv
  /\ sweepQueue = {}
  /\ OneRunPerTask
  /\ SingleRunInv

=============================================================================
