------------------------ MODULE Orchestrator_proofs ------------------------
(***************************************************************************)
(* Machine-checked proofs about module Orchestrator, for every set of      *)
(* tasks, prompts and invocations and every number of crashes.             *)
(***************************************************************************)
EXTENDS Orchestrator, TLAPS

USE ConstantsAssumption, NoPromptAssumption

Settled == {Unregistered, "running", "paused", "cancelled"}

-----------------------------------------------------------------------------
(* Lemmas about steering.                                                  *)

\* The handlers of Steering bring every request to a settled state, and the
\* steering:cancelled event of an escalation moves no settled state.
LEMMA TransitionSettles ==
  /\ Transition("pausing", "paused") = "paused"
  /\ Transition("resuming", "running") = "running"
  /\ Transition("redirecting", "running") = "running"
  /\ Transition("cancelling", "cancelled") = "cancelled"
  /\ \A s \in Settled : Transition(s, "cancelled") = s
  BY DEF Transition, ValidTransitions, Unregistered, Settled

\* In a settled state handleSteering answers cancel, wait or continue, never
\* redirect.
LEMMA GateCases ==
  ASSUME NEW r \in Run, NEW step, NEW row, NEW saved, NEW count, NEW s \in Settled,
         Gate(r, step, row, saved, count, s)
  PROVE  /\ UNCHANGED <<prompt, sweepQueue, crashes>>
         /\ \/ s = "cancelled" /\ CancelledResult(r, row, saved)
            \/ /\ s # "cancelled"
               /\ status' = row
               /\ states' = [states EXCEPT ![TaskOf[r]] = s]
               /\ redesignCount' = [redesignCount EXCEPT ![r] = count]
               /\ \/ s = "paused" /\ Hold(r, step, saved)
                  \/ s # "paused" /\ Proceed(r, step, saved)
  BY DEF Gate, HandleSteering, Settled, Unregistered

-----------------------------------------------------------------------------
(* SafetyInv is inductive.                                                 *)

\* A step of one invocation loses no task, if the task it executes has a checkpoint
\* afterwards, or an outcome, or is still being created.
LEMMA LossByRun ==
  ASSUME SafetyInv, NEW r \in Run,
         \A q \in Run \ {r} : pc'[q] = pc[q],
         \A u \in Task \ {TaskOf[r]} :
           status'[u] = status[u] /\ (u \in checkpoints => u \in checkpoints'),
         crashes' = crashes,
         status'[TaskOf[r]] \in Incomplete /\ TaskOf[r] \notin checkpoints' =>
           /\ pc'[r] \in {"start", "inserted", "updated"}
           /\ status'[TaskOf[r]] = "pending" \/ (status'[TaskOf[r]] = "running" /\ TaskOf[r] \in HttpTask)
  PROVE  LostOnlyInCreation'
  <1> SUFFICES ASSUME NEW u \in Task, status'[u] \in Incomplete, u \notin checkpoints'
               PROVE  /\ status'[u] = "pending" \/ (status'[u] = "running" /\ u \in HttpTask)
                      /\ Creating(u)' \/ (crashes' > 0 /\ ~LiveRun(u)')
    BY DEF LostOnlyInCreation
  <1>1. CASE u = TaskOf[r]
    BY <1>1 DEF Creating, RunsOf
  <1>2. CASE u # TaskOf[r]
    <2>1. /\ status[u] = "pending" \/ (status[u] = "running" /\ u \in HttpTask)
          /\ Creating(u) \/ (crashes > 0 /\ ~LiveRun(u))
      BY <1>2 DEF SafetyInv, LostOnlyInCreation
    <2>2. \A q \in RunsOf(u) : pc'[q] = pc[q]
      BY <1>2 DEF RunsOf
    <2> QED
      BY <1>2, <2>1, <2>2 DEF Creating, LiveRun, RunsOf
  <1> QED
    BY <1>1, <1>2

\* Between two segments an undecided task that is being executed has a checkpoint.
LEMMA ExecutedIsCheckpointed ==
  ASSUME SafetyInv, LoopFree, NEW r \in Run, pc[r] # "idle", status[TaskOf[r]] \in Incomplete
  PROVE  TaskOf[r] \in checkpoints
  BY DEF SafetyInv, LostOnlyInCreation, Creating, LiveRun, RunsOf, LoopFree, Sync

\* The end of a segment preserves the invariant, for any status column, set of
\* checkpoints and counter the segment can have prepared for task t.
LEMMA GatePreserves ==
  ASSUME SafetyInv, NEW r \in Run, NEW step \in GatedStep,
         NEW row \in [Task -> Status], NEW saved \in SUBSET Task, NEW count \in 0 .. MaxRedesigns,
         pc[r] # "idle",
         \A q \in Run : pc[q] \in Sync => q = r,
         \A u \in Task \ {TaskOf[r]} : row[u] = status[u],
         row[TaskOf[r]] \in Incomplete => TaskOf[r] \in saved,
         saved \in {checkpoints, checkpoints \cup {TaskOf[r]}},
         count = MaxRedesigns => step = "output",
         TaskOf[r] \notin sweepQueue,
         Gate(r, step, row, saved, count, states[TaskOf[r]])
  PROVE  SafetyInv'
  <1> DEFINE t == TaskOf[r]
  <1>t. t \in Task
    OBVIOUS
  <1>s. states[t] \in Settled
    BY <1>t DEF SafetyInv, SteeringSettled, Settled
  <1>g. /\ UNCHANGED <<prompt, sweepQueue, crashes>>
        /\ \/ states[t] = "cancelled" /\ CancelledResult(r, row, saved)
           \/ /\ states[t] # "cancelled"
              /\ status' = row
              /\ states' = [states EXCEPT ![t] = states[t]]
              /\ redesignCount' = [redesignCount EXCEPT ![r] = count]
              /\ \/ states[t] = "paused" /\ Hold(r, step, saved)
                 \/ states[t] # "paused" /\ Proceed(r, step, saved)
    BY <1>s, GateCases
  <1>1. CASE CancelledResult(r, row, saved)
    <2> USE <1>1, <1>t, <1>g DEF CancelledResult, Cleanup, Leave
    <2>1. TypeOK'
      BY DEF SafetyInv, TypeOK, SteeringTypeOK, PC, Status, Terminal, Options, NoOptions
    <2>2. OneSegment' /\ RunInv'
      BY DEF SafetyInv, TypeOK, OneSegment, RunInv, Sync, GatedStep, Status, Terminal
    <2>3. SweepReadsIncomplete'
      BY DEF SafetyInv, TypeOK, RunInv, Sync, SweepReadsIncomplete, IncompleteTasks
    <2>4. SteeringSettled' /\ NothingLeaks'
      BY DEF SafetyInv, TypeOK, SteeringTypeOK, SteeringSettled, NothingLeaks, LiveRun, RunsOf
    <2>5. LostOnlyInCreation'
      BY LossByRun DEF SafetyInv, TypeOK, Incomplete
    <2> QED
      BY <2>1, <2>2, <2>3, <2>4, <2>5 DEF SafetyInv
  <1>2. CASE /\ states[t] # "cancelled"
             /\ status' = row
             /\ states' = states
             /\ redesignCount' = [redesignCount EXCEPT ![r] = count]
             /\ \/ Hold(r, step, saved)
                \/ Proceed(r, step, saved)
    <2> USE <1>2, <1>t, <1>g DEF Hold, Proceed
    <2>1. TypeOK'
      <3>1. CASE Hold(r, step, saved)
        BY <3>1 DEF SafetyInv, TypeOK, SteeringTypeOK, PC
      <3>2. CASE Proceed(r, step, saved)
        BY <3>2 DEF SafetyInv, TypeOK, SteeringTypeOK, PC, Sync
      <3> QED
        BY <3>1, <3>2
    <2>2. OneSegment' /\ RunInv'
      BY DEF SafetyInv, TypeOK, OneSegment, RunInv, Sync, GatedStep, Status, Terminal
    <2>3. SweepReadsIncomplete'
      BY DEF SafetyInv, TypeOK, RunInv, Sync, SweepReadsIncomplete, IncompleteTasks
    <2>4. SteeringSettled' /\ NothingLeaks'
      BY DEF SafetyInv, TypeOK, SteeringTypeOK, SteeringSettled, NothingLeaks, LiveRun, RunsOf, GatedStep
    <2>5. LostOnlyInCreation'
      BY LossByRun DEF SafetyInv, TypeOK
    <2> QED
      BY <2>1, <2>2, <2>3, <2>4, <2>5 DEF SafetyInv
  <1>3. states[t] # "cancelled" /\ states' = [states EXCEPT ![t] = states[t]] => states' = states
    BY DEF SafetyInv, TypeOK, SteeringTypeOK
  <1> QED
    BY <1>1, <1>2, <1>3, <1>g

\* An invocation that ends its task, by a result or by throwing, preserves it too.
LEMMA EndRunPreserves ==
  ASSUME SafetyInv, NEW r \in Run, NEW s \in Terminal \cup {"none"},
         s = "none" => status[TaskOf[r]] = "none",
         \A q \in Run : pc[q] \in Sync => q = r,
         TaskOf[r] \notin sweepQueue,
         EndRun(r, s), UNCHANGED checkpoints
  PROVE  SafetyInv'
  <1> USE DEF EndRun, Cleanup, Leave
  <1>1. TypeOK'
    BY DEF SafetyInv, TypeOK, SteeringTypeOK, PC, Status, Options, NoOptions
  <1>2. OneSegment' /\ RunInv'
    BY DEF SafetyInv, TypeOK, OneSegment, RunInv, Sync, GatedStep, Status, Terminal
  <1>3. SteeringSettled' /\ NothingLeaks'
    BY DEF SafetyInv, TypeOK, SteeringTypeOK, SteeringSettled, NothingLeaks, LiveRun, RunsOf
  <1>4. LostOnlyInCreation'
    BY LossByRun DEF SafetyInv, TypeOK, Terminal, Incomplete
  <1>5. SweepReadsIncomplete'
    BY DEF SafetyInv, TypeOK, RunInv, Sync, SweepReadsIncomplete, IncompleteTasks
  <1> QED
    BY <1>1, <1>2, <1>3, <1>4, <1>5 DEF SafetyInv

\* A step whose result arrives and is checkpointed.
LEMMA StepDonePreserves ==
  ASSUME SafetyInv, NEW r \in Run, NEW step \in GatedStep,
         LoopFree, pc[r] \notin {"idle", "output", "save"}, StepDone(r, step)
  PROVE  SafetyInv'
  <1>1. status \in [Task -> Status] /\ checkpoints \cup {TaskOf[r]} \in SUBSET Task
    BY DEF SafetyInv, TypeOK
  <1>2. redesignCount[r] \in 0 .. MaxRedesigns /\ redesignCount[r] # MaxRedesigns
    BY DEF SafetyInv, TypeOK, RunInv, LoopFree, Sync
  <1>3. TaskOf[r] \in checkpoints \cup {TaskOf[r]}
    OBVIOUS
  <1> QED
    BY <1>1, <1>2, <1>3, GatePreserves DEF StepDone, LoopFree

LEMMA SubmitPreserves ==
  ASSUME SafetyInv, NEW r \in Run, NEW p \in Prompt, Submit(r, p)
  PROVE  SafetyInv'
  <1> USE DEF Submit, LoopFree, dbVars, steeringVars
  <1>1. TypeOK'
    BY DEF SafetyInv, TypeOK, SteeringTypeOK, PC, Sync, Status, Incomplete, Options, NoOptions
  <1>2. OneSegment' /\ RunInv'
    BY DEF SafetyInv, TypeOK, OneSegment, RunInv, Sync, GatedStep, LiveRun, RunsOf
  <1>3. SteeringSettled' /\ NothingLeaks'
    BY DEF SafetyInv, TypeOK, SteeringSettled, NothingLeaks, LiveRun, RunsOf
  <1>4. SweepReadsIncomplete'
    BY DEF SafetyInv, TypeOK, RunInv, Sync, SweepReadsIncomplete, IncompleteTasks
  <1>5. LostOnlyInCreation'
    BY LossByRun DEF SafetyInv, TypeOK, Incomplete
  <1> QED
    BY <1>1, <1>2, <1>3, <1>4, <1>5 DEF SafetyInv

\* The synchronous segments of initialisation and finalisation.
LEMMA SegmentPreserves ==
  ASSUME SafetyInv, NEW r \in Run,
         Start(r) \/ Register(r) \/ Finalise(r) \/ ClearCheckpoints(r)
  PROVE  SafetyInv'
  <1> USE DEF SafetyInv, steeringVars
  <1>0. \A q \in Run : pc[q] \in Sync => q = r
    BY DEF OneSegment, Sync, Start, Register, Finalise, ClearCheckpoints
  <1>1. CASE Start(r)
    <2> USE <1>1 DEF Start
    <2>1. TypeOK'
      BY DEF TypeOK, SteeringTypeOK, PC, Sync, Status, Incomplete, Options, NoOptions
    <2>2. OneSegment' /\ RunInv'
      BY <1>0 DEF TypeOK, OneSegment, RunInv, Sync, GatedStep
    <2>3. SteeringSettled' /\ NothingLeaks'
      BY DEF TypeOK, RunInv, SteeringSettled, NothingLeaks, LiveRun, RunsOf
    <2>4. SweepReadsIncomplete'
      BY <1>0 DEF SafetyInv, TypeOK, RunInv, Sync, SweepReadsIncomplete, IncompleteTasks
    <2>5. LostOnlyInCreation'
      BY LossByRun DEF TypeOK, RunInv, Incomplete, Status
    <2> QED
      BY <2>1, <2>2, <2>3, <2>4, <2>5
  <1>2. CASE Register(r)
    <2> USE <1>2 DEF Register
    <2>1. TypeOK'
      BY DEF TypeOK, SteeringTypeOK, SteeringState, PC, Sync
    <2>2. OneSegment' /\ RunInv'
      BY <1>0 DEF TypeOK, OneSegment, RunInv, Sync, GatedStep
    <2>3. SteeringSettled' /\ NothingLeaks'
      BY DEF TypeOK, SteeringTypeOK, SteeringSettled, NothingLeaks, LiveRun, RunsOf, Unregistered
    <2>4. SweepReadsIncomplete'
      BY <1>0 DEF SafetyInv, TypeOK, RunInv, Sync, SweepReadsIncomplete, IncompleteTasks
    <2>5. LostOnlyInCreation'
      BY LossByRun DEF TypeOK
    <2> QED
      BY <2>1, <2>2, <2>3, <2>4, <2>5
  <1>3. CASE Finalise(r)
    <2> USE <1>3 DEF Finalise
    <2>1. TypeOK'
      BY DEF TypeOK, SteeringTypeOK, PC, Sync, Status, Terminal
    <2>2. OneSegment' /\ RunInv'
      BY <1>0 DEF TypeOK, OneSegment, RunInv, Sync, GatedStep, Terminal
    <2>3. SteeringSettled' /\ NothingLeaks'
      BY DEF TypeOK, SteeringSettled, NothingLeaks, LiveRun, RunsOf
    <2>4. SweepReadsIncomplete'
      BY <1>0 DEF SafetyInv, TypeOK, RunInv, Sync, SweepReadsIncomplete, IncompleteTasks
    <2>5. LostOnlyInCreation'
      BY LossByRun DEF TypeOK, Incomplete
    <2> QED
      BY <2>1, <2>2, <2>3, <2>4, <2>5
  <1>4. CASE ClearCheckpoints(r)
    <2> USE <1>4 DEF ClearCheckpoints
    <2>1. TypeOK'
      BY DEF TypeOK, SteeringTypeOK, PC
    <2>2. OneSegment' /\ RunInv'
      BY <1>0 DEF TypeOK, OneSegment, RunInv, Sync, GatedStep
    <2>3. SteeringSettled' /\ NothingLeaks'
      BY DEF TypeOK, RunInv, SteeringSettled, NothingLeaks, LiveRun, RunsOf
    <2>4. SweepReadsIncomplete'
      BY DEF SafetyInv, TypeOK, RunInv, Sync, SweepReadsIncomplete, IncompleteTasks
    <2>5. LostOnlyInCreation'
      BY LossByRun DEF TypeOK, RunInv, Incomplete, Terminal
    <2> QED
      BY <2>1, <2>2, <2>3, <2>4, <2>5
  <1> QED
    BY <1>1, <1>2, <1>3, <1>4

\* The verdicts: a rejection that goes on, and those that lead to the output.
LEMMA VerdictPreserves ==
  ASSUME SafetyInv, NEW r \in Run,
         JudgeRejects(r) \/ BudgetCapStops(r) \/ Escalate(r) \/ RedesignDenied(r)
  PROVE  SafetyInv'
  <1>0. /\ LoopFree
        /\ pc[r] \in {"judge", "rejudge", "resecure"}
        /\ ~held[r]
    BY DEF JudgeRejects, BudgetCapStops, Escalate, RedesignDenied, Judged, Awaiting
  <1>1. /\ status \in [Task -> Status]
        /\ checkpoints \in SUBSET Task
        /\ TaskOf[r] \in Task
        /\ redesignCount[r] \in 0 .. MaxRedesigns
        /\ redesignCount[r] # MaxRedesigns
        /\ redesignCount[r] + 1 \in 0 .. MaxRedesigns
    BY <1>0 DEF SafetyInv, TypeOK, RunInv
  <1>2. \A q \in Run : pc[q] \in Sync => q = r
    BY <1>0 DEF LoopFree
  <1>3. sweepQueue = {}
    BY <1>0 DEF LoopFree
  <1>4. "output" \in GatedStep
    BY DEF GatedStep
  <1>5. CASE JudgeRejects(r)
    <2> USE <1>5 DEF JudgeRejects, steeringVars
    <2>1. TypeOK'
      BY <1>1 DEF SafetyInv, TypeOK, SteeringTypeOK, PC, RedesignStep
    <2>2. OneSegment' /\ RunInv'
      BY <1>0, <1>1 DEF SafetyInv, TypeOK, OneSegment, RunInv, Sync, GatedStep, LoopFree
    <2>3. SteeringSettled' /\ NothingLeaks'
      BY <1>0 DEF SafetyInv, TypeOK, SteeringSettled, NothingLeaks, LiveRun, RunsOf
    <2>4. SweepReadsIncomplete'
      BY <1>0, <1>1 DEF SafetyInv, TypeOK, RunInv, Sync, SweepReadsIncomplete, IncompleteTasks
    <2>5. LostOnlyInCreation'
      BY LossByRun DEF SafetyInv, TypeOK
    <2> QED
      BY <1>3, <2>1, <2>2, <2>3, <2>4, <2>5 DEF SafetyInv
  <1>6. CASE BudgetCapStops(r)
    <2>1. Gate(r, "output", status, checkpoints \cup {TaskOf[r]}, redesignCount[r] + 1,
               states[TaskOf[r]])
      BY <1>6 DEF BudgetCapStops
    <2> QED
      BY <1>0, <1>1, <1>2, <1>3, <1>4, <2>1, GatePreserves
  <1>7. CASE Escalate(r)
    <2> DEFINE row == [status EXCEPT ![TaskOf[r]] = "pending_human_review"]
    <2>1. row \in [Task -> Status] /\ \A u \in Task \ {TaskOf[r]} : row[u] = status[u]
      BY <1>1 DEF Status, Incomplete
    <2>2. states[TaskOf[r]] \in Settled
      BY <1>1 DEF SafetyInv, SteeringSettled, Settled
    <2>3. Gate(r, "output", row, checkpoints \cup {TaskOf[r]}, redesignCount[r] + 1,
               states[TaskOf[r]])
      BY <1>7, <2>2, TransitionSettles DEF Escalate
    <2> HIDE DEF row
    <2> QED
      BY <1>0, <1>1, <1>2, <1>3, <1>4, <2>1, <2>3, GatePreserves
  <1>8. CASE RedesignDenied(r)
    <2>1. Gate(r, "output", status, checkpoints, redesignCount[r], states[TaskOf[r]])
      BY <1>8 DEF RedesignDenied
    <2>2. status[TaskOf[r]] \in Incomplete => TaskOf[r] \in checkpoints
      BY <1>0, ExecutedIsCheckpointed
    <2> QED
      BY <1>0, <1>1, <1>2, <1>3, <1>4, <2>1, <2>2, GatePreserves
  <1> QED
    BY <1>5, <1>6, <1>7, <1>8

\* A step of the redesign loop that only moves on to the next await.
LEMMA GoesOnPreserves ==
  ASSUME SafetyInv, NEW r \in Run, NEW from \in RedesignStep, NEW to \in RedesignStep,
         GoesOn(r, from, to)
  PROVE  SafetyInv'
  <1> USE DEF GoesOn, Awaiting, LoopFree, SafetyInv, dbVars, steeringVars
  <1>1. TypeOK'
    BY DEF TypeOK, SteeringTypeOK, PC
  <1>2. OneSegment' /\ RunInv'
    BY DEF TypeOK, OneSegment, RunInv, Sync, GatedStep, RedesignStep
  <1>3. SteeringSettled' /\ NothingLeaks'
    BY DEF TypeOK, SteeringSettled, NothingLeaks, LiveRun, RunsOf, RedesignStep
  <1>4. SweepReadsIncomplete'
    BY DEF SafetyInv, TypeOK, RunInv, Sync, SweepReadsIncomplete, IncompleteTasks
  <1>5. LostOnlyInCreation'
    <2>1. LoopFree /\ pc[r] # "idle"
      BY DEF RedesignStep
    <2>2. status[TaskOf[r]] \in Incomplete => TaskOf[r] \in checkpoints
      BY <2>1, ExecutedIsCheckpointed
    <2> QED
      BY <2>2, LossByRun DEF TypeOK
  <1> QED
    BY <1>1, <1>2, <1>3, <1>4, <1>5

\* The first gate, and the two ways a pause ends.
LEMMA HeldPreserves ==
  ASSUME SafetyInv, NEW r \in Run, MarkRunning(r) \/ Wake(r) \/ PauseTimeout(r)
  PROVE  SafetyInv'
  <1>1. /\ status \in [Task -> Status]
        /\ checkpoints \in SUBSET Task
        /\ TaskOf[r] \in Task
        /\ redesignCount[r] \in 0 .. MaxRedesigns
        /\ 0 \in 0 .. MaxRedesigns
    BY DEF SafetyInv, TypeOK
  <1>2. LoopFree /\ held[r] => pc[r] # "idle" /\ (status[TaskOf[r]] \in Incomplete => TaskOf[r] \in checkpoints)
    BY ExecutedIsCheckpointed DEF SafetyInv, RunInv, GatedStep
  <1>3. CASE MarkRunning(r)
    <2> DEFINE row == [status EXCEPT ![TaskOf[r]] = "running"]
    <2>1. row \in [Task -> Status] /\ \A u \in Task \ {TaskOf[r]} : row[u] = status[u]
      BY <1>1 DEF Status, Incomplete
    <2>2. /\ pc[r] = "mark"
          /\ TaskOf[r] \in checkpoints
          /\ \A q \in Run : pc[q] \in Sync => q = r
          /\ "memory" \in GatedStep /\ 0 # MaxRedesigns
          /\ TaskOf[r] \notin sweepQueue
      BY <1>3 DEF SafetyInv, MarkRunning, RunInv, OneSegment, Sync, GatedStep
    <2>3. Gate(r, "memory", row, checkpoints, 0, states[TaskOf[r]])
      BY <1>3 DEF MarkRunning
    <2> HIDE DEF row
    <2> QED
      BY <1>1, <2>1, <2>2, <2>3, GatePreserves
  <1>4. CASE Wake(r)
    <2>1. /\ LoopFree
          /\ pc[r] \in GatedStep
          /\ held[r]
          /\ redesignCount[r] = MaxRedesigns => pc[r] = "output"
          /\ Gate(r, pc[r], status, checkpoints, redesignCount[r], states[TaskOf[r]])
      BY <1>4 DEF SafetyInv, Wake, RunInv, GatedStep
    <2>2. pc[r] # "idle" /\ sweepQueue = {} /\ \A q \in Run : pc[q] \in Sync => q = r
      BY <2>1 DEF LoopFree, GatedStep
    <2> QED
      BY <1>1, <1>2, <2>1, <2>2, GatePreserves
  <1>5. CASE PauseTimeout(r)
    <2> USE <1>5 DEF PauseTimeout, Proceed, LoopFree, SafetyInv
    <2>1. TypeOK'
      BY <1>1 DEF TypeOK, SteeringTypeOK, PC, Sync
    <2>2. OneSegment' /\ RunInv'
      BY <1>1 DEF TypeOK, OneSegment, RunInv, Sync, GatedStep
    <2>3. SteeringSettled' /\ NothingLeaks'
      BY <1>1 DEF TypeOK, RunInv, SteeringSettled, NothingLeaks, LiveRun, RunsOf, GatedStep
    <2>4. SweepReadsIncomplete'
      BY <1>1 DEF SafetyInv, TypeOK, RunInv, Sync, SweepReadsIncomplete, IncompleteTasks
    <2>5. LostOnlyInCreation'
      BY <1>2, LossByRun DEF TypeOK
    <2> QED
      BY <2>1, <2>2, <2>3, <2>4, <2>5
  <1> QED
    BY <1>3, <1>4, <1>5

\* The output has been saved and cleanup has run.
LEMMA SaveDonePreserves ==
  ASSUME SafetyInv, NEW r \in Run, SaveDone(r)
  PROVE  SafetyInv'
  <1> USE DEF SaveDone, Awaiting, LoopFree, Cleanup, Leave, SafetyInv, dbVars
  <1>1. TypeOK'
    BY DEF TypeOK, SteeringTypeOK, PC, Options, NoOptions
  <1>2. OneSegment' /\ RunInv'
    BY DEF TypeOK, OneSegment, RunInv, Sync, GatedStep
  <1>3. SteeringSettled' /\ NothingLeaks'
    BY DEF TypeOK, SteeringTypeOK, SteeringSettled, NothingLeaks, LiveRun, RunsOf
  <1>4. SweepReadsIncomplete'
    BY DEF SafetyInv, TypeOK, RunInv, Sync, SweepReadsIncomplete, IncompleteTasks
  <1>5. LostOnlyInCreation'
    <2>1. status[TaskOf[r]] \in Incomplete => TaskOf[r] \in checkpoints
      BY ExecutedIsCheckpointed
    <2> QED
      BY <2>1, LossByRun DEF TypeOK
  <1> QED
    BY <1>1, <1>2, <1>3, <1>4, <1>5

\* A steering command that was accepted.
LEMMA SteerPreserves ==
  ASSUME SafetyInv, NEW u \in Task, Steer(u)
  PROVE  SafetyInv'
  <1> USE DEF Command, SafetyInv, dbVars, runVars
  <1>1. /\ UNCHANGED <<dbVars, activeStatuses, heartbeat, runVars, sweepQueue, crashes>>
        /\ u \in activeStatuses /\ states[u] # Unregistered
        /\ \E s \in {"paused", "running", "cancelled"} : states' = [states EXCEPT ![u] = s]
        /\ \/ UNCHANGED redirectPayloads
           \/ \E p \in Prompt : redirectPayloads' = [redirectPayloads EXCEPT ![u] = p]
    BY TransitionSettles DEF Steer, Pause, Resume, Redirect, Cancel, RequestPause, RequestResume,
       RequestRedirect, RequestCancel, Unregistered
  <1>2. TypeOK'
    BY <1>1 DEF TypeOK, SteeringTypeOK, SteeringState
  <1>3. OneSegment' /\ RunInv' /\ SweepReadsIncomplete'
    BY <1>1 DEF OneSegment, RunInv, SweepReadsIncomplete, IncompleteTasks
  <1>4. SteeringSettled' /\ LostOnlyInCreation'
    BY <1>1 DEF TypeOK, SteeringTypeOK, SteeringSettled, LostOnlyInCreation, Creating, LiveRun, RunsOf
  <1>5. NothingLeaks'
    BY <1>1 DEF TypeOK, SteeringTypeOK, NothingLeaks, LiveRun, RunsOf, Unregistered
  <1> QED
    BY <1>2, <1>3, <1>4, <1>5

\* The sweep reads the incomplete tasks, and re-executes one of them.
LEMMA SweepPreserves ==
  ASSUME SafetyInv, Sweep
  PROVE  SafetyInv'
  <1> USE DEF SafetyInv, Sweep, LoopFree, runVars, steeringVars
  <1>1. TypeOK'
    BY DEF TypeOK, SteeringTypeOK, Status, Incomplete, IncompleteTasks
  <1>2. OneSegment' /\ RunInv' /\ SweepReadsIncomplete'
    BY DEF TypeOK, OneSegment, RunInv, Sync, IncompleteTasks, SweepReadsIncomplete
  <1>3. SteeringSettled' /\ NothingLeaks'
    BY DEF SteeringSettled, NothingLeaks, LiveRun, RunsOf
  <1>4. LostOnlyInCreation'
    BY DEF TypeOK, LostOnlyInCreation, Creating, LiveRun, RunsOf, Incomplete
  <1> QED
    BY <1>1, <1>2, <1>3, <1>4

LEMMA RecoverPreserves ==
  ASSUME SafetyInv, NEW r \in Run, Recover(r)
  PROVE  SafetyInv'
  <1> USE DEF SafetyInv, Recover, dbVars, steeringVars
  <1>1. TypeOK'
    BY DEF TypeOK, SteeringTypeOK, PC, Sync, Options, NoOptions
  <1>2. OneSegment' /\ RunInv' /\ SweepReadsIncomplete'
    BY DEF TypeOK, OneSegment, RunInv, Sync, GatedStep, SweepReadsIncomplete, IncompleteTasks
  <1>3. SteeringSettled' /\ NothingLeaks'
    BY DEF TypeOK, SteeringSettled, NothingLeaks, LiveRun, RunsOf
  <1>4. LostOnlyInCreation'
    BY LossByRun DEF TypeOK, SweepReadsIncomplete, IncompleteTasks
  <1> QED
    BY <1>1, <1>2, <1>3, <1>4

LEMMA CrashPreserves ==
  ASSUME SafetyInv, Crash
  PROVE  SafetyInv'
  <1> USE DEF SafetyInv, Crash, dbVars
  <1>1. TypeOK'
    BY DEF TypeOK, SteeringTypeOK, PC, Options, NoOptions
  <1>2. OneSegment' /\ RunInv' /\ SweepReadsIncomplete'
    BY DEF OneSegment, RunInv, Sync, SweepReadsIncomplete, IncompleteTasks
  <1>3. SteeringSettled' /\ NothingLeaks'
    BY DEF SteeringSettled, NothingLeaks
  <1>4. LostOnlyInCreation'
    <2>1. crashes' > 0 /\ \A u \in Task : ~LiveRun(u)'
      BY DEF TypeOK, LiveRun, RunsOf
    <2> QED
      BY <2>1 DEF LostOnlyInCreation
  <1> QED
    BY <1>1, <1>2, <1>3, <1>4

\* Every step of an invocation.
LEMMA RunStepPreserves ==
  ASSUME SafetyInv, NEW r \in Run, RunStep(r)
  PROVE  SafetyInv'
  <1>1. CASE Start(r) \/ Register(r) \/ Finalise(r) \/ ClearCheckpoints(r)
    BY <1>1, SegmentPreserves
  <1>2. CASE BudgetDenied(r) \/ SecurityDenies(r) \/ Fails(r)
    <2>1. /\ \A q \in Run : pc[q] \in Sync => q = r
          /\ TaskOf[r] \notin sweepQueue
      BY <1>2 DEF SafetyInv, OneSegment, RunInv, BudgetDenied, SecurityDenies, Fails, Awaiting,
                  LoopFree, Sync
    <2>2. CASE Throw(r)
      <3> DEFINE s == IF status[TaskOf[r]] = "none" THEN "none" ELSE "failed"
      <3>1. s \in Terminal \cup {"none"} /\ (s = "none" => status[TaskOf[r]] = "none")
        BY DEF Terminal
      <3>2. EndRun(r, s) /\ UNCHANGED checkpoints
        BY <2>2 DEF Throw
      <3> HIDE DEF s
      <3> QED
        BY <2>1, <3>1, <3>2, EndRunPreserves
    <2>3. CASE SecurityDenies(r)
      <3>1. EndRun(r, "failed") /\ UNCHANGED checkpoints
        BY <2>3 DEF SecurityDenies
      <3>2. "failed" \in Terminal \cup {"none"}
        BY DEF Terminal
      <3> QED
        BY <2>1, <3>1, <3>2, EndRunPreserves
    <2> QED
      BY <1>2, <2>2, <2>3 DEF BudgetDenied, Fails
  <1>3. CASE MarkRunning(r) \/ Wake(r) \/ PauseTimeout(r)
    BY <1>3, HeldPreserves
  <1>4. CASE \/ MemoryDone(r) \/ ForgeDone(r) \/ SimulateDone(r) \/ SecurityAllows(r)
             \/ SwarmDone(r) \/ JudgeApproves(r)
    <2>1. /\ LoopFree
          /\ pc[r] \notin {"idle", "output", "save"}
          /\ \E step \in GatedStep : StepDone(r, step)
      BY <1>4 DEF MemoryDone, ForgeDone, SimulateDone, SecurityAllows, SwarmDone, JudgeApproves,
                  Judged, Awaiting, GatedStep
    <2> QED
      BY <2>1, StepDonePreserves
  <1>5. CASE JudgeRejects(r) \/ BudgetCapStops(r) \/ Escalate(r) \/ RedesignDenied(r)
    BY <1>5, VerdictPreserves
  <1>6. CASE RedesignDone(r) \/ RedesignAllowed(r) \/ RedesignRunFails(r) \/ RedesignRunDone(r)
    <2>1. \E from, to \in RedesignStep : GoesOn(r, from, to)
      BY <1>6 DEF RedesignDone, RedesignAllowed, RedesignRunFails, RedesignRunDone, RedesignStep
    <2> QED
      BY <2>1, GoesOnPreserves
  <1>7. CASE SaveDone(r)
    BY <1>7, SaveDonePreserves
  <1> QED
    BY <1>1, <1>2, <1>3, <1>4, <1>5, <1>6, <1>7 DEF RunStep

LEMMA SafetyInvInit == Init => SafetyInv
  BY DEF Init, SteeringInit, SafetyInv, TypeOK, SteeringTypeOK, Status, PC, OneSegment, RunInv,
         Sync, SweepReadsIncomplete, SteeringSettled, NothingLeaks, LostOnlyInCreation,
         Options, NoOptions, Incomplete

LEMMA SafetyInvStep == SafetyInv /\ [Next]_vars => SafetyInv'
  <1> SUFFICES ASSUME SafetyInv, [Next]_vars
               PROVE  SafetyInv'
    OBVIOUS
  <1>1. CASE \E r \in Run, p \in Prompt : Submit(r, p)
    BY <1>1, SubmitPreserves
  <1>2. CASE \E r \in Run : RunStep(r)
    BY <1>2, RunStepPreserves
  <1>3. CASE \E u \in Task : Steer(u)
    BY <1>3, SteerPreserves
  <1>4. CASE Sweep
    BY <1>4, SweepPreserves
  <1>5. CASE \E r \in Run : Recover(r)
    BY <1>5, RecoverPreserves
  <1>6. CASE Crash
    BY <1>6, CrashPreserves
  <1>7. CASE UNCHANGED vars
    BY <1>7 DEF vars, dbVars, runVars, steeringVars, SafetyInv, TypeOK, SteeringTypeOK, OneSegment,
                RunInv, SweepReadsIncomplete, IncompleteTasks, SteeringSettled, NothingLeaks,
                LiveRun, RunsOf, LostOnlyInCreation, Creating
  <1> QED
    BY <1>1, <1>2, <1>3, <1>4, <1>5, <1>6, <1>7 DEF Next

-----------------------------------------------------------------------------
(* What holds in every process, with or without the sweep.                 *)

\* The inductive invariant holds of every behaviour of the specification.
THEOREM Safety == Spec => []SafetyInv
  BY SafetyInvInit, SafetyInvStep, PTL DEF Spec

\* Type correctness: in particular redesignCount stays within MAX_REDESIGNS,
\* whatever the judges, the budget cap and the security engine answer.
THEOREM TypeCorrect == Spec => []TypeOK
  <1>1. SafetyInv => TypeOK
    BY DEF SafetyInv
  <1> QED
    BY <1>1, Safety, PTL

\* Between two segments no task is in an intermediate steering state.
THEOREM SteeringAlwaysSettled == Spec => []SteeringSettled
  <1>1. SafetyInv => SteeringSettled
    BY DEF SafetyInv
  <1> QED
    BY <1>1, Safety, PTL

\* The in-memory maps hold nothing of a task whose invocations have ended.
THEOREM NothingEverLeaks == Spec => []NothingLeaks
  <1>1. SafetyInv => NothingLeaks
    BY DEF SafetyInv
  <1> QED
    BY <1>1, Safety, PTL

\* A task without an outcome has a checkpoint from which the next process recovers
\* it, but for one on which the process died between its creation and the first
\* checkpoint of run(): a pending row, or over HTTP a row already set to running.
THEOREM LossIsInCreation == Spec => []LostOnlyInCreation
  <1>1. SafetyInv => LostOnlyInCreation
    BY DEF SafetyInv
  <1> QED
    BY <1>1, Safety, PTL

-----------------------------------------------------------------------------
(* What one step of an invocation can touch.                               *)

\* A step of invocation r leaves the other invocations and the other tasks alone.
Local(r) ==
  /\ pc[r] # "idle"
  /\ \A q \in Run \ {r} : pc'[q] = pc[q] /\ held'[q] = held[q] /\ redesignCount'[q] = redesignCount[q]
  /\ \A u \in Task \ {TaskOf[r]} :
       /\ status'[u] = status[u]
       /\ states'[u] = states[u]
       /\ u \in activeStatuses' <=> u \in activeStatuses
  /\ UNCHANGED <<sweepQueue, crashes>>

\* A step that ends at a gate: what the segment has prepared when it gets there.
GatedMove(r) ==
  \E step \in GatedStep, row \in [Task -> Status], saved \in SUBSET Task, count \in 0 .. MaxRedesigns :
    /\ pc[r] \notin {"idle", "start", "clear", "save"}
    /\ \A u \in Task \ {TaskOf[r]} : row[u] = status[u]
    /\ \/ /\ row[TaskOf[r]] = status[TaskOf[r]]
          /\ count = redesignCount[r] \/ redesignCount[r] # MaxRedesigns
       \/ row[TaskOf[r]] = "running"
       \/ row[TaskOf[r]] = "pending_human_review" /\ count = MaxRedesigns
    /\ Gate(r, step, row, saved, count, states[TaskOf[r]])

\* Every step is one of these.
LEMMA StepKinds ==
  ASSUME SafetyInv, NEW r \in Run, RunStep(r)
  PROVE  \/ Start(r) \/ Register(r) \/ Finalise(r) \/ ClearCheckpoints(r) \/ SaveDone(r)
         \/ JudgeRejects(r) \/ PauseTimeout(r)
         \/ \E from, to \in RedesignStep : GoesOn(r, from, to)
         \/ pc[r] = "start" /\ Throw(r)
         \/ pc[r] \notin {"idle", "start", "clear", "save"} /\ (Throw(r) \/ EndRun(r, "failed"))
         \/ GatedMove(r)
  <1>1. /\ status \in [Task -> Status]
        /\ checkpoints \in SUBSET Task /\ checkpoints \cup {TaskOf[r]} \in SUBSET Task
        /\ redesignCount[r] \in 0 .. MaxRedesigns
        /\ TaskOf[r] \in Task
    BY DEF SafetyInv, TypeOK
  <1>2. CASE BudgetDenied(r) \/ SecurityDenies(r) \/ Fails(r)
    BY <1>2 DEF BudgetDenied, SecurityDenies, Fails, Awaiting
  <1>3. CASE RedesignDone(r) \/ RedesignAllowed(r) \/ RedesignRunFails(r) \/ RedesignRunDone(r)
    BY <1>3 DEF RedesignDone, RedesignAllowed, RedesignRunFails, RedesignRunDone, RedesignStep
  <1>4. CASE \/ MemoryDone(r) \/ ForgeDone(r) \/ SimulateDone(r) \/ SecurityAllows(r)
             \/ SwarmDone(r) \/ JudgeApproves(r)
    <2>1. /\ pc[r] \notin {"idle", "start", "clear", "save"}
          /\ \E step \in GatedStep : StepDone(r, step)
      BY <1>4 DEF MemoryDone, ForgeDone, SimulateDone, SecurityAllows, SwarmDone, JudgeApproves,
                  Judged, Awaiting, GatedStep
    <2> QED
      BY <1>1, <2>1 DEF StepDone, GatedMove
  <1>5. CASE MarkRunning(r)
    <2> DEFINE row == [status EXCEPT ![TaskOf[r]] = "running"]
    <2>1. /\ row \in [Task -> Status] /\ \A u \in Task \ {TaskOf[r]} : row[u] = status[u]
          /\ row[TaskOf[r]] = "running"
      BY <1>1 DEF Status, Incomplete
    <2>2. pc[r] = "mark" /\ Gate(r, "memory", row, checkpoints, 0, states[TaskOf[r]])
      BY <1>5 DEF MarkRunning
    <2>3. "memory" \in GatedStep /\ 0 \in 0 .. MaxRedesigns
      BY DEF GatedStep
    <2> HIDE DEF row
    <2> QED
      BY <1>1, <2>1, <2>2, <2>3 DEF GatedMove
  <1>6. CASE Wake(r)
    <2>1. /\ pc[r] \in GatedStep /\ pc[r] \notin {"idle", "start", "clear", "save"}
          /\ Gate(r, pc[r], status, checkpoints, redesignCount[r], states[TaskOf[r]])
      BY <1>6 DEF SafetyInv, Wake, RunInv, GatedStep
    <2> QED
      BY <1>1, <2>1 DEF GatedMove
  <1>7. CASE BudgetCapStops(r)
    <2>1. /\ pc[r] \in {"judge", "rejudge"} /\ redesignCount[r] # MaxRedesigns
          /\ redesignCount[r] + 1 \in 0 .. MaxRedesigns
          /\ Gate(r, "output", status, checkpoints \cup {TaskOf[r]}, redesignCount[r] + 1,
                  states[TaskOf[r]])
      BY <1>1, <1>7 DEF BudgetCapStops, Judged, Awaiting
    <2>2. "output" \in GatedStep
      BY DEF GatedStep
    <2> QED
      BY <1>1, <2>1, <2>2 DEF GatedMove
  <1>8. CASE Escalate(r)
    <2> DEFINE row == [status EXCEPT ![TaskOf[r]] = "pending_human_review"]
    <2>1. /\ row \in [Task -> Status] /\ \A u \in Task \ {TaskOf[r]} : row[u] = status[u]
          /\ row[TaskOf[r]] = "pending_human_review"
      BY <1>1 DEF Status, Incomplete
    <2>2. states[TaskOf[r]] \in Settled
      BY <1>1 DEF SafetyInv, SteeringSettled, Settled
    <2>3. Gate(r, "output", row, checkpoints \cup {TaskOf[r]}, redesignCount[r] + 1,
               states[TaskOf[r]])
      BY <1>8, <2>2, TransitionSettles DEF Escalate
    <2>4. /\ pc[r] \in {"judge", "rejudge"}
          /\ redesignCount[r] + 1 \in 0 .. MaxRedesigns /\ redesignCount[r] + 1 = MaxRedesigns
          /\ "output" \in GatedStep
      BY <1>1, <1>8 DEF SafetyInv, RunInv, Escalate, Judged, Awaiting, GatedStep
    <2> HIDE DEF row
    <2> QED
      BY <1>1, <2>1, <2>3, <2>4 DEF GatedMove
  <1>9. CASE RedesignDenied(r)
    <2>1. /\ pc[r] = "resecure" /\ "output" \in GatedStep
          /\ Gate(r, "output", status, checkpoints, redesignCount[r], states[TaskOf[r]])
      BY <1>9 DEF RedesignDenied, Awaiting, GatedStep
    <2> QED
      BY <1>1, <2>1 DEF GatedMove
  <1> QED
    BY <1>2, <1>3, <1>4, <1>5, <1>6, <1>7, <1>8, <1>9 DEF RunStep

LEMMA StepIsLocal ==
  ASSUME SafetyInv, NEW r \in Run, RunStep(r)
  PROVE  Local(r)
  <1> USE DEF Local, SafetyInv, TypeOK, SteeringTypeOK
  <1>1. CASE GatedMove(r)
    <2>1. PICK step \in GatedStep, row \in [Task -> Status], saved \in SUBSET Task,
               count \in 0 .. MaxRedesigns :
                 /\ pc[r] # "idle"
                 /\ \A u \in Task \ {TaskOf[r]} : row[u] = status[u]
                 /\ Gate(r, step, row, saved, count, states[TaskOf[r]])
      BY <1>1 DEF GatedMove
    <2>2. states[TaskOf[r]] \in Settled
      BY DEF SteeringSettled, Settled
    <2> QED
      BY <2>1, <2>2, GateCases DEF CancelledResult, Cleanup, Leave, Hold, Proceed
  <1>2. CASE Start(r) \/ Register(r) \/ Finalise(r) \/ ClearCheckpoints(r) \/ SaveDone(r)
    BY <1>2 DEF Start, Register, Finalise, ClearCheckpoints, SaveDone, Awaiting, Cleanup, Leave, dbVars,
                steeringVars
  <1>3. CASE \/ JudgeRejects(r) \/ PauseTimeout(r)
             \/ \E from, to \in RedesignStep : GoesOn(r, from, to)
    BY <1>3 DEF JudgeRejects, Judged, PauseTimeout, Proceed, GoesOn, Awaiting, dbVars, steeringVars, RedesignStep,
                RunInv, GatedStep
  <1>4. CASE pc[r] # "idle" /\ (Throw(r) \/ EndRun(r, "failed"))
    BY <1>4 DEF Throw, EndRun, Cleanup, Leave
  <1> QED
    BY <1>1, <1>2, <1>3, <1>4, StepKinds

-----------------------------------------------------------------------------
(* Action properties.                                                      *)

\* No invocation is ever started for a task whose row says it has ended: the sweep
\* re-executes only what it read as incomplete, and nothing ends in between.
THEOREM EndedNeverReexecuted == Spec => EndedIsNotReexecuted
  <1> DEFINE A == \A r \in Run : status[TaskOf[r]] \in Terminal => ~(pc[r] = "idle" /\ pc'[r] # "idle")
  <1>1. ASSUME SafetyInv, [Next]_vars
        PROVE  A
    <2> USE <1>1
    <2>1. CASE \E r \in Run, p \in Prompt : Submit(r, p)
      BY <2>1 DEF SafetyInv, TypeOK, Submit, Terminal
    <2>2. CASE \E r \in Run : RunStep(r)
      BY <2>2, StepIsLocal DEF Local
    <2>3. CASE \E r \in Run : Recover(r)
      BY <2>3 DEF SafetyInv, TypeOK, SweepReadsIncomplete, IncompleteTasks, Incomplete, Terminal, Recover
    <2>4. CASE (\E u \in Task : Steer(u)) \/ Sweep \/ UNCHANGED vars
      <3>1. UNCHANGED pc
        BY <2>4 DEF Steer, Pause, Resume, Redirect, Cancel, Command, Sweep, vars, runVars
      <3> QED
        BY <3>1
    <2>5. CASE Crash
      BY <2>5 DEF Crash
    <2> QED
      BY <2>1, <2>2, <2>3, <2>4, <2>5 DEF Next
  <1>2. SafetyInv /\ [Next]_vars => [A]_vars
    BY <1>1
  <1> HIDE DEF A
  <1>3. Spec => [][A]_vars
    BY <1>2, Safety, PTL DEF Spec
  <1> QED
    BY <1>3 DEF A, EndedIsNotReexecuted

\* Pausing works at every gate, in every process: a paused task enters a gated
\* step only from the polling loop, whose time has run out.
THEOREM PauseHolds == Spec => PauseHoldsAtGates
  <1> DEFINE A == \A r \in Run :
                    /\ states[TaskOf[r]] = "paused"
                    /\ pc'[r] \in GatedStep \cup {"finalise"}
                    /\ pc'[r] # pc[r]
                    => held'[r] \/ held[r]
  <1>1. ASSUME SafetyInv, [Next]_vars
        PROVE  A
    <2> USE <1>1 DEF GatedStep
    <2>1. CASE \E r \in Run, p \in Prompt : Submit(r, p)
      BY <2>1 DEF SafetyInv, TypeOK, Submit
    <2>2. ASSUME NEW q \in Run, RunStep(q)
          PROVE  A
      <3>1. Local(q)
        BY <2>2, StepIsLocal
      <3>2. CASE GatedMove(q) /\ states[TaskOf[q]] = "paused"
        <4>1. \E step \in GatedStep, saved \in SUBSET Task : Hold(q, step, saved)
          BY <3>2, GateCases DEF GatedMove, Settled
        <4> QED
          BY <3>1, <4>1 DEF Local, Hold, SafetyInv, TypeOK
      <3>3. CASE ~GatedMove(q) \/ states[TaskOf[q]] # "paused"
        <4>1. states[TaskOf[q]] # "paused" \/ pc'[q] \notin GatedStep \cup {"finalise"} \/ held[q]
          BY <2>2, <3>3, StepKinds
             DEF Start, Register, Finalise, ClearCheckpoints, SaveDone, Leave, JudgeRejects, PauseTimeout,
                 GoesOn, RedesignStep, Throw, EndRun, SafetyInv, TypeOK
        <4> QED
          BY <3>1, <4>1 DEF Local
      <3> QED
        BY <3>2, <3>3
    <2>3. CASE \E r \in Run : Recover(r)
      BY <2>3 DEF SafetyInv, TypeOK, Recover
    <2>4. CASE (\E u \in Task : Steer(u)) \/ Sweep \/ UNCHANGED vars
      <3>1. UNCHANGED pc
        BY <2>4 DEF Steer, Pause, Resume, Redirect, Cancel, Command, Sweep, vars, runVars
      <3> QED
        BY <3>1
    <2>5. CASE Crash
      BY <2>5 DEF Crash
    <2> QED
      BY <2>1, <2>2, <2>3, <2>4, <2>5 DEF Next
  <1>2. SafetyInv /\ [Next]_vars => [A]_vars
    BY <1>1
  <1> HIDE DEF A
  <1>3. Spec => [][A]_vars
    BY <1>2, Safety, PTL DEF Spec
  <1> QED
    BY <1>3 DEF A, PauseHoldsAtGates

=============================================================================
