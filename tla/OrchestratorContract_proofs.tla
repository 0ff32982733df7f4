-------------------- MODULE OrchestratorContract_proofs --------------------
(***************************************************************************)
(* In a process that does not sweep, a task has one invocation, its row    *)
(* follows from the position of that invocation (EmbeddedInv), and the     *)
(* orchestrator implements TaskContract.                                   *)
(***************************************************************************)
EXTENDS Orchestrator_proofs

USE ConstantsAssumption, NoPromptAssumption

\* One task per invocation, whatever the others do.
LEMMA OthersUntouched ==
  ASSUME EmbeddedInv, NEW r \in Run, Local(r), NEW q \in Run \ {r}
  PROVE  RowFollows(q)'
  <1>1. CASE pc[q] = "idle"
    BY <1>1 DEF Local, RowFollows
  <1>2. CASE pc[q] # "idle"
    <2>1. TaskOf[q] # TaskOf[r] /\ TaskOf[q] \in Task
      BY <1>2 DEF Local, EmbeddedInv, OneRunPerTask
    <2> QED
      BY <2>1 DEF Local, EmbeddedInv, SingleRunInv, RowFollows
  <1> QED
    BY <1>1, <1>2

\* Where a step of invocation r leaves its task, for the contract.
Kept(t, row, s)  == row[t] \in Incomplete /\ (s[t] = "cancelled" <=> states[t] = "cancelled")
Ended(t, row) ==
  /\ row[t] \in Terminal
  /\ row[t] = "completed" => states[t] # "cancelled"
  /\ row[t] = "cancelled" => states[t] = "cancelled"

Outcome(r) ==
  LET t == TaskOf[r] IN
  \/ /\ status[t] = "none"
     /\ status'[t] \in {"none", "pending"} /\ states'[t] # "cancelled"
  \/ /\ status[t] \in Incomplete
     /\ Kept(t, status', states') \/ Ended(t, status')
  \/ /\ status[t] \in Terminal
     /\ status'[t] = status[t]

\* An escalated task does not become completed.
StaysEscalated(r) ==
  status[TaskOf[r]] = "pending_human_review" => status'[TaskOf[r]] # "completed"

\* Every step of an invocation keeps RowFollows, and does to its task what the
\* contract allows.
LEMMA StepFollows ==
  ASSUME EmbeddedInv, NEW r \in Run, RunStep(r)
  PROVE  RowFollows(r)' /\ Outcome(r) /\ StaysEscalated(r)
  <1> DEFINE t == TaskOf[r]
  <1>1. /\ SafetyInv /\ TypeOK /\ SteeringTypeOK
        /\ RowFollows(r)
        /\ t \in Task
        /\ states[t] \in Settled
        /\ t \notin activeStatuses => states[t] = Unregistered
    BY DEF EmbeddedInv, SingleRunInv, SafetyInv, TypeOK, SteeringSettled, Settled, NothingLeaks
  <1> USE <1>1 DEF TypeOK, SteeringTypeOK, Outcome, StaysEscalated, Kept, Ended
  <1>2. CASE GatedMove(r)
    <2>1. PICK step \in GatedStep, row \in [Task -> Status], saved \in SUBSET Task,
               count \in 0 .. MaxRedesigns :
                 /\ pc[r] \notin {"idle", "start", "clear", "save"}
                 /\ \/ /\ row[t] = status[t]
                       /\ count = redesignCount[r] \/ redesignCount[r] # MaxRedesigns
                    \/ row[t] = "running"
                    \/ row[t] = "pending_human_review" /\ count = MaxRedesigns
                 /\ Gate(r, step, row, saved, count, states[t])
      BY <1>2 DEF GatedMove
    <2>2. /\ status[t] \in Incomplete /\ row[t] \in Incomplete
          /\ row[t] = "pending_human_review" => count = MaxRedesigns
      BY <2>1 DEF RowFollows, Incomplete
    <2>3. \/ states[t] = "cancelled" /\ CancelledResult(r, row, saved)
          \/ /\ states[t] # "cancelled"
             /\ status' = row
             /\ states' = [states EXCEPT ![t] = states[t]]
             /\ redesignCount' = [redesignCount EXCEPT ![r] = count]
             /\ Hold(r, step, saved) \/ Proceed(r, step, saved)
      BY <2>1, GateCases
    <2>4. CASE states[t] = "cancelled" /\ CancelledResult(r, row, saved)
      BY <2>2, <2>4 DEF CancelledResult, Cleanup, Leave, RowFollows, Terminal
    <2>5. CASE /\ states[t] # "cancelled"
               /\ status' = row
               /\ states' = [states EXCEPT ![t] = states[t]]
               /\ redesignCount' = [redesignCount EXCEPT ![r] = count]
               /\ Hold(r, step, saved) \/ Proceed(r, step, saved)
      <3>1. /\ pc'[r] \in GatedStep \cup {"finalise"}
            /\ status'[t] = row[t] /\ states'[t] = states[t] /\ redesignCount'[r] = count
        BY <2>5 DEF Hold, Proceed
      <3>2. Outcome(r) /\ StaysEscalated(r)
        BY <2>2, <2>5, <3>1 DEF Incomplete
      <3>3. RowFollows(r)'
        BY <2>2, <2>5, <3>1 DEF RowFollows, GatedStep
      <3> QED
        BY <3>2, <3>3
    <2> QED
      BY <2>3, <2>4, <2>5
  <1>3. CASE Start(r)
    BY <1>3 DEF Start, RowFollows, Settled, Unregistered, Incomplete, Terminal, steeringVars
  <1>4. CASE Register(r)
    BY <1>4 DEF Register, RowFollows, Settled, Unregistered, Incomplete, Terminal
  <1>5. CASE Finalise(r)
    <2>1. redesignCount[r] \in Nat /\ (redesignCount[r] >= MaxRedesigns <=> redesignCount[r] = MaxRedesigns)
      OBVIOUS
    <2> QED
      BY <1>5, <2>1 DEF Finalise, RowFollows, Incomplete, Terminal, steeringVars
  <1>6. CASE ClearCheckpoints(r)
    BY <1>6 DEF ClearCheckpoints, RowFollows, Terminal, steeringVars
  <1>7. CASE SaveDone(r)
    BY <1>7 DEF SaveDone, Awaiting, Cleanup, Leave, RowFollows, Terminal, dbVars
  <1>8. CASE JudgeRejects(r)
    BY <1>8 DEF JudgeRejects, Judged, Awaiting, RowFollows, Incomplete, SafetyInv, RunInv, steeringVars
  <1>9. CASE PauseTimeout(r)
    BY <1>9 DEF PauseTimeout, Proceed, RowFollows, Incomplete, SafetyInv, RunInv, GatedStep
  <1>10. CASE \E from, to \in RedesignStep : GoesOn(r, from, to)
    BY <1>10 DEF GoesOn, Awaiting, RowFollows, Incomplete, RedesignStep, dbVars, steeringVars
  <1>11. CASE pc[r] = "start" /\ Throw(r)
    BY <1>11 DEF Throw, EndRun, Cleanup, Leave, RowFollows, Incomplete, Terminal, Unregistered
  <1>12. CASE /\ pc[r] \notin {"idle", "start", "clear", "save"}
              /\ Throw(r) \/ EndRun(r, "failed")
    BY <1>12 DEF Throw, EndRun, Cleanup, Leave, RowFollows, Incomplete, Terminal, Unregistered
  <1> QED
    BY <1>2, <1>3, <1>4, <1>5, <1>6, <1>7, <1>8, <1>9, <1>10, <1>11, <1>12, StepKinds

-----------------------------------------------------------------------------
(* EmbeddedInv is inductive.                                               *)

LEMMA EmbeddedInit == Init => EmbeddedInv
  <1> SUFFICES ASSUME Init PROVE EmbeddedInv
    OBVIOUS
  <1>1. SafetyInv
    BY SafetyInvInit
  <1> QED
    BY <1>1 DEF Init, EmbeddedInv, OneRunPerTask, SingleRunInv, RowFollows

LEMMA EmbeddedStep ==
  ASSUME ~Sweeping
  PROVE  EmbeddedInv /\ [Next]_vars => EmbeddedInv'
  <1> SUFFICES ASSUME EmbeddedInv, [Next]_vars
               PROVE  EmbeddedInv'
    OBVIOUS
  <1>0. SafetyInv /\ SafetyInv'
    BY SafetyInvStep DEF EmbeddedInv
  <1> USE <1>0
  <1>1. ASSUME NEW r \in Run, NEW p \in Prompt, Submit(r, p)
        PROVE  EmbeddedInv'
    <2>1. sweepQueue' = {} /\ OneRunPerTask'
      BY <1>1 DEF SafetyInv, TypeOK, EmbeddedInv, OneRunPerTask, Submit, LiveRun, RunsOf
    <2>2. ASSUME NEW q \in Run
          PROVE  RowFollows(q)'
      <3>1. TaskOf[r] \notin activeStatuses
        BY <1>1 DEF SafetyInv, NothingLeaks, Submit
      <3>2. CASE q = r
        BY <1>1, <3>1, <3>2 DEF SafetyInv, TypeOK, RowFollows, Submit
      <3>3. CASE q # r
        <4>1. pc[q] = "idle" \/ TaskOf[q] # TaskOf[r]
          BY <1>1 DEF Submit, LiveRun, RunsOf
        <4> QED
          BY <1>1, <3>3, <4>1 DEF SafetyInv, TypeOK, EmbeddedInv, SingleRunInv, RowFollows, Submit, steeringVars
      <3> QED
        BY <3>2, <3>3
    <2> QED
      BY <2>1, <2>2 DEF EmbeddedInv, SingleRunInv
  <1>2. ASSUME NEW r \in Run, RunStep(r)
        PROVE  EmbeddedInv'
    <2>1. Local(r)
      BY <1>2, StepIsLocal
    <2>2. sweepQueue' = {} /\ OneRunPerTask'
      BY <2>1 DEF EmbeddedInv, OneRunPerTask, Local
    <2>3. SingleRunInv'
      BY <1>2, <2>1, StepFollows, OthersUntouched DEF SingleRunInv
    <2> QED
      BY <2>2, <2>3 DEF EmbeddedInv
  <1>3. ASSUME NEW u \in Task, Steer(u)
        PROVE  EmbeddedInv'
    <2>1. /\ LoopFree
          /\ UNCHANGED <<status, activeStatuses, pc, held, redesignCount, sweepQueue>>
      BY <1>3 DEF Steer, Pause, Resume, Redirect, Cancel, Command, dbVars, runVars
    <2>2. ASSUME NEW q \in Run
          PROVE  RowFollows(q)'
      BY <2>1 DEF EmbeddedInv, SingleRunInv, RowFollows, LoopFree, Sync
    <2> QED
      BY <2>1, <2>2 DEF EmbeddedInv, OneRunPerTask, SingleRunInv
  <1>4. CASE Sweep \/ \E r \in Run : Recover(r)
    BY <1>4 DEF Sweep, Recover, EmbeddedInv
  <1>5. CASE Crash
    BY <1>5 DEF Crash, EmbeddedInv, OneRunPerTask, SingleRunInv, RowFollows
  <1>6. CASE UNCHANGED vars
    BY <1>6 DEF vars, dbVars, runVars, steeringVars, EmbeddedInv, OneRunPerTask, SingleRunInv, RowFollows
  <1> QED
    BY <1>1, <1>2, <1>3, <1>4, <1>5, <1>6 DEF Next

\* Without the sweep, a task has one invocation and its row follows from it.
THEOREM Embedded ==
  ASSUME ~Sweeping
  PROVE  Spec => []EmbeddedInv
  BY EmbeddedInit, EmbeddedStep, PTL DEF Spec

-----------------------------------------------------------------------------
(* The orchestrator implements the contract.                               *)

Phases == [t \in Task |-> IF status[t] = "none" THEN "absent"
                          ELSE IF status[t] \in Incomplete THEN "open" ELSE status[t]]
Asked  == {t \in Task : status[t] \in Incomplete /\ states[t] = "cancelled"}

\* A step that changes no row and accepts no cancellation is a stutter.
LEMMA SameView ==
  ASSUME \A t \in Task :
           /\ status'[t] = status[t] \/ (status[t] \in Incomplete /\ status'[t] \in Incomplete)
           /\ status[t] \in Incomplete => (states'[t] = "cancelled" <=> states[t] = "cancelled")
  PROVE  UNCHANGED <<Phases, Asked>>
  BY DEF Phases, Asked, Incomplete

\* A step of an invocation opens its task, ends it, or is a stutter.
LEMMA RunStepImplements ==
  ASSUME EmbeddedInv, NEW r \in Run, RunStep(r)
  PROVE  [Contract!Next]_<<Phases, Asked>>
  <1> DEFINE t == TaskOf[r]
  <1>1. /\ t \in Task
        /\ status \in [Task -> Status]
        /\ Local(r) /\ Outcome(r)
    BY StepIsLocal, StepFollows DEF EmbeddedInv, SafetyInv, TypeOK
  <1>2. \A u \in Task \ {t} : status'[u] = status[u] /\ states'[u] = states[u]
    BY <1>1 DEF Local
  <1>3. CASE status'[t] = status[t] \/ (status[t] \in Incomplete /\ Kept(t, status', states'))
    <2>1. UNCHANGED <<Phases, Asked>>
      BY <1>1, <1>2, <1>3, SameView DEF Outcome, Kept, Ended, Incomplete, Terminal
    <2> QED
      BY <2>1
  <1>4. CASE status[t] = "none" /\ status'[t] = "pending" /\ states'[t] # "cancelled"
    <2>1. Phases[t] = "absent" /\ Phases' = [Phases EXCEPT ![t] = "open"]
      BY <1>1, <1>2, <1>4 DEF Phases, Incomplete
    <2>2. Asked' = Asked
      BY <1>1, <1>2, <1>4 DEF Asked, Incomplete
    <2>3. Contract!Open(t)
      BY <2>1, <2>2 DEF Contract!Open, Phases, Asked
    <2> QED
      BY <1>1, <2>3 DEF Contract!Next
  <1>5. CASE status[t] \in Incomplete /\ Ended(t, status')
    <2>0. PICK o \in Contract!Outcome : o = status'[t]
      BY <1>5 DEF Ended, Terminal, Contract!Outcome
    <2>1. Phases[t] = "open" /\ Phases' = [Phases EXCEPT ![t] = o]
      BY <1>1, <1>2, <1>5, <2>0 DEF Phases, Incomplete, Terminal, Ended
    <2>2. /\ Asked' = Asked \ {t}
          /\ o = "completed" => t \notin Asked
          /\ o = "cancelled" => t \in Asked
      BY <1>1, <1>2, <1>5, <2>0 DEF Asked, Incomplete, Terminal, Ended
    <2>3. Contract!End(t, o)
      BY <2>1, <2>2 DEF Contract!End, Phases, Asked
    <2> QED
      BY <1>1, <2>3 DEF Contract!Next
  <1> QED
    BY <1>1, <1>3, <1>4, <1>5 DEF Outcome

\* A submission opens the task when the route inserts the row itself.
LEMMA SubmitImplements ==
  ASSUME EmbeddedInv, NEW r \in Run, NEW p \in Prompt, Submit(r, p)
  PROVE  [Contract!Next]_<<Phases, Asked>>
  <1> DEFINE t == TaskOf[r]
  <1>1. /\ t \in Task /\ status \in [Task -> Status] /\ status[t] = "none"
        /\ states' = states
        /\ states[t] = Unregistered
    BY DEF Submit, steeringVars, EmbeddedInv, SafetyInv, TypeOK, NothingLeaks
  <1>2. CASE t \in HttpTask
    <2>1. /\ Phases[t] = "absent" /\ Phases' = [Phases EXCEPT ![t] = "open"]
          /\ Asked' = Asked
      BY <1>1, <1>2 DEF Submit, Phases, Asked, Incomplete, Unregistered
    <2>2. Contract!Open(t)
      BY <2>1 DEF Contract!Open, Phases, Asked
    <2> QED
      BY <1>1, <2>2 DEF Contract!Next
  <1>3. CASE t \notin HttpTask
    <2>1. UNCHANGED <<Phases, Asked>>
      BY <1>1, <1>3 DEF Submit, Phases, Asked, Incomplete
    <2> QED
      BY <2>1
  <1> QED
    BY <1>2, <1>3

\* An accepted cancellation of an undecided task is AskCancel; the other commands
\* leave the contract's view alone.
LEMMA SteerImplements ==
  ASSUME EmbeddedInv, NEW u \in Task, Steer(u)
  PROVE  [Contract!Next]_<<Phases, Asked>>
  <1>1. /\ status' = status /\ status \in [Task -> Status]
        /\ states \in [Task -> SteeringState \cup {Unregistered}]
    BY DEF Steer, Pause, Resume, Redirect, Cancel, Command, dbVars, EmbeddedInv, SafetyInv, TypeOK,
           SteeringTypeOK
  <1>2. CASE Cancel(u) /\ status[u] \in Incomplete
    <2>1. states' = [states EXCEPT ![u] = "cancelled"]
      BY <1>2, TransitionSettles DEF Cancel, RequestCancel
    <2>2. Phases[u] = "open" /\ Phases' = Phases /\ Asked' = Asked \cup {u}
      BY <1>1, <1>2, <2>1 DEF Phases, Asked, Incomplete
    <2>3. Contract!AskCancel(u)
      BY <2>2 DEF Contract!AskCancel, Phases, Asked
    <2> QED
      BY <2>3 DEF Contract!Next
  <1>3. CASE ~(Cancel(u) /\ status[u] \in Incomplete)
    <2>1. \A t \in Task : status[t] \in Incomplete =>
                             (states'[t] = "cancelled" <=> states[t] = "cancelled")
      BY <1>1, <1>3, TransitionSettles
         DEF Steer, Pause, Resume, Redirect, Cancel, RequestPause, RequestResume, RequestRedirect,
             RequestCancel
    <2>2. UNCHANGED <<Phases, Asked>>
      BY <1>1, <2>1, SameView
    <2> QED
      BY <2>2
  <1> QED
    BY <1>2, <1>3

\* In a process that does not sweep, the orchestrator implements its contract: a
\* task is opened once, ends at most once and keeps its outcome, and completes
\* only if no cancellation of it was accepted.
THEOREM ImplementsContract ==
  ASSUME ~Sweeping
  PROVE  Spec => ContractSpec
  <1>1. Init => Contract!Init
    BY DEF Init, Contract!Init, Incomplete
  <1>2. ASSUME EmbeddedInv, [Next]_vars
        PROVE  [Contract!Next]_<<Phases, Asked>>
    <2>1. CASE (\E r \in Run, p \in Prompt : Submit(r, p)) \/ (\E r \in Run : RunStep(r))
      BY <1>2, <2>1, SubmitImplements, RunStepImplements
    <2>2. CASE \E u \in Task : Steer(u)
      BY <1>2, <2>2, SteerImplements
    <2>3. CASE Sweep \/ \E r \in Run : Recover(r)
      BY <1>2, <2>3 DEF EmbeddedInv, Sweep, Recover
    <2>4. CASE Crash
      <3>1. Phases' = Phases /\ Asked' = {}
        BY <2>4 DEF Crash, dbVars, Phases, Asked, Unregistered
      <3>2. Contract!Forget
        BY <3>1 DEF Contract!Forget, Phases, Asked
      <3> QED
        BY <3>2 DEF Contract!Next
    <2>5. CASE UNCHANGED vars
      BY <2>5 DEF vars, dbVars, steeringVars, Phases, Asked
    <2> QED
      BY <1>2, <2>1, <2>2, <2>3, <2>4, <2>5 DEF Next
  <1>3. EmbeddedInv /\ [Next]_vars => [Contract!Next]_Contract!contractVars
    BY <1>2 DEF Phases, Asked, Contract!contractVars
  <1> QED
    BY <1>1, <1>3, Embedded, PTL DEF Spec, ContractSpec, Contract!Spec

\* In a process that does not sweep, the invocation that escalated a task to a
\* human never reports it completed.
THEOREM EscalatedNeverCompleted ==
  ASSUME ~Sweeping
  PROVE  Spec => EscalatedNeverCompletes
  <1> DEFINE A == \A t \in Task : status[t] = "pending_human_review" => status'[t] # "completed"
  <1>1. ASSUME EmbeddedInv, [Next]_vars
        PROVE  A
    <2> USE <1>1
    <2>1. ASSUME NEW r \in Run, RunStep(r)
          PROVE  A
      BY <2>1, StepIsLocal, StepFollows DEF EmbeddedInv, Local, StaysEscalated
    <2>2. CASE \E r \in Run, p \in Prompt : Submit(r, p)
      BY <2>2 DEF Submit, EmbeddedInv, SafetyInv, TypeOK
    <2>3. CASE (\E u \in Task : Steer(u)) \/ Crash \/ UNCHANGED vars
      <3>1. UNCHANGED status
        BY <2>3 DEF Steer, Pause, Resume, Redirect, Cancel, Command, Crash, vars, dbVars
      <3> QED
        BY <3>1
    <2>4. CASE Sweep \/ \E r \in Run : Recover(r)
      BY <2>4 DEF Sweep, Recover, dbVars
    <2> QED
      BY <2>1, <2>2, <2>3, <2>4 DEF Next, EmbeddedInv
  <1>2. EmbeddedInv /\ [Next]_vars => [A]_vars
    BY <1>1
  <1> HIDE DEF A
  <1>3. Spec => [][A]_vars
    BY <1>2, Embedded, PTL DEF Spec
  <1> QED
    BY <1>3 DEF A, EscalatedNeverCompletes

=============================================================================
