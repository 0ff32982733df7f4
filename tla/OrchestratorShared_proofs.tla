--------------------- MODULE OrchestratorShared_proofs ---------------------
(***************************************************************************)
(* In every process, sweeping or not, the orchestrator implements          *)
(* SharedTaskContract: the inductive invariant, the refinement step by     *)
(* step, and what follows for the rows of the tasks table.                 *)
(***************************************************************************)
EXTENDS Orchestrator_proofs

USE ConstantsAssumption, NoPromptAssumption

-----------------------------------------------------------------------------
(* What a step of an invocation does to the row of its task.               *)

\* After a step of invocation r: r has still to decide the task, or the task is
\* decided, or the row was never there, or r has left after its final write.
StillDeciding(r) == pc'[r] \notin {"idle", "clear", "save"}
Decided(r)       == status'[TaskOf[r]] \in Terminal
NeverThere(r)    == status[TaskOf[r]] = "none" /\ status'[TaskOf[r]] = "none"
LeavesSaved(r)   == pc[r] = "save" /\ pc'[r] = "idle" /\ status'[TaskOf[r]] = status[TaskOf[r]]

LEMMA StepEffect ==
  ASSUME SafetyInv, NEW r \in Run, RunStep(r)
  PROVE  /\ status'[TaskOf[r]] = "none" => status[TaskOf[r]] = "none"
         /\ StillDeciding(r) \/ Decided(r) \/ NeverThere(r) \/ LeavesSaved(r)
  <1> DEFINE t == TaskOf[r]
  <1>0. /\ t \in Task /\ states[t] \in Settled
        /\ status \in [Task -> Status] /\ pc \in [Run -> PC]
        /\ pc[r] = "clear" => status[t] \in Terminal
        /\ held[r] => pc[r] \in GatedStep
    BY DEF SafetyInv, TypeOK, RunInv, SteeringSettled, Settled
  <1> USE <1>0 DEF StillDeciding, Decided, NeverThere, LeavesSaved
  <1>1. CASE GatedMove(r)
    <2>1. PICK step \in GatedStep, row \in [Task -> Status], saved \in SUBSET Task,
               count \in 0 .. MaxRedesigns :
                 /\ row[t] = status[t] \/ row[t] \in {"running", "pending_human_review"}
                 /\ Gate(r, step, row, saved, count, states[t])
      BY <1>1 DEF GatedMove
    <2>2. CASE CancelledResult(r, row, saved)
      BY <2>2 DEF CancelledResult, Terminal
    <2>3. CASE status' = row /\ (Hold(r, step, saved) \/ Proceed(r, step, saved))
      <3>1. pc'[r] \in GatedStep \cup {"finalise"}
        BY <2>3 DEF Hold, Proceed
      <3> QED
        BY <2>1, <2>3, <3>1 DEF GatedStep
    <2> QED
      BY <2>1, <2>2, <2>3, GateCases
  <1>2. CASE Start(r) \/ Register(r) \/ JudgeRejects(r) \/ \E from, to \in RedesignStep : GoesOn(r, from, to)
    BY <1>2 DEF Start, Register, JudgeRejects, GoesOn, RedesignStep, dbVars
  <1>3. CASE PauseTimeout(r)
    BY <1>3 DEF PauseTimeout, Proceed, GatedStep
  <1>4. CASE Finalise(r) \/ ClearCheckpoints(r)
    BY <1>4 DEF Finalise, ClearCheckpoints, Terminal
  <1>5. CASE SaveDone(r)
    BY <1>5 DEF SaveDone, Awaiting, Leave, dbVars
  <1>6. CASE Throw(r) \/ EndRun(r, "failed")
    BY <1>6 DEF Throw, EndRun, Leave, Terminal
  <1> QED
    BY <1>1, <1>2, <1>3, <1>4, <1>5, <1>6, StepKinds

-----------------------------------------------------------------------------
(* An undecided task that is executed has an invocation to decide it.      *)

SharedInv == SafetyInv /\ UndecidedIsOwned

LEMMA SharedInit == Init => SharedInv
  BY SafetyInvInit DEF Init, SharedInv, UndecidedIsOwned, Incomplete

LEMMA OwnedStep ==
  ASSUME SharedInv, NEW r \in Run, RunStep(r)
  PROVE  UndecidedIsOwned'
  <1> SUFFICES ASSUME NEW t \in Task, LiveRun(t)', status'[t] \in Incomplete
               PROVE  \E q \in RunsOf(t) : pc'[q] \notin {"idle", "clear", "save"}
    BY DEF UndecidedIsOwned, RunsOf
  <1>1. /\ Local(r) /\ SafetyInv /\ UndecidedIsOwned
        /\ \A q \in Run \ {r} : pc'[q] = pc[q]
        /\ pc[r] # "idle"
    BY StepIsLocal DEF SharedInv, Local
  <1>2. CASE t # TaskOf[r]
    <2>1. status'[t] = status[t] /\ \A q \in RunsOf(t) : pc'[q] = pc[q]
      BY <1>1, <1>2 DEF Local, RunsOf
    <2> QED
      BY <1>1, <2>1 DEF UndecidedIsOwned, LiveRun, RunsOf
  <1>3. CASE t = TaskOf[r] /\ StillDeciding(r)
    BY <1>3 DEF StillDeciding, RunsOf
  <1>4. CASE t = TaskOf[r] /\ LeavesSaved(r)
    <2>1. PICK q \in RunsOf(t) : pc[q] \notin {"idle", "clear", "save"}
      BY <1>1, <1>4 DEF LeavesSaved, UndecidedIsOwned, LiveRun, RunsOf
    <2>2. q \in Run \ {r}
      BY <1>4, <2>1 DEF LeavesSaved, RunsOf
    <2> QED
      BY <1>1, <2>1, <2>2
  <1> QED
    BY <1>1, <1>2, <1>3, <1>4, StepEffect DEF Decided, NeverThere, Incomplete, Terminal

LEMMA SharedInvStep == SharedInv /\ [Next]_vars => SharedInv'
  <1> SUFFICES ASSUME SharedInv, [Next]_vars
               PROVE  UndecidedIsOwned'
    BY SafetyInvStep DEF SharedInv
  <1>0. SafetyInv /\ TypeOK /\ UndecidedIsOwned
    BY DEF SharedInv, SafetyInv
  <1> USE <1>0
  <1>1. CASE \E r \in Run : RunStep(r)
    BY <1>1, OwnedStep
  <1>2. ASSUME NEW r \in Run, (\E p \in Prompt : Submit(r, p)) \/ Recover(r)
        PROVE  UndecidedIsOwned'
    <2>1. /\ pc' = [pc EXCEPT ![r] = "start"]
          /\ \A t \in Task \ {TaskOf[r]} : status'[t] = status[t]
      BY <1>2 DEF TypeOK, Submit, Recover, dbVars
    <2>2. ASSUME NEW t \in Task, LiveRun(t)', status'[t] \in Incomplete
          PROVE  \E q \in RunsOf(t) : pc'[q] \notin {"idle", "clear", "save"}
      <3>1. CASE t = TaskOf[r]
        BY <2>1, <3>1 DEF TypeOK, RunsOf
      <3>2. CASE t # TaskOf[r]
        BY <2>1, <2>2, <3>2 DEF TypeOK, UndecidedIsOwned, LiveRun, RunsOf
      <3> QED
        BY <3>1, <3>2
    <2> QED
      BY <2>2 DEF UndecidedIsOwned, RunsOf
  <1>3. CASE Sweep \/ (\E u \in Task : Steer(u)) \/ UNCHANGED vars
    <2>1. /\ pc' = pc
          /\ \A t \in Task : status'[t] \in Incomplete => status[t] \in Incomplete
      BY <1>3 DEF Sweep, Steer, Pause, Resume, Redirect, Cancel, Command, vars, runVars, dbVars, Incomplete
    <2> QED
      BY <2>1 DEF UndecidedIsOwned, LiveRun, RunsOf
  <1>4. CASE Crash
    BY <1>4 DEF Crash, UndecidedIsOwned, LiveRun, RunsOf
  <1> QED
    BY <1>1, <1>2, <1>3, <1>4 DEF Next

\* In every process the row of a task that is being executed is decided, or some
\* invocation of it has still to write the outcome.
THEOREM UndecidedAlwaysOwned == Spec => []UndecidedIsOwned
  <1>1. Spec => []SharedInv
    BY SharedInit, SharedInvStep, PTL DEF Spec
  <1>2. SharedInv => UndecidedIsOwned
    BY DEF SharedInv
  <1> QED
    BY <1>1, <1>2, PTL

-----------------------------------------------------------------------------
(* The refinement.                                                         *)

Phases == [t \in Task |-> IF status[t] = "none" THEN "absent"
                          ELSE IF status[t] \in Incomplete THEN "open" ELSE status[t]]
Live   == {t \in Task : LiveRun(t)}

\* The phase of a task follows from its row alone.
LEMMA PhaseOf ==
  ASSUME status \in [Task -> Status], NEW t \in Task
  PROVE  /\ Phases[t] \in Shared!Phase
         /\ Phases[t] = "absent" <=> status[t] = "none"
         /\ Phases[t] \in Shared!Outcome <=> status[t] \in Terminal
  BY DEF Phases, Status, Incomplete, Terminal, Shared!Phase, Shared!Outcome

\* When only the row of t changes, only its phase does.
LEMMA OnePhaseChanges ==
  ASSUME NEW t \in Task, \A u \in Task \ {t} : status'[u] = status[u]
  PROVE  Phases' = [Phases EXCEPT ![t] = Phases'[t]]
  BY DEF Phases

\* A step of an invocation is work on its task, or the end of it.
LEMMA RunStepShares ==
  ASSUME SharedInv, SharedInv', NEW r \in Run, RunStep(r)
  PROVE  [Shared!Next]_<<Phases, Live, crashes>>
  <1> DEFINE t == TaskOf[r]
  <1>1. /\ t \in Task /\ Local(r)
        /\ status \in [Task -> Status] /\ status' \in [Task -> Status]
        /\ pc[r] # "idle"
        /\ \A q \in Run \ {r} : pc'[q] = pc[q]
        /\ \A u \in Task \ {t} : status'[u] = status[u]
        /\ crashes' = crashes
    BY StepIsLocal DEF SharedInv, SafetyInv, TypeOK, Local
  <1>2. /\ t \in Live
        /\ \A u \in Task \ {t} : u \in Live' <=> u \in Live
    BY <1>1 DEF Live, LiveRun, RunsOf
  <1>3. Phases' = [Phases EXCEPT ![t] = Phases'[t]]
    BY <1>1, OnePhaseChanges
  <1>4. /\ Phases[t] \in Shared!Phase /\ Phases'[t] \in Shared!Phase
        /\ Phases'[t] = "absent" => Phases[t] = "absent"
        /\ Phases'[t] \in Shared!Outcome <=> status'[t] \in Terminal
    <2>1. Phases'[t] \in Shared!Phase
          /\ (Phases'[t] = "absent" <=> status'[t] = "none")
          /\ (Phases'[t] \in Shared!Outcome <=> status'[t] \in Terminal)
      BY <1>1 DEF Phases, Status, Incomplete, Terminal, Shared!Phase, Shared!Outcome
    <2> QED
      BY <1>1, <2>1, PhaseOf, StepEffect DEF SharedInv
  <1>5. CASE t \in Live'
    <2>1. Live' = Live
      BY <1>1, <1>2, <1>5 DEF Live
    <2>2. CASE Phases'[t] = "absent"
      <3>1. Phases' = Phases
        BY <1>1, <1>3, <1>4, <2>2 DEF Phases
      <3> QED
        BY <1>1, <2>1, <3>1
    <2>3. CASE Phases'[t] # "absent"
      <3>1. Shared!Work(t)
        BY <1>1, <1>2, <1>3, <1>4, <2>1, <2>3 DEF Shared!Work, Phases, Live
      <3> QED
        BY <1>1, <3>1 DEF Shared!Next
    <2> QED
      BY <2>2, <2>3
  <1>6. CASE t \notin Live'
    <2>1. Live' = Live \ {t} /\ pc'[r] = "idle" /\ \A q \in RunsOf(t) \ {r} : pc[q] = "idle"
      BY <1>1, <1>2, <1>6 DEF Live, LiveRun, RunsOf
    <2>2. Decided(r) \/ NeverThere(r)
      <3>1. CASE LeavesSaved(r)
        <4>1. status[t] \notin Incomplete
          BY <1>1, <1>2, <2>1, <3>1 DEF SharedInv, UndecidedIsOwned, LeavesSaved, Live, LiveRun, RunsOf
        <4> QED
          BY <1>1, <3>1, <4>1 DEF LeavesSaved, Decided, NeverThere, Status, Terminal
      <3> QED
        BY <2>1, <3>1, StepEffect DEF SharedInv, StillDeciding
    <2>3. Shared!Finish(t)
      <3>1. CASE Decided(r)
        <4>1. Phases'[t] \in Shared!Outcome
          BY <1>4, <3>1 DEF Decided
        <4> QED
          BY <1>1, <1>2, <1>3, <2>1, <4>1 DEF Shared!Finish, Phases, Live
      <3>2. CASE NeverThere(r)
        <4>1. Phases[t] = "absent" /\ Phases' = Phases
          BY <1>1, <1>3, <3>2 DEF NeverThere, Phases
        <4> QED
          BY <1>1, <1>2, <2>1, <4>1 DEF Shared!Finish, Phases, Live
      <3> QED
        BY <2>2, <3>1, <3>2
    <2> QED
      BY <1>1, <2>3 DEF Shared!Next
  <1> QED
    BY <1>5, <1>6

\* A submission begins work on a task that has no row, a recovery on one whose row
\* is undecided; a recovery beside a live invocation changes nothing.
LEMMA StartShares ==
  ASSUME SharedInv, NEW r \in Run, (\E p \in Prompt : Submit(r, p)) \/ Recover(r)
  PROVE  [Shared!Next]_<<Phases, Live, crashes>>
  <1> DEFINE t == TaskOf[r]
  <1>1. /\ t \in Task /\ status \in [Task -> Status] /\ pc \in [Run -> PC]
        /\ pc' = [pc EXCEPT ![r] = "start"]
        /\ \A u \in Task \ {t} : status'[u] = status[u]
        /\ status[t] \notin Terminal
        /\ \/ status' = status
           \/ ~LiveRun(t) /\ status[t] = "none" /\ status'[t] = "pending"
        /\ crashes' = crashes
    BY DEF SharedInv, SafetyInv, TypeOK, SweepReadsIncomplete, IncompleteTasks, Incomplete, Terminal,
           Submit, Recover, dbVars
  <1>2. Live' = Live \cup {t}
    BY <1>1 DEF Live, LiveRun, RunsOf
  <1>3. /\ Phases' = [Phases EXCEPT ![t] = Phases'[t]]
        /\ Phases'[t] \in {Phases[t], "open"}
        /\ Phases[t] \notin Shared!Outcome
    BY <1>1, OnePhaseChanges, PhaseOf DEF Phases, Incomplete
  <1>4. CASE LiveRun(t)
    <2>1. Phases' = Phases /\ Live' = Live
      BY <1>1, <1>2, <1>4 DEF Phases, Live
    <2> QED
      BY <1>1, <2>1
  <1>5. CASE ~LiveRun(t)
    <2>1. Shared!Begin(t)
      BY <1>1, <1>2, <1>3, <1>5 DEF Shared!Begin, Phases, Live
    <2> QED
      BY <1>1, <2>1 DEF Shared!Next
  <1> QED
    BY <1>4, <1>5

\* Every step of the orchestrator is a step of the contract, or invisible to it.
LEMMA SharedStep ==
  ASSUME SharedInv, [Next]_vars
  PROVE  [Shared!Next]_<<Phases, Live, crashes>>
  <1>1. CASE \E r \in Run : RunStep(r)
    BY <1>1, SharedInvStep, RunStepShares
  <1>2. CASE (\E r \in Run, p \in Prompt : Submit(r, p)) \/ \E r \in Run : Recover(r)
    BY <1>2, StartShares
  <1>3. CASE Sweep \/ (\E u \in Task : Steer(u)) \/ UNCHANGED vars
    <2>1. /\ pc' = pc /\ crashes' = crashes
          /\ \A t \in Task : status'[t] = status[t] \/ {status[t], status'[t]} \subseteq Incomplete
      BY <1>3 DEF Sweep, Steer, Pause, Resume, Redirect, Cancel, Command, vars, runVars, dbVars, Incomplete
    <2>2. Phases' = Phases /\ Live' = Live
      BY <2>1 DEF Phases, Live, LiveRun, RunsOf, Incomplete
    <2> QED
      BY <2>1, <2>2
  <1>4. CASE Crash
    <2>1. Phases' = Phases /\ Live' = {} /\ crashes' = crashes + 1
      BY <1>4 DEF Crash, dbVars, Phases, Live, LiveRun, RunsOf
    <2>2. Shared!Die
      BY <2>1 DEF Shared!Die, Phases, Live
    <2> QED
      BY <2>2 DEF Shared!Next
  <1> QED
    BY <1>1, <1>2, <1>3, <1>4 DEF Next

\* In every process the orchestrator implements the shared contract: work begins
\* only on a task without an outcome, and the last invocation of a task to leave
\* leaves an outcome behind, however the sweep and the invocations interleave.
THEOREM ImplementsSharedContract == Spec => SharedContractSpec
  <1>1. Init => Shared!Init
    BY DEF Init, Shared!Init, Incomplete, LiveRun, RunsOf
  <1>2. SharedInv /\ [Next]_vars => [Shared!Next]_Shared!sharedVars
    BY SharedStep DEF Phases, Live, Shared!sharedVars
  <1>3. Spec => []SharedInv
    BY SharedInit, SharedInvStep, PTL DEF Spec
  <1> QED
    BY <1>1, <1>2, <1>3, PTL DEF Spec, SharedContractSpec, Shared!Spec

-----------------------------------------------------------------------------
(* What follows for the rows.                                              *)

\* The outcome of a task that no invocation executes is final, in every process:
\* it follows from the contract alone that nothing changes it or takes it up again.
THEOREM OutcomeAlwaysStands == Spec => OutcomeStands
  <1> DEFINE A == \A t \in Task : status[t] \in Terminal /\ ~LiveRun(t)
                    => ~LiveRun(t)' /\ status'[t] = status[t]
  <1>1. ASSUME SharedInv, [Next]_vars
        PROVE  A
    <2> SUFFICES ASSUME NEW t \in Task, status[t] \in Terminal, ~LiveRun(t)
                 PROVE  ~LiveRun(t)' /\ status'[t] = status[t]
      OBVIOUS
    <2>1. /\ status \in [Task -> Status]
          /\ Phases[t] \in Shared!Outcome /\ t \notin Live
      BY <1>1, PhaseOf DEF SharedInv, SafetyInv, TypeOK, Live
    <2>2. t \notin Live' /\ Phases'[t] = Phases[t]
      <3>1. ASSUME NEW u \in Task, Shared!Begin(u) \/ Shared!Work(u) \/ Shared!Finish(u)
            PROVE  t \notin Live' /\ Phases'[t] = Phases[t]
        <4>1. /\ u # t
              /\ Live' \in {Live, Live \cup {u}, Live \ {u}}
              /\ Phases' = Phases \/ \E p : Phases' = [Phases EXCEPT ![u] = p]
          BY <2>1, <3>1 DEF Shared!Begin, Shared!Work, Shared!Finish, Phases, Live
        <4> QED
          BY <2>1, <4>1 DEF Phases
      <3>2. CASE Shared!Die
        BY <3>2 DEF Shared!Die, Phases, Live
      <3>3. [Shared!Next]_<<Phases, Live, crashes>>
        BY <1>1, SharedStep
      <3> QED
        BY <2>1, <3>1, <3>2, <3>3 DEF Shared!Next
    <2> QED
      BY <2>1, <2>2 DEF Phases, Live, Incomplete, Terminal, Shared!Outcome
  <1>2. SharedInv /\ [Next]_vars => [A]_vars
    BY <1>1
  <1> HIDE DEF A
  <1>3. Spec => [][A]_vars
    BY <1>2, SharedInit, SharedInvStep, PTL DEF Spec
  <1> QED
    BY <1>3 DEF A, OutcomeStands

\* Only a crash leaves a task undecided with nobody to decide it: an invocation
\* that returns or throws as the last one of its task leaves no undecided row.
\* The contract alone says so.
THEOREM NothingIsAbandoned == Spec => NothingAbandoned
  <1> DEFINE A == \A t \in Task : LiveRun(t) /\ ~LiveRun(t)' /\ crashes' = crashes
                    => status'[t] \notin Incomplete
  <1>1. ASSUME SharedInv, [Next]_vars
        PROVE  A
    <2> SUFFICES ASSUME NEW t \in Task, LiveRun(t), ~LiveRun(t)', crashes' = crashes
                 PROVE  status'[t] \notin Incomplete
      OBVIOUS
    <2>1. t \in Live /\ t \notin Live' /\ crashes \in Nat
      BY <1>1 DEF SharedInv, SafetyInv, TypeOK, Live
    <2>2. ~ Shared!Die
      BY <2>1 DEF Shared!Die
    <2>3. PICK u \in Task : Shared!Begin(u) \/ Shared!Work(u) \/ Shared!Finish(u)
      BY <1>1, <2>1, <2>2, SharedStep DEF Shared!Next
    <2>4. u = t /\ Shared!Finish(t)
      BY <2>1, <2>3 DEF Shared!Begin, Shared!Work, Shared!Finish, Live
    <2>5. Phases'[t] \in Shared!Outcome \/ (Phases[t] = "absent" /\ Phases'[t] = "absent")
      <3>1. CASE \E o \in Shared!Outcome : Phases' = [Phases EXCEPT ![t] = o]
        BY <3>1 DEF Phases
      <3>2. CASE Phases[t] = "absent" /\ Phases' = Phases
        BY <3>2
      <3> QED
        BY <2>4, <3>1, <3>2 DEF Shared!Finish, Phases
    <2> QED
      BY <2>5 DEF Phases, Incomplete, Shared!Outcome
  <1>2. SharedInv /\ [Next]_vars => [A]_vars
    BY <1>1
  <1> HIDE DEF A
  <1>3. Spec => [][A]_vars
    BY <1>2, SharedInit, SharedInvStep, PTL DEF Spec
  <1> QED
    BY <1>3 DEF A, NothingAbandoned

=============================================================================
