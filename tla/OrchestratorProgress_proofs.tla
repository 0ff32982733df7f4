-------------------- MODULE OrchestratorProgress_proofs --------------------
(***************************************************************************)
(* The measure behind the end of an invocation: MovesLeft decreases with   *)
(* every move of a live invocation, so it makes a bounded number of them.  *)
(* That it moves at all is fairness, and left to the model checker.        *)
(***************************************************************************)
EXTENDS Orchestrator_proofs

USE ConstantsAssumption, NoPromptAssumption

-----------------------------------------------------------------------------
(* The measure.                                                            *)

LEMMA AheadIs ==
  /\ Ahead["idle"] = 0 /\ Ahead["save"] = 1 /\ Ahead["clear"] = 2
  /\ Ahead["finalise"] = 3 /\ Ahead["output"] = 4
  /\ Ahead["judge"] = 5 /\ Ahead["rejudge"] = 5 /\ Ahead["run"] = 6 /\ Ahead["rerunRetry"] = 6
  /\ Ahead["security"] = 7 /\ Ahead["rerun"] = 7 /\ Ahead["simulate"] = 8 /\ Ahead["resecure"] = 8
  /\ Ahead["forge"] = 9 /\ Ahead["redesign"] = 9 /\ Ahead["memory"] = 10 /\ Ahead["mark"] = 11
  /\ Ahead["inserted"] = 12 /\ Ahead["updated"] = 12 /\ Ahead["start"] = 13
  BY DEF Ahead, PC, GatedStep, RedesignStep, Sync

\* The redesigns that are left count at the steps between the first gate and the
\* last verdict.
LEMMA RedesignsLeftAre ==
  ASSUME NEW c \in 0 .. MaxRedesigns, NEW p \in PC
  PROVE  /\ p \in {"idle", "save", "clear", "finalise", "output"} => RedesignsLeft(p, c) = 0
         /\ p \in {"start", "inserted", "updated", "mark"} => RedesignsLeft(p, c) = MaxRedesigns
         /\ p \in (GatedStep \ {"output"}) \cup RedesignStep => RedesignsLeft(p, c) = MaxRedesigns - c
         /\ RedesignsLeft(p, c) \in 0 .. MaxRedesigns /\ RedesignsLeft(p, c) \in Nat
  BY DEF RedesignsLeft, GatedStep, RedesignStep

LEMMA AheadRange ==
  ASSUME NEW p \in PC
  PROVE  /\ Ahead[p] \in 0 .. 13 /\ Ahead[p] \in Nat
         /\ p # "idle" => Ahead[p] >= 1
  BY AheadIs DEF PC, GatedStep, RedesignStep, Sync

LEMMA Sums ==
  ASSUME NEW a \in 0 .. 13, NEW b \in 0 .. MaxRedesigns, NEW k \in 0 .. 1
  PROVE  /\ 2 * (a + 5 * b) + k \in 0 .. 27 + 10 * MaxRedesigns
         /\ a >= 1 => 2 * (a + 5 * b) + k >= 2
  OBVIOUS

\* An invocation makes at most 27 + 10 * MAX_REDESIGNS moves, and none from idle.
LEMMA DistanceRange ==
  ASSUME NEW p \in PC, NEW k \in 0 .. 1, NEW c \in 0 .. MaxRedesigns
  PROVE  /\ Distance(p, k, c) \in 0 .. 27 + 10 * MaxRedesigns
         /\ Distance(p, k, c) \in Nat
         /\ p # "idle" => Distance(p, k, c) >= 2
         /\ Distance("idle", 0, c) = 0
  <1>1. /\ Ahead[p] \in 0 .. 13 /\ (p # "idle" => Ahead[p] >= 1)
        /\ RedesignsLeft(p, c) \in 0 .. MaxRedesigns
        /\ Ahead["idle"] = 0 /\ RedesignsLeft("idle", c) = 0
    BY AheadRange, AheadIs, RedesignsLeftAre DEF RedesignsLeft
  <1>2. /\ Distance(p, k, c) = 2 * (Ahead[p] + 5 * RedesignsLeft(p, c)) + k
        /\ Distance("idle", 0, c) = 2 * (Ahead["idle"] + 5 * RedesignsLeft("idle", c)) + 0
    BY DEF Distance
  <1>3. /\ 2 * (Ahead[p] + 5 * RedesignsLeft(p, c)) + k \in 0 .. 27 + 10 * MaxRedesigns
        /\ p # "idle" => 2 * (Ahead[p] + 5 * RedesignsLeft(p, c)) + k >= 2
    BY <1>1, Sums
  <1> QED
    BY <1>1, <1>2, <1>3

\* The moves left to an invocation, and to one that has none.
LEMMA MovesLeftRange ==
  ASSUME TypeOK, NEW r \in Run
  PROVE  /\ MovesLeft(r) \in 0 .. 27 + 10 * MaxRedesigns
         /\ MovesLeft(r) \in Nat
         /\ pc[r] # "idle" => MovesLeft(r) >= 2
  <1>1. /\ pc[r] \in PC /\ redesignCount[r] \in 0 .. MaxRedesigns
        /\ (IF held[r] THEN 1 ELSE 0) \in 0 .. 1
    BY DEF TypeOK
  <1> QED
    BY <1>1, DistanceRange DEF MovesLeft

LEMMA NoMovesLeft ==
  ASSUME NEW r \in Run, pc'[r] = "idle", held'[r] = FALSE, redesignCount'[r] = 0
  PROVE  MovesLeft(r)' = 0
  <1>1. Distance("idle", 0, 0) = 0
    BY DistanceRange DEF PC
  <1> QED
    BY <1>1 DEF MovesLeft

-----------------------------------------------------------------------------
(* Every move of an invocation brings it closer to its end.                *)

\* A segment that ends at a gate closer to the end: the run is cancelled, waits
\* there for the pause to end, or goes on.
LEMMA GateAdvances ==
  ASSUME SafetyInv, NEW r \in Run, pc[r] # "idle",
         NEW step \in GatedStep, NEW row, NEW saved, NEW count \in 0 .. MaxRedesigns,
         Gate(r, step, row, saved, count, states[TaskOf[r]]),
         Distance(step, 0, count) < MovesLeft(r),
         states[TaskOf[r]] = "paused" => Distance(step, 1, count) < MovesLeft(r)
  PROVE  MovesLeft(r)' < MovesLeft(r)
  <1>1. /\ states[TaskOf[r]] \in Settled /\ step \in PC
        /\ pc \in [Run -> PC] /\ held \in [Run -> BOOLEAN] /\ redesignCount \in [Run -> 0 .. MaxRedesigns]
    BY DEF SafetyInv, TypeOK, SteeringSettled, Settled, PC
  <1>2. MovesLeft(r) >= 2 /\ MovesLeft(r) \in Nat
    BY MovesLeftRange DEF SafetyInv
  <1>3. CASE CancelledResult(r, row, saved)
    <2>1. pc'[r] = "idle" /\ held'[r] = FALSE /\ redesignCount'[r] = 0
      BY <1>1, <1>3 DEF CancelledResult, Leave
    <2>2. MovesLeft(r)' = 0
      BY <2>1, NoMovesLeft
    <2> QED
      BY <1>2, <2>2
  <1>4. CASE Hold(r, step, saved) /\ states[TaskOf[r]] = "paused" /\ redesignCount' = [redesignCount EXCEPT ![r] = count]
    <2>1. MovesLeft(r)' = Distance(step, 1, count)
      BY <1>1, <1>4 DEF Hold, MovesLeft
    <2> QED
      BY <1>4, <2>1
  <1>5. CASE Proceed(r, step, saved) /\ redesignCount' = [redesignCount EXCEPT ![r] = count]
    <2>1. MovesLeft(r)' = Distance(IF step = "output" THEN "finalise" ELSE step, 0, count)
      BY <1>1, <1>5 DEF Proceed, MovesLeft
    <2>2. Distance("finalise", 0, count) < Distance("output", 0, count)
      BY AheadIs, RedesignsLeftAre DEF Distance, RedesignsLeft
    <2>3. Distance("finalise", 0, count) \in Nat /\ Distance("output", 0, count) \in Nat
      BY DistanceRange DEF PC, GatedStep, Sync
    <2> QED
      BY <1>2, <2>1, <2>2, <2>3
  <1> QED
    BY <1>1, <1>3, <1>4, <1>5, GateCases

\* The same for a result that leads to a step with fewer steps after it.
LEMMA StepDoneAdvances ==
  ASSUME SafetyInv, NEW r \in Run, NEW step \in GatedStep,
         pc[r] \in (GatedStep \ {"output"}) \cup {"rejudge"}, ~held[r],
         Ahead[step] < Ahead[pc[r]],
         StepDone(r, step)
  PROVE  MovesLeft(r)' < MovesLeft(r)
  <1>1. /\ redesignCount[r] \in 0 .. MaxRedesigns
        /\ held[r] \in BOOLEAN /\ held[r] = FALSE
        /\ pc[r] \in PC /\ step \in PC
    BY DEF SafetyInv, TypeOK, PC
  <1>2. /\ RedesignsLeft(pc[r], redesignCount[r]) = MaxRedesigns - redesignCount[r]
        /\ RedesignsLeft(step, redesignCount[r]) \in {0, MaxRedesigns - redesignCount[r]}
        /\ Ahead[step] \in Nat /\ Ahead[pc[r]] \in Nat
    BY <1>1, RedesignsLeftAre, AheadRange DEF RedesignStep
  <1>3. \A h \in 0 .. 1 : Distance(step, h, redesignCount[r]) < MovesLeft(r)
    BY <1>1, <1>2 DEF Distance, MovesLeft
  <1> QED
    BY <1>1, <1>3, GateAdvances DEF StepDone, GatedStep

\* The invocation is over.
LEMMA LeaveAdvances ==
  ASSUME SafetyInv, NEW r \in Run, pc[r] # "idle", Leave(r)
  PROVE  MovesLeft(r)' < MovesLeft(r)
  <1>1. /\ pc[r] \in PC /\ held[r] \in BOOLEAN /\ redesignCount[r] \in 0 .. MaxRedesigns
        /\ pc'[r] = "idle" /\ held'[r] = FALSE /\ redesignCount'[r] = 0
    BY DEF SafetyInv, TypeOK, Leave
  <1>2. MovesLeft(r) >= 2 /\ MovesLeft(r) \in Nat
    BY MovesLeftRange DEF SafetyInv
  <1>3. MovesLeft(r)' = 0
    BY <1>1, NoMovesLeft
  <1> QED
    BY <1>2, <1>3

\* A move from p to q that leaves the counter and the pause alone.
LEMMA MoveAdvances ==
  ASSUME SafetyInv, NEW r \in Run, NEW q \in PC,
         pc' = [pc EXCEPT ![r] = q], UNCHANGED <<held, redesignCount>>,
         Ahead[q] < Ahead[pc[r]],
         RedesignsLeft(q, redesignCount[r]) <= RedesignsLeft(pc[r], redesignCount[r])
  PROVE  MovesLeft(r)' < MovesLeft(r)
  <1>1. /\ pc[r] \in PC /\ held[r] \in BOOLEAN /\ redesignCount[r] \in 0 .. MaxRedesigns
        /\ pc'[r] = q /\ held'[r] = held[r] /\ redesignCount'[r] = redesignCount[r]
    BY DEF SafetyInv, TypeOK
  <1>2. /\ Ahead[q] \in Nat /\ Ahead[pc[r]] \in Nat
        /\ RedesignsLeft(q, redesignCount[r]) \in Nat /\ RedesignsLeft(pc[r], redesignCount[r]) \in Nat
    BY <1>1, AheadRange, RedesignsLeftAre
  <1> QED
    BY <1>1, <1>2 DEF MovesLeft, Distance

LEMMA RunStepAdvances ==
  ASSUME SafetyInv, NEW r \in Run, RunStep(r)
  PROVE  MovesLeft(r)' < MovesLeft(r)
  <1>0. /\ pc \in [Run -> PC] /\ held \in [Run -> BOOLEAN] /\ redesignCount \in [Run -> 0 .. MaxRedesigns]
        /\ pc[r] \in PC /\ held[r] \in BOOLEAN /\ redesignCount[r] \in 0 .. MaxRedesigns
        /\ pc[r] # "idle"
        /\ held[r] => pc[r] \in GatedStep
    BY StepIsLocal DEF SafetyInv, TypeOK, RunInv, Local
  <1>1. CASE Start(r) \/ Register(r) \/ Finalise(r) \/ ClearCheckpoints(r)
    <2> DEFINE Goes(q) == /\ pc' = [pc EXCEPT ![r] = q]
                          /\ Ahead[q] < Ahead[pc[r]]
                          /\ \/ {pc[r], q} \subseteq {"start", "inserted", "updated", "mark"}
                             \/ {pc[r], q} \subseteq {"finalise", "clear", "save"}
    <2>0. {"inserted", "updated", "mark", "clear", "save"} \subseteq PC
      BY DEF PC, Sync
    <2>1. UNCHANGED <<held, redesignCount>> /\ \E q \in PC : Goes(q)
      <3>1. CASE Start(r)
        <4>0. pc[r] = "start" /\ pc' = [pc EXCEPT ![r] = IF status[TaskOf[r]] # "none" THEN "updated" ELSE "inserted"]
          BY <3>1 DEF Start
        <4>1. Goes("updated") \/ Goes("inserted")
          <5>1. CASE status[TaskOf[r]] # "none"
            <6>1. Goes("updated")
              BY <4>0, <5>1, AheadIs
            <6> QED
              BY <6>1
          <5>2. CASE status[TaskOf[r]] = "none"
            <6>1. Goes("inserted")
              BY <4>0, <5>2, AheadIs
            <6> QED
              BY <6>1
          <5> QED
            BY <5>1, <5>2
        <4> QED
          BY <2>0, <3>1, <4>1 DEF Start
      <3>2. CASE Register(r)
        <4>1. Goes("mark")
          BY <3>2, AheadIs DEF Register
        <4> QED
          BY <2>0, <3>2, <4>1 DEF Register
      <3>3. CASE Finalise(r)
        <4>1. Goes("clear")
          BY <3>3, AheadIs DEF Finalise
        <4> QED
          BY <2>0, <3>3, <4>1 DEF Finalise
      <3>4. CASE ClearCheckpoints(r)
        <4>1. Goes("save")
          BY <3>4, AheadIs DEF ClearCheckpoints
        <4> QED
          BY <2>0, <3>4, <4>1 DEF ClearCheckpoints
      <3> QED
        BY <1>1, <3>1, <3>2, <3>3, <3>4
    <2>2. PICK q \in PC : /\ pc' = [pc EXCEPT ![r] = q]
                          /\ Ahead[q] < Ahead[pc[r]]
                          /\ RedesignsLeft(q, redesignCount[r]) = RedesignsLeft(pc[r], redesignCount[r])
      <3>1. PICK q \in PC : Goes(q)
        BY <2>1
      <3>2. RedesignsLeft(q, redesignCount[r]) = RedesignsLeft(pc[r], redesignCount[r])
        BY <1>0, <3>1, RedesignsLeftAre
      <3> QED
        BY <3>1, <3>2
    <2>3. RedesignsLeft(q, redesignCount[r]) <= RedesignsLeft(pc[r], redesignCount[r])
      BY <1>0, <2>2, RedesignsLeftAre
    <2> QED
      BY <2>1, <2>2, <2>3, MoveAdvances
  <1>2. CASE SaveDone(r) \/ BudgetDenied(r) \/ SecurityDenies(r) \/ Fails(r)
    BY <1>0, <1>2, LeaveAdvances DEF SaveDone, BudgetDenied, SecurityDenies, Fails, Throw, EndRun
  <1>3. CASE MarkRunning(r)
    <2>1. pc[r] = "mark" /\ "memory" \in GatedStep /\ 0 \in 0 .. MaxRedesigns
      BY <1>3 DEF MarkRunning, GatedStep
    <2>2. \A h \in 0 .. 1 : Distance("memory", h, 0) < MovesLeft(r)
      BY <1>0, <2>1, AheadIs DEF MovesLeft, Distance, RedesignsLeft
    <2> QED
      BY <1>0, <1>3, <2>1, <2>2, GateAdvances DEF MarkRunning
  <1>4. CASE Wake(r)
    <2>1. /\ pc[r] \in GatedStep /\ states[TaskOf[r]] # "paused"
          /\ Gate(r, pc[r], status, checkpoints, redesignCount[r], states[TaskOf[r]])
      BY <1>0, <1>4 DEF Wake
    <2>2. Ahead[pc[r]] \in Nat /\ RedesignsLeft(pc[r], redesignCount[r]) \in Nat
      BY <1>0, AheadRange, RedesignsLeftAre
    <2>3. Distance(pc[r], 0, redesignCount[r]) < MovesLeft(r)
      BY <1>4, <2>2 DEF Wake, MovesLeft, Distance
    <2> QED
      BY <1>0, <2>1, <2>3, GateAdvances
  <1>5. CASE PauseTimeout(r)
    <2>1. /\ pc[r] \in GatedStep /\ held[r]
          /\ pc'[r] = IF pc[r] = "output" THEN "finalise" ELSE pc[r]
          /\ held'[r] = FALSE /\ redesignCount'[r] = redesignCount[r]
      BY <1>0, <1>5 DEF PauseTimeout, Proceed
    <2>2. /\ Ahead[pc[r]] \in Nat /\ RedesignsLeft(pc[r], redesignCount[r]) \in Nat
          /\ Ahead["output"] = 4 /\ Ahead["finalise"] = 3
          /\ RedesignsLeft("output", redesignCount[r]) = 0 /\ RedesignsLeft("finalise", redesignCount[r]) = 0
      BY <1>0, AheadRange, AheadIs, RedesignsLeftAre DEF RedesignsLeft
    <2> QED
      BY <2>1, <2>2 DEF MovesLeft, Distance
  <1>6. CASE \/ MemoryDone(r) \/ ForgeDone(r) \/ SimulateDone(r) \/ SecurityAllows(r)
             \/ SwarmDone(r) \/ JudgeApproves(r)
    <2>1. /\ pc[r] \in (GatedStep \ {"output"}) \cup {"rejudge"} /\ ~held[r]
          /\ \E step \in GatedStep : StepDone(r, step) /\ Ahead[step] < Ahead[pc[r]]
      BY <1>6, AheadIs DEF MemoryDone, ForgeDone, SimulateDone, SecurityAllows, SwarmDone, JudgeApproves,
                           Judged, Awaiting, GatedStep
    <2> QED
      BY <2>1, StepDoneAdvances
  <1>7. CASE BudgetCapStops(r) \/ Escalate(r) \/ RedesignDenied(r)
    <2>1. /\ pc[r] \in {"judge", "rejudge", "resecure"} /\ "output" \in GatedStep
          /\ redesignCount[r] # MaxRedesigns
          /\ redesignCount[r] + 1 \in 0 .. MaxRedesigns
      BY <1>0, <1>7 DEF BudgetCapStops, Escalate, RedesignDenied, Judged, Awaiting, SafetyInv, RunInv, GatedStep
    <2>2. Ahead[pc[r]] >= 5 /\ Ahead[pc[r]] \in Nat /\ RedesignsLeft(pc[r], redesignCount[r]) \in Nat
      BY <1>0, <2>1, AheadIs, RedesignsLeftAre
    <2>3. \A h \in 0 .. 1, c \in 0 .. MaxRedesigns : Distance("output", h, c) < MovesLeft(r)
      BY <1>0, <2>2, AheadIs DEF MovesLeft, Distance, RedesignsLeft
    <2>4. \E row, saved : \E count \in 0 .. MaxRedesigns :
             Gate(r, "output", row, saved, count, states[TaskOf[r]])
      <3>1. states[TaskOf[r]] \in Settled
        BY DEF SafetyInv, SteeringSettled, Settled
      <3> QED
        BY <1>0, <1>7, <2>1, <3>1, TransitionSettles DEF BudgetCapStops, Escalate, RedesignDenied
    <2> QED
      BY <1>0, <2>1, <2>3, <2>4, GateAdvances
  <1>8. CASE JudgeRejects(r)
    <2>1. /\ pc[r] \in {"judge", "rejudge"} /\ pc'[r] = "redesign" /\ held'[r] = held[r]
          /\ redesignCount[r] + 1 \in 0 .. MaxRedesigns /\ redesignCount'[r] = redesignCount[r] + 1
          /\ "redesign" \in PC
      BY <1>0, <1>8 DEF JudgeRejects, Judged, Awaiting, PC, RedesignStep
    <2>2. /\ RedesignsLeft(pc[r], redesignCount[r]) = MaxRedesigns - redesignCount[r]
          /\ RedesignsLeft("redesign", redesignCount[r] + 1) = MaxRedesigns - (redesignCount[r] + 1)
          /\ Ahead[pc[r]] = 5 /\ Ahead["redesign"] = 9
      BY <1>0, <2>1, AheadIs, RedesignsLeftAre DEF GatedStep, RedesignStep
    <2>3. PICK k \in 0 .. 1 : k = (IF held[r] THEN 1 ELSE 0) /\ k = (IF held'[r] THEN 1 ELSE 0)
      BY <2>1
    <2>4. /\ MovesLeft(r) = 2 * (5 + 5 * (MaxRedesigns - redesignCount[r])) + k
          /\ MovesLeft(r)' = 2 * (9 + 5 * (MaxRedesigns - (redesignCount[r] + 1))) + k
      BY <2>1, <2>2, <2>3 DEF MovesLeft, Distance
    <2>5. PICK m \in Nat, c \in Nat : m = MaxRedesigns /\ c = redesignCount[r]
      BY <1>0
    <2>6. 2 * (9 + 5 * (m - (c + 1))) + k < 2 * (5 + 5 * (m - c)) + k
      OBVIOUS
    <2> QED
      BY <2>4, <2>5, <2>6
  <1>9. CASE RedesignDone(r) \/ RedesignAllowed(r) \/ RedesignRunFails(r) \/ RedesignRunDone(r)
    <2>1. /\ UNCHANGED <<held, redesignCount>> /\ pc[r] \in RedesignStep
          /\ \E q \in RedesignStep : pc' = [pc EXCEPT ![r] = q] /\ Ahead[q] < Ahead[pc[r]]
      BY <1>9, AheadIs DEF RedesignDone, RedesignAllowed, RedesignRunFails, RedesignRunDone, GoesOn, Awaiting,
                           RedesignStep
    <2>2. PICK q \in RedesignStep : pc' = [pc EXCEPT ![r] = q] /\ Ahead[q] < Ahead[pc[r]]
      BY <2>1
    <2>3. q \in PC /\ RedesignsLeft(q, redesignCount[r]) = MaxRedesigns - redesignCount[r]
      BY <1>0, <2>2, RedesignsLeftAre DEF PC
    <2>4. RedesignsLeft(pc[r], redesignCount[r]) = MaxRedesigns - redesignCount[r]
      BY <1>0, <2>1, RedesignsLeftAre
    <2>5. RedesignsLeft(q, redesignCount[r]) <= RedesignsLeft(pc[r], redesignCount[r])
      BY <1>0, <2>3, <2>4
    <2> QED
      BY <2>1, <2>2, <2>3, <2>5, MoveAdvances
  <1> QED
    BY <1>1, <1>2, <1>3, <1>4, <1>5, <1>6, <1>7, <1>8, <1>9 DEF RunStep

-----------------------------------------------------------------------------

\* A live invocation only ever moves towards its end, in every process.
THEOREM OnlyEverAdvances == Spec => OnlyAdvances
  <1> DEFINE A == \A r \in Run : pc[r] # "idle" =>
                    \/ UNCHANGED <<pc[r], held[r], redesignCount[r]>>
                    \/ MovesLeft(r)' < MovesLeft(r)
  <1>1. ASSUME SafetyInv, [Next]_vars
        PROVE  A
    <2> USE <1>1
    <2>0. pc \in [Run -> PC]
      BY DEF SafetyInv, TypeOK
    <2>1. ASSUME NEW q \in Run, RunStep(q)
          PROVE  A
      BY <2>1, StepIsLocal, RunStepAdvances DEF Local
    <2>2. CASE (\E q \in Run, p \in Prompt : Submit(q, p)) \/ \E q \in Run : Recover(q)
      <3>1. PICK q \in Run : /\ pc[q] = "idle" \/ ~LiveRun(TaskOf[q])
                             /\ pc' = [pc EXCEPT ![q] = "start"]
                             /\ UNCHANGED <<held, redesignCount>>
        BY <2>2 DEF Submit, Recover
      <3>2. pc[q] = "idle"
        BY <3>1 DEF LiveRun, RunsOf
      <3> QED
        BY <2>0, <3>1, <3>2
    <2>3. CASE Sweep \/ (\E u \in Task : Steer(u)) \/ UNCHANGED vars
      <3>1. UNCHANGED <<pc, held, redesignCount>>
        BY <2>3 DEF Sweep, Steer, Pause, Resume, Redirect, Cancel, Command, vars, runVars
      <3> QED
        BY <3>1
    <2>4. CASE Crash
      <3>1. ASSUME NEW r \in Run, pc[r] # "idle"
            PROVE  MovesLeft(r)' < MovesLeft(r)
        <4>1. /\ pc'[r] = "idle" /\ held'[r] = FALSE /\ redesignCount'[r] = 0
              /\ pc[r] \in PC /\ held[r] \in BOOLEAN /\ redesignCount[r] \in 0 .. MaxRedesigns
          BY <2>4 DEF Crash, SafetyInv, TypeOK
        <4>2. MovesLeft(r) >= 2 /\ MovesLeft(r) \in Nat
          BY <3>1, MovesLeftRange DEF SafetyInv
        <4>3. MovesLeft(r)' = 0
          BY <4>1, NoMovesLeft
        <4> QED
          BY <4>2, <4>3
      <3> QED
        BY <3>1
    <2> QED
      BY <2>1, <2>2, <2>3, <2>4 DEF Next
  <1>2. SafetyInv /\ [Next]_vars => [A]_vars
    BY <1>1
  <1> HIDE DEF A
  <1>3. Spec => [][A]_vars
    BY <1>2, Safety, PTL DEF Spec
  <1> QED
    BY <1>3 DEF A, OnlyAdvances

\* The measure is a natural number with a fixed upper bound, so what OnlyAdvances
\* says of an invocation can happen only so often: at most 27 + 10 * MAX_REDESIGNS
\* moves lie between its creation and its end.
THEOREM MovesAreBounded ==
  Spec => [](\A r \in Run : MovesLeft(r) \in 0 .. 27 + 10 * MaxRedesigns)
  <1>1. SafetyInv => \A r \in Run : MovesLeft(r) \in 0 .. 27 + 10 * MaxRedesigns
    BY MovesLeftRange DEF SafetyInv
  <1> QED
    BY <1>1, Safety, PTL

=============================================================================
