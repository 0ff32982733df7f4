------------------------ MODULE Deployments_proofs ------------------------
(***************************************************************************)
(* What the lock of a row guarantees, for every set of deployments and     *)
(* every limit.  Each step but a crash writes some row and then executes a *)
(* set of deployments (ExecutesEach); that active rows have no run in      *)
(* flight (RowsInv) is what makes the lock work, and that the rows which   *)
(* come back after a cancellation are those of hitRun is what is left of   *)
(* the cancellation and of the limit.                                      *)
(***************************************************************************)
EXTENDS Deployments, FiniteSetTheorems, TLAPS

USE DeploymentsAssumption

\* A row that was never created has nothing; a row that was cancelled and is not
\* at rest was cancelled during a run; listeners are those of events.
RowsInv ==
  /\ OneRunAtATime
  /\ NoJobAfterCancel
  /\ \A d \in Deployment :
        status[d] = "absent" => inFlight[d] = 0 /\ d \notin cancelled \cup listeners
  /\ \A d \in Deployment : status[d] = "cancelled" => d \in cancelled
  /\ \A d \in cancelled :
        (status[d] \in {"active", "running"} \/ inFlight[d] > 0) => d \in hitRun
  /\ \A d \in listeners : trigger[d] \in TriggerEvents

\* What one deployment gets from Executes: it is locked, or left alone.
Outcome(D, st, fl) ==
  /\ status' \in [Deployment -> Status]
  /\ inFlight' \in [Deployment -> Nat]
  /\ \A d \in Deployment :
        \/ /\ d \in D /\ st[d] = "active"
           /\ status'[d] = "running" /\ inFlight'[d] = fl[d] + 1
        \/ status'[d] = st[d] /\ inFlight'[d] = fl[d]

LEMMA ExecutesEach ==
  ASSUME NEW D, NEW st \in [Deployment -> Status], NEW fl \in [Deployment -> Nat],
         Executes(D, st, fl)
  PROVE  Outcome(D, st, fl)
  BY DEF Executes, Status, Outcome

LEMMA RowsStep ==
  ASSUME TypeOK, RowsInv, [Next]_vars
  PROVE  TypeOK' /\ RowsInv'
  <1> USE DEF TypeOK, RowsInv, OneRunAtATime, NoJobAfterCancel
  <1>1. ASSUME NEW d \in Deployment, NEW t \in Trigger, Deploy(d, t)
        PROVE  TypeOK' /\ RowsInv'
    <2> DEFINE D == Listening("created") \cup (IF t = "once" THEN {d} ELSE {})
               st == [status EXCEPT ![d] = "active"]
    <2>1. st \in [Deployment -> Status]
      BY DEF Status
    <2>2. Executes(D, st, inFlight)
      BY <1>1 DEF Deploy
    <2> HIDE DEF D, st
    <2>3. Outcome(D, st, inFlight)
      BY <2>1, <2>2, ExecutesEach
    <2>4. /\ status[d] = "absent" /\ trigger' = [trigger EXCEPT ![d] = t]
          /\ jobs' = IF t = "cron" THEN jobs \cup {d} ELSE jobs
          /\ listeners' = IF t \in TriggerEvents THEN listeners \cup {d} ELSE listeners
          /\ UNCHANGED <<crashes, cancelled, hitRun>>
      BY <1>1 DEF Deploy
    <2>5. TypeOK'
      BY <2>3, <2>4 DEF Outcome
    <2>6. \A x \in listeners' : trigger'[x] \in TriggerEvents
      BY <2>4
    <2>7. NoJobAfterCancel'
      BY <2>4
    <2>8. \A x \in Deployment : x # d => st[x] = status[x]
      BY DEF st
    <2>9. st[d] = "active" /\ inFlight[d] = 0 /\ d \notin cancelled
      BY <2>4 DEF st
    <2> QED
      BY <2>3, <2>4, <2>5, <2>6, <2>7, <2>8, <2>9 DEF Status, Outcome
  <1>2. ASSUME NEW d \in Deployment, Cancel(d)
        PROVE  TypeOK' /\ RowsInv'
    <2> DEFINE D == Listening("cancelled")
               st == [status EXCEPT ![d] = "cancelled"]
    <2>1. st \in [Deployment -> Status] /\ Executes(D, st, inFlight)
      BY <1>2 DEF Status, Cancel, Emits
    <2>2. Outcome(D, st, inFlight)
      BY <2>1, ExecutesEach
    <2>3. /\ d \in Live /\ jobs' = jobs \ {d} /\ cancelled' = cancelled \cup {d}
          /\ hitRun' = IF inFlight[d] > 0 THEN hitRun \cup {d} ELSE hitRun
          /\ UNCHANGED <<trigger, listeners, crashes>>
      BY <1>2 DEF Cancel
    <2>4. TypeOK'
      BY <2>2, <2>3 DEF Outcome
    <2>5. \A x \in Deployment : x # d => st[x] = status[x]
      OBVIOUS
    <2>6. st[d] = "cancelled"
      OBVIOUS
    <2> HIDE DEF st, D
    <2> QED
      BY <2>2, <2>3, <2>4, <2>5, <2>6 DEF Status, Outcome
  <1>3. ASSUME NEW D, Executes(D, status, inFlight),
               UNCHANGED <<trigger, jobs, listeners, crashes, cancelled, hitRun>>
        PROVE  TypeOK' /\ RowsInv'
    <2>1. Outcome(D, status, inFlight)
      BY <1>3, ExecutesEach
    <2> QED
      BY <1>3, <2>1 DEF Status, Outcome
  <1>4. ASSUME NEW d \in Deployment, NEW e \in {"executed", "failed"}, Finish(d, e)
        PROVE  TypeOK' /\ RowsInv'
    <2> DEFINE D == Listening(e)
               st == [status EXCEPT ![d] = "active"]
               fl == [inFlight EXCEPT ![d] = @ - 1]
    <2>1. inFlight[d] = 1 /\ status[d] # "active"
      BY <1>4 DEF Finish
    <2>2. st \in [Deployment -> Status] /\ fl \in [Deployment -> Nat] /\ Executes(D, st, fl)
      BY <1>4, <2>1 DEF Status, Finish, Emits
    <2> HIDE DEF D, st, fl
    <2>3. Outcome(D, st, fl)
      BY <2>2, ExecutesEach
    <2>4. UNCHANGED <<trigger, jobs, listeners, crashes, cancelled, hitRun>>
      BY <1>4 DEF Finish
    <2>5. TypeOK'
      BY <2>3, <2>4 DEF Outcome
    <2>6. \A x \in Deployment : x # d => st[x] = status[x] /\ fl[x] = inFlight[x]
      BY DEF st, fl
    <2>7. st[d] = "active" /\ fl[d] = 0
      BY <2>1 DEF st, fl
    <2> QED
      BY <2>1, <2>3, <2>4, <2>5, <2>6, <2>7 DEF Status, Outcome
  <1>5. CASE Crash
    <2>1. TypeOK'
      BY <1>5 DEF Crash
    <2> QED
      BY <1>5, <2>1 DEF Crash, Status
  <1>6. CASE UNCHANGED vars
    BY <1>6 DEF vars
  <1>7. ASSUME NEW d \in Deployment, Tick(d)
        PROVE  TypeOK' /\ RowsInv'
    BY <1>3, <1>7 DEF Tick
  <1>8. CASE OtherEvent
    BY <1>3, <1>8 DEF OtherEvent, Emits
  <1> QED
    BY <1>1, <1>2, <1>4, <1>5, <1>6, <1>7, <1>8 DEF Next, Ends

LEMMA Rows == Spec => [](TypeOK /\ RowsInv)
  <1>1. Init => TypeOK /\ RowsInv
    BY DEF Init, TypeOK, RowsInv, OneRunAtATime, NoJobAfterCancel, Status, Trigger
  <1>2. TypeOK /\ RowsInv /\ [Next]_vars => TypeOK' /\ RowsInv'
    BY RowsStep
  <1> QED
    BY <1>1, <1>2, PTL DEF Spec

\* All variables keep to their types: no run ends that was not begun
\* (workflow-deployer.ts:272-330).
THEOREM TypeCorrect == Spec => []TypeOK
  BY Rows, PTL

\* No deployment has two runs at once, and none has one while its row is active
\* (workflow-deployer.ts:274, 305).
THEOREM OneRunAtATimeHolds == Spec => []OneRunAtATime
  BY Rows, PTL DEF RowsInv

\* No cron job is left of a deployment that was cancelled (workflow-deployer.ts:203).
THEOREM NoJobAfterCancelHolds == Spec => []NoJobAfterCancel
  BY Rows, PTL DEF RowsInv
-----------------------------------------------------------------------------
(***************************************************************************)
(* The steps, by what they execute                                         *)
(***************************************************************************)

\* One outcome per action, in terms that the properties below can use.
LEMMA Deploys ==
  ASSUME TypeOK, RowsInv, NEW d \in Deployment, NEW t \in Trigger, Deploy(d, t)
  PROVE  Outcome(Listening("created") \cup (IF t = "once" THEN {d} ELSE {}),
                 [status EXCEPT ![d] = "active"], inFlight)
  <1>1. [status EXCEPT ![d] = "active"] \in [Deployment -> Status]
    BY DEF TypeOK, Status
  <1> QED
    BY <1>1, ExecutesEach DEF Deploy, TypeOK

LEMMA Cancels ==
  ASSUME TypeOK, RowsInv, NEW d \in Deployment, Cancel(d)
  PROVE  Outcome(Listening("cancelled"), [status EXCEPT ![d] = "cancelled"], inFlight)
  <1>1. [status EXCEPT ![d] = "cancelled"] \in [Deployment -> Status]
    BY DEF TypeOK, Status
  <1> QED
    BY <1>1, ExecutesEach DEF Cancel, Emits, TypeOK

LEMMA Finishes ==
  ASSUME TypeOK, RowsInv, NEW d \in Deployment, NEW e \in {"executed", "failed"}, Finish(d, e)
  PROVE  /\ inFlight[d] = 1 /\ status[d] \in {"running", "cancelled"}
         /\ Outcome(Listening(e), [status EXCEPT ![d] = "active"],
                    [inFlight EXCEPT ![d] = @ - 1])
  <1>1. inFlight[d] = 1 /\ status[d] \in {"running", "cancelled"}
    BY DEF Finish, TypeOK, RowsInv, OneRunAtATime, Status
  <1>2. [status EXCEPT ![d] = "active"] \in [Deployment -> Status]
    BY DEF TypeOK, Status
  <1>3. [inFlight EXCEPT ![d] = @ - 1] \in [Deployment -> Nat]
    BY <1>1 DEF TypeOK
  <1> QED
    BY <1>1, <1>2, <1>3, ExecutesEach DEF Finish, Emits

\* The steps that only execute, whatever starts them.
Starts(D) ==
  /\ Outcome(D, status, inFlight)
  /\ UNCHANGED <<trigger, jobs, listeners, crashes, cancelled, hitRun>>

LEMMA TicksAndEvents ==
  ASSUME TypeOK, NEW D, Executes(D, status, inFlight)
  PROVE  Outcome(D, status, inFlight)
  BY ExecutesEach DEF TypeOK

LEMMA StepSplits ==
  ASSUME TypeOK, RowsInv, [Next]_vars
  PROVE  \/ \E d \in Deployment : \E t \in Trigger : Deploy(d, t)
         \/ \E d \in Deployment : Cancel(d)
         \/ \E d \in Deployment : d \in jobs /\ Starts({d})
         \/ Starts(Listening("other"))
         \/ \E d \in Deployment, e \in {"executed", "failed"} : Finish(d, e)
         \/ Crash
         \/ UNCHANGED vars
  <1>1. ASSUME NEW d \in Deployment, Tick(d)
        PROVE  d \in jobs /\ Starts({d})
    BY <1>1, TicksAndEvents DEF Tick, Starts
  <1>2. OtherEvent => Starts(Listening("other"))
    BY TicksAndEvents DEF OtherEvent, Emits, Starts
  <1> QED
    BY <1>1, <1>2 DEF Next, Ends
-----------------------------------------------------------------------------
(***************************************************************************)
(* The limit                                                               *)
(***************************************************************************)

\* Rows that nobody cancelled during a run only become live when they are created.
LEMMA LiveStep ==
  ASSUME TypeOK, RowsInv, [Next]_vars
  PROVE  \/ Live' \ hitRun' \subseteq Live \ hitRun
         \/ \E d \in Deployment :
               Cardinality(Live) < MaxActive /\ Live' \ hitRun' \subseteq Live \cup {d}
  <1>1. ASSUME NEW d \in Deployment, NEW t \in Trigger, Deploy(d, t)
        PROVE  Cardinality(Live) < MaxActive /\ Live' \ hitRun' \subseteq Live \cup {d}
    <2>1. Cardinality(Live) < MaxActive
      BY <1>1 DEF Deploy
    <2>2. \A x \in Deployment \ {d} : status'[x] = status[x] \/ status[x] = "active"
      BY <1>1, Deploys DEF Outcome, TypeOK
    <2> QED
      BY <2>1, <2>2 DEF Live
  <1>2. ASSUME NEW d \in Deployment, Cancel(d)
        PROVE  Live' \ hitRun' \subseteq Live \ hitRun
    <2>1. \A x \in Deployment \ {d} : status'[x] = status[x] \/ status[x] = "active"
      BY <1>2, Cancels DEF Outcome, TypeOK
    <2>2. status'[d] = "cancelled"
      BY <1>2, Cancels DEF Outcome, TypeOK
    <2>3. hitRun \subseteq hitRun'
      BY <1>2 DEF Cancel
    <2> QED
      BY <2>1, <2>2, <2>3 DEF Live
  <1>3. ASSUME NEW D, Starts(D)
        PROVE  Live' \ hitRun' \subseteq Live \ hitRun
    BY <1>3 DEF Starts, Outcome, Live
  <1>4. ASSUME NEW d \in Deployment, NEW e \in {"executed", "failed"}, Finish(d, e)
        PROVE  Live' \ hitRun' \subseteq Live \ hitRun
    <2>1. \A x \in Deployment \ {d} : status'[x] = status[x] \/ status[x] = "active"
      BY <1>4, Finishes DEF Outcome, TypeOK
    <2>2. d \in Live \/ d \in hitRun
      <3>1. inFlight[d] = 1 /\ status[d] \in {"running", "cancelled"}
        BY <1>4, Finishes
      <3> QED
        BY <3>1 DEF RowsInv, Live
    <2>3. hitRun' = hitRun
      BY <1>4 DEF Finish
    <2> QED
      BY <2>1, <2>2, <2>3 DEF Live
  <1>5. CASE Crash
    BY <1>5 DEF Crash, Live
  <1>6. CASE UNCHANGED vars
    BY <1>6 DEF vars, Live
  <1> QED
    BY <1>1, <1>2, <1>3, <1>4, <1>5, <1>6, StepSplits

\* Not counting deployments that a run made active after their cancellation, the
\* limit is kept (workflow-deployer.ts:149).
THEOREM LimitHoldsAlways == Spec => []LimitHolds
  <1>1. Init => LimitHolds
    <2> SUFFICES ASSUME Init PROVE LimitHolds
      OBVIOUS
    <2>1. Live \ hitRun = {}
      BY DEF Init, Live
    <2> QED
      BY <2>1, FS_EmptySet DEF LimitHolds
  <1>2. TypeOK /\ RowsInv /\ LimitHolds /\ [Next]_vars => LimitHolds'
    <2> SUFFICES ASSUME TypeOK, RowsInv, LimitHolds, [Next]_vars
                 PROVE  Cardinality(Live' \ hitRun') <= MaxActive
      BY DEF LimitHolds
    <2>1. IsFiniteSet(Live) /\ IsFiniteSet(Live \ hitRun)
      BY FS_Subset DEF Live
    <2>2. CASE Live' \ hitRun' \subseteq Live \ hitRun
      <3>1. /\ Cardinality(Live' \ hitRun') <= Cardinality(Live \ hitRun)
            /\ Cardinality(Live' \ hitRun') \in Nat /\ Cardinality(Live \ hitRun) \in Nat
        BY <2>1, <2>2, FS_Subset, FS_CardinalityType
      <3> QED
        BY <3>1 DEF LimitHolds
    <2>3. ASSUME NEW d \in Deployment, Cardinality(Live) < MaxActive,
                 Live' \ hitRun' \subseteq Live \cup {d}
          PROVE  Cardinality(Live' \ hitRun') <= MaxActive
      <3>1. /\ IsFiniteSet(Live \cup {d}) /\ Cardinality(Live) \in Nat
            /\ Cardinality(Live \cup {d}) <= Cardinality(Live) + 1
        <4>1. /\ IsFiniteSet(Live \cup {d})
              /\ Cardinality(Live \cup {d}) =
                    IF d \in Live THEN Cardinality(Live) ELSE Cardinality(Live) + 1
          BY <2>1, FS_AddElement
        <4>2. Cardinality(Live) \in Nat
          BY <2>1, FS_CardinalityType
        <4> QED
          BY <4>1, <4>2
      <3>2. /\ Cardinality(Live' \ hitRun') <= Cardinality(Live \cup {d})
            /\ Cardinality(Live' \ hitRun') \in Nat /\ Cardinality(Live \cup {d}) \in Nat
        BY <2>3, <3>1, FS_Subset, FS_CardinalityType
      <3> QED
        BY <2>3, <3>1, <3>2
    <2> QED
      BY <2>2, <2>3, LiveStep
  <1> QED
    BY <1>1, <1>2, Rows, PTL DEF Spec
-----------------------------------------------------------------------------
(***************************************************************************)
(* What starts a run                                                       *)
(***************************************************************************)

\* A run is only started for a row found active by a job, a listener or deploy().
LEMMA RunStep ==
  ASSUME TypeOK, RowsInv, [Next]_vars, NEW d \in Deployment, inFlight'[d] > inFlight[d]
  PROVE  \/ status[d] = "absent"
         \/ status[d] = "active" /\ d \in jobs
         \/ status[d] = "active" /\ d \in listeners
  <1>1. ASSUME NEW x \in Deployment, NEW t \in Trigger, Deploy(x, t)
        PROVE  status[d] = "absent" \/ (status[d] = "active" /\ d \in listeners)
    <2>1. status[x] = "absent"
      BY <1>1 DEF Deploy
    <2>2. d # x => d \in Listening("created") /\ status[d] = "active"
      BY <1>1, Deploys DEF Outcome, TypeOK
    <2> QED
      BY <2>1, <2>2 DEF Listening
  <1>2. ASSUME NEW x \in Deployment, Cancel(x)
        PROVE  status[d] = "active" /\ d \in listeners
    BY <1>2, Cancels DEF Outcome, TypeOK, Listening
  <1>3. ASSUME NEW D, Starts(D)
        PROVE  status[d] = "active" /\ d \in D
    BY <1>3 DEF Starts, Outcome, TypeOK
  <1>4. ASSUME NEW x \in Deployment, NEW e \in {"executed", "failed"}, Finish(x, e)
        PROVE  status[d] = "active" /\ d \in listeners
    <2>1. Outcome(Listening(e), [status EXCEPT ![x] = "active"],
                  [inFlight EXCEPT ![x] = @ - 1])
      BY <1>4, Finishes
    <2>2. inFlight[x] = 1
      BY <1>4, Finishes
    <2>3. d # x
      BY <2>1, <2>2 DEF Outcome, TypeOK
    <2> QED
      BY <2>1, <2>3 DEF Outcome, TypeOK, Listening
  <1>5. Crash => inFlight'[d] = 0
    BY DEF Crash
  <1>6. UNCHANGED vars => inFlight' = inFlight
    BY DEF vars
  <1>7. Starts(Listening("other")) => status[d] = "active" /\ d \in listeners
    BY <1>3 DEF Listening
  <1>8. ASSUME NEW x \in Deployment, x \in jobs, Starts({x})
        PROVE  status[d] = "active" /\ d \in jobs
    BY <1>3, <1>8
  <1>9. ~Crash /\ ~(UNCHANGED vars)
    BY <1>5, <1>6 DEF TypeOK
  <1> QED
    BY <1>1, <1>2, <1>4, <1>7, <1>8, <1>9, StepSplits

\* No run of a cancelled deployment starts, unless it waits for an event and was
\* cancelled during a run (workflow-deployer.ts:203-225).
THEOREM CancelIsFinalHolds == Spec => CancelIsFinal
  <1>1. ASSUME TypeOK, RowsInv, [Next]_vars
        PROVE  [\A d \in cancelled :
                   \/ d \in hitRun /\ trigger[d] \in TriggerEvents
                   \/ inFlight'[d] <= inFlight[d]]_vars
    <2> SUFFICES ASSUME NEW d \in cancelled
                 PROVE  \/ d \in hitRun /\ trigger[d] \in TriggerEvents
                        \/ inFlight'[d] <= inFlight[d]
      OBVIOUS
    <2>1. d \in Deployment
      BY <1>1 DEF TypeOK
    <2>2. inFlight[d] \in Nat /\ inFlight'[d] \in Nat
      BY <1>1, <2>1, RowsStep DEF TypeOK
    <2>3. inFlight'[d] > inFlight[d] => d \in hitRun /\ trigger[d] \in TriggerEvents
      BY <1>1, <2>1, RunStep DEF RowsInv, NoJobAfterCancel
    <2> QED
      BY <2>2, <2>3
  <1> QED
    BY <1>1, Rows, PTL DEF Spec, CancelIsFinal

-----------------------------------------------------------------------------
(***************************************************************************)
(* The contract                                                            *)
(***************************************************************************)

Phase == [d \in Deployment |-> PhaseOf(status[d], inFlight[d])]

\* The phase a row and its run in flight stand for.
LEMMA Phases ==
  ASSUME NEW st \in Status, NEW runs \in Nat, runs <= IF st = "active" THEN 0 ELSE 1,
         st = "absent" => runs = 0
  PROVE  /\ st = "absent" => PhaseOf(st, runs) = "none"
         /\ runs > 0 => PhaseOf(st, runs) = "busy"
         /\ st = "active" => PhaseOf(st, runs) = "ready"
         /\ st = "running" /\ runs = 0 => PhaseOf(st, runs) = "lost"
         /\ st = "cancelled" /\ runs = 0 => PhaseOf(st, runs) = "stopped"
  BY DEF PhaseOf, Status

\* Rows st with fl runs in flight stand for the phases p.
Stand(st, fl, p) ==
  /\ \A d \in Deployment : st[d] = "active" => fl[d] = 0
  /\ \A d \in Deployment : p[d] = PhaseOf(st[d], fl[d])

\* From the phases p, runs of some deployments that were ready begin.
Begins(p) ==
  \E B \in SUBSET {d \in Deployment : p[d] = "ready"} :
     Phase' = [d \in Deployment |-> IF d \in B THEN "busy" ELSE p[d]]

\* Executing a set of deployments is beginning a run of those that were ready.
LEMMA ExecutesBegins ==
  ASSUME NEW D, NEW st \in [Deployment -> Status], NEW fl \in [Deployment -> Nat],
         NEW p, Outcome(D, st, fl), Stand(st, fl, p)
  PROVE  Begins(p)
  <1> USE DEF Stand
  <1> DEFINE B == {d \in Deployment : inFlight'[d] # fl[d]}
  <1>1. ASSUME NEW d \in B
        PROVE  p[d] = "ready" /\ PhaseOf(status'[d], inFlight'[d]) = "busy"
    <2>1. st[d] = "active" /\ fl[d] = 0 /\ status'[d] = "running" /\ inFlight'[d] = 1
      BY DEF Outcome
    <2> QED
      BY <2>1 DEF PhaseOf
  <1>2. ASSUME NEW d \in Deployment \ B
        PROVE  PhaseOf(status'[d], inFlight'[d]) = p[d]
    <2>1. status'[d] = st[d] /\ inFlight'[d] = fl[d]
      BY DEF Outcome
    <2> QED
      BY <2>1
  <1>3. B \in SUBSET {d \in Deployment : p[d] = "ready"}
    BY <1>1
  <1>4. Phase' = [d \in Deployment |-> IF d \in B THEN "busy" ELSE p[d]]
    BY <1>1, <1>2 DEF Phase
  <1> HIDE DEF B
  <1> QED
    BY <1>3, <1>4 DEF Begins

\* The rows of a reachable state stand for phases.
LEMMA RowPhases ==
  ASSUME TypeOK, RowsInv, NEW d \in Deployment
  PROVE  /\ Phase[d] = PhaseOf(status[d], inFlight[d])
         /\ status[d] = "absent" => Phase[d] = "none"
         /\ inFlight[d] > 0 => Phase[d] = "busy"
         /\ status[d] = "active" => Phase[d] = "ready" /\ inFlight[d] = 0
         /\ status[d] = "running" /\ inFlight[d] = 0 => Phase[d] = "lost"
         /\ status[d] = "cancelled" /\ inFlight[d] = 0 => Phase[d] = "stopped"
  <1>1. /\ status[d] \in Status /\ inFlight[d] \in Nat
        /\ inFlight[d] <= IF status[d] = "active" THEN 0 ELSE 1
        /\ status[d] = "absent" => inFlight[d] = 0
    BY DEF TypeOK, RowsInv, OneRunAtATime
  <1>2. Phase[d] = PhaseOf(status[d], inFlight[d])
    BY DEF Phase
  <1> QED
    BY <1>1, <1>2, Phases

LEMMA DeployCreates ==
  ASSUME TypeOK, RowsInv, NEW d \in Deployment, NEW t \in Trigger, Deploy(d, t)
  PROVE  Contract!Create(d)
  <1> DEFINE D == Listening("created") \cup (IF t = "once" THEN {d} ELSE {})
             st == [status EXCEPT ![d] = "active"]
             p == [Phase EXCEPT ![d] = "ready"]
  <1>1. status[d] = "absent" /\ inFlight[d] = 0
    BY DEF Deploy, RowsInv
  <1>2. st \in [Deployment -> Status] /\ inFlight \in [Deployment -> Nat]
    BY DEF TypeOK, Status
  <1>3. Outcome(D, st, inFlight)
    BY Deploys
  <1>4. \A x \in Deployment : st[x] = "active" => inFlight[x] = 0
    BY <1>1, RowPhases DEF TypeOK
  <1>5. \A x \in Deployment : p[x] = PhaseOf(st[x], inFlight[x])
    BY <1>1, RowPhases DEF TypeOK, PhaseOf, Phase
  <1>6. Phase[d] = "none"
    BY <1>1, RowPhases
  <1> HIDE DEF D, st, p
  <1>stand. Stand(st, inFlight, p)
    BY <1>4, <1>5 DEF Stand
  <1>7. Begins(p)
    BY <1>2, <1>3, <1>stand, ExecutesBegins
  <1> QED
    BY <1>6, <1>7 DEF Contract!Create, Contract!BeginsFrom, Begins, Phase, p

LEMMA CancelStops ==
  ASSUME TypeOK, RowsInv, NEW d \in Deployment, Cancel(d)
  PROVE  Contract!Stop(d) \/ Contract!Begin
  <1> DEFINE D == Listening("cancelled")
             st == [status EXCEPT ![d] = "cancelled"]
             p == IF inFlight[d] = 0 THEN [Phase EXCEPT ![d] = "stopped"] ELSE Phase
  <1>1. status[d] \in {"active", "running"} /\ inFlight[d] \in Nat
    BY DEF Cancel, Live, TypeOK
  <1>2. st \in [Deployment -> Status] /\ inFlight \in [Deployment -> Nat]
    BY DEF TypeOK, Status
  <1>3. Outcome(D, st, inFlight)
    BY Cancels
  <1>4. \A x \in Deployment : st[x] = "active" => inFlight[x] = 0
    BY RowPhases DEF TypeOK
  <1>5. \A x \in Deployment : p[x] = PhaseOf(st[x], inFlight[x])
    <2>1. \A x \in Deployment \ {d} : p[x] = PhaseOf(st[x], inFlight[x])
      BY RowPhases DEF TypeOK, Phase
    <2>2. p[d] = PhaseOf("cancelled", inFlight[d])
      BY <1>1, RowPhases DEF PhaseOf, Phase
    <2>3. st[d] = "cancelled"
      BY DEF TypeOK
    <2> QED
      BY <2>1, <2>2, <2>3
  <1>6. inFlight[d] = 0 => Phase[d] \in {"ready", "lost"}
    BY <1>1, RowPhases
  <1> HIDE DEF D, st, p
  <1>stand. Stand(st, inFlight, p)
    BY <1>4, <1>5 DEF Stand
  <1>7. Begins(p)
    BY <1>2, <1>3, <1>stand, ExecutesBegins
  <1>8. CASE inFlight[d] = 0
    BY <1>6, <1>7, <1>8 DEF Contract!Stop, Contract!BeginsFrom, Begins, Phase, p
  <1>9. CASE inFlight[d] # 0
    BY <1>7, <1>9 DEF Contract!Begin, Contract!BeginsFrom, Begins, Phase, p
  <1> QED
    BY <1>8, <1>9

LEMMA StartsBegin ==
  ASSUME TypeOK, RowsInv, NEW D, Starts(D)
  PROVE  Contract!Begin
  <1>1. Outcome(D, status, inFlight) /\ status \in [Deployment -> Status]
        /\ inFlight \in [Deployment -> Nat]
    BY DEF Starts, TypeOK
  <1>2. \A x \in Deployment : status[x] = "active" => inFlight[x] = 0
    BY RowPhases
  <1>3. \A x \in Deployment : Phase[x] = PhaseOf(status[x], inFlight[x])
    BY RowPhases
  <1>stand. Stand(status, inFlight, Phase)
    BY <1>2, <1>3 DEF Stand
  <1>4. Begins(Phase)
    BY <1>1, <1>stand, ExecutesBegins
  <1> QED
    BY <1>4 DEF Contract!Begin, Contract!BeginsFrom, Begins, Phase

LEMMA FinishFinishes ==
  ASSUME TypeOK, RowsInv, NEW d \in Deployment, NEW e \in {"executed", "failed"}, Finish(d, e)
  PROVE  Contract!Finish(d)
  <1> DEFINE D == Listening(e)
             st == [status EXCEPT ![d] = "active"]
             fl == [inFlight EXCEPT ![d] = @ - 1]
             p == [Phase EXCEPT ![d] = "ready"]
  <1>1. inFlight[d] = 1
    BY Finishes
  <1>2. st \in [Deployment -> Status] /\ fl \in [Deployment -> Nat]
    BY <1>1 DEF TypeOK, Status
  <1>3. Outcome(D, st, fl)
    BY Finishes
  <1>4. \A x \in Deployment : st[x] = "active" => fl[x] = 0
    BY <1>1, RowPhases DEF TypeOK
  <1>5. \A x \in Deployment : p[x] = PhaseOf(st[x], fl[x])
    <2>1. \A x \in Deployment \ {d} : p[x] = PhaseOf(st[x], fl[x])
      BY RowPhases DEF TypeOK, Phase
    <2>2. p[d] = "ready" /\ st[d] = "active" /\ fl[d] = 0
      BY <1>1 DEF TypeOK, Phase
    <2>3. PhaseOf("active", 0) = "ready"
      BY DEF PhaseOf
    <2> HIDE DEF st, fl, p
    <2> QED
      BY <2>1, <2>2, <2>3
  <1>6. Phase[d] = "busy"
    BY <1>1, RowPhases
  <1> HIDE DEF D, st, fl, p
  <1>stand. Stand(st, fl, p)
    BY <1>4, <1>5 DEF Stand
  <1>7. Begins(p)
    BY <1>2, <1>3, <1>stand, ExecutesBegins
  <1> QED
    BY <1>6, <1>7 DEF Contract!Finish, Contract!BeginsFrom, Begins, Phase, p

LEMMA CrashCrashes ==
  ASSUME TypeOK, RowsInv, Crash
  PROVE  Contract!Crash
  <1> DEFINE S == {d \in Deployment : inFlight[d] > 0 /\ status[d] = "cancelled"}
  <1>1. S \in SUBSET {d \in Deployment : Phase[d] = "busy"}
    BY RowPhases
  <1>2. ASSUME NEW d \in Deployment
        PROVE  PhaseOf(status[d], 0) =
                 IF Phase[d] # "busy" THEN Phase[d]
                 ELSE IF d \in S THEN "stopped" ELSE "lost"
    <2>1. CASE inFlight[d] = 0
      BY <2>1, RowPhases DEF TypeOK, PhaseOf, Status
    <2>2. CASE inFlight[d] > 0
      <3>1. Phase[d] = "busy" /\ status[d] \in {"running", "cancelled"}
        BY <2>2, RowPhases DEF TypeOK, RowsInv, Status
      <3> QED
        BY <2>2, <3>1 DEF PhaseOf
    <2> QED
      BY <2>1, <2>2 DEF TypeOK
  <1>3. Phase' = [d \in Deployment |-> PhaseOf(status[d], 0)]
    BY DEF Phase, Crash
  <1> HIDE DEF S
  <1>4. Phase' = [d \in Deployment |->
                    IF Phase[d] # "busy" THEN Phase[d]
                    ELSE IF d \in S THEN "stopped" ELSE "lost"]
    BY <1>2, <1>3
  <1> QED
    BY <1>1, <1>4 DEF Contract!Crash, Phase

\* The deployer implements DeploymentContract: it runs each deployment at most
\* once at a time, starts none that has stopped, and repeats no run that a crash
\* interrupted (workflow-deployer.ts:118-330).
THEOREM ContractHolds == Spec => ContractSpec
  <1>1. Init => Contract!Init
    BY DEF Init, Contract!Init, PhaseOf
  <1>2. ASSUME TypeOK, RowsInv, [Next]_vars
        PROVE  [Contract!Next]_Phase
    <2>1. ASSUME NEW d \in Deployment, NEW t \in Trigger, Deploy(d, t)
          PROVE  Contract!Next
      BY <1>2, <2>1, DeployCreates DEF Contract!Next
    <2>2. ASSUME NEW d \in Deployment, Cancel(d)
          PROVE  Contract!Next
      BY <1>2, <2>2, CancelStops DEF Contract!Next
    <2>3. ASSUME NEW D, Starts(D)
          PROVE  Contract!Next
      BY <1>2, <2>3, StartsBegin DEF Contract!Next
    <2>4. ASSUME NEW d \in Deployment, NEW e \in {"executed", "failed"}, Finish(d, e)
          PROVE  Contract!Next
      BY <1>2, <2>4, FinishFinishes DEF Contract!Next
    <2>5. CASE Crash
      BY <1>2, <2>5, CrashCrashes DEF Contract!Next
    <2>6. CASE UNCHANGED vars
      BY <2>6 DEF vars, Phase
    <2> QED
      BY <1>2, <2>1, <2>2, <2>3, <2>4, <2>5, <2>6, StepSplits
  <1>3. TypeOK /\ RowsInv /\ [Next]_vars
          => [Contract!Next]_([d \in Deployment |-> PhaseOf(status[d], inFlight[d])])
    BY <1>2 DEF Phase
  <1> QED
    BY <1>1, <1>3, Rows, PTL DEF Spec, ContractSpec, Contract!Spec

=============================================================================
