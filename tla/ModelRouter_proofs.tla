------------------------- MODULE ModelRouter_proofs -------------------------
(***************************************************************************)
(* What route() guarantees, for every number of callers, models and        *)
(* retries.  The steps of a caller that matter leave it either calling a   *)
(* model whose breaker admits it or at its end (CallsOrFails).             *)
(***************************************************************************)
EXTENDS ModelRouter, FiniteSetTheorems, TLAPS

USE RouterAssumption, ThresholdAssumption

-----------------------------------------------------------------------------
(***************************************************************************)
(* The breaker                                                             *)
(***************************************************************************)

\* A closed breaker has failures left.
Sound(b) == b \in Breaker /\ (b.state = "closed" => b.failures < Threshold)

\* How a breaker moves: open and not rested it stays, closed it opens at the last
\* failure only.
Moves(b, after) ==
  /\ b.state = "open" /\ ~ b.rested => after.state = "open"
  /\ b.state = "closed" /\ after.state = "open" => b.failures = Threshold - 1
  /\ b.state = "closed" => after.state # "half-open"

LEMMA EnteredMoves ==
  ASSUME NEW b, Sound(b), Admits(b)
  PROVE  /\ Sound(Entered(b)) /\ Moves(b, Entered(b))
         /\ Entered(b).state = "open" => b.state = "open"
  BY DEF Sound, Breaker, BreakerState, Admits, Entered, Moves

LEMMA SuccessMoves ==
  ASSUME NEW b, Sound(b)
  PROVE  /\ Sound(AfterSuccess(b)) /\ Moves(b, AfterSuccess(b))
         /\ b.state = "closed" => AfterSuccess(b).state = "closed"
  BY DEF Sound, Breaker, BreakerState, AfterSuccess, Moves

LEMMA FailureMoves ==
  ASSUME NEW b, Sound(b)
  PROVE  /\ Sound(AfterFailure(b)) /\ Moves(b, AfterFailure(b))
         /\ ~ AfterFailure(b).rested
  BY DEF Sound, Breaker, BreakerState, AfterFailure, Moves

LEMMA RestMoves ==
  ASSUME NEW b, Sound(b), b.state = "open"
  PROVE  /\ Sound([b EXCEPT !.rested = TRUE])
         /\ [b EXCEPT !.rested = TRUE].state = "open"
  BY DEF Sound, Breaker, BreakerState

\* Breakers of all providers, and how they move together.
SoundBreakers(b) == b \in [Provider -> Breaker] /\ \A p \in Provider : Sound(b[p])

AllMove(b, after) == \A p \in Provider : Moves(b[p], after[p])

NoneOpens(b, after) == \A p \in Provider : after[p].state = "open" => b[p].state = "open"

\* The breakers after the failure of a call at provider q.
LEMMA FailureAt ==
  ASSUME NEW q \in Provider, SoundBreakers(breaker)
  PROVE  LET b == [breaker EXCEPT ![q] = AfterFailure(@)]
         IN  /\ SoundBreakers(b)
             /\ \A p \in Provider \ {q} : b[p] = breaker[p]
             /\ b[q] = AfterFailure(breaker[q])
             /\ ~ b[q].rested
  <1>1. Sound(breaker[q])
    BY DEF SoundBreakers
  <1>2. Sound(AfterFailure(breaker[q])) /\ ~ AfterFailure(breaker[q]).rested
    BY <1>1, FailureMoves
  <1> QED
    BY <1>1, <1>2 DEF SoundBreakers, Sound

-----------------------------------------------------------------------------
(***************************************************************************)
(* What a step does                                                        *)
(***************************************************************************)

\* Whoever is calling has a model, and whoever has started has asked for one.
RouteInv ==
  /\ SoundBreakers(breaker)
  /\ \A c \in InFlight : model[c] \in Model
  /\ \A c \in Caller : pc[c] # "idle" => asked[c] \in Model \cup {AnyModel}
  /\ \A c \in Caller : pc[c] \in {"idle", "discovering", "ready"} => ~ fellBack[c]

\* The caller goes on with a call that is admitted, or its route is over.
CallsOrFails(c, b) ==
  \/ \E m \in Model, loop \in BOOLEAN, later \in SUBSET Model : Calls(c, m, b, loop, later)
  \/ Fails(c, b)

LEMMA FallsBackOutcome ==
  ASSUME NEW c \in Caller, NEW candidates \in SUBSET Model, NEW b,
         FallsBack(c, candidates, b)
  PROVE  CallsOrFails(c, b)
  <1>1. ASSUME NEW m \in candidates,
               Calls(c, m, b, TRUE, {n \in candidates : Rank[n] < Rank[m]})
        PROVE  CallsOrFails(c, b)
    <2>1. /\ m \in Model /\ TRUE \in BOOLEAN
          /\ {n \in candidates : Rank[n] < Rank[m]} \in SUBSET Model
      OBVIOUS
    <2> QED
      BY <1>1, <2>1 DEF CallsOrFails
  <1> QED
    BY <1>1 DEF FallsBack, CallsOrFails

LEMMA CallFailedOutcome ==
  ASSUME TypeOK, NEW c \in Caller, NEW m, NEW b, CallFailed(c, m, b)
  PROVE  CallsOrFails(c, b)
  <1>1. Fallbacks(c, m, b) \in SUBSET Model
    BY DEF Fallbacks, Available, TypeOK
  <1>2. FallsBack(c, Fallbacks(c, m, b), b) => CallsOrFails(c, b)
    BY <1>1, FallsBackOutcome
  <1> QED
    BY <1>2 DEF CallFailed, CallsOrFails

LEMMA EnterOutcome ==
  ASSUME TypeOK, RouteInv, NEW c \in Caller, Enter(c)
  PROVE  /\ pc[c] = "ready" /\ WithinBudget
         /\ CallsOrFails(c, breaker)
         /\ UNCHANGED <<spent, discoveryVars>>
  <1>1. Selectable \subseteq Model
    BY DEF Selectable, Available, TypeOK
  <1>2. asked[c] \in Model \cup {AnyModel}
    BY DEF Enter, RouteInv
  <1>3. ASSUME NEW m \in Choices(c),
               Calls(c, m, breaker, FALSE, {})
        PROVE  CallsOrFails(c, breaker)
    <2>1. m \in Model
      BY <1>1, <1>2 DEF Choices
    <2>2. FALSE \in BOOLEAN /\ {} \in SUBSET Model
      OBVIOUS
    <2> QED
      BY <1>3, <2>1, <2>2 DEF CallsOrFails
  <1>4. ASSUME NEW m, CallFailed(c, m, breaker)
        PROVE  CallsOrFails(c, breaker)
    BY <1>4, CallFailedOutcome
  <1>5. Fails(c, breaker) => CallsOrFails(c, breaker)
    BY DEF CallsOrFails
  <1>6. CallsOrFails(c, breaker)
    BY <1>3, <1>4, <1>5 DEF Enter
  <1> QED
    BY <1>6 DEF Enter

LEMMA GiveUpOutcome ==
  ASSUME TypeOK, RouteInv, NEW c \in Caller, GiveUp(c)
  PROVE  LET q == ProviderOf[model[c]]
         IN  /\ c \in InFlight
             /\ q \in Provider \ Healthy
             /\ CallsOrFails(c, [breaker EXCEPT ![q] = AfterFailure(@)])
             /\ UNCHANGED <<spent, discoveryVars>>
  <1>1. c \in InFlight /\ ProviderOf[model[c]] \in Provider \ Healthy
    BY DEF GiveUp, InFlight, RouteInv
  <1>2. CallFailed(c, model[c], [breaker EXCEPT ![ProviderOf[model[c]]] = AfterFailure(@)])
    BY DEF GiveUp
  <1>3. CallsOrFails(c, [breaker EXCEPT ![ProviderOf[model[c]]] = AfterFailure(@)])
    BY <1>2, CallFailedOutcome
  <1> QED
    BY <1>1, <1>3 DEF GiveUp

\* What the other steps of a caller do to the breakers, the money and itself.
LEMMA SucceedOutcome ==
  ASSUME TypeOK, RouteInv, NEW c \in Caller, Succeed(c)
  PROVE  LET q == ProviderOf[model[c]]
         IN  /\ c \in InFlight
             /\ q \in Provider
             /\ breaker' = [breaker EXCEPT ![q] = AfterSuccess(@)]
             /\ SoundBreakers(breaker') /\ AllMove(breaker, breaker')
             /\ Ends(c)
  <1>1. c \in InFlight /\ ProviderOf[model[c]] \in Provider
    BY DEF Succeed, InFlight, RouteInv
  <1>2. breaker' = [breaker EXCEPT ![ProviderOf[model[c]]] = AfterSuccess(@)]
    BY DEF Succeed
  <1>3. \A p \in Provider : Sound(AfterSuccess(breaker[p])) /\ Moves(breaker[p], AfterSuccess(breaker[p]))
    BY SuccessMoves DEF RouteInv, SoundBreakers
  <1>4. \A p \in Provider : Moves(breaker[p], breaker[p])
    BY DEF Moves
  <1> QED
    BY <1>1, <1>2, <1>3, <1>4 DEF Succeed, SoundBreakers, AllMove, Sound, RouteInv

\* Whichever way CallsOrFails goes: the breakers stay sound, and one that is open
\* and has not rested is left alone and gets no caller.
LEMMA CallsOrFailsOutcome ==
  ASSUME TypeOK, RouteInv, NEW c \in Caller, NEW b, SoundBreakers(b), CallsOrFails(c, b)
  PROVE  /\ SoundBreakers(breaker') /\ AllMove(b, breaker') /\ NoneOpens(b, breaker')
         /\ \A p \in Provider : b[p].state = "open" /\ ~ b[p].rested =>
               /\ breaker'[p] = b[p]
               /\ pc'[c] \in {"calling", "backoff"} => ProviderOf[model'[c]] # p
         /\ \A x \in Caller \ {c} : pc'[x] = pc[x] /\ model'[x] = model[x]
  <1>1. CASE Fails(c, b)
    <2>1. breaker' = b /\ pc' = [pc EXCEPT ![c] = "idle"]
          /\ model' = [model EXCEPT ![c] = NoModel]
      BY <1>1 DEF Fails, Ends
    <2> QED
      BY <2>1 DEF TypeOK, AllMove, NoneOpens, Moves
  <1>2. ASSUME NEW m \in Model, NEW loop \in BOOLEAN, NEW later \in SUBSET Model,
               Calls(c, m, b, loop, later)
        PROVE  /\ SoundBreakers(breaker') /\ AllMove(b, breaker') /\ NoneOpens(b, breaker')
               /\ \A p \in Provider : b[p].state = "open" /\ ~ b[p].rested =>
                     /\ breaker'[p] = b[p]
                     /\ pc'[c] \in {"calling", "backoff"} => ProviderOf[model'[c]] # p
               /\ \A x \in Caller \ {c} : pc'[x] = pc[x] /\ model'[x] = model[x]
    <2> DEFINE q == ProviderOf[m]
    <2>1. q \in Provider /\ Admits(b[q])
      BY <1>2 DEF Calls, BreakerOf
    <2>2. breaker' = [b EXCEPT ![q] = Entered(@)]
      BY <1>2 DEF Calls
    <2>3. pc' = [pc EXCEPT ![c] = "calling"] /\ model' = [model EXCEPT ![c] = m]
      BY <1>2 DEF Calls
    <2> HIDE DEF q
    <2>4. /\ Sound(Entered(b[q])) /\ Moves(b[q], Entered(b[q]))
          /\ Entered(b[q]).state = "open" => b[q].state = "open"
      BY <2>1, EnteredMoves DEF SoundBreakers
    <2>5. \A p \in Provider \ {q} : breaker'[p] = b[p]
      BY <2>1, <2>2 DEF SoundBreakers
    <2>6. breaker'[q] = Entered(b[q])
      BY <2>1, <2>2 DEF SoundBreakers
    <2>7. SoundBreakers(breaker')
      BY <2>1, <2>2, <2>4 DEF SoundBreakers, Sound
    <2>8. \A p \in Provider : Moves(b[p], b[p])
      BY DEF Moves
    <2>9. AllMove(b, breaker') /\ NoneOpens(b, breaker')
      BY <2>4, <2>5, <2>6, <2>8 DEF AllMove, NoneOpens
    <2>10. \A p \in Provider : b[p].state = "open" /\ ~ b[p].rested => p # q
      BY <2>1 DEF Admits
    <2>11. ProviderOf[model'[c]] = q
      BY <2>3 DEF TypeOK, q
    <2>12. \A x \in Caller \ {c} : pc'[x] = pc[x] /\ model'[x] = model[x]
      BY <2>3 DEF TypeOK
    <2> QED
      BY <2>5, <2>7, <2>9, <2>10, <2>11, <2>12
  <1> QED
    BY <1>1, <1>2 DEF CallsOrFails

-----------------------------------------------------------------------------
(***************************************************************************)
(* Types and breakers                                                      *)
(***************************************************************************)

\* A failure at q, then a call or the end.
LEMMA GiveUpBreakers ==
  ASSUME TypeOK, RouteInv, NEW c \in Caller, GiveUp(c)
  PROVE  /\ SoundBreakers(breaker') /\ AllMove(breaker, breaker')
         /\ \A p \in Provider : breaker[p].state = "open" /\ ~ breaker[p].rested =>
               (pc'[c] \in {"calling", "backoff"} => ProviderOf[model'[c]] # p)
         /\ \A x \in Caller \ {c} : pc'[x] = pc[x] /\ model'[x] = model[x]
  <1> DEFINE q == ProviderOf[model[c]]
             b == [breaker EXCEPT ![q] = AfterFailure(@)]
  <1>1. q \in Provider /\ CallsOrFails(c, b)
    BY GiveUpOutcome
  <1>2. /\ SoundBreakers(b) /\ \A p \in Provider \ {q} : b[p] = breaker[p]
        /\ b[q] = AfterFailure(breaker[q]) /\ ~ b[q].rested
    BY <1>1, FailureAt DEF RouteInv
  <1>3. Moves(breaker[q], b[q])
    BY <1>1, <1>2, FailureMoves DEF RouteInv, SoundBreakers
  <1> HIDE DEF b, q
  <1>4. /\ SoundBreakers(breaker') /\ AllMove(b, breaker') /\ NoneOpens(b, breaker')
        /\ \A p \in Provider : b[p].state = "open" /\ ~ b[p].rested =>
              /\ breaker'[p] = b[p]
              /\ pc'[c] \in {"calling", "backoff"} => ProviderOf[model'[c]] # p
        /\ \A x \in Caller \ {c} : pc'[x] = pc[x] /\ model'[x] = model[x]
    BY <1>1, <1>2, CallsOrFailsOutcome
  <1>5. ASSUME NEW p \in Provider
        PROVE  Moves(breaker[p], breaker'[p])
    <2>1. CASE p # q
      BY <1>2, <1>4, <2>1 DEF AllMove
    <2>2. CASE p = q /\ b[q].state = "open"
      BY <1>2, <1>3, <1>4, <2>2
    <2>3. CASE p = q /\ b[q].state # "open"
      <3>1. b[q].state \in {"closed", "half-open"}
        BY <1>1, <1>2, <2>3 DEF SoundBreakers, Sound, Breaker, BreakerState
      <3>2. breaker'[q].state # "open" /\ Moves(b[q], breaker'[q])
        BY <1>1, <1>4, <2>3 DEF AllMove, NoneOpens
      <3> QED
        BY <1>3, <2>3, <3>1, <3>2 DEF Moves
    <2> QED
      BY <2>1, <2>2, <2>3
  <1>6. ASSUME NEW p \in Provider, breaker[p].state = "open", ~ breaker[p].rested
        PROVE  b[p].state = "open" /\ ~ b[p].rested
    BY <1>2, <1>3, <1>6 DEF Moves
  <1> QED
    BY <1>4, <1>5, <1>6 DEF AllMove

\* Every step keeps the breakers sound, and moves them as Moves says; an open one
\* that has not rested gets no new caller.
Quiet(p) == breaker[p].state = "open" /\ ~ breaker[p].rested

LEMMA BreakerStep ==
  ASSUME TypeOK, RouteInv, [Next]_vars
  PROVE  /\ SoundBreakers(breaker') /\ AllMove(breaker, breaker')
         /\ \A p \in Provider : Quiet(p) => InFlightAt(p)' \subseteq InFlightAt(p)
  <1>1. ASSUME breaker' = breaker,
               \A x \in Caller : x \in InFlight' => x \in InFlight /\ model'[x] = model[x]
        PROVE  /\ SoundBreakers(breaker') /\ AllMove(breaker, breaker')
               /\ \A p \in Provider : Quiet(p) => InFlightAt(p)' \subseteq InFlightAt(p)
    BY <1>1 DEF AllMove, Moves, RouteInv, InFlightAt, InFlight
  <1>2. ASSUME NEW c \in Caller, NEW m \in Model \cup {AnyModel}, Start(c, m)
        PROVE  breaker' = breaker
               /\ \A x \in Caller : x \in InFlight' => x \in InFlight /\ model'[x] = model[x]
    BY <1>2 DEF Start, InFlight, TypeOK
  <1>3. ASSUME NEW c \in Caller, Discovered(c) \/ Refuse(c) \/ BackOff(c) \/ Retry(c)
        PROVE  breaker' = breaker
               /\ \A x \in Caller : x \in InFlight' => x \in InFlight /\ model'[x] = model[x]
    BY <1>3 DEF Discovered, Refuse, Ends, BackOff, Retry, InFlight, TypeOK
  <1>4. ASSUME NEW c \in Caller, Enter(c)
        PROVE  /\ SoundBreakers(breaker') /\ AllMove(breaker, breaker')
               /\ \A p \in Provider : Quiet(p) => InFlightAt(p)' \subseteq InFlightAt(p)
    <2>1. /\ SoundBreakers(breaker') /\ AllMove(breaker, breaker')
          /\ \A p \in Provider : /\ breaker[p].state = "open" /\ ~ breaker[p].rested
                                 /\ pc'[c] \in {"calling", "backoff"}
                                 => ProviderOf[model'[c]] # p
          /\ \A x \in Caller \ {c} : pc'[x] = pc[x] /\ model'[x] = model[x]
      BY <1>4, EnterOutcome, CallsOrFailsOutcome DEF RouteInv
    <2> QED
      BY <2>1 DEF InFlightAt, InFlight, Quiet
  <1>5. ASSUME NEW c \in Caller, Succeed(c)
        PROVE  /\ SoundBreakers(breaker') /\ AllMove(breaker, breaker')
               /\ \A p \in Provider : Quiet(p) => InFlightAt(p)' \subseteq InFlightAt(p)
    <2>1. SoundBreakers(breaker') /\ AllMove(breaker, breaker') /\ Ends(c)
      BY <1>5, SucceedOutcome
    <2> QED
      BY <2>1 DEF Ends, InFlightAt, InFlight, TypeOK
  <1>6. ASSUME NEW c \in Caller, GiveUp(c)
        PROVE  /\ SoundBreakers(breaker') /\ AllMove(breaker, breaker')
               /\ \A p \in Provider : Quiet(p) => InFlightAt(p)' \subseteq InFlightAt(p)
    <2>1. /\ SoundBreakers(breaker') /\ AllMove(breaker, breaker')
          /\ \A p \in Provider : breaker[p].state = "open" /\ ~ breaker[p].rested =>
                (pc'[c] \in {"calling", "backoff"} => ProviderOf[model'[c]] # p)
          /\ \A x \in Caller \ {c} : pc'[x] = pc[x] /\ model'[x] = model[x]
      BY <1>6, GiveUpBreakers
    <2> QED
      BY <2>1 DEF InFlightAt, InFlight, Quiet
  <1>7. CASE ConfigChanged
    BY <1>1, <1>7 DEF ConfigChanged, callVars, InFlight
  <1>8. CASE UNCHANGED vars
    BY <1>1, <1>8 DEF vars, callVars, InFlight
  <1>9. CASE TimePasses
    <2>1. PICK q \in Provider : Rest(q)
      BY <1>9 DEF TimePasses
    <2>2. /\ breaker[q].state = "open"
          /\ breaker' = [breaker EXCEPT ![q] = [@ EXCEPT !.rested = TRUE]]
      BY <2>1 DEF Rest
    <2>3. /\ Sound([breaker[q] EXCEPT !.rested = TRUE])
          /\ [breaker[q] EXCEPT !.rested = TRUE].state = "open"
      BY <2>2, RestMoves DEF RouteInv, SoundBreakers
    <2>4. SoundBreakers(breaker') /\ AllMove(breaker, breaker')
      BY <2>2, <2>3 DEF RouteInv, SoundBreakers, Sound, AllMove, Moves
    <2> QED
      BY <1>9, <2>4 DEF TimePasses, callVars, InFlightAt, InFlight
  <1> QED
    BY <1>1, <1>2, <1>3, <1>4, <1>5, <1>6, <1>7, <1>8, <1>9 DEF Next, Step

\* Types, but for the breakers.
LEMMA TypeStep ==
  ASSUME TypeOK, RouteInv, [Next]_vars
  PROVE  TypeOK' /\ RouteInv'
  <1>0. breaker' \in [Provider -> Breaker] /\ SoundBreakers(breaker')
    BY BreakerStep DEF SoundBreakers
  <1> USE DEF TypeOK, RouteInv, InFlight
  <1>1. ASSUME NEW c \in Caller, NEW m \in Model \cup {AnyModel}, Start(c, m)
        PROVE  TypeOK' /\ RouteInv'
    BY <1>0, <1>1 DEF Start
  <1>2. ASSUME NEW c \in Caller, Discovered(c)
        PROVE  TypeOK' /\ RouteInv'
    BY <1>0, <1>2 DEF Discovered
  <1>3. ASSUME NEW c \in Caller, Ends(c), spent' \in Nat, stranded' \subseteq Caller,
               UNCHANGED discoveryVars
        PROVE  TypeOK' /\ RouteInv'
    BY <1>0, <1>3 DEF Ends, discoveryVars
  <1>4. ASSUME NEW c \in Caller, NEW b, CallsOrFails(c, b), UNCHANGED <<spent, discoveryVars>>,
               pc[c] # "idle"
        PROVE  TypeOK' /\ RouteInv'
    <2>1. CASE Fails(c, b)
      BY <1>3, <1>4, <2>1 DEF Fails
    <2>2. ASSUME NEW m \in Model, NEW loop \in BOOLEAN, NEW later \in SUBSET Model,
                 Calls(c, m, b, loop, later)
          PROVE  TypeOK' /\ RouteInv'
      <3>1. TypeOK'
        BY <1>0, <1>4, <2>2 DEF Calls, discoveryVars
      <3> QED
        BY <1>0, <1>4, <2>2, <3>1 DEF Calls
    <2> QED
      BY <1>4, <2>1, <2>2 DEF CallsOrFails
  <1>5. ASSUME NEW c \in Caller, Succeed(c)
        PROVE  TypeOK' /\ RouteInv'
    <2>1. spent' \in Nat
      BY <1>5 DEF Succeed
    <2>2. Ends(c) /\ UNCHANGED <<stranded, discoveryVars>>
      BY <1>5 DEF Succeed
    <2> HIDE DEF RouteInv
    <2> QED
      BY <1>3, <2>1, <2>2
  <1>6. ASSUME NEW c \in Caller, BackOff(c)
        PROVE  TypeOK' /\ RouteInv'
    BY <1>0, <1>6 DEF BackOff, discoveryVars
  <1>7. ASSUME NEW c \in Caller, Retry(c)
        PROVE  TypeOK' /\ RouteInv'
    BY <1>0, <1>7 DEF Retry, discoveryVars
  <1>8. CASE ConfigChanged
    <2>1. UNCHANGED callVars /\ UNCHANGED <<spent, discoveries>>
      BY <1>8 DEF ConfigChanged
    <2>2. changes' \in 0..MaxChanges /\ catalog' \in Catalogs /\ discovered' = {}
          /\ discoveryDone' = FALSE
      BY <1>8 DEF ConfigChanged
    <2>3. TypeOK'
      BY <1>0, <2>1, <2>2 DEF callVars
    <2>4. RouteInv'
      BY <1>0, <2>1 DEF callVars
    <2> QED
      BY <2>3, <2>4
  <1>9. CASE UNCHANGED vars \/ TimePasses
    BY <1>0, <1>9 DEF vars, callVars, discoveryVars, TimePasses
  <1>10. ASSUME NEW c \in Caller, Refuse(c)
         PROVE  TypeOK' /\ RouteInv'
    BY <1>3, <1>10 DEF Refuse
  <1>11. ASSUME NEW c \in Caller, Enter(c)
         PROVE  TypeOK' /\ RouteInv'
    <2>1. pc[c] # "idle" /\ CallsOrFails(c, breaker) /\ UNCHANGED <<spent, discoveryVars>>
      BY <1>11, EnterOutcome
    <2> QED
      BY <1>4, <2>1
  <1>12. ASSUME NEW c \in Caller, GiveUp(c)
         PROVE  TypeOK' /\ RouteInv'
    <2>1. /\ pc[c] # "idle" /\ UNCHANGED <<spent, discoveryVars>>
          /\ CallsOrFails(c, [breaker EXCEPT ![ProviderOf[model[c]]] = AfterFailure(@)])
      BY <1>12, GiveUpOutcome DEF GiveUp
    <2> QED
      BY <1>4, <2>1
  <1> QED
    BY <1>1, <1>2, <1>5, <1>6, <1>7, <1>8, <1>9, <1>10, <1>11, <1>12 DEF Next, Step

LEMMA Routes == Spec => [](TypeOK /\ RouteInv)
  <1>1. Init => TypeOK /\ RouteInv
    <2> SUFFICES ASSUME Init PROVE TypeOK /\ RouteInv
      OBVIOUS
    <2>1. breaker \in [Provider -> Breaker] /\ SoundBreakers(breaker)
      BY DEF Init, BreakerInit, Fresh, Breaker, BreakerState, SoundBreakers, Sound
    <2>2. /\ pc \in [Caller -> {"idle", "discovering", "ready", "calling", "backoff"}]
          /\ asked \in [Caller -> Model \cup {AnyModel, NoModel}]
          /\ model \in [Caller -> Model \cup {NoModel}]
      BY DEF Init
    <2>3. /\ attempt \in [Caller -> 0..MaxRetries]
          /\ fellBack \in [Caller -> BOOLEAN]
          /\ rest \in [Caller -> SUBSET Model]
      BY DEF Init
    <2>6. spent \in Nat /\ discoveries \in Nat /\ changes \in 0..MaxChanges
      BY DEF Init
    <2>7. catalog \in Catalogs /\ discovered \in SUBSET Model /\ stranded \in SUBSET Caller
      BY DEF Init
    <2>8. discoveryDone \in BOOLEAN
      BY DEF Init
    <2>4. TypeOK
      BY <2>1, <2>2, <2>3, <2>6, <2>7, <2>8 DEF TypeOK
    <2>5. \A c \in Caller : pc[c] = "idle" /\ fellBack[c] = FALSE
      BY DEF Init
    <2> QED
      BY <2>1, <2>4, <2>5 DEF RouteInv, InFlight
  <1>2. TypeOK /\ RouteInv /\ [Next]_vars => TypeOK' /\ RouteInv'
    BY TypeStep
  <1> QED
    BY <1>1, <1>2, PTL DEF Spec

\* All variables keep to their types: no call is retried more than MaxRetries
\* times (model-router.ts:140-260, retry.ts:40-95).
THEOREM TypeCorrect == Spec => []TypeOK
  BY Routes, PTL

\* While a breaker rests nobody new gets through, and no late answer closes it
\* (retry.ts:153-187).
THEOREM OpenHoldsAlways == Spec => OpenHolds
  <1>1. ASSUME TypeOK, RouteInv, [Next]_vars
        PROVE  [\A p \in Provider :
                   breaker[p].state = "open" /\ ~ breaker[p].rested
                     => /\ breaker'[p].state = "open"
                        /\ InFlightAt(p)' \subseteq InFlightAt(p)]_vars
    BY <1>1, BreakerStep DEF AllMove, Moves, Quiet
  <1> QED
    BY <1>1, Routes, PTL DEF Spec, OpenHolds

\* A closed breaker opens with the last of Threshold failures in a row, and is
\* never half open before (retry.ts:107-130).
THEOREM TripsAtThresholdHolds == Spec => TripsAtThreshold
  <1>1. ASSUME TypeOK, RouteInv, [Next]_vars
        PROVE  [\A p \in Provider :
                   /\ breaker[p].state = "closed" /\ breaker'[p].state = "open"
                        => breaker[p].failures = Threshold - 1
                   /\ breaker[p].state = "closed" => breaker'[p].state # "half-open"]_vars
    BY <1>1, BreakerStep DEF AllMove, Moves
  <1> QED
    BY <1>1, Routes, PTL DEF Spec, TripsAtThreshold
-----------------------------------------------------------------------------
(***************************************************************************)
(* Discovery and the budget                                                *)
(***************************************************************************)

\* The last discovery belongs to the configuration of now, if there was one.
DiscoveryInv == discoveries <= changes + (IF discoveryDone THEN 1 ELSE 0)

LEMMA DiscoveryStep ==
  ASSUME TypeOK, DiscoveryInv, [Next]_vars, RouteInv
  PROVE  DiscoveryInv'
  <1>1. ASSUME UNCHANGED <<changes, discoveryDone, discoveries>>
        PROVE  DiscoveryInv'
    BY <1>1 DEF DiscoveryInv
  <1>2. ASSUME NEW c \in Caller, NEW m \in Model \cup {AnyModel}, Start(c, m)
        PROVE  DiscoveryInv'
    BY <1>2 DEF Start, DiscoveryInv, TypeOK
  <1>3. CASE ConfigChanged
    BY <1>3 DEF ConfigChanged, DiscoveryInv, TypeOK
  <1>4. ASSUME NEW c \in Caller, Step(c)
        PROVE  UNCHANGED <<changes, discoveryDone, discoveries>>
    BY <1>4 DEF Step, Discovered, Refuse, Enter, Succeed, BackOff, Retry, GiveUp, discoveryVars
  <1>5. TimePasses \/ UNCHANGED vars => UNCHANGED <<changes, discoveryDone, discoveries>>
    BY DEF TimePasses, vars, discoveryVars
  <1> QED
    BY <1>1, <1>2, <1>3, <1>4, <1>5 DEF Next

\* Routes that start together share one discovery for each configuration
\* (model-router.ts:373-386).
THEOREM DiscoverySharedHolds == Spec => []DiscoveryShared
  <1>1. Init => DiscoveryInv
    BY DEF Init, DiscoveryInv
  <1>2. TypeOK /\ RouteInv /\ DiscoveryInv /\ [Next]_vars => DiscoveryInv'
    BY DiscoveryStep
  <1>3. TypeOK /\ DiscoveryInv => DiscoveryShared
    BY DEF TypeOK, DiscoveryInv, DiscoveryShared
  <1> QED
    BY <1>1, <1>2, <1>3, Routes, PTL DEF Spec

\* What the calls in flight may still cost is set aside.
BudgetInv ==
  spent + Estimate + Cardinality(InFlight) * MaxCost
    <= MaxUsd + Cardinality(Caller) * MaxCost

LEMMA Sizes ==
  ASSUME NEW S \in SUBSET Caller
  PROVE  /\ IsFiniteSet(S) /\ Cardinality(S) \in Nat /\ Cardinality(Caller) \in Nat
         /\ Cardinality(S) <= Cardinality(Caller)
  BY FS_Subset, FS_CardinalityType

LEMMA Times ==
  ASSUME NEW k \in Nat, NEW n \in Nat, k <= n
  PROVE  /\ k * MaxCost \in Nat /\ n * MaxCost \in Nat
         /\ k * MaxCost <= n * MaxCost
         /\ k < n => k * MaxCost + MaxCost <= n * MaxCost
  OBVIOUS

\* A caller that is admitted, whatever others cost.
LEMMA BudgetAdmits ==
  ASSUME InFlight' \subseteq Caller, spent' = spent, spent \in Nat, WithinBudget
  PROVE  BudgetInv'
  <1>1. Cardinality(InFlight') <= Cardinality(Caller) /\ Cardinality(InFlight') \in Nat
        /\ Cardinality(Caller) \in Nat
    BY Sizes
  <1>2. /\ Cardinality(InFlight') * MaxCost \in Nat /\ Cardinality(Caller) * MaxCost \in Nat
        /\ Cardinality(InFlight') * MaxCost <= Cardinality(Caller) * MaxCost
    BY <1>1, Times
  <1>3. spent' + Estimate + Cardinality(InFlight') * MaxCost
          <= MaxUsd + Cardinality(Caller) * MaxCost
    BY <1>2 DEF WithinBudget
  <1> QED
    BY <1>3 DEF BudgetInv

\* Nobody new is in flight and nothing is charged.
LEMMA BudgetRests ==
  ASSUME InFlight' \subseteq InFlight, spent' = spent, spent \in Nat, BudgetInv
  PROVE  BudgetInv'
  <1>1. InFlight \in SUBSET Caller
    BY DEF InFlight
  <1>2. /\ IsFiniteSet(InFlight) /\ Cardinality(InFlight) \in Nat
        /\ Cardinality(InFlight') \in Nat
        /\ Cardinality(InFlight') <= Cardinality(InFlight) /\ Cardinality(Caller) \in Nat
    BY <1>1, Sizes, FS_Subset, FS_CardinalityType
  <1>3. /\ Cardinality(InFlight') * MaxCost \in Nat /\ Cardinality(InFlight) * MaxCost \in Nat
        /\ Cardinality(InFlight') * MaxCost <= Cardinality(InFlight) * MaxCost
    BY <1>2, Times
  <1>4. Cardinality(Caller) * MaxCost \in Nat
    BY <1>2, Times
  <1>5. spent' + Estimate + Cardinality(InFlight') * MaxCost
          <= MaxUsd + Cardinality(Caller) * MaxCost
    BY <1>3, <1>4 DEF BudgetInv
  <1> QED
    BY <1>5 DEF BudgetInv

\* One that was in flight is charged.
LEMMA BudgetCharges ==
  ASSUME NEW c \in InFlight, InFlight' = InFlight \ {c}, spent \in Nat,
         NEW cost \in 0..MaxCost, spent' = spent + cost, BudgetInv
  PROVE  BudgetInv'
  <1>1. InFlight \in SUBSET Caller
    BY DEF InFlight
  <1>2. IsFiniteSet(InFlight) /\ Cardinality(InFlight) \in Nat /\ Cardinality(Caller) \in Nat
    BY <1>1, Sizes
  <1>3. Cardinality(InFlight') = Cardinality(InFlight) - 1
    BY <1>2, FS_RemoveElement
  <1>4. Cardinality(InFlight') \in Nat
    BY <1>1, <1>2, Sizes
  <1>5. /\ Cardinality(InFlight') * MaxCost \in Nat /\ Cardinality(InFlight) * MaxCost \in Nat
        /\ Cardinality(InFlight') * MaxCost + MaxCost <= Cardinality(InFlight) * MaxCost
    BY <1>2, <1>3, <1>4, Times
  <1>6. Cardinality(Caller) * MaxCost \in Nat
    BY <1>2, Times
  <1>7. spent' + Estimate + Cardinality(InFlight') * MaxCost
          <= MaxUsd + Cardinality(Caller) * MaxCost
    BY <1>5, <1>6 DEF BudgetInv
  <1> QED
    BY <1>7 DEF BudgetInv

LEMMA BudgetStep ==
  ASSUME TypeOK, RouteInv, BudgetInv, [Next]_vars
  PROVE  BudgetInv'
  <1>1. spent \in Nat
    BY DEF TypeOK
  <1>2. ASSUME NEW c \in Caller, Enter(c)
        PROVE  BudgetInv'
    <2>1. WithinBudget /\ spent' = spent
      BY <1>2, EnterOutcome
    <2>2. InFlight' \subseteq Caller
      BY DEF InFlight
    <2> QED
      BY <1>1, <2>1, <2>2, BudgetAdmits
  <1>3. ASSUME NEW c \in Caller, Succeed(c)
        PROVE  BudgetInv'
    <2>1. c \in InFlight /\ InFlight' = InFlight \ {c}
      BY <1>3 DEF Succeed, Ends, InFlight, TypeOK
    <2>2. PICK cost \in 0..MaxCost : spent' = spent + cost
      BY <1>3 DEF Succeed
    <2> QED
      BY <1>1, <2>1, <2>2, BudgetCharges
  <1>4. ASSUME NEW c \in Caller, GiveUp(c)
        PROVE  BudgetInv'
    <2>1. c \in InFlight /\ spent' = spent
      BY <1>4, GiveUpOutcome DEF GiveUp
    <2>2. \A x \in Caller \ {c} : pc'[x] = pc[x]
      BY <1>4, GiveUpBreakers
    <2>3. InFlight' \subseteq InFlight
      BY <2>1, <2>2 DEF InFlight
    <2> QED
      BY <1>1, <2>1, <2>3, BudgetRests
  <1>5. ASSUME NEW c \in Caller,
               \/ \E m \in Model \cup {AnyModel} : Start(c, m)
               \/ Discovered(c) \/ Refuse(c) \/ BackOff(c) \/ Retry(c)
        PROVE  BudgetInv'
    <2>1. spent' = spent
      BY <1>5 DEF Start, Discovered, Refuse, BackOff, Retry
    <2>2. InFlight' \subseteq InFlight
      BY <1>5 DEF Start, Discovered, Refuse, Ends, BackOff, Retry, InFlight, TypeOK
    <2> QED
      BY <1>1, <2>1, <2>2, BudgetRests
  <1>6. CASE ConfigChanged \/ TimePasses \/ UNCHANGED vars
    <2>1. spent' = spent /\ InFlight' \subseteq InFlight
      BY <1>6 DEF ConfigChanged, TimePasses, vars, callVars, InFlight
    <2> QED
      BY <1>1, <2>1, BudgetRests
  <1> QED
    BY <1>2, <1>3, <1>4, <1>5, <1>6 DEF Next, Step

\* The calls in flight exceed the budget by no more than they cost themselves
\* (budget-checker.ts:54).
THEOREM OverrunBoundedHolds == Spec => []OverrunBounded
  <1>1. Init => BudgetInv
    <2> SUFFICES ASSUME Init PROVE BudgetInv
      OBVIOUS
    <2>1. InFlight = {} /\ spent = 0
      BY DEF Init, InFlight
    <2>2. Cardinality(InFlight) = 0 /\ Cardinality(Caller) * MaxCost \in Nat
      BY <2>1, FS_EmptySet, Sizes, Times
    <2>3. spent + Estimate + 0 * MaxCost <= MaxUsd + Cardinality(Caller) * MaxCost
      BY <2>1, <2>2
    <2> QED
      BY <2>2, <2>3 DEF BudgetInv
  <1>2. TypeOK /\ RouteInv /\ BudgetInv /\ [Next]_vars => BudgetInv'
    BY BudgetStep
  <1>3. TypeOK /\ BudgetInv => OverrunBounded
    <2> SUFFICES ASSUME TypeOK, BudgetInv PROVE OverrunBounded
      OBVIOUS
    <2>1. InFlight \in SUBSET Caller
      BY DEF InFlight
    <2>2. Cardinality(InFlight) * MaxCost \in Nat /\ Cardinality(Caller) * MaxCost \in Nat
      BY <2>1, Sizes, Times
    <2> QED
      BY <2>2 DEF BudgetInv, OverrunBounded, TypeOK
  <1> QED
    BY <1>1, <1>2, <1>3, Routes, PTL DEF Spec
-----------------------------------------------------------------------------
(***************************************************************************)
(* Failover                                                                *)
(***************************************************************************)

\* Every configuration has a model of a provider that answers.
Covered == \A C \in Catalogs : \E m \in C : ProviderOf[m] \in Healthy

\* A provider that answers is never cut off, and who is in the fallback loop with
\* another has such a one before it.
FailoverInv ==
  /\ \A p \in Healthy : breaker[p].state = "closed"
  /\ \A c \in InFlight :
        fellBack[c] /\ asked[c] = AnyModel /\ ProviderOf[model[c]] \notin Healthy
          => \E h \in rest[c] : ProviderOf[h] \in Healthy
  /\ stranded = {}

\* The fallback loop calls m, and `later` is left for it to try.
LoopCalls(c, m, b, later) ==
  /\ Calls(c, m, b, TRUE, later)
  /\ ProviderOf[m] \in Healthy \/ \E h \in later : ProviderOf[h] \in Healthy

\* Among candidates of which one is of a healthy provider the loop does not fail,
\* and keeps a healthy one for later if it calls another.
LEMMA LoopReaches ==
  ASSUME TypeOK, NEW c \in Caller, NEW candidates \in SUBSET Model, NEW b,
         \A p \in Healthy : b[p].state = "closed",
         \E h \in candidates : ProviderOf[h] \in Healthy,
         FallsBack(c, candidates, b)
  PROVE  \E m \in Model, later \in SUBSET Model : LoopCalls(c, m, b, later)
  <1>1. PICK h \in candidates : ProviderOf[h] \in Healthy
    OBVIOUS
  <1>2. Admits(BreakerOf(b, h))
    BY <1>1 DEF Admits, BreakerOf
  <1>3. PICK m \in candidates :
           /\ \A n \in candidates : Rank[n] > Rank[m] => ~ Admits(BreakerOf(b, n))
           /\ Calls(c, m, b, TRUE, {n \in candidates : Rank[n] < Rank[m]})
    BY <1>1, <1>2 DEF FallsBack
  <1>4. ~ (Rank[h] > Rank[m])
    BY <1>1, <1>2, <1>3
  <1>5. h = m \/ Rank[h] < Rank[m]
    BY <1>1, <1>3, <1>4
  <1>6. {n \in candidates : Rank[n] < Rank[m]} \in SUBSET Model /\ m \in Model
    OBVIOUS
  <1>7. ProviderOf[m] \in Healthy
        \/ \E x \in {n \in candidates : Rank[n] < Rank[m]} : ProviderOf[x] \in Healthy
    BY <1>1, <1>5
  <1> DEFINE later == {n \in candidates : Rank[n] < Rank[m]}
  <1> HIDE DEF later
  <1>8. m \in Model /\ later \in SUBSET Model /\ LoopCalls(c, m, b, later)
    BY <1>3, <1>6, <1>7 DEF later, LoopCalls
  <1> QED
    BY ONLY <1>8

\* There is always a model that can be called.
LEMMA AvailableReaches ==
  ASSUME Covered, TypeOK, NEW b, \A p \in Healthy : b[p].state = "closed"
  PROVE  \E h \in Available(b) : h \in Model /\ ProviderOf[h] \in Healthy
  <1>1. PICK h \in catalog : ProviderOf[h] \in Healthy
    BY DEF Covered, TypeOK
  <1>2. h \in Model /\ h \in Available(b)
    BY <1>1 DEF Available, BreakerOf, Observed, TypeOK
  <1> QED
    BY <1>1, <1>2

\* The caller goes on, and when in the loop with a healthy model before it, or it
\* had asked for one model only.
Reaches(c, b) ==
  \/ \E m \in Model, loop \in BOOLEAN, later \in SUBSET Model :
        /\ Calls(c, m, b, loop, later)
        /\ loop => ProviderOf[m] \in Healthy \/ \E h \in later : ProviderOf[h] \in Healthy
  \/ Fails(c, b) /\ asked[c] # AnyModel

\* The same of candidates for a request of any model.
LEMMA LoopOutcome ==
  ASSUME TypeOK, NEW c \in Caller, NEW candidates \in SUBSET Model, NEW b,
         \A p \in Healthy : b[p].state = "closed",
         \E h \in candidates : ProviderOf[h] \in Healthy,
         FallsBack(c, candidates, b)
  PROVE  Reaches(c, b)
  <1>1. PICK m \in Model, later \in SUBSET Model : LoopCalls(c, m, b, later)
    BY LoopReaches
  <1>2. TRUE \in BOOLEAN
    OBVIOUS
  <1> QED
    BY <1>1, <1>2 DEF Reaches, LoopCalls

LEMMA CallFailedReaches ==
  ASSUME TypeOK, NEW c \in Caller, NEW m, NEW b,
         \A p \in Healthy : b[p].state = "closed",
         asked[c] = AnyModel => \E h \in Fallbacks(c, m, b) : ProviderOf[h] \in Healthy,
         CallFailed(c, m, b)
  PROVE  Reaches(c, b)
  <1>1. CASE asked[c] # AnyModel
    <2>1. Fails(c, b)
      BY <1>1 DEF CallFailed
    <2> QED
      BY <1>1, <2>1 DEF Reaches
  <1>2. CASE asked[c] = AnyModel
    <2>1. Fallbacks(c, m, b) \in SUBSET Model
      BY DEF Fallbacks, Available, TypeOK
    <2>2. FallsBack(c, Fallbacks(c, m, b), b)
      BY <1>2 DEF CallFailed
    <2> QED
      BY <1>2, <2>1, <2>2, LoopOutcome
  <1> QED
    BY <1>1, <1>2

LEMMA EnterReaches ==
  ASSUME Covered, TypeOK, RouteInv, FailoverInv, NEW c \in Caller, Enter(c)
  PROVE  Reaches(c, breaker)
  <1>1. \A p \in Healthy : breaker[p].state = "closed"
    BY DEF FailoverInv
  <1>2. PICK h \in Available(breaker) : h \in Model /\ ProviderOf[h] \in Healthy
    BY <1>1, AvailableReaches
  <1>3. asked[c] \in Model \cup {AnyModel} /\ fellBack[c] = FALSE
    BY DEF Enter, RouteInv, TypeOK
  <1>4. Choices(c) \subseteq Model
    BY <1>3 DEF Choices, Selectable, Available, TypeOK
  <1>5. ASSUME NEW m \in Choices(c), Calls(c, m, breaker, FALSE, {})
        PROVE  Reaches(c, breaker)
    <2>1. m \in Model /\ FALSE \in BOOLEAN /\ {} \in SUBSET Model
      BY <1>4
    <2> QED
      BY <1>5, <2>1 DEF Reaches
  <1>6. ASSUME NEW m \in Choices(c), ~ Admits(BreakerOf(breaker, m)),
               CallFailed(c, m, breaker)
        PROVE  Reaches(c, breaker)
    <2>1. Admits(BreakerOf(breaker, h))
      BY <1>1, <1>2 DEF Admits, BreakerOf
    <2>2. h \in Fallbacks(c, m, breaker)
      BY <1>2, <1>3, <1>6, <2>1 DEF Fallbacks
    <2> QED
      BY <1>1, <1>2, <1>6, <2>2, CallFailedReaches
  <1>7. asked[c] = AnyModel => Selectable # {}
    BY <1>2 DEF Selectable
  <1> QED
    BY <1>5, <1>6, <1>7 DEF Enter

LEMMA GiveUpReaches ==
  ASSUME Covered, TypeOK, RouteInv, FailoverInv, NEW c \in Caller, GiveUp(c)
  PROVE  /\ Reaches(c, [breaker EXCEPT ![ProviderOf[model[c]]] = AfterFailure(@)])
         /\ \A p \in Healthy :
               [breaker EXCEPT ![ProviderOf[model[c]]] = AfterFailure(@)][p].state = "closed"
  <1> DEFINE q == ProviderOf[model[c]]
             b == [breaker EXCEPT ![q] = AfterFailure(@)]
  <1>1. c \in InFlight /\ q \in Provider \ Healthy
    BY GiveUpOutcome
  <1>2. \A p \in Healthy : b[p].state = "closed"
    BY <1>1 DEF FailoverInv, TypeOK
  <1>3. CallFailed(c, model[c], b)
    BY DEF GiveUp
  <1> HIDE DEF b
  <1>4. PICK h \in Available(b) : h \in Model /\ ProviderOf[h] \in Healthy
    BY <1>2, AvailableReaches
  <1>5. ASSUME asked[c] = AnyModel
        PROVE  \E x \in Fallbacks(c, model[c], b) : ProviderOf[x] \in Healthy
    <2>1. CASE fellBack[c]
      BY <1>1, <1>5, <2>1 DEF FailoverInv, Fallbacks
    <2>2. CASE ~ fellBack[c]
      <3>1. h \in Fallbacks(c, model[c], b)
        BY <1>1, <1>4, <2>2 DEF Fallbacks
      <3> QED
        BY <1>4, <3>1
    <2> QED
      BY <2>1, <2>2
  <1>6. Reaches(c, b)
    BY <1>2, <1>3, <1>5, CallFailedReaches
  <1> QED
    BY <1>2, <1>6 DEF b

LEMMA ReachesKeeps ==
  ASSUME TypeOK, RouteInv, FailoverInv, NEW c \in Caller, NEW b, b \in [Provider -> Breaker],
         \A p \in Healthy : b[p].state = "closed",
         Reaches(c, b)
  PROVE  FailoverInv'
  <1>1. CASE Fails(c, b) /\ asked[c] # AnyModel
    <2>1. breaker' = b /\ stranded' = stranded
      BY <1>1 DEF Fails
    <2>2. \A x \in InFlight' : /\ x \in InFlight /\ fellBack'[x] = fellBack[x]
                               /\ asked'[x] = asked[x] /\ model'[x] = model[x]
                               /\ rest'[x] = rest[x]
      BY <1>1 DEF Fails, Ends, InFlight, TypeOK
    <2> QED
      BY <2>1, <2>2 DEF FailoverInv
  <1>2. ASSUME NEW m \in Model, NEW loop \in BOOLEAN, NEW later \in SUBSET Model,
               Calls(c, m, b, loop, later),
               loop => ProviderOf[m] \in Healthy \/ \E h \in later : ProviderOf[h] \in Healthy
        PROVE  FailoverInv'
    <2>1. stranded' = {}
      BY <1>2 DEF Calls, FailoverInv
    <2>2. \A p \in Healthy : breaker'[p].state = "closed"
      BY <1>2 DEF Calls, Entered
    <2>3. /\ fellBack'[c] = loop /\ model'[c] = m /\ rest'[c] = later
      BY <1>2 DEF Calls, TypeOK
    <2>4. \A x \in InFlight' \ {c} : /\ x \in InFlight /\ fellBack'[x] = fellBack[x]
                                     /\ asked'[x] = asked[x] /\ model'[x] = model[x]
                                     /\ rest'[x] = rest[x]
      BY <1>2 DEF Calls, InFlight, TypeOK
    <2> QED
      BY <1>2, <2>1, <2>2, <2>3, <2>4 DEF FailoverInv
  <1> QED
    BY <1>1, <1>2 DEF Reaches

\* A step that moves no breaker away from closed and puts nobody in flight.
LEMMA NobodyNew ==
  ASSUME FailoverInv,
         \A p \in Healthy : breaker'[p].state = "closed",
         stranded' \subseteq stranded,
         \A x \in InFlight' : /\ x \in InFlight /\ fellBack'[x] = fellBack[x]
                              /\ asked'[x] = asked[x] /\ model'[x] = model[x]
                              /\ rest'[x] = rest[x]
  PROVE  FailoverInv'
  BY DEF FailoverInv

LEMMA FailoverStep ==
  ASSUME Covered, TypeOK, RouteInv, FailoverInv, [Next]_vars
  PROVE  FailoverInv'
  <1>1. \A p \in Healthy : breaker[p].state = "closed"
    BY DEF FailoverInv
  <1>2. ASSUME NEW c \in Caller,
               \/ \E m \in Model \cup {AnyModel} : Start(c, m)
               \/ Discovered(c) \/ Refuse(c) \/ BackOff(c) \/ Retry(c)
        PROVE  FailoverInv'
    <2>1. breaker' = breaker /\ stranded' \subseteq stranded
      BY <1>2 DEF Start, Discovered, Refuse, BackOff, Retry
    <2>2. \A x \in InFlight' : /\ x \in InFlight /\ fellBack'[x] = fellBack[x]
                               /\ asked'[x] = asked[x] /\ model'[x] = model[x]
                               /\ rest'[x] = rest[x]
      BY <1>2 DEF Start, Discovered, Refuse, Ends, BackOff, Retry, InFlight, TypeOK
    <2> QED
      BY <1>1, <2>1, <2>2, NobodyNew
  <1>3. ASSUME NEW c \in Caller, Enter(c)
        PROVE  FailoverInv'
    BY <1>1, <1>3, EnterReaches, ReachesKeeps DEF TypeOK
  <1>4. ASSUME NEW c \in Caller, GiveUp(c)
        PROVE  FailoverInv'
    <2> DEFINE b == [breaker EXCEPT ![ProviderOf[model[c]]] = AfterFailure(@)]
    <2>1. Reaches(c, b) /\ \A p \in Healthy : b[p].state = "closed"
      BY <1>4, GiveUpReaches
    <2>2. b \in [Provider -> Breaker]
      BY <1>4, GiveUpOutcome, FailureAt DEF RouteInv, SoundBreakers
    <2> HIDE DEF b
    <2> QED
      BY <2>1, <2>2, ReachesKeeps
  <1>5. ASSUME NEW c \in Caller, Succeed(c)
        PROVE  FailoverInv'
    <2>1. \A p \in Healthy : breaker'[p].state = "closed"
      <3>1. breaker' = [breaker EXCEPT ![ProviderOf[model[c]]] = AfterSuccess(@)]
        BY <1>5 DEF Succeed
      <3>2. \A p \in Healthy : AfterSuccess(breaker[p]).state = "closed"
        BY <1>1 DEF AfterSuccess
      <3> QED
        BY <1>1, <3>1, <3>2 DEF TypeOK
    <2>2. stranded' = stranded
      BY <1>5 DEF Succeed
    <2>3. \A x \in InFlight' : /\ x \in InFlight /\ fellBack'[x] = fellBack[x]
                               /\ asked'[x] = asked[x] /\ model'[x] = model[x]
                               /\ rest'[x] = rest[x]
      BY <1>5 DEF Succeed, Ends, InFlight, TypeOK
    <2> QED
      BY <2>1, <2>2, <2>3, NobodyNew
  <1>6. CASE ConfigChanged \/ UNCHANGED vars
    <2>1. breaker' = breaker /\ UNCHANGED callVars
      BY <1>6 DEF ConfigChanged, vars
    <2> QED
      BY <1>1, <2>1, NobodyNew DEF callVars, InFlight
  <1>7. CASE TimePasses
    <2>1. UNCHANGED callVars
      BY <1>7 DEF TimePasses
    <2>2. \A p \in Healthy : breaker'[p].state = "closed"
      <3>1. PICK q \in Provider : Rest(q)
        BY <1>7 DEF TimePasses
      <3>2. /\ breaker[q].state = "open"
            /\ breaker' = [breaker EXCEPT ![q] = [@ EXCEPT !.rested = TRUE]]
        BY <3>1 DEF Rest
      <3> QED
        BY <1>1, <3>2 DEF TypeOK
    <2> QED
      BY <2>1, <2>2, NobodyNew DEF callVars, InFlight
  <1> QED
    BY <1>2, <1>3, <1>4, <1>5, <1>6, <1>7 DEF Next, Step

\* With a model of a provider that answers in every configuration, a request that
\* leaves the choice to the router is never left without a model
\* (model-router.ts:192-225).
THEOREM FailoverReachesHealthyHolds == Spec => []FailoverReachesHealthy
  <1>1. CASE ~ Covered
    <2>1. FailoverReachesHealthy
      BY <1>1 DEF FailoverReachesHealthy, Covered
    <2> QED
      BY <2>1, PTL
  <1>2. CASE Covered
    <2>1. Init => FailoverInv
      BY DEF Init, BreakerInit, Fresh, FailoverInv, InFlight
    <2>2. TypeOK /\ RouteInv /\ FailoverInv /\ [Next]_vars => FailoverInv'
      BY <1>2, FailoverStep
    <2>3. FailoverInv => FailoverReachesHealthy
      BY DEF FailoverInv, FailoverReachesHealthy
    <2> QED
      BY <2>1, <2>2, <2>3, Routes, PTL DEF Spec
  <1> QED
    BY <1>1, <1>2

-----------------------------------------------------------------------------
(***************************************************************************)
(* Every route comes nearer to its end                                     *)
(***************************************************************************)

\* The longest call: every attempt, and every sleep between two of them.
LongestCall == 2 * MaxRetries + 2

LEMMA Multiples ==
  ASSUME NEW k \in Nat, NEW n \in Nat, k < n
  PROVE  /\ LongestCall * k \in Nat /\ LongestCall * n \in Nat
         /\ LongestCall * k + LongestCall <= LongestCall * n
  <1>1. LongestCall \in Nat
    BY DEF LongestCall
  <1>2. PICK d \in Nat : n = k + 1 + d
    <2>1. n - k - 1 \in Nat /\ n = k + 1 + (n - k - 1)
      OBVIOUS
    <2> QED
      BY <2>1
  <1> HIDE DEF LongestCall
  <1>3. LongestCall * n = LongestCall * k + LongestCall + LongestCall * d
    BY <1>1, <1>2
  <1>4. LongestCall * k \in Nat /\ LongestCall * n \in Nat /\ LongestCall * d \in Nat
    BY <1>1, <1>2
  <1> QED
    BY <1>1, <1>3, <1>4

LEMMA ModelSizes ==
  ASSUME NEW S \in SUBSET Model
  PROVE  /\ IsFiniteSet(S) /\ Cardinality(S) \in Nat /\ Cardinality(Model) \in Nat
         /\ Cardinality(S) <= Cardinality(Model)
         /\ \A m \in Model : S \subseteq Model \ {m} => Cardinality(S) < Cardinality(Model)
  <1>1. /\ IsFiniteSet(S) /\ Cardinality(S) \in Nat /\ Cardinality(Model) \in Nat
        /\ Cardinality(S) <= Cardinality(Model)
    BY FS_Subset, FS_CardinalityType
  <1>2. ASSUME NEW m \in Model, S \subseteq Model \ {m}
        PROVE  Cardinality(S) < Cardinality(Model)
    <2>1. S # Model
      BY <1>2
    <2> QED
      BY <1>1, <2>1, FS_Subset
  <1> QED
    BY <1>1, <1>2

\* The fallback loop calls one of its candidates and leaves fewer for later.
CallsOneOf(c, candidates, b) ==
  \E m \in candidates : \E later \in SUBSET (candidates \ {m}) :
     Calls(c, m, b, TRUE, later)

LEMMA LoopShrinks ==
  ASSUME NEW c \in Caller, NEW candidates \in SUBSET Model, NEW b,
         FallsBack(c, candidates, b)
  PROVE  CallsOneOf(c, candidates, b) \/ Fails(c, b)
  <1>1. ASSUME NEW m \in candidates
        PROVE  {n \in candidates : Rank[n] < Rank[m]} \in SUBSET (candidates \ {m})
    OBVIOUS
  <1> QED
    BY <1>1 DEF FallsBack, CallsOneOf

\* A call of the loop, with fewer than n models left for later.
LEMMA LoopCallLeft ==
  ASSUME TypeOK, NEW c \in Caller, NEW m, NEW b, NEW later \in SUBSET Model,
         Calls(c, m, b, TRUE, later),
         NEW n \in Nat, Cardinality(later) < n
  PROVE  RouteLeft(c)' \in Nat /\ RouteLeft(c)' < LongestCall * n
  <1>1. pc'[c] = "calling" /\ attempt'[c] = 0 /\ fellBack'[c] = TRUE /\ rest'[c] = later
    BY DEF Calls, TypeOK
  <1>2. RouteLeft(c)' = LongestCall * Cardinality(later) + 2 * MaxRetries + 1
    BY <1>1 DEF RouteLeft, TriesLeft, LongestCall
  <1>3. Cardinality(later) \in Nat
    BY ModelSizes
  <1>4. /\ LongestCall * Cardinality(later) \in Nat /\ LongestCall * n \in Nat
        /\ LongestCall * Cardinality(later) + LongestCall <= LongestCall * n
    BY <1>3, Multiples
  <1>5. LongestCall = 2 * MaxRetries + 2
    BY DEF LongestCall
  <1> HIDE DEF LongestCall
  <1> QED
    BY <1>2, <1>4, <1>5

\* A route that ends has nothing left.
LEMMA EndsLeft ==
  ASSUME TypeOK, NEW c \in Caller, Ends(c)
  PROVE  RouteLeft(c)' = 0
  BY DEF Ends, TypeOK, RouteLeft

\* What is left of a route is a number, with all tries that remain.
LEMMA RouteLeftType ==
  ASSUME TypeOK, NEW c \in Caller, pc[c] # "idle"
  PROVE  /\ RouteLeft(c) \in Nat /\ RouteLeft(c) > 0
         /\ TriesLeft(c) \in Nat /\ LongestCall * TriesLeft(c) \in Nat
         /\ LongestCall * Cardinality(Model) \in Nat
         /\ pc[c] \in {"calling", "backoff"} => RouteLeft(c) > LongestCall * TriesLeft(c)
  <1>1. Cardinality(rest[c]) \in Nat /\ Cardinality(Model) \in Nat
    BY ModelSizes DEF TypeOK
  <1>2. TriesLeft(c) \in Nat
    BY <1>1 DEF TriesLeft
  <1>3. LongestCall \in Nat /\ LongestCall = 2 * MaxRetries + 2
    BY DEF LongestCall
  <1>4. LongestCall * TriesLeft(c) \in Nat /\ LongestCall * Cardinality(Model) \in Nat
    BY <1>1, <1>2, <1>3
  <1>5. attempt[c] \in 0..MaxRetries
    BY DEF TypeOK
  <1>6. RouteLeft(c) =
          CASE pc[c] = "calling"     -> LongestCall * TriesLeft(c) + 2 * (MaxRetries - attempt[c]) + 1
            [] pc[c] = "backoff"     -> LongestCall * TriesLeft(c) + 2 * (MaxRetries - attempt[c]) + 2
            [] pc[c] = "ready"       -> LongestCall * Cardinality(Model) + LongestCall
            [] pc[c] = "discovering" -> LongestCall * Cardinality(Model) + LongestCall + 1
    BY DEF RouteLeft, LongestCall, TypeOK
  <1>7. pc[c] \in {"calling", "backoff", "ready", "discovering"}
    BY DEF TypeOK
  <1> HIDE DEF LongestCall
  <1> DEFINE t == LongestCall * TriesLeft(c)
             u == LongestCall * Cardinality(Model)
  <1>8. t \in Nat /\ u \in Nat
    BY <1>4
  <1> HIDE DEF t, u
  <1>9. RouteLeft(c) \in Nat /\ RouteLeft(c) > 0
        /\ (pc[c] \in {"calling", "backoff"} => RouteLeft(c) > t)
    BY <1>3, <1>5, <1>6, <1>7, <1>8 DEF t, u
  <1> QED
    BY <1>2, <1>4, <1>9 DEF t

\* callModel() has thrown: another model is called and fewer are left, or the
\* route ends.
LEMMA CallFailedLeft ==
  ASSUME TypeOK, NEW c \in Caller, NEW m, NEW b, CallFailed(c, m, b),
         NEW n \in Nat, \A S \in SUBSET Fallbacks(c, m, b) :
            (\E x \in Fallbacks(c, m, b) : x \notin S) => Cardinality(S) < n
  PROVE  RouteLeft(c)' \in Nat /\ (RouteLeft(c)' = 0 \/ RouteLeft(c)' < LongestCall * n)
  <1>1. CASE Fails(c, b)
    BY <1>1, EndsLeft DEF Fails
  <1>2. CASE FallsBack(c, Fallbacks(c, m, b), b)
    <2> DEFINE candidates == Fallbacks(c, m, b)
    <2>1. candidates \in SUBSET Model
      BY DEF Fallbacks, Available, TypeOK
    <2>2. FallsBack(c, candidates, b)
      BY <1>2
    <2>3. \A S \in SUBSET candidates : (\E x \in candidates : x \notin S) => Cardinality(S) < n
      OBVIOUS
    <2> HIDE DEF candidates
    <2>4. CallsOneOf(c, candidates, b) \/ Fails(c, b)
      BY <2>1, <2>2, LoopShrinks
    <2>5. ASSUME NEW x \in candidates, NEW later \in SUBSET (candidates \ {x}),
                 Calls(c, x, b, TRUE, later)
          PROVE  RouteLeft(c)' \in Nat /\ RouteLeft(c)' < LongestCall * n
      <3>1. Cardinality(later) < n
        BY <2>3
      <3>2. later \in SUBSET Model
        BY <2>1
      <3> QED
        BY <2>5, <3>1, <3>2, LoopCallLeft
    <2> QED
      BY <1>1, <2>4, <2>5 DEF CallsOneOf
  <1> QED
    BY <1>1, <1>2 DEF CallFailed

\* The budget check has passed: every model may be tried.
LEMMA EnterLeft ==
  ASSUME TypeOK, RouteInv, NEW c \in Caller, Enter(c)
  PROVE  RouteLeft(c)' < RouteLeft(c)
  <1> DEFINE n == Cardinality(Model)
  <1>1. n \in Nat /\ LongestCall = 2 * MaxRetries + 2 /\ LongestCall * n \in Nat
    BY ModelSizes DEF LongestCall
  <1>2. LongestCall * (n + 1) = LongestCall * n + LongestCall
    BY <1>1
  <1>3. RouteLeft(c) = LongestCall * n + LongestCall
    BY DEF Enter, RouteLeft, LongestCall
  <1>4. ASSUME NEW m \in Choices(c), Calls(c, m, breaker, FALSE, {})
        PROVE  RouteLeft(c)' < RouteLeft(c)
    <2>1. pc'[c] = "calling" /\ attempt'[c] = 0 /\ fellBack'[c] = FALSE
      BY <1>4 DEF Calls, TypeOK
    <2>2. RouteLeft(c)' = LongestCall * n + 2 * MaxRetries + 1
      BY <2>1 DEF RouteLeft, TriesLeft, LongestCall
    <2> HIDE DEF n
    <2> QED
      BY <1>1, <1>3, <2>2
  <1>5. ASSUME NEW m \in Choices(c), CallFailed(c, m, breaker)
        PROVE  RouteLeft(c)' < RouteLeft(c)
    <2>1. Fallbacks(c, m, breaker) \in SUBSET Model
      BY DEF Fallbacks, Available, TypeOK
    <2>2. \A S \in SUBSET Fallbacks(c, m, breaker) : Cardinality(S) < n + 1
      BY <1>1, <2>1, ModelSizes
    <2>3. RouteLeft(c)' = 0 \/ RouteLeft(c)' < LongestCall * (n + 1)
      BY <1>1, <1>5, <2>2, CallFailedLeft
    <2> HIDE DEF n
    <2> QED
      BY <1>1, <1>2, <1>3, <2>3
  <1>6. Fails(c, breaker) => RouteLeft(c)' = 0
    BY EndsLeft DEF Fails
  <1>7. RouteLeft(c) > 0
    BY RouteLeftType DEF Enter
  <1> QED
    BY <1>4, <1>5, <1>6, <1>7 DEF Enter

\* A call has failed for good: the model it called is not tried again.
LEMMA GiveUpLeft ==
  ASSUME TypeOK, RouteInv, NEW c \in Caller, GiveUp(c)
  PROVE  RouteLeft(c)' < RouteLeft(c)
  <1> DEFINE b == [breaker EXCEPT ![ProviderOf[model[c]]] = AfterFailure(@)]
  <1>1. CallFailed(c, model[c], b)
    BY DEF GiveUp
  <1>2. pc[c] = "calling" /\ model[c] \in Model
    BY DEF GiveUp, RouteInv, InFlight
  <1> HIDE DEF b
  <1>3. /\ RouteLeft(c) > LongestCall * TriesLeft(c) /\ RouteLeft(c) \in Nat
        /\ RouteLeft(c) > 0 /\ TriesLeft(c) \in Nat /\ LongestCall * TriesLeft(c) \in Nat
    BY <1>2, RouteLeftType
  <1>4. ASSUME NEW S \in SUBSET Fallbacks(c, model[c], b),
               NEW x \in Fallbacks(c, model[c], b), x \notin S
        PROVE  Cardinality(S) < TriesLeft(c)
    <2>1. CASE fellBack[c]
      <3>1. S \in SUBSET rest[c] /\ x \in rest[c] /\ rest[c] \in SUBSET Model
        BY <2>1 DEF Fallbacks, TypeOK
      <3>2. S # rest[c] /\ IsFiniteSet(rest[c])
        BY <1>4, <3>1, ModelSizes
      <3>3. Cardinality(S) < Cardinality(rest[c])
        <4>1. /\ Cardinality(S) \in Nat /\ Cardinality(rest[c]) \in Nat
              /\ Cardinality(S) <= Cardinality(rest[c])
              /\ Cardinality(S) = Cardinality(rest[c]) => S = rest[c]
          BY <3>1, <3>2, FS_Subset, FS_CardinalityType
        <4> QED
          BY <3>2, <4>1
      <3> QED
        BY <2>1, <3>3 DEF TriesLeft
    <2>2. CASE ~ fellBack[c]
      <3>1. S \in SUBSET Model /\ S \subseteq Model \ {model[c]}
        BY <2>2 DEF Fallbacks, Available, TypeOK
      <3>2. Cardinality(S) < Cardinality(Model)
        BY <1>2, <3>1, ModelSizes
      <3> QED
        BY <2>2, <3>2 DEF TriesLeft
    <2> QED
      BY <2>1, <2>2
  <1>5. /\ RouteLeft(c)' \in Nat
        /\ RouteLeft(c)' = 0 \/ RouteLeft(c)' < LongestCall * TriesLeft(c)
    BY <1>1, <1>3, <1>4, CallFailedLeft
  <1> DEFINE t == LongestCall * TriesLeft(c)
  <1>6. t \in Nat /\ RouteLeft(c) > t /\ (RouteLeft(c)' = 0 \/ RouteLeft(c)' < t)
    BY <1>3, <1>5
  <1> HIDE DEF t
  <1> QED
    BY <1>3, <1>5, <1>6

\* The steps that stay with the model, or come before the first.
LEMMA AttemptLeft ==
  ASSUME TypeOK, TypeOK', NEW c \in Caller, BackOff(c) \/ Retry(c) \/ Discovered(c)
  PROVE  RouteLeft(c)' < RouteLeft(c)
  <1> DEFINE t == LongestCall * TriesLeft(c)
             u == LongestCall * Cardinality(Model)
  <1>1. attempt[c] \in 0..MaxRetries /\ attempt'[c] \in 0..MaxRetries
    BY DEF TypeOK
  <1>2. pc[c] # "idle"
    BY DEF BackOff, Retry, Discovered
  <1>3. t \in Nat /\ u \in Nat
    BY <1>2, RouteLeftType
  <1>4. LongestCall = 2 * MaxRetries + 2
    BY DEF LongestCall
  <1>5. CASE Discovered(c)
    <2>1. RouteLeft(c) = u + LongestCall + 1 /\ RouteLeft(c)' = u + LongestCall
      BY <1>5 DEF Discovered, TypeOK, RouteLeft, LongestCall
    <2> HIDE DEF t, u, LongestCall
    <2> QED
      BY <1>3, <1>4, <2>1
  <1>6. CASE BackOff(c)
    <2>1. TriesLeft(c)' = TriesLeft(c) /\ attempt'[c] = attempt[c] + 1
      BY <1>6 DEF BackOff, TypeOK, TriesLeft
    <2>2. /\ RouteLeft(c) = t + 2 * (MaxRetries - attempt[c]) + 1
          /\ RouteLeft(c)' = t + 2 * (MaxRetries - attempt'[c]) + 2
      BY <1>6, <2>1 DEF BackOff, TypeOK, RouteLeft, LongestCall
    <2> HIDE DEF t, u, LongestCall
    <2> QED
      BY <1>1, <1>3, <2>1, <2>2
  <1>7. CASE Retry(c)
    <2>1. TriesLeft(c)' = TriesLeft(c) /\ attempt'[c] = attempt[c]
      BY <1>7 DEF Retry, TypeOK, TriesLeft
    <2>2. /\ RouteLeft(c) = t + 2 * (MaxRetries - attempt[c]) + 2
          /\ RouteLeft(c)' = t + 2 * (MaxRetries - attempt[c]) + 1
      BY <1>7, <2>1 DEF Retry, TypeOK, RouteLeft, LongestCall
    <2> HIDE DEF t, u, LongestCall
    <2> QED
      BY <1>1, <1>3, <2>2
  <1> QED
    BY <1>5, <1>6, <1>7

\* What becomes of one route is nothing to another.
LEMMA OthersSame ==
  ASSUME TypeOK, NEW x \in Caller, NEW c \in Caller, c # x, NEW b,
         CallsOrFails(x, b)
  PROVE  UNCHANGED <<pc[c], asked[c], model[c], attempt[c], fellBack[c], rest[c]>>
  <1> USE DEF TypeOK
  <1>1. CASE Fails(x, b)
    <2>1. Ends(x)
      BY <1>1 DEF Fails
    <2>2. UNCHANGED <<pc[c], asked[c], model[c]>>
      BY <2>1 DEF Ends
    <2>3. UNCHANGED <<attempt[c], fellBack[c], rest[c]>>
      BY <2>1 DEF Ends
    <2> QED
      BY <2>2, <2>3
  <1>2. ASSUME NEW m \in Model, NEW loop \in BOOLEAN, NEW later \in SUBSET Model,
               Calls(x, m, b, loop, later)
        PROVE  UNCHANGED <<pc[c], asked[c], model[c], attempt[c], fellBack[c], rest[c]>>
    BY <1>2 DEF Calls
  <1> QED
    BY <1>1, <1>2 DEF CallsOrFails

\* Every step of a route leaves less of it, and the steps of others leave it alone
\* (model-router.ts:192-225, retry.ts:40-95).
THEOREM OnlyAdvancesHolds == Spec => OnlyAdvances
  <1> DEFINE Same(c) == UNCHANGED <<pc[c], asked[c], model[c], attempt[c], fellBack[c], rest[c]>>
             Advances(c) ==
               pc[c] # "idle"
                 => \/ UNCHANGED <<pc[c], asked[c], model[c], attempt[c], fellBack[c], rest[c]>>
                    \/ RouteLeft(c)' < RouteLeft(c)
  <1>1. TypeOK /\ TypeOK' /\ RouteInv /\ [Next]_vars => [\A c \in Caller : Advances(c)]_vars
    <2> SUFFICES ASSUME TypeOK, TypeOK', RouteInv, Next, NEW c \in Caller, pc[c] # "idle"
                 PROVE  Same(c) \/ RouteLeft(c)' < RouteLeft(c)
      BY DEF vars
    <2>1. ASSUME NEW x \in Caller, NEW m \in Model \cup {AnyModel}, Start(x, m)
          PROVE  Same(c)
      BY <2>1 DEF Start, TypeOK
    <2>2. CASE ConfigChanged \/ TimePasses
      BY <2>2 DEF ConfigChanged, TimePasses, callVars
    <2>3. ASSUME NEW x \in Caller \ {c}, Step(x)
          PROVE  Same(c)
      <3>1. CASE Discovered(x) \/ Refuse(x) \/ Succeed(x) \/ BackOff(x) \/ Retry(x)
        BY <3>1 DEF Discovered, Refuse, Succeed, BackOff, Retry, Ends, TypeOK
      <3>2. CASE Enter(x)
        <4>1. CallsOrFails(x, breaker)
          BY <3>2, EnterOutcome
        <4> QED
          BY <4>1, OthersSame
      <3>3. CASE GiveUp(x)
        <4>1. CallsOrFails(x, [breaker EXCEPT ![ProviderOf[model[x]]] = AfterFailure(@)])
          BY <3>3, GiveUpOutcome
        <4> QED
          BY <4>1, OthersSame
      <3> QED
        BY <2>3, <3>1, <3>2, <3>3 DEF Step
    <2>4. CASE Step(c)
      <3>1. CASE Enter(c)
        BY <3>1, EnterLeft
      <3>2. CASE GiveUp(c)
        BY <3>2, GiveUpLeft
      <3>3. CASE BackOff(c) \/ Retry(c) \/ Discovered(c)
        BY <3>3, AttemptLeft
      <3>4. CASE Refuse(c) \/ Succeed(c)
        <4>1. RouteLeft(c)' = 0 /\ RouteLeft(c) > 0
          BY <3>4, EndsLeft, RouteLeftType DEF Refuse, Succeed
        <4> QED
          BY <4>1
      <3> QED
        BY <2>4, <3>1, <3>2, <3>3, <3>4 DEF Step
    <2> QED
      BY <2>1, <2>2, <2>3, <2>4 DEF Next
  <1> QED
    BY <1>1, Routes, PTL DEF Spec, OnlyAdvances

\* So a route moves at most as often as this says, in a process with any number of
\* other routes: one call more than there are models, with all attempts and sleeps.
THEOREM RouteIsBounded ==
  Spec => [](\A c \in Caller :
               RouteLeft(c) \in 0 .. LongestCall * (Cardinality(Model) + 1) + 1)
  <1>1. ASSUME TypeOK, NEW c \in Caller
        PROVE  RouteLeft(c) \in 0 .. LongestCall * (Cardinality(Model) + 1) + 1
    <2> DEFINE u == LongestCall * Cardinality(Model)
               t == LongestCall * TriesLeft(c)
    <2>1. Cardinality(Model) \in Nat /\ LongestCall \in Nat /\ LongestCall = 2 * MaxRetries + 2
      BY ModelSizes DEF LongestCall
    <2>2. u \in Nat /\ LongestCall * (Cardinality(Model) + 1) = u + LongestCall
      BY <2>1
    <2>3. CASE pc[c] = "idle"
      <3>1. RouteLeft(c) = 0
        BY <2>3 DEF RouteLeft
      <3> QED
        BY <2>1, <2>2, <3>1
    <2>4. CASE pc[c] # "idle"
      <3>1. RouteLeft(c) \in Nat /\ t \in Nat /\ TriesLeft(c) \in Nat
        BY <1>1, <2>4, RouteLeftType
      <3>2. TriesLeft(c) <= Cardinality(Model)
        BY <1>1, <2>1, ModelSizes DEF TriesLeft, TypeOK
      <3>3. t <= u
        BY <2>1, <3>1, <3>2, Multiples
      <3>4. attempt[c] \in 0..MaxRetries /\ MaxRetries \in Nat
        BY <1>1 DEF TypeOK
      <3>5. pc[c] \in {"ready", "discovering"}
              => RouteLeft(c) <= u + LongestCall + 1
        <4>1. /\ pc[c] = "ready" => RouteLeft(c) = u + LongestCall
              /\ pc[c] = "discovering" => RouteLeft(c) = u + LongestCall + 1
          BY DEF RouteLeft, LongestCall
        <4> HIDE DEF u, t, LongestCall
        <4> QED
          BY <2>1, <2>2, <4>1
      <3>6. pc[c] \in {"calling", "backoff"} => RouteLeft(c) <= u + LongestCall + 1
        <4>1. /\ pc[c] = "calling" => RouteLeft(c) = t + 2 * (MaxRetries - attempt[c]) + 1
              /\ pc[c] = "backoff" => RouteLeft(c) = t + 2 * (MaxRetries - attempt[c]) + 2
          BY DEF RouteLeft, LongestCall
        <4> HIDE DEF u, t, LongestCall
        <4> QED
          BY <2>1, <2>2, <3>1, <3>3, <3>4, <4>1
      <3>7. pc[c] \in {"ready", "discovering", "calling", "backoff"}
        BY <1>1, <2>4 DEF TypeOK
      <3> HIDE DEF u, t
      <3>8. RouteLeft(c) <= u + LongestCall + 1
        BY <3>5, <3>6, <3>7
      <3>9. RouteLeft(c) \in 0 .. u + LongestCall + 1
        BY <2>1, <2>2, <3>1, <3>8
      <3> QED
        BY <2>2, <3>9
    <2> QED
      BY <2>3, <2>4
  <1>2. TypeOK => \A c \in Caller : RouteLeft(c) \in 0 .. LongestCall * (Cardinality(Model) + 1) + 1
    BY <1>1
  <1> QED
    BY <1>2, Routes, PTL

=============================================================================
