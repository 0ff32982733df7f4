---------------------------- MODULE ModelRouter ----------------------------
(***************************************************************************)
(* route() of router/model-router.ts with everything below it: discovery,  *)
(* the budget check, callModel() with its retries inside the provider's    *)
(* circuit breaker, the fallback over the other models, and the cost row.  *)
(*                                                                         *)
(* A caller is one invocation of route() at a time: an agent, a judge, a   *)
(* chat.  pc is the await it is at.  What the model answers, the choice of *)
(* a strategy and its learning are left open: a strategy picks any of the  *)
(* models it is offered.  Money is counted in units.                       *)
(***************************************************************************)
EXTENDS CircuitBreaker, FiniteSets

CONSTANTS
    Caller,
    Model,
    ProviderOf,    \* the provider of each model
    Rank,          \* the quality score of each model
    Catalogs,      \* the model catalogues that a configuration can give
    Answers,       \* the lists that discover() can return
    AnyModel,      \* a request that leaves the model to the router
    NoModel,
    Healthy,       \* providers that answer every call
    MaxRetries,    \* retries of one callModel()
    MaxUsd,        \* budget.max_usd
    Estimate,      \* what a call is estimated to cost
    MaxCost,       \* what a call can really cost
    MaxChanges     \* bound: changes of the configuration

ASSUME RouterAssumption ==
    /\ ProviderOf \in [Model -> Provider]
    /\ Rank \in [Model -> Nat]
    /\ \A m, n \in Model : Rank[m] = Rank[n] => m = n
    /\ Catalogs \subseteq SUBSET Model
    /\ Answers \subseteq SUBSET Model
    /\ AnyModel \notin Model
    /\ NoModel \notin Model
    /\ Healthy \subseteq Provider
    /\ MaxRetries \in Nat
    /\ MaxUsd \in Nat
    /\ Estimate \in 0..MaxUsd
    /\ MaxCost \in Nat
    /\ MaxChanges \in Nat
    /\ IsFiniteSet(Caller)
    /\ IsFiniteSet(Model)

VARIABLES
    pc,             \* where the caller's route() is
    asked,          \* the model it asked for, or AnyModel, or NoModel: no route() at all
    model,          \* the model being called
    attempt,        \* failed attempts of this callModel()
    fellBack,       \* is this call one of the fallback loop?
    rest,           \* the fallbacks the loop has still to try
    spent,          \* the sum of the cost rows
    catalog,        \* _runtimeCatalog
    discovered,     \* _discoveredModels
    discoveryDone,  \* _discoveryDone
    changes,        \* configuration changes so far
    discoveries,    \* history: calls of discover()
    stranded        \* history: callers whose last request for any model found none

callVars == <<pc, asked, model, attempt, fellBack, rest, stranded>>
discoveryVars == <<catalog, discovered, discoveryDone, changes, discoveries>>
vars == <<breaker, callVars, spent, discoveryVars>>

TypeOK ==
    /\ breaker \in [Provider -> Breaker]
    /\ pc \in [Caller -> {"idle", "discovering", "ready", "calling", "backoff"}]
    /\ asked \in [Caller -> Model \cup {AnyModel, NoModel}]
    /\ model \in [Caller -> Model \cup {NoModel}]
    /\ attempt \in [Caller -> 0..MaxRetries]
    /\ fellBack \in [Caller -> BOOLEAN]
    /\ rest \in [Caller -> SUBSET Model]
    /\ spent \in Nat
    /\ catalog \in Catalogs
    /\ discovered \in SUBSET Model
    /\ discoveryDone \in BOOLEAN
    /\ changes \in 0..MaxChanges
    /\ discoveries \in Nat
    /\ stranded \in SUBSET Caller

Init ==
    /\ BreakerInit
    /\ pc = [c \in Caller |-> "idle"]
    /\ asked = [c \in Caller |-> NoModel]
    /\ model = [c \in Caller |-> NoModel]
    /\ attempt = [c \in Caller |-> 0]
    /\ fellBack = [c \in Caller |-> FALSE]
    /\ rest = [c \in Caller |-> {}]
    /\ spent = 0
    /\ catalog \in Catalogs
    /\ discovered = {}
    /\ discoveryDone = FALSE
    /\ changes = 0
    /\ discoveries = 0
    /\ stranded = {}

-----------------------------------------------------------------------------
(***************************************************************************)
(* Helpers                                                                 *)
(***************************************************************************)

BreakerOf(b, m) == b[ProviderOf[m]]

\* getAvailableModels(): the catalogue without the models behind a breaker
\* that reports open.  The catalogue holds the models whose provider is
\* configured.
Available(b) == {m \in catalog : Observed(BreakerOf(b, m)) # "open"}

\* What a strategy is offered.  Discovered models are not filtered by breaker.
Selectable == Available(breaker) \cup discovered

\* What may be called first.
Choices(c) == IF asked[c] = AnyModel THEN Selectable ELSE {asked[c]}

\* Mutant: the estimate is not counted.
WithinBudgetNow == spent <= MaxUsd

\* The budget check.  No caller passes a task, so that no cost row has one and
\* the limit per task is never reached by what a task has spent.
WithinBudget == spent + Estimate <= MaxUsd

\* Callers whose cost, if any, is still to come.
InFlight == {c \in Caller : pc[c] \in {"calling", "backoff"}}

InFlightAt(p) == {c \in InFlight : ProviderOf[model[c]] = p}

\* The caller's route() is over: it returns, or throws.
Ends(c) ==
    /\ pc' = [pc EXCEPT ![c] = "idle"]
    /\ asked' = [asked EXCEPT ![c] = NoModel]
    /\ model' = [model EXCEPT ![c] = NoModel]
    /\ attempt' = [attempt EXCEPT ![c] = 0]
    /\ fellBack' = [fellBack EXCEPT ![c] = FALSE]
    /\ rest' = [rest EXCEPT ![c] = {}]

\* It throws because no model could be called, breakers being b.
Fails(c, b) ==
    /\ breaker' = b
    /\ stranded' = IF asked[c] = AnyModel THEN stranded \cup {c} ELSE stranded
    /\ Ends(c)

\* callModel(m) with a breaker that admits it, breakers being b.  What is left
\* for later calls of the loop is `later`.
Calls(c, m, b, loop, later) ==
    /\ Admits(BreakerOf(b, m))
    /\ breaker' = [b EXCEPT ![ProviderOf[m]] = Entered(@)]
    /\ pc' = [pc EXCEPT ![c] = "calling"]
    /\ model' = [model EXCEPT ![c] = m]
    /\ attempt' = [attempt EXCEPT ![c] = 0]
    /\ fellBack' = [fellBack EXCEPT ![c] = loop]
    /\ rest' = [rest EXCEPT ![c] = later]
    /\ UNCHANGED <<asked, stranded>>

\* The fallback loop over `candidates`, best first: a breaker that is open
\* makes callModel() throw at once, and the loop goes on to the next.
FallsBack(c, candidates, b) ==
    \/ \E m \in candidates :
          /\ \A n \in candidates : Rank[n] > Rank[m] => ~ Admits(BreakerOf(b, n))
          /\ Calls(c, m, b, TRUE, {n \in candidates : Rank[n] < Rank[m]})
    \/ /\ \A m \in candidates : ~ Admits(BreakerOf(b, m))
       /\ Fails(c, b)

\* Mutant: one fallback is tried, not all.
CallFailedOnce(c, m, b) ==
    \/ /\ asked[c] # AnyModel \/ fellBack[c]
       /\ Fails(c, b)
    \/ /\ asked[c] = AnyModel
       /\ ~ fellBack[c]
       /\ FallsBack(c, Available(b) \ {m}, b)

\* What is left to try when callModel(m) has thrown.
Fallbacks(c, m, b) == IF fellBack[c] THEN rest[c] ELSE Available(b) \ {m}

\* callModel(m) has thrown.  A request for one model is not sent to another.
CallFailed(c, m, b) ==
    \/ /\ asked[c] # AnyModel
       /\ Fails(c, b)
    \/ /\ asked[c] = AnyModel
       /\ FallsBack(c, Fallbacks(c, m, b), b)

-----------------------------------------------------------------------------
(***************************************************************************)
(* Steps of a caller                                                       *)
(***************************************************************************)

\* Mutant: the flag is not set before the await.
StartUnflagged(c, m) ==
    /\ pc[c] = "idle"
    /\ pc' = [pc EXCEPT ![c] = IF discoveryDone THEN "ready" ELSE "discovering"]
    /\ discoveries' = IF discoveryDone THEN discoveries ELSE discoveries + 1
    /\ asked' = [asked EXCEPT ![c] = m]
    /\ stranded' = stranded \ {c}
    /\ UNCHANGED <<breaker, model, attempt, fellBack, rest, spent, catalog,
                   discovered, discoveryDone, changes>>

\* route() up to the end of _ensureDiscovery().  The first one discovers; those
\* that come meanwhile find the flag set and go on with the list as it is.
Start(c, m) ==
    /\ pc[c] = "idle"
    /\ pc' = [pc EXCEPT ![c] = IF discoveryDone THEN "ready" ELSE "discovering"]
    /\ discoveryDone' = TRUE
    /\ discoveries' = IF discoveryDone THEN discoveries ELSE discoveries + 1
    /\ asked' = [asked EXCEPT ![c] = m]
    /\ stranded' = stranded \ {c}
    /\ UNCHANGED <<breaker, model, attempt, fellBack, rest, spent, catalog,
                   discovered, changes>>

\* discover() settles.  An empty answer leaves the list as it is, an error
\* empties it.
Discovered(c) ==
    /\ pc[c] = "discovering"
    /\ \/ \E found \in Answers \ {{}} : discovered' = found
       \/ UNCHANGED discovered
       \/ discovered' = {}
    /\ pc' = [pc EXCEPT ![c] = "ready"]
    /\ UNCHANGED <<breaker, asked, model, attempt, fellBack, rest, stranded,
                   spent, catalog, discoveryDone, changes, discoveries>>

\* The budget check refuses the call, before anything is tried.
Refuse(c) ==
    /\ pc[c] = "ready"
    /\ ~ WithinBudget
    /\ Ends(c)
    /\ UNCHANGED <<breaker, stranded, spent, discoveryVars>>

\* The check passes and the first model is called, or cannot be.
Enter(c) ==
    /\ pc[c] = "ready"
    /\ WithinBudget
    /\ \/ \E m \in Choices(c) :
             \/ Calls(c, m, breaker, FALSE, {})
             \/ /\ ~ Admits(BreakerOf(breaker, m))
                /\ CallFailed(c, m, breaker)
       \/ /\ asked[c] = AnyModel
          /\ Selectable = {}
          /\ Fails(c, breaker)
    /\ UNCHANGED <<spent, discoveryVars>>

\* The provider answers: the breaker hears of it and the cost is recorded.
Succeed(c) ==
    /\ pc[c] = "calling"
    /\ breaker' = [breaker EXCEPT ![ProviderOf[model[c]]] = AfterSuccess(@)]
    /\ \E cost \in 0..MaxCost : spent' = spent + cost
    /\ Ends(c)
    /\ UNCHANGED <<stranded, discoveryVars>>

\* Mutant: attempts are not counted.
BackOffUncounted(c) ==
    /\ pc[c] = "calling"
    /\ ProviderOf[model[c]] \notin Healthy
    /\ attempt[c] < MaxRetries
    /\ pc' = [pc EXCEPT ![c] = "backoff"]
    /\ UNCHANGED <<breaker, asked, model, attempt, fellBack, rest, stranded, spent,
                   discoveryVars>>

\* Mutant: one retry too many.
BackOffOnceMore(c) ==
    /\ pc[c] = "calling"
    /\ ProviderOf[model[c]] \notin Healthy
    /\ attempt[c] <= MaxRetries
    /\ attempt' = [attempt EXCEPT ![c] = @ + 1]
    /\ pc' = [pc EXCEPT ![c] = "backoff"]
    /\ UNCHANGED <<breaker, asked, model, fellBack, rest, stranded, spent,
                   discoveryVars>>

\* A transient error with retries left: retry() sleeps.
BackOff(c) ==
    /\ pc[c] = "calling"
    /\ ProviderOf[model[c]] \notin Healthy
    /\ attempt[c] < MaxRetries
    /\ attempt' = [attempt EXCEPT ![c] = @ + 1]
    /\ pc' = [pc EXCEPT ![c] = "backoff"]
    /\ UNCHANGED <<breaker, asked, model, fellBack, rest, stranded, spent,
                   discoveryVars>>

\* The sleep is over.  The breaker is not asked again.
Retry(c) ==
    /\ pc[c] = "backoff"
    /\ pc' = [pc EXCEPT ![c] = "calling"]
    /\ UNCHANGED <<breaker, asked, model, attempt, fellBack, rest, stranded,
                   spent, discoveryVars>>

\* The last attempt fails, or an error that is not retried: one failure for the
\* breaker, whatever the number of attempts.
GiveUp(c) ==
    /\ pc[c] = "calling"
    /\ ProviderOf[model[c]] \notin Healthy
    /\ CallFailed(c, model[c],
                  [breaker EXCEPT ![ProviderOf[model[c]]] = AfterFailure(@)])
    /\ UNCHANGED <<spent, discoveryVars>>

-----------------------------------------------------------------------------
(***************************************************************************)
(* The rest of the process                                                 *)
(***************************************************************************)

\* config:changed: the list is dropped, the catalogue rebuilt, the breakers of
\* providers that have one are kept.
ConfigChanged ==
    /\ changes < MaxChanges
    /\ changes' = changes + 1
    /\ catalog' \in Catalogs
    /\ discovered' = {}
    /\ discoveryDone' = FALSE
    /\ UNCHANGED <<breaker, callVars, spent, discoveries>>

TimePasses == (\E p \in Provider : Rest(p)) /\ UNCHANGED <<callVars, spent, discoveryVars>>

\* What happens by itself once route() has been called.
Step(c) ==
    \/ Discovered(c)
    \/ Refuse(c)
    \/ Enter(c)
    \/ Succeed(c)
    \/ BackOff(c)
    \/ Retry(c)
    \/ GiveUp(c)

Next ==
    \/ \E c \in Caller : \E m \in Model \cup {AnyModel} : Start(c, m)
    \/ \E c \in Caller : Step(c)
    \/ ConfigChanged
    \/ TimePasses

Spec == Init /\ [][Next]_vars

\* An awaited answer comes (fetch has a timeout), a sleep ends.
FairSpec == Spec /\ \A c \in Caller : WF_vars(Step(c))

-----------------------------------------------------------------------------
(***************************************************************************)
(* Properties                                                              *)
(***************************************************************************)

\* The budget is checked before the call and charged after it, so that calls in
\* flight together can exceed it (budget-checker.ts:54).  By no more than what
\* these calls cost: the last of them was admitted below the limit.
OverrunBounded ==
    spent + Estimate <= MaxUsd + Cardinality(Caller) * MaxCost

\* While a breaker rests, no caller that was not there yet gets through to its
\* provider, on any of the ways to callModel(), and no answer that comes late,
\* of a call admitted before it opened, closes it (retry.ts:153-187).
OpenHolds ==
    [][\A p \in Provider :
          breaker[p].state = "open" /\ ~ breaker[p].rested
            => /\ breaker'[p].state = "open"
               /\ InFlightAt(p)' \subseteq InFlightAt(p)]_vars

\* A closed breaker becomes open in one way only: by a failure that is the last
\* of Threshold in a row.  A half-open one is reached from open only, so that
\* nobody probes a provider that was never cut off (retry.ts:107-130).
TripsAtThreshold ==
    [][\A p \in Provider :
          /\ breaker[p].state = "closed" /\ breaker'[p].state = "open"
               => breaker[p].failures = Threshold - 1
          /\ breaker[p].state = "closed" => breaker'[p].state # "half-open"]_vars

\* Routes that start together share one discovery: there is at most one for each
\* configuration, although it is awaited (model-router.ts:373-386).
DiscoveryShared == discoveries <= changes + 1

\* As long as every configuration has a model of a provider that answers, a
\* request that leaves the choice to the router never fails for lack of a model:
\* the fallback loop gets there, whatever breakers open and configurations
\* change on the way (model-router.ts:192-225).
FailoverReachesHealthy ==
    (\A C \in Catalogs : \E m \in C : ProviderOf[m] \in Healthy)
      => stranded = {}

\* Retries and fallbacks come to an end: every route() returns or throws.
EveryRouteEnds == \A c \in Caller : pc[c] # "idle" ~> pc[c] = "idle"

\* What a route may still do: the models it may try, each with every attempt and
\* every sleep between two of them, after what is left of the call it is making.
TriesLeft(c) == IF fellBack[c] THEN Cardinality(rest[c]) ELSE Cardinality(Model)

RouteLeft(c) ==
    LET call == 2 * MaxRetries + 2
        left == 2 * (MaxRetries - attempt[c])
    IN  CASE pc[c] = "idle"        -> 0
          [] pc[c] = "calling"     -> call * TriesLeft(c) + left + 1
          [] pc[c] = "backoff"     -> call * TriesLeft(c) + left + 2
          [] pc[c] = "ready"       -> call * Cardinality(Model) + call
          [] pc[c] = "discovering" -> call * Cardinality(Model) + call + 1

\* Whatever a route does brings it nearer to its end: no retry, fallback, breaker
\* or change of the configuration meanwhile sends it back to a model that it has
\* tried as a fallback (model-router.ts:192-225, retry.ts:40-95).
OnlyAdvances ==
    [][\A c \in Caller :
          pc[c] # "idle"
            => \/ UNCHANGED <<pc[c], asked[c], model[c], attempt[c], fellBack[c], rest[c]>>
               \/ RouteLeft(c)' < RouteLeft(c)]_vars

=============================================================================
