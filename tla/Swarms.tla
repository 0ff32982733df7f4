------------------------------- MODULE Swarms -------------------------------
(***************************************************************************)
(* Swarms of several tasks at once: agents/swarm-engine.ts with the agent  *)
(* registry, the message hub's subscriptions, four of the topologies that  *)
(* drive the calls, and engine/degradation.ts as engine/orchestrator.ts    *)
(* uses it.                                                                *)
(*                                                                         *)
(* A swarm is one SwarmEngine.run().  Its agents are called through        *)
(* executeAgent(), which awaits models and tools; everything up to the     *)
(* next await, the start of the following calls and the clean-up included, *)
(* is one step.  The registry is a map of this process and a table.        *)
(***************************************************************************)
EXTENDS Naturals, Sequences, FiniteSets

CONSTANTS
    Swarm,
    Size,          \* agents in the team of each swarm
    Topology,      \* the topology of each swarm's design
    DependsOn,     \* forest: the agents of its team that an agent's prompt depends on
    StackDepth,    \* forest: how deep executeTree() can call itself
    MaxRounds,     \* maxRounds of a debate
    Redesigned,    \* swarms of a redesign
    Orphaned,      \* those of them whose caller gave no task's id
    Thresholds,    \* failureThreshold of each tier of degradation
    PastFailures   \* failures of a topology before the swarms modelled here

Role(s) == 1..Size[s]

Team(s) == {s} \X Role(s)

Agent == UNION {Team(s) : s \in Swarm}

TopologyName == {"sequential", "parallel", "debate", "forest"}

\* Nothing validates a dependency: agents may share one, depend on each other or on
\* themselves.
ASSUME SwarmsAssumption ==
    /\ Size \in [Swarm -> Nat \ {0}]
    /\ Topology \in [Swarm -> TopologyName]
    /\ DependsOn \in [Agent -> SUBSET Nat]
    /\ \A s \in Swarm : \A a \in Team(s) : DependsOn[a] \subseteq Role(s)
    /\ StackDepth \in Nat \ {0}
    /\ MaxRounds \in Nat \ {0}
    /\ Redesigned \subseteq Swarm /\ Orphaned \subseteq Redesigned
    /\ Thresholds \in [0..3 -> Nat] /\ Thresholds[0] = 0
    /\ PastFailures \subseteq Nat

-----------------------------------------------------------------------------
(***************************************************************************)
(* Visits: the calls a topology has to make.  A forest visits an agent     *)
(* once for every path that leads from a root to it, so a visit is a swarm *)
(* with a path of its agents; elsewhere the path is the agent alone.       *)
(***************************************************************************)

Dependents(s, i) == {j \in Role(s) : i \in DependsOn[<<s, j>>]}

\* Who depends on nobody, or everybody if there is no such agent.
Roots(s) ==
    LET free == {i \in Role(s) : DependsOn[<<s, i>>] = {}} IN
    IF free = {} THEN Role(s) ELSE free

\* executeTree() from each root to the dependents, as deep as the stack allows.
Branches(s) ==
    {p \in UNION {[1..n -> Role(s)] : n \in 1..StackDepth} :
        /\ p[1] \in Roots(s)
        /\ \A k \in 2..Len(p) : p[k] \in Dependents(s, p[k - 1])}

Paths(s) == IF Topology[s] = "forest" THEN Branches(s) ELSE {<<i>> : i \in Role(s)}

Visit == UNION {{<<s, p>> : p \in Paths(s)} : s \in Swarm}

Visits(s) == {v \in Visit : v[1] = s}

\* The agent that is called at the end of its path.
Who(v) == <<v[1], v[2][Len(v[2])]>>

\* The visits whose answers v waits for in a forest.
Children(v) == {w \in Visits(v[1]) : \E j \in Role(v[1]) : w[2] = Append(v[2], j)}

\* The recursion of a forest has no end: agents a root leads to depend on each other.
Overflows(s) ==
    /\ Topology[s] = "forest"
    /\ \E v \in Visits(s) : Len(v[2]) = StackDepth /\ Dependents(s, Who(v)[2]) # {}

-----------------------------------------------------------------------------

VARIABLES
    pc,         \* how far the swarm is
    registry,   \* status in the registry's map, or absent
    row,        \* status in the table of agents, or none
    calls,      \* visits whose executeAgent() is awaited
    outcome,    \* how the visit's last call ended
    round,      \* rounds of a debate begun
    subs,       \* agents with a handler at the message hub
    failures,   \* failures in a row of each topology
    tier        \* its tier of degradation

vars == <<pc, registry, row, calls, outcome, round, subs, failures, tier>>

\* An agent is in error for the moment between the two lines of the clean-up
\* only; nobody pauses one, and the map holds none that was terminated.  The
\* statuses completed and failed are those of a result, written to the table alone.
TypeOK ==
    /\ pc \in [Swarm -> {"waiting", "running", "succeeded", "failed", "degraded"}]
    /\ registry \in [Agent -> {"absent", "idle", "working"}]
    /\ row \in [Agent -> {"none", "idle", "working", "terminated", "completed", "failed"}]
    /\ calls \in SUBSET Visit
    /\ outcome \in [Visit -> {"none", "ok", "error"}]
    /\ round \in [Swarm -> 0..MaxRounds]
    /\ subs \in SUBSET Agent
    /\ failures \in [TopologyName -> Nat]
    /\ tier \in [TopologyName -> 0..3]

Ended(s) == pc[s] \in {"succeeded", "failed"}

-----------------------------------------------------------------------------
(***************************************************************************)
(* The registry                                                            *)
(***************************************************************************)

\* Mutant: an agent in error has come to its end.
ValidTransitionsErrorFinal ==
    [idle       |-> {"working"},
     working    |-> {"paused", "error", "terminated"},
     paused     |-> {"working", "terminated"},
     error      |-> {},
     terminated |-> {},
     absent     |-> {}]

\* VALID_TRANSITIONS.  transitionState() of an absent agent throws as well.
ValidTransitions ==
    [idle       |-> {"working"},
     working    |-> {"paused", "error", "terminated"},
     paused     |-> {"working", "terminated"},
     error      |-> {"terminated"},
     terminated |-> {},
     absent     |-> {}]

May(a, st) == st \in ValidTransitions[registry[a]]

\* executeAgent() begins: the agent works, unless the transition throws, which
\* is ignored.
Starts(F) ==
    LET moved == {a \in {Who(v) : v \in F} : May(a, "working")} IN
    /\ registry' = [a \in Agent |-> IF a \in moved THEN "working" ELSE registry[a]]
    /\ row' = [a \in Agent |-> IF a \in moved THEN "working" ELSE row[a]]

\* Mutant: every agent of the team has a result.
AnsweredAll(s) == Team(s)

\* The agents of a team that have an output, if only the message of an error.
Answered(s) == {Who(v) : v \in {w \in Visits(s) : w \in calls \/ outcome[w] # "none"}}

\* The clean-up of a success: deregister() of each agent, where it does not throw.
\* Then the orchestrator writes the status of each agent's result over its row: it
\* has completed if it has an output.  After a redesign nobody writes.
Deregisters(s) ==
    LET gone == {a \in Team(s) : May(a, "terminated")} IN
    /\ registry' = [a \in Agent |-> IF a \in gone THEN "absent" ELSE registry[a]]
    /\ row' = [a \in Agent |->
                 CASE a \in Team(s) /\ s \notin Redesigned ->
                        IF a \in Answered(s) THEN "completed" ELSE "failed"
                   [] a \in gone /\ s \in Redesigned -> "terminated"
                   [] OTHER -> row[a]]

\* Mutant: an agent that is at work is left to come to its end.
DiscardsUncalled(A) ==
    LET gone == {a \in A \ {Who(v) : v \in calls} : May(a, "error")} IN
    /\ registry' = [a \in Agent |-> IF a \in gone THEN "absent" ELSE registry[a]]
    /\ row' = [a \in Agent |-> IF a \in gone THEN "terminated" ELSE row[a]]

\* The clean-up of a failure: for each agent, transitionState() to error, then
\* deregister(); the first that throws leaves the agent as it is.
Discards(A) ==
    LET failed == {a \in A : May(a, "error")}
        stays  == IF "terminated" \in ValidTransitions["error"] THEN {} ELSE failed
    IN
    /\ registry' = [a \in Agent |->
                      CASE a \in stays           -> "error"
                        [] a \in failed \ stays  -> "absent"
                        [] OTHER                 -> registry[a]]
    /\ row' = [a \in Agent |->
                 CASE a \in stays           -> "error"
                   [] a \in failed \ stays  -> "terminated"
                   [] OTHER                 -> row[a]]

-----------------------------------------------------------------------------
(***************************************************************************)
(* Degradation                                                             *)
(***************************************************************************)

\* The most degraded tier whose threshold has been reached.
TierOf(n) ==
    CHOOSE i \in 0..3 :
        /\ Thresholds[i] <= n
        /\ \A j \in 0..3 : j > i => Thresholds[j] > n

\* The orchestrator's loop when its swarm throws: recordFailure() moves the tier;
\* suggestDegradation() compares its advice with the tier as it is then.  Only if
\* they differ, and no human is required, a simpler topology is tried.  A redesign
\* does without all this.
Failure(s) ==
    LET t       == Topology[s]
        n       == failures[t] + 1
        moved   == [tier EXCEPT ![t] = TierOf(n)]
        advised == TierOf(n)
    IN
    IF s \in Redesigned
    THEN /\ pc' = [pc EXCEPT ![s] = "failed"]
         /\ UNCHANGED <<failures, tier>>
    ELSE /\ failures' = [failures EXCEPT ![t] = n]
         /\ tier' = [moved EXCEPT ![t] = advised]
         /\ pc' = [pc EXCEPT ![s] = IF advised # moved[t] /\ advised # 3
                                    THEN "degraded" ELSE "failed"]

\* recordSuccess().
Success(s) ==
    /\ pc' = [pc EXCEPT ![s] = "succeeded"]
    /\ IF s \in Redesigned
       THEN UNCHANGED <<failures, tier>>
       ELSE /\ failures' = [failures EXCEPT ![Topology[s]] = 0]
            /\ tier' = [tier EXCEPT ![Topology[s]] = 0]

-----------------------------------------------------------------------------
(***************************************************************************)
(* The topologies                                                          *)
(***************************************************************************)

\* A debate takes two.
TooFew(s) == Topology[s] = "debate" /\ Size[s] < 2

\* The calls a topology begins with.
First(s) ==
    CASE Topology[s] \in {"sequential", "debate"} -> {<<s, <<1>>>>}
      [] Topology[s] = "parallel"                 -> Visits(s)
      [] Topology[s] = "forest"                   ->
           {v \in Visits(s) : Dependents(s, Who(v)[2]) = {}}

\* Mutant: a debate goes on until there is a consensus.
MoreRoundsAlways(s) == TRUE

MoreRounds(s) == round[s] < MaxRounds

\* A sequence calls the next agent.
FollowsInSequence(v) == {{w \in Visits(v[1]) : w[2][1] = v[2][1] + 1}}

\* The other side of the debate; after the critic it is over if he agrees or the
\* rounds are used up.
FollowsInDebate(v) ==
    IF v[2] = <<1>> THEN {{<<v[1], <<2>>>>}}
                    ELSE {{}} \cup IF MoreRounds(v[1]) THEN {{<<v[1], <<1>>>>}} ELSE {}

\* Mutant: a visit is called when the first of its children has returned.
FollowsInForestEarly(v) == {{u \in Visits(v[1]) : v \in Children(u)}}

\* In a forest an agent is called when all the visits below it have returned.
FollowsInForest(v) ==
    {{u \in Visits(v[1]) :
        /\ v \in Children(u)
        /\ \A w \in Children(u) \ {v} : outcome[w] = "ok"}}

\* The sets of visits that may be called when the call of v has returned.
Follows(v) ==
    CASE Topology[v[1]] = "sequential" -> FollowsInSequence(v)
      [] Topology[v[1]] = "parallel"   -> {{}}
      [] Topology[v[1]] = "debate"     -> FollowsInDebate(v)
      [] Topology[v[1]] = "forest"     -> FollowsInForest(v)

\* Mutant: the branches of parallel are awaited with Promise.all.
ToleratesNone(s) == FALSE

\* Promise.allSettled: the failure of a call is an outcome like another.
Tolerates(s) == Topology[s] = "parallel"

Round(F) ==
    round' = [s \in Swarm |->
                IF Topology[s] = "debate" /\ <<s, <<1>>>> \in F /\ round[s] < MaxRounds
                THEN round[s] + 1 ELSE round[s]]

-----------------------------------------------------------------------------

Init ==
    /\ pc = [s \in Swarm |-> "waiting"]
    /\ registry = [a \in Agent |-> "absent"]
    /\ row = [a \in Agent |-> "none"]
    /\ calls = {}
    /\ outcome = [v \in Visit |-> "none"]
    /\ round = [s \in Swarm |-> 0]
    /\ subs = {}
    /\ failures \in [TopologyName -> PastFailures]
    /\ tier = [t \in TopologyName |-> TierOf(failures[t])]

\* The mode does not allow the topology.
Refuse(s) ==
    /\ pc[s] = "waiting"
    /\ Failure(s)
    /\ UNCHANGED <<registry, row, calls, outcome, round, subs>>

\* register() of the first agent: it is in the map when the insert of its row,
\* without a task to refer to, throws.
SpawnFails(s) ==
    /\ pc[s] = "waiting"
    /\ s \in Orphaned
    /\ registry' = [registry EXCEPT ![<<s, 1>>] = "idle"]
    /\ Failure(s)
    /\ UNCHANGED <<row, calls, outcome, round, subs>>

\* The team is registered and subscribed, and the topology makes its first calls.
Start(s) ==
    LET called == {Who(v) : v \in First(s)} IN
    /\ pc[s] = "waiting"
    /\ s \notin Orphaned
    /\ ~ TooFew(s) /\ ~ Overflows(s)
    /\ pc' = [pc EXCEPT ![s] = "running"]
    /\ registry' = [a \in Agent |->
                      CASE a \in called           -> "working"
                        [] a \in Team(s) \ called -> "idle"
                        [] OTHER                  -> registry[a]]
    /\ row' = [a \in Agent |->
                 CASE a \in called           -> "working"
                   [] a \in Team(s) \ called -> "idle"
                   [] OTHER                  -> row[a]]
    /\ subs' = subs \cup Team(s)
    /\ calls' = calls \cup First(s)
    /\ Round(First(s))
    /\ UNCHANGED <<outcome, failures, tier>>

\* The team is registered and subscribed and the topology throws at once: a debate
\* before any call, so that no agent can be discarded; a forest when executeTree()
\* has used up the stack, after the calls of the agents nobody depends on.  Those
\* are discarded, their calls stay awaited.
Misfit(s) ==
    LET made   == IF TooFew(s) THEN {} ELSE First(s)
        called == {Who(v) : v \in made}
    IN
    /\ pc[s] = "waiting"
    /\ s \notin Orphaned
    /\ TooFew(s) \/ Overflows(s)
    /\ registry' = [a \in Agent |->
                      IF a \in Team(s) \ called THEN "idle" ELSE registry[a]]
    /\ row' = [a \in Agent |->
                 CASE a \in called           -> "terminated"
                   [] a \in Team(s) \ called -> "idle"
                   [] OTHER                  -> row[a]]
    /\ subs' = subs \cup Team(s)
    /\ calls' = calls \cup made
    /\ Failure(s)
    /\ UNCHANGED <<outcome, round>>

Returns(v, good) == [outcome EXCEPT ![v] = IF good THEN "ok" ELSE "error"]

\* A call has returned or thrown and its topology goes on.  A forest goes on also
\* when its swarm has failed: nobody stops the other branches.
Continues(v, good) ==
    /\ v \in calls
    /\ good \/ Tolerates(v[1]) \/ pc[v[1]] # "running"
    /\ \E F \in IF good THEN Follows(v) ELSE {{}} :
          /\ F # {} \/ pc[v[1]] # "running" \/ calls \cap Visits(v[1]) # {v}
          /\ calls' = (calls \ {v}) \cup F
          /\ Starts(F)
          /\ Round(F)
    /\ outcome' = Returns(v, good)
    /\ UNCHANGED <<pc, subs, failures, tier>>

\* Mutant: who cannot be deregistered keeps his handler.
CompletesInOneTry(v, good) ==
    /\ v \in calls
    /\ pc[v[1]] = "running"
    /\ good \/ Tolerates(v[1])
    /\ good => {} \in Follows(v)
    /\ calls \cap Visits(v[1]) = {v}
    /\ calls' = calls \ {v}
    /\ subs' = subs \ {b \in Team(v[1]) : May(b, "terminated")}
    /\ Deregisters(v[1])
    /\ Success(v[1])
    /\ outcome' = Returns(v, good)
    /\ UNCHANGED round

\* The last call: the swarm has succeeded.  An agent that was never called
\* cannot be deregistered.
Completes(v, good) ==
    /\ v \in calls
    /\ pc[v[1]] = "running"
    /\ good \/ Tolerates(v[1])
    /\ good => {} \in Follows(v)
    /\ calls \cap Visits(v[1]) = {v}
    /\ calls' = calls \ {v}
    /\ subs' = subs \ Team(v[1])
    /\ Deregisters(v[1])
    /\ Success(v[1])
    /\ outcome' = Returns(v, good)
    /\ UNCHANGED round

\* A call throws and the topology with it: the agents are discarded, those whose
\* calls are still awaited too; their handlers stay at the hub.
Breaks(v) ==
    /\ v \in calls
    /\ pc[v[1]] = "running"
    /\ ~ Tolerates(v[1])
    /\ calls' = calls \ {v}
    /\ Discards(Team(v[1]))
    /\ Failure(v[1])
    /\ outcome' = Returns(v, FALSE)
    /\ UNCHANGED <<round, subs>>

\* The executeAgent() of a visit settles.
Settles(v) ==
    \/ \E good \in BOOLEAN : Continues(v, good) \/ Completes(v, good)
    \/ Breaks(v)

Next ==
    \/ \E s \in Swarm : Refuse(s) \/ SpawnFails(s) \/ Start(s) \/ Misfit(s)
    \/ \E v \in Visit : Settles(v)

Spec == Init /\ [][Next]_vars

\* Models and tools answer or time out: while calls are awaited, one settles.
FairSpec == Spec /\ WF_vars(\E v \in Visit : Settles(v))

-----------------------------------------------------------------------------
(***************************************************************************)
(* Properties                                                              *)
(***************************************************************************)

Called(v) == v \in calls \/ outcome[v] # "none"

\* Whoever is left in the registry when a swarm has ended was never called by it:
\* VALID_TRANSITIONS knows no end for an idle agent (agent-registry.ts:46).  Only
\* a failed forest, whose other branches go on, may still put such an agent to
\* work, and nobody will end that.
LeftBehindIsIdle ==
    \A s \in Swarm : \A a \in Team(s) :
       Ended(s) /\ registry[a] # "absent"
         => \/ registry[a] = "idle" /\ \A v \in Visits(s) : Who(v) = a => ~ Called(v)
            \/ registry[a] = "working" /\ Topology[s] = "forest" /\ pc[s] = "failed"

\* The map and the table agree on every agent but for the one whose insert failed,
\* which the map has and the table has not (agent-registry.ts:92), and for the
\* results of a success, which go to the table alone (orchestrator.ts:507): an
\* agent that was heard of has completed there and is gone from the map, one that
\* was never called has failed there and stays idle in the map.
RegistryMatchesTable ==
    \A s \in Swarm : \A a \in Team(s) :
       LET heard == \E v \in Visits(s) : Who(v) = a /\ outcome[v] # "none"
       IN  \/ registry[a] = row[a]
           \/ registry[a] = "absent" /\ row[a] \in {"none", "terminated"}
           \/ registry[a] = "idle" /\ row[a] = "none" /\ s \in Orphaned /\ pc[s] = "failed"
           \/ registry[a] = "absent" /\ row[a] = "completed" /\ pc[s] = "succeeded" /\ heard
           \/ registry[a] = "idle" /\ row[a] = "failed" /\ pc[s] = "succeeded" /\ ~ heard

\* The handlers at the hub are those of the agents of running swarms, and of
\* swarms that failed, which are never taken off it (swarm-engine.ts:523).  A
\* swarm that succeeded leaves none, not even for the agents it leaves behind.
HandlersOfTheLiving ==
    \A s \in Swarm : subs \cap Team(s) # {} => pc[s] \in {"running", "failed"}

\* A call is awaited after the end of its swarm only in a forest that failed
\* (experimental.ts:238): no other topology leaves calls behind.
CallsBelong ==
    \A v \in calls :
       \/ pc[v[1]] = "running"
       \/ pc[v[1]] = "failed" /\ Topology[v[1]] = "forest"

\* The orchestrator's loop never takes a second turn (orchestrator.ts:441).
NeverDegrades == \A s \in Swarm : pc[s] # "degraded"

\* The task of a swarm that throws is given up only if there is no simpler topology
\* to advise (orchestrator.ts:427, 443): the failure has moved its topology to no
\* other tier, or to that of the human.  But when suggestDegradation() is asked,
\* recordFailure() has already moved the tier, and nothing changes any more
\* (orchestrator.ts:441, degradation.ts:131).
FailureDegrades ==
    [][\A s \in Swarm \ Redesigned :
          LET t == Topology[s] IN
          pc[s] = "running" /\ pc'[s] = "failed" => tier'[t] \in {tier[t], 3}]_vars

\* Every swarm that is started ends, and the calls it leaves behind end too: at
\* last nothing runs, neither a debate without consensus nor the other branches of
\* a failed forest.
EverySwarmQuiets == <>[](calls = {} /\ \A s \in Swarm : pc[s] # "running")

\* The visits whose answers a visit is given, where they are fixed beforehand.
Awaits(v) ==
    CASE Topology[v[1]] = "sequential" -> {w \in Visits(v[1]) : w[2][1] + 1 = v[2][1]}
      [] Topology[v[1]] = "forest"     -> Children(v)
      [] OTHER                         -> {}

\* But in a debate, every visit is called once, when all that it waits for have
\* answered, and none is forgotten: of two branches that return in any order it is
\* the last that calls the agent above them, and an agent that several depend on
\* is called for each of them (experimental.ts:204, 238, basic.ts:67).
CalledInTurn ==
    \A s \in Swarm : \A v \in Visits(s) :
       LET due == \A w \in Awaits(v) : outcome[w] = "ok"
       IN  Topology[s] # "debate"
             => /\ v \in calls => outcome[v] = "none"
                /\ Called(v) => due
                /\ pc[s] \in {"running", "succeeded"} /\ due => Called(v)

\* A swarm that succeeded has had an answer of every visit of a sequence or of a
\* forest, and has heard of every branch of a parallel one.  Agents that depend on
\* each other and that no root leads to have no visit: the swarm succeeds without
\* them.
SuccessMeansAll ==
    \A s \in Swarm : \A v \in Visits(s) :
       pc[s] = "succeeded"
         => /\ Topology[s] \in {"sequential", "forest"} => outcome[v] = "ok"
            /\ Topology[s] = "parallel" => outcome[v] # "none"

\* What a swarm may still do: every visit that has not answered is called once at
\* most, but for the turns of a debate that remain.
CallsLeft(s) ==
    IF pc[s] = "waiting" THEN Cardinality(Visits(s)) + 2 * MaxRounds + 3
    ELSE IF Topology[s] = "debate"
         THEN 2 * (MaxRounds - round[s]) + (IF <<s, <<1>>>> \in calls THEN 2
                                            ELSE IF <<s, <<2>>>> \in calls THEN 1 ELSE 0)
         ELSE Cardinality({v \in Visits(s) : outcome[v] = "none"})

\* Whatever happens to a swarm leaves less for it to do: also a debate without
\* consensus, and a forest that has failed or whose agents depend on each other,
\* call nobody for ever (advanced.ts:130, experimental.ts:238).
OnlyQuiets ==
    [][\A s \in Swarm : \/ UNCHANGED <<pc[s], round[s], calls \cap Visits(s),
                                       {v \in Visits(s) : outcome[v] = "none"}>>
                        \/ CallsLeft(s)' < CallsLeft(s)]_vars

=============================================================================
