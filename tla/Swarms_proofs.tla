--------------------------- MODULE Swarms_proofs ---------------------------
(***************************************************************************)
(* What a swarm leaves behind, whom it calls and when, and that it comes   *)
(* to rest, for every number of swarms, every size of team and every graph *)
(* of dependencies.  An invariant about each agent (AgentInv) and each     *)
(* visit (VisitInv) says which registry entries, rows, handlers and calls  *)
(* go with the state of its swarm; that a sequence and a debate have one   *)
(* call at a time (SingleInv) is why their failure leaves no call behind.  *)
(* The order of the calls (TurnInv) rests on the answers a visit waits     *)
(* for.                                                                    *)
(***************************************************************************)
EXTENDS Swarms, FiniteSetTheorems, SequenceTheorems, WellFoundedInduction, TLAPS

USE SwarmsAssumption

-----------------------------------------------------------------------------
(***************************************************************************)
(* Teams, visits, transitions and tiers                                    *)
(***************************************************************************)

LEMMA Teams ==
  /\ \A a \in Agent : a[1] \in Swarm /\ a \in Team(a[1])
  /\ \A s \in Swarm : \A a \in Team(s) : a \in Agent /\ a[1] = s /\ a = <<s, a[2]>>
  /\ \A s \in Swarm : <<s, 1>> \in Team(s)
  BY DEF Agent, Team, Role

LEMMA PathsAre ==
  ASSUME NEW s \in Swarm, NEW p \in Paths(s)
  PROVE  /\ p \in Seq(Role(s)) /\ Len(p) \in Nat /\ Len(p) > 0
         /\ p = [k \in 1..Len(p) |-> p[k]]
         /\ p[1] \in Role(s) /\ p[Len(p)] \in Role(s)
         /\ Topology[s] = "forest" => p \in Branches(s) /\ Len(p) <= StackDepth
         /\ Topology[s] # "forest" => p = <<p[1]>> /\ Len(p) = 1
  <1>1. CASE Topology[s] = "forest"
    <2>1. p \in Branches(s)
      BY <1>1 DEF Paths
    <2>2. PICK n \in 1..StackDepth : p \in [1..n -> Role(s)]
      BY <2>1 DEF Branches
    <2>3. p \in Seq(Role(s)) /\ Len(p) = n
      BY <2>2
    <2> QED
      BY <1>1, <2>1, <2>2, <2>3
  <1>2. CASE Topology[s] # "forest"
    BY <1>2 DEF Paths
  <1> QED
    BY <1>1, <1>2

LEMMA VisitsAre ==
  /\ \A v \in Visit : /\ v[1] \in Swarm /\ v[2] \in Paths(v[1]) /\ v = <<v[1], v[2]>>
                      /\ v \in Visits(v[1])
  /\ \A s \in Swarm : \A v \in Visits(s) :
        v \in Visit /\ v[1] = s /\ v[2] \in Paths(s) /\ v = <<s, v[2]>>
  /\ \A s \in Swarm : \A p \in Paths(s) : <<s, p>> \in Visits(s)
  BY DEF Visit, Visits

\* A visit is of an agent of its team.
LEMMA Whose ==
  ASSUME NEW v \in Visit
  PROVE  Who(v) \in Agent /\ Who(v) \in Team(v[1]) /\ Who(v)[1] = v[1] /\ v[1] \in Swarm
  <1>1. v[1] \in Swarm /\ v[2][Len(v[2])] \in Role(v[1])
    BY VisitsAre, PathsAre
  <1>2. Who(v) \in Team(v[1]) /\ Who(v)[1] = v[1]
    BY <1>1 DEF Who, Team
  <1> QED
    BY <1>1, <1>2, Teams

\* But for a forest, a visit is an agent of the team.
LEMMA Alone ==
  ASSUME NEW s \in Swarm, Topology[s] # "forest"
  PROVE  /\ \A v \in Visits(s) : v = <<s, <<v[2][1]>>>> /\ v[2][1] \in Role(s)
         /\ \A i \in Role(s) : <<s, <<i>>>> \in Visits(s)
  <1>1. \A v \in Visits(s) : v = <<s, v[2]>> /\ v[2] = <<v[2][1]>> /\ v[2][1] \in Role(s)
    BY VisitsAre, PathsAre
  <1>2. \A i \in Role(s) : <<i>> \in Paths(s)
    BY DEF Paths
  <1> QED
    BY <1>1, <1>2, VisitsAre

\* A child is visited one call deeper than the visit that waits for it.
LEMMA ChildrenAre ==
  ASSUME NEW v \in Visit, NEW w \in Children(v)
  PROVE  /\ w \in Visits(v[1]) /\ w \in Visit
         /\ Len(w[2]) = Len(v[2]) + 1
         /\ \E j \in Role(v[1]) : w[2] = Append(v[2], j)
  <1>1. PICK j \in Role(v[1]) : w \in Visits(v[1]) /\ w[2] = Append(v[2], j)
    BY DEF Children
  <1>2. v[2] \in Seq(Role(v[1])) /\ v[1] \in Swarm
    BY VisitsAre, PathsAre
  <1>3. Len(w[2]) = Len(v[2]) + 1
    BY <1>1, <1>2
  <1> QED
    BY <1>1, <1>2, <1>3, VisitsAre

\* The agent of a visit that has children has dependents.
LEMMA Leaf ==
  ASSUME NEW s \in Swarm, Topology[s] = "forest", NEW v \in Visits(s), NEW w \in Children(v)
  PROVE  Dependents(s, Who(v)[2]) # {}
  <1> DEFINE p == v[2]
             n == Len(p)
  <1>1. /\ v \in Visit /\ v[1] = s /\ p \in Seq(Role(s))
        /\ n \in Nat /\ n > 0 /\ Who(v)[2] = p[n]
    BY VisitsAre, PathsAre DEF Who
  <1>2. PICK j \in Role(s) : w[2] = Append(p, j)
    BY <1>1, ChildrenAre
  <1>3. w[2] \in Branches(s) /\ Len(w[2]) = n + 1
    BY <1>1, ChildrenAre, VisitsAre, PathsAre
  <1>4. w[2][n + 1] \in Dependents(s, w[2][n])
    <2>1. \A k \in 2..Len(w[2]) : w[2][k] \in Dependents(s, w[2][k - 1])
      BY <1>3 DEF Branches
    <2>2. n + 1 \in 2..Len(w[2]) /\ (n + 1) - 1 = n
      BY <1>1, <1>3
    <2> QED
      BY <2>1, <2>2
  <1>5. w[2][n] = p[n]
    BY <1>1, <1>2
  <1> QED
    BY <1>1, <1>4, <1>5

\* Where the stack suffices, only the visits of agents nobody depends on have no
\* children.
LEMMA Childless ==
  ASSUME NEW s \in Swarm, Topology[s] = "forest", ~ Overflows(s), NEW v \in Visits(s)
  PROVE  Children(v) = {} <=> Dependents(s, Who(v)[2]) = {}
  <1> DEFINE p == v[2]
             n == Len(p)
  <1>1. /\ v \in Visit /\ v[1] = s /\ p \in Branches(s) /\ p \in Seq(Role(s))
        /\ n \in Nat /\ n > 0 /\ n <= StackDepth /\ Who(v)[2] = p[n]
    BY VisitsAre, PathsAre DEF Who
  <1>2. p[1] \in Roots(s) /\ \A k \in 2..n : p[k] \in Dependents(s, p[k - 1])
    BY <1>1 DEF Branches
  <1>3. ASSUME NEW w \in Children(v)
        PROVE  Dependents(s, p[n]) # {}
    BY <1>1, Leaf
  <1>4. ASSUME NEW j \in Dependents(s, p[n])
        PROVE  Children(v) # {}
    <2> DEFINE q == Append(p, j)
    <2>1. n # StackDepth
      BY <1>1, <1>4 DEF Overflows
    <2>2. j \in Role(s) /\ n + 1 \in 1..StackDepth
      BY <1>1, <2>1 DEF Dependents
    <2>3. q \in Seq(Role(s)) /\ Len(q) = n + 1 /\ q[n + 1] = j /\ \A k \in 1..n : q[k] = p[k]
      BY <1>1, <2>2
    <2>4. q \in [1..(n + 1) -> Role(s)]
      <3>1. q \in [1..Len(q) -> Role(s)]
        BY <2>3, LenProperties
      <3> QED
        BY <2>3, <3>1
    <2>5. \A k \in 2..(n + 1) : q[k] \in Dependents(s, q[k - 1])
      <3> SUFFICES ASSUME NEW k \in 2..(n + 1)
                   PROVE  q[k] \in Dependents(s, q[k - 1])
        OBVIOUS
      <3>1. CASE k = n + 1
        BY <1>1, <1>4, <2>3, <3>1
      <3>2. CASE k # n + 1
        <4>1. k \in 2..n /\ k \in 1..n /\ k - 1 \in 1..n
          BY <1>1, <3>2
        <4> QED
          BY <1>2, <2>3, <4>1
      <3> QED
        BY <3>1, <3>2
    <2>6. q[1] \in Roots(s)
      BY <1>1, <1>2, <2>3
    <2> HIDE DEF q
    <2>7. q \in Branches(s)
      BY <2>2, <2>3, <2>4, <2>5, <2>6 DEF Branches
    <2>8. <<s, q>> \in Visits(s)
      BY <2>7, VisitsAre DEF Paths
    <2>9. <<s, q>> \in Children(v)
      BY <1>1, <2>2, <2>8 DEF Children, q
    <2> QED
      BY <2>9
  <1> QED
    BY <1>1, <1>3, <1>4

LEMMA Transitions ==
  ASSUME NEW a \in Agent, TypeOK
  PROVE  /\ May(a, "working") <=> registry[a] = "idle"
         /\ May(a, "terminated") <=> registry[a] = "working"
         /\ May(a, "error") <=> registry[a] = "working"
         /\ "terminated" \in ValidTransitions["error"]
  <1>1. registry[a] \in {"absent", "idle", "working"}
    BY DEF TypeOK
  <1>2. ValidTransitions["absent"] = {} /\ ValidTransitions["idle"] = {"working"}
        /\ ValidTransitions["working"] = {"paused", "error", "terminated"}
        /\ ValidTransitions["error"] = {"terminated"}
    BY DEF ValidTransitions
  <1> QED
    BY <1>1, <1>2 DEF May

LEMMA Tiers ==
  ASSUME NEW n \in Nat
  PROVE  TierOf(n) \in 0..3
  <1> DEFINE Fits(i) == Thresholds[i] <= n /\ \A j \in 0..3 : j > i => Thresholds[j] > n
  <1>1. \A i \in 0..3 : Thresholds[i] \in Nat
    OBVIOUS
  <1>2. \E i \in 0..3 : Fits(i)
    <2>1. CASE Thresholds[3] <= n
      BY <2>1
    <2>2. CASE Thresholds[3] > n /\ Thresholds[2] <= n
      BY <2>2
    <2>3. CASE Thresholds[3] > n /\ Thresholds[2] > n /\ Thresholds[1] <= n
      BY <2>3
    <2>4. CASE Thresholds[3] > n /\ Thresholds[2] > n /\ Thresholds[1] > n
      BY <2>4
    <2> QED
      BY <1>1, <2>1, <2>2, <2>3, <2>4
  <1> QED
    BY <1>2 DEF TierOf

\* A failure of a swarm is always one of the task: no simpler topology is tried.
LEMMA Fails ==
  ASSUME TypeOK, NEW s \in Swarm, Failure(s)
  PROVE  /\ pc' = [pc EXCEPT ![s] = "failed"]
         /\ failures' \in [TopologyName -> Nat]
         /\ tier' \in [TopologyName -> 0..3]
  <1> DEFINE t == Topology[s]
             n == failures[t] + 1
  <1>1. t \in TopologyName /\ n \in Nat /\ TierOf(n) \in 0..3
    BY Tiers DEF TypeOK
  <1>2. [tier EXCEPT ![t] = TierOf(n)][t] = TierOf(n)
    BY <1>1 DEF TypeOK
  <1>3. CASE s \in Redesigned
    BY <1>3 DEF Failure, TypeOK
  <1>4. CASE s \notin Redesigned
    BY <1>1, <1>2, <1>4 DEF Failure, TypeOK
  <1> QED
    BY <1>3, <1>4

LEMMA Succeeds ==
  ASSUME TypeOK, NEW s \in Swarm, Success(s)
  PROVE  /\ pc' = [pc EXCEPT ![s] = "succeeded"]
         /\ failures' \in [TopologyName -> Nat]
         /\ tier' \in [TopologyName -> 0..3]
  BY DEF Success, TypeOK

LEMMA Rounds ==
  ASSUME TypeOK, NEW F, Round(F)
  PROVE  round' \in [Swarm -> 0..MaxRounds]
  BY DEF Round, TypeOK

\* What is called is a visit of the swarm; a sequence and a debate call one at a
\* time.
LEMMA FirstCalls ==
  ASSUME NEW s \in Swarm
  PROVE  /\ First(s) \subseteq Visits(s)
         /\ Topology[s] \in {"sequential", "debate"} => First(s) = {<<s, <<1>>>>}
  <1>1. Topology[s] \in TopologyName /\ 1 \in Role(s)
    BY DEF Role
  <1>2. Topology[s] \in {"sequential", "debate"} => <<s, <<1>>>> \in Visits(s)
    BY <1>1, Alone
  <1> QED
    BY <1>1, <1>2 DEF First, TopologyName

LEMMA NextCalls ==
  ASSUME NEW v \in Visit, ~ TooFew(v[1]), NEW F \in Follows(v)
  PROVE  /\ F \subseteq Visits(v[1])
         /\ Topology[v[1]] \in {"sequential", "debate"} => \A b, c \in F : b = c
         /\ Topology[v[1]] = "parallel" => F = {}
  <1>1. v[1] \in Swarm /\ Topology[v[1]] \in TopologyName
    BY VisitsAre
  <1>2. CASE Topology[v[1]] = "sequential"
    <2>1. F = {w \in Visits(v[1]) : w[2][1] = v[2][1] + 1}
      BY <1>2 DEF Follows, FollowsInSequence
    <2>2. \A w \in F : w = <<v[1], <<v[2][1] + 1>>>>
      BY <1>1, <1>2, <2>1, Alone
    <2> QED
      BY <1>2, <2>1, <2>2
  <1>3. CASE Topology[v[1]] = "parallel"
    BY <1>3 DEF Follows
  <1>4. CASE Topology[v[1]] = "debate"
    <2>1. F \in FollowsInDebate(v)
      BY <1>4 DEF Follows
    <2>2. F = {} \/ F = {<<v[1], <<1>>>>} \/ F = {<<v[1], <<2>>>>}
      BY <2>1 DEF FollowsInDebate
    <2>3. 1 \in Role(v[1]) /\ 2 \in Role(v[1])
      BY <1>1, <1>4 DEF TooFew, Role
    <2>4. <<v[1], <<1>>>> \in Visits(v[1]) /\ <<v[1], <<2>>>> \in Visits(v[1])
      BY <1>1, <1>4, <2>3, Alone
    <2> QED
      BY <1>4, <2>2, <2>4
  <1>5. CASE Topology[v[1]] = "forest"
    <2>1. F \subseteq Visits(v[1])
      BY <1>5 DEF Follows, FollowsInForest
    <2> QED
      BY <1>5, <2>1
  <1> QED
    BY <1>1, <1>2, <1>3, <1>4, <1>5 DEF TopologyName

-----------------------------------------------------------------------------
(***************************************************************************)
(* The invariant                                                           *)
(***************************************************************************)

\* Calls of an agent's swarm may still be awaited, and agents of it may be at work.
Active(s) == pc[s] = "running" \/ (pc[s] = "failed" /\ Topology[s] = "forest")

\* The visits of an agent.
Of(a) == {v \in Visits(a[1]) : Who(v) = a}

AgentInv(a) ==
  /\ pc[a[1]] = "waiting" => registry[a] = "absent" /\ row[a] = "none" /\ a \notin subs
  /\ pc[a[1]] = "running" => registry[a] # "absent" /\ row[a] = registry[a]
  /\ pc[a[1]] = "succeeded" => a \notin subs
  /\ registry[a] = "absent" =>
        \/ row[a] \in {"none", "terminated"}
        \/ row[a] = "completed" /\ pc[a[1]] = "succeeded" /\ \E v \in Of(a) : outcome[v] # "none"
  /\ registry[a] = "idle" =>
        /\ \A v \in Of(a) : ~ Called(v)
        /\ \/ row[a] = "idle"
           \/ row[a] = "none" /\ a[1] \in Orphaned /\ pc[a[1]] = "failed"
           \/ row[a] = "failed" /\ pc[a[1]] = "succeeded"
  /\ registry[a] = "working" =>
        row[a] = "working" /\ Active(a[1]) /\ \E v \in Of(a) : Called(v)
  /\ pc[a[1]] # "degraded"

VisitInv(v) ==
  /\ pc[v[1]] = "waiting" => ~ Called(v)
  /\ v \in calls => Active(v[1]) /\ ~ TooFew(v[1])

SingleInv ==
  \A v, w \in calls : v[1] = w[1] /\ Topology[v[1]] \in {"sequential", "debate"} => v = w

\* No swarm runs whose recursion has no end.
DepthInv(s) == pc[s] \in {"running", "succeeded"} => ~ Overflows(s)

SwarmInv ==
  /\ \A a \in Agent : AgentInv(a)
  /\ \A v \in Visit : VisitInv(v)
  /\ \A s \in Swarm : DepthInv(s)
  /\ SingleInv

\* Nothing happens to the agents and visits of other swarms.
Untouched(s) ==
  /\ \A a \in Agent : a[1] # s =>
        registry'[a] = registry[a] /\ row'[a] = row[a] /\ (a \in subs' <=> a \in subs)
  /\ \A v \in Visit : v[1] # s => outcome'[v] = outcome[v] /\ (v \in calls' <=> v \in calls)
  /\ \A t \in Swarm \ {s} : pc'[t] = pc[t]

LEMMA OthersKeep ==
  ASSUME NEW s \in Swarm, SwarmInv, Untouched(s), DepthInv(s)',
         \A a \in Agent : a[1] = s => AgentInv(a)',
         \A v \in Visit : v[1] = s => VisitInv(v)',
         \A v, w \in calls' : v[1] = s /\ w[1] = s /\ Topology[s] \in {"sequential", "debate"} => v = w,
         calls' \subseteq Visit
  PROVE  SwarmInv'
  <1>1. ASSUME NEW v \in Visit, v[1] # s
        PROVE  (Called(v)' <=> Called(v)) /\ outcome'[v] = outcome[v] /\ VisitInv(v)'
    <2>1. v[1] \in Swarm \ {s} /\ pc'[v[1]] = pc[v[1]]
      BY <1>1, VisitsAre DEF Untouched
    <2>2. outcome'[v] = outcome[v] /\ (v \in calls' <=> v \in calls)
      BY <1>1 DEF Untouched
    <2>3. Called(v)' <=> Called(v)
      BY <2>2 DEF Called
    <2>4. VisitInv(v)
      BY DEF SwarmInv
    <2> QED
      BY <2>1, <2>2, <2>3, <2>4 DEF VisitInv, Active, TooFew
  <1>2. ASSUME NEW a \in Agent, a[1] # s
        PROVE  AgentInv(a)'
    <2>1. a[1] \in Swarm \ {s} /\ pc'[a[1]] = pc[a[1]]
      BY <1>2, Teams DEF Untouched
    <2>2. registry'[a] = registry[a] /\ row'[a] = row[a] /\ (a \in subs' <=> a \in subs)
      BY <1>2 DEF Untouched
    <2>3. \A v \in Of(a) : v \in Visit /\ v[1] # s
      BY <1>2, <2>1, VisitsAre DEF Of
    <2>4. \A v \in Of(a) : (Called(v)' <=> Called(v)) /\ outcome'[v] = outcome[v]
      BY <1>1, <2>3
    <2>5. AgentInv(a) /\ Of(a)' = Of(a)
      BY DEF SwarmInv, Of, Visits, Who
    <2> QED
      BY <2>1, <2>2, <2>4, <2>5 DEF AgentInv, Active
  <1>3. SingleInv'
    BY DEF SwarmInv, SingleInv, Untouched
  <1>4. \A t \in Swarm : DepthInv(t)'
    <2>1. ASSUME NEW t \in Swarm, t # s
          PROVE  DepthInv(t)'
      <3>1. pc'[t] = pc[t] /\ DepthInv(t)
        BY <2>1 DEF SwarmInv, Untouched
      <3> QED
        BY <3>1 DEF DepthInv, Overflows, Visits
    <2> QED
      BY <2>1
  <1> QED
    BY <1>1, <1>2, <1>3, <1>4 DEF SwarmInv

\* Of a swarm that waits nothing is known to anybody.
LEMMA Waiting ==
  ASSUME TypeOK, SwarmInv, NEW s \in Swarm, pc[s] = "waiting"
  PROVE  /\ \A v \in Visits(s) : ~ Called(v)
         /\ \A v \in calls : v[1] # s
         /\ \A a \in Team(s) : registry[a] = "absent" /\ row[a] = "none" /\ a \notin subs
  <1>1. \A v \in Visits(s) : ~ Called(v)
    BY VisitsAre DEF SwarmInv, VisitInv
  <1>2. \A v \in calls : v[1] # s
    BY <1>1, VisitsAre DEF TypeOK, Called
  <1>3. \A a \in Team(s) : registry[a] = "absent" /\ row[a] = "none" /\ a \notin subs
    BY Teams DEF SwarmInv, AgentInv
  <1> QED
    BY <1>1, <1>2, <1>3

\* A swarm that fails before any call.
LEMMA FailsUncalled ==
  ASSUME TypeOK, SwarmInv, NEW s \in Swarm, pc[s] = "waiting", Untouched(s),
         pc' = [pc EXCEPT ![s] = "failed"], UNCHANGED <<calls, outcome>>,
         \A a \in Team(s) : \/ registry'[a] = "absent" /\ row'[a] = "none"
                            \/ registry'[a] = "idle" /\ row'[a] = "idle"
                            \/ registry'[a] = "idle" /\ row'[a] = "none" /\ s \in Orphaned
  PROVE  SwarmInv'
  <1>1. pc'[s] = "failed"
    BY DEF TypeOK
  <1>2. \A v \in Visits(s) : ~ Called(v)'
    BY Waiting DEF Called
  <1>3. ASSUME NEW a \in Agent, a[1] = s
        PROVE  AgentInv(a)'
    <2>1. \A v \in Of(a) : ~ Called(v)'
      BY <1>2, <1>3 DEF Of
    <2>2. a \in Team(s) /\ Of(a)' = Of(a)
      BY <1>3, Teams DEF Of, Visits, Who
    <2> QED
      BY <1>1, <1>3, <2>1, <2>2 DEF AgentInv
  <1>4. ASSUME NEW v \in Visit, v[1] = s
        PROVE  VisitInv(v)'
    BY <1>1, <1>2, <1>4, VisitsAre DEF VisitInv, Called
  <1>5. \A v \in calls' : v[1] # s
    BY Waiting
  <1>6. DepthInv(s)'
    BY <1>1 DEF DepthInv
  <1> QED
    BY <1>3, <1>4, <1>5, <1>6, OthersKeep DEF TypeOK

LEMMA RefuseStep ==
  ASSUME TypeOK, SwarmInv, NEW s \in Swarm, Refuse(s)
  PROVE  TypeOK' /\ SwarmInv' /\ Untouched(s)
  <1>1. /\ pc[s] = "waiting" /\ pc' = [pc EXCEPT ![s] = "failed"]
        /\ failures' \in [TopologyName -> Nat] /\ tier' \in [TopologyName -> 0..3]
        /\ UNCHANGED <<registry, row, calls, outcome, round, subs>>
    BY Fails DEF Refuse
  <1>2. TypeOK'
    BY <1>1 DEF TypeOK
  <1>3. Untouched(s)
    BY <1>1 DEF Untouched, TypeOK
  <1>4. \A a \in Team(s) : registry'[a] = "absent" /\ row'[a] = "none"
    BY <1>1, Waiting
  <1> QED
    BY <1>1, <1>2, <1>3, <1>4, FailsUncalled

LEMMA SpawnFailsStep ==
  ASSUME TypeOK, SwarmInv, NEW s \in Swarm, SpawnFails(s)
  PROVE  TypeOK' /\ SwarmInv' /\ Untouched(s)
  <1>1. /\ pc[s] = "waiting" /\ s \in Orphaned /\ pc' = [pc EXCEPT ![s] = "failed"]
        /\ registry' = [registry EXCEPT ![<<s, 1>>] = "idle"]
        /\ failures' \in [TopologyName -> Nat] /\ tier' \in [TopologyName -> 0..3]
        /\ UNCHANGED <<row, calls, outcome, round, subs>>
    BY Fails DEF SpawnFails
  <1>2. TypeOK'
    BY <1>1 DEF TypeOK
  <1>3. Untouched(s)
    BY <1>1 DEF Untouched, TypeOK
  <1>4. \A a \in Team(s) : registry'[a] \in {"absent", "idle"} /\ row'[a] = "none"
    BY <1>1, Waiting, Teams DEF TypeOK
  <1> QED
    BY <1>1, <1>2, <1>3, <1>4, FailsUncalled

LEMMA StartStep ==
  ASSUME TypeOK, SwarmInv, NEW s \in Swarm, Start(s)
  PROVE  TypeOK' /\ SwarmInv' /\ Untouched(s)
  <1> DEFINE called == {Who(v) : v \in First(s)}
  <1>0. /\ pc[s] = "waiting" /\ ~ TooFew(s) /\ ~ Overflows(s)
        /\ pc' = [pc EXCEPT ![s] = "running"]
        /\ registry' = [a \in Agent |->
                          CASE a \in called           -> "working"
                            [] a \in Team(s) \ called -> "idle"
                            [] OTHER                  -> registry[a]]
        /\ row' = [a \in Agent |->
                     CASE a \in called           -> "working"
                       [] a \in Team(s) \ called -> "idle"
                       [] OTHER                  -> row[a]]
        /\ subs' = subs \cup Team(s) /\ calls' = calls \cup First(s)
        /\ UNCHANGED <<outcome, failures, tier>>
    BY DEF Start
  <1>1. round' \in [Swarm -> 0..MaxRounds]
    BY Rounds DEF Start
  <1>2. First(s) \subseteq Visits(s) /\ First(s) \subseteq Visit
    BY FirstCalls, VisitsAre
  <1>3. called \subseteq Team(s) /\ Team(s) \subseteq Agent
    BY <1>2, Whose, Teams, VisitsAre
  <1>4. \A v \in First(s) : Who(v) \in called
    OBVIOUS
  <1>5. \A a \in called : \E v \in First(s) : a = Who(v)
    OBVIOUS
  <1> HIDE DEF called
  <1>6. /\ registry' \in [Agent -> {"absent", "idle", "working"}]
        /\ row' \in [Agent -> {"none", "idle", "working", "terminated", "completed", "failed"}]
    BY <1>0 DEF TypeOK
  <1>7. TypeOK'
    BY <1>0, <1>1, <1>2, <1>3, <1>6 DEF TypeOK
  <1>8. Untouched(s)
    <2>1. ASSUME NEW a \in Agent, a[1] # s
          PROVE  a \notin Team(s) /\ a \notin called
      BY <1>3, <2>1, Teams
    <2>2. ASSUME NEW v \in Visit, v[1] # s
          PROVE  v \notin First(s)
      BY <1>2, <2>2, VisitsAre
    <2> QED
      BY <1>0, <2>1, <2>2 DEF Untouched, TypeOK
  <1>9. pc'[s] = "running"
    BY <1>0 DEF TypeOK
  <1>10. ASSUME NEW a \in Agent, a[1] = s
         PROVE  AgentInv(a)'
    <2>1. a \in Team(s) /\ Of(a)' = Of(a)
      BY <1>10, Teams DEF Of, Visits, Who
    <2>2. CASE a \in called
      <3>1. PICK v \in First(s) : a = Who(v)
        BY <1>5, <2>2
      <3>2. v \in Of(a) /\ Called(v)'
        BY <1>0, <1>2, <1>10, <3>1 DEF Of, Called
      <3>3. registry'[a] = "working" /\ row'[a] = "working"
        BY <1>0, <2>2
      <3> QED
        BY <1>9, <1>10, <2>1, <3>2, <3>3 DEF AgentInv, Active
    <2>3. CASE a \notin called
      <3>1. \A v \in Of(a) : ~ Called(v)'
        <4>1. \A v \in Of(a) : v \notin First(s) /\ ~ Called(v)
          BY <1>0, <1>4, <1>10, <2>3, Waiting DEF Of
        <4> QED
          BY <1>0, <4>1 DEF Called
      <3>2. registry'[a] = "idle" /\ row'[a] = "idle"
        BY <1>0, <2>1, <2>3
      <3> QED
        BY <1>9, <1>10, <2>1, <3>1, <3>2 DEF AgentInv
    <2> QED
      BY <2>2, <2>3
  <1>11. ASSUME NEW v \in Visit, v[1] = s
         PROVE  VisitInv(v)'
    BY <1>0, <1>9, <1>11 DEF VisitInv, Active, TooFew
  <1>12. \A v, w \in calls' : v[1] = s /\ w[1] = s /\ Topology[s] \in {"sequential", "debate"} => v = w
    BY <1>0, Waiting, FirstCalls
  <1>13. DepthInv(s)'
    BY <1>0 DEF DepthInv, Overflows, Visits
  <1> QED
    BY <1>7, <1>8, <1>10, <1>11, <1>12, <1>13, OthersKeep DEF TypeOK

LEMMA MisfitStep ==
  ASSUME TypeOK, SwarmInv, NEW s \in Swarm, Misfit(s)
  PROVE  TypeOK' /\ SwarmInv' /\ Untouched(s)
  <1> DEFINE made == IF TooFew(s) THEN {} ELSE First(s)
             called == {Who(v) : v \in made}
  <1>0. /\ pc[s] = "waiting" /\ (TooFew(s) \/ Overflows(s))
        /\ registry' = [a \in Agent |-> IF a \in Team(s) \ called THEN "idle" ELSE registry[a]]
        /\ row' = [a \in Agent |->
                     CASE a \in called           -> "terminated"
                       [] a \in Team(s) \ called -> "idle"
                       [] OTHER                  -> row[a]]
        /\ subs' = subs \cup Team(s) /\ calls' = calls \cup made
        /\ UNCHANGED <<outcome, round>>
    BY DEF Misfit
  <1>1. /\ pc' = [pc EXCEPT ![s] = "failed"]
        /\ failures' \in [TopologyName -> Nat] /\ tier' \in [TopologyName -> 0..3]
    BY Fails DEF Misfit
  <1>2. made \subseteq Visits(s) /\ made \subseteq Visit
    BY FirstCalls, VisitsAre
  <1>3. made # {} => ~ TooFew(s) /\ Topology[s] = "forest"
    BY <1>0 DEF Overflows
  <1> HIDE DEF made
  <1>4. called \subseteq Team(s) /\ Team(s) \subseteq Agent
    BY <1>2, Whose, Teams, VisitsAre
  <1>5. \A v \in made : Who(v) \in called
    OBVIOUS
  <1> HIDE DEF called
  <1>6. /\ registry' \in [Agent -> {"absent", "idle", "working"}]
        /\ row' \in [Agent -> {"none", "idle", "working", "terminated", "completed", "failed"}]
    BY <1>0 DEF TypeOK
  <1>7. TypeOK'
    BY <1>0, <1>1, <1>2, <1>4, <1>6 DEF TypeOK
  <1>8. Untouched(s)
    <2>1. ASSUME NEW a \in Agent, a[1] # s
          PROVE  a \notin Team(s) /\ a \notin called
      BY <1>4, <2>1, Teams
    <2>2. ASSUME NEW v \in Visit, v[1] # s
          PROVE  v \notin made
      BY <1>2, <2>2, VisitsAre
    <2> QED
      BY <1>0, <1>1, <2>1, <2>2 DEF Untouched, TypeOK
  <1>9. pc'[s] = "failed"
    BY <1>1 DEF TypeOK
  <1>10. ASSUME NEW a \in Agent, a[1] = s
         PROVE  AgentInv(a)'
    <2>1. a \in Team(s) /\ Of(a)' = Of(a)
      BY <1>10, Teams DEF Of, Visits, Who
    <2>2. CASE a \in called
      <3>1. registry'[a] = "absent" /\ row'[a] = "terminated"
        BY <1>0, <2>1, <2>2, Waiting
      <3> QED
        BY <1>9, <1>10, <3>1 DEF AgentInv
    <2>3. CASE a \notin called
      <3>1. \A v \in Of(a) : ~ Called(v)'
        <4>1. \A v \in Of(a) : v \notin made /\ ~ Called(v)
          BY <1>0, <1>5, <1>10, <2>3, Waiting DEF Of
        <4> QED
          BY <1>0, <4>1 DEF Called
      <3>2. registry'[a] = "idle" /\ row'[a] = "idle"
        BY <1>0, <2>1, <2>3
      <3> QED
        BY <1>9, <1>10, <2>1, <3>1, <3>2 DEF AgentInv
    <2> QED
      BY <2>2, <2>3
  <1>11. ASSUME NEW v \in Visit, v[1] = s
         PROVE  VisitInv(v)'
    <2>1. v \in calls' => made # {}
      BY <1>0, <1>11, Waiting
    <2> QED
      BY <1>3, <1>9, <1>11, <2>1 DEF VisitInv, Active, TooFew
  <1>12. \A v, w \in calls' : v[1] = s /\ w[1] = s /\ Topology[s] \in {"sequential", "debate"} => v = w
    BY <1>0, <1>3, Waiting
  <1>13. DepthInv(s)'
    BY <1>9 DEF DepthInv
  <1> QED
    BY <1>7, <1>8, <1>10, <1>11, <1>12, <1>13, OthersKeep DEF TypeOK


\* Whoever was called stays called.
LEMMA CalledStays ==
  ASSUME TypeOK, NEW v \in Visit, NEW good \in BOOLEAN, outcome' = Returns(v, good),
         calls \ {v} \subseteq calls'
  PROVE  /\ \A u \in Visit : Called(u) => Called(u)'
         /\ \A u \in Visit : outcome[u] # "none" => outcome'[u] # "none"
         /\ outcome'[v] = IF good THEN "ok" ELSE "error"
         /\ \A u \in Visit \ {v} : outcome'[u] = outcome[u]
         /\ outcome' \in [Visit -> {"none", "ok", "error"}]
  <1>1. outcome' = [outcome EXCEPT ![v] = IF good THEN "ok" ELSE "error"]
    BY DEF Returns
  <1>2. outcome' \in [Visit -> {"none", "ok", "error"}]
    BY <1>1 DEF TypeOK
  <1>3. outcome'[v] = (IF good THEN "ok" ELSE "error") /\ \A u \in Visit \ {v} : outcome'[u] = outcome[u]
    BY <1>1 DEF TypeOK
  <1> QED
    BY <1>2, <1>3 DEF Called

LEMMA ContinuesStep ==
  ASSUME TypeOK, SwarmInv, NEW v \in Visit, NEW good \in BOOLEAN, Continues(v, good)
  PROVE  TypeOK' /\ SwarmInv' /\ Untouched(v[1])
  <1> DEFINE s == v[1]
  <1>1. s \in Swarm /\ v \in Visits(s) /\ v \in calls /\ ~ TooFew(s) /\ Active(s)
    BY VisitsAre DEF Continues, SwarmInv, VisitInv
  <1>2. PICK F \in IF good THEN Follows(v) ELSE {{}} :
           calls' = (calls \ {v}) \cup F /\ Starts(F) /\ Round(F)
    BY DEF Continues
  <1>3. outcome' = Returns(v, good) /\ UNCHANGED <<pc, subs, failures, tier>>
    BY DEF Continues
  <1>4. /\ F \subseteq Visits(s) /\ F \subseteq Visit
        /\ Topology[s] \in {"sequential", "debate"} => \A b, c \in F : b = c
    <2>1. CASE good
      BY <1>1, <1>2, <2>1, NextCalls, VisitsAre
    <2>2. CASE ~ good
      BY <1>2, <2>2
    <2> QED
      BY <2>1, <2>2
  <1> DEFINE called == {Who(w) : w \in F}
  <1>5. called \subseteq Team(s) /\ called \subseteq Agent
    BY <1>4, Whose, VisitsAre
  <1>6. \A b \in Agent : May(b, "working") <=> registry[b] = "idle"
    BY Transitions
  <1>7. /\ registry' = [b \in Agent |-> IF b \in called /\ registry[b] = "idle"
                                        THEN "working" ELSE registry[b]]
        /\ row' = [b \in Agent |-> IF b \in called /\ registry[b] = "idle"
                                   THEN "working" ELSE row[b]]
    BY <1>2, <1>5, <1>6 DEF Starts
  <1>8. /\ \A u \in Visit : Called(u) => Called(u)'
        /\ \A u \in Visit : outcome[u] # "none" => outcome'[u] # "none"
        /\ \A u \in Visit \ {v} : outcome'[u] = outcome[u]
        /\ outcome' \in [Visit -> {"none", "ok", "error"}]
    BY <1>2, <1>3, CalledStays
  <1>9. \A w \in F : Who(w) \in called
    OBVIOUS
  <1>10. \A b \in called : \E w \in F : b = Who(w)
    OBVIOUS
  <1> HIDE DEF called
  <1>11. round' \in [Swarm -> 0..MaxRounds]
    BY <1>2, Rounds
  <1>12. TypeOK'
    <2>1. registry' \in [Agent -> {"absent", "idle", "working"}]
      BY <1>7 DEF TypeOK
    <2>2. row' \in [Agent -> {"none", "idle", "working", "terminated", "completed", "failed"}]
      BY <1>7 DEF TypeOK
    <2> QED
      BY <1>2, <1>3, <1>4, <1>8, <1>11, <2>1, <2>2 DEF TypeOK
  <1>13. Untouched(s)
    <2>1. ASSUME NEW b \in Agent, b[1] # s
          PROVE  b \notin called
      BY <1>1, <1>5, <2>1, Teams
    <2>2. ASSUME NEW u \in Visit, u[1] # s
          PROVE  u \notin F /\ u # v
      BY <1>1, <1>4, <2>2, VisitsAre
    <2>3. \A b \in Agent : b[1] # s =>
             registry'[b] = registry[b] /\ row'[b] = row[b] /\ (b \in subs' <=> b \in subs)
      BY <1>3, <1>7, <2>1
    <2>4. \A u \in Visit : u[1] # s => outcome'[u] = outcome[u] /\ (u \in calls' <=> u \in calls)
      BY <1>2, <1>8, <2>2
    <2> QED
      BY <1>3, <2>3, <2>4 DEF Untouched
  <1>14. pc'[s] = pc[s] /\ pc[s] # "waiting" /\ pc[s] # "succeeded" /\ Active(s)'
    BY <1>1, <1>3 DEF Active
  <1> HIDE DEF s
  <1>15. ASSUME NEW b \in Agent, b[1] = s
         PROVE  AgentInv(b)'
    <2>1. AgentInv(b) /\ Of(b)' = Of(b)
      BY DEF SwarmInv, Of, Visits, Who
    <2>2. \A u \in Of(b) : u \in Visit
      BY <1>1, <1>15, VisitsAre DEF Of
    <2>3. CASE b \in called /\ registry[b] = "idle"
      <3>1. PICK w \in F : b = Who(w)
        BY <1>10, <2>3
      <3>2. w \in Of(b) /\ Called(w)'
        BY <1>2, <1>4, <1>15, <3>1 DEF Of, Called
      <3>3. registry'[b] = "working" /\ row'[b] = "working"
        BY <1>7, <2>3
      <3> QED
        BY <1>14, <1>15, <2>1, <3>2, <3>3 DEF AgentInv
    <2>4. CASE ~ (b \in called /\ registry[b] = "idle")
      <3>1. registry'[b] = registry[b] /\ row'[b] = row[b]
        BY <1>7, <2>4
      <3>2. registry[b] = "idle" => \A u \in Of(b) : ~ Called(u)'
        <4>1. SUFFICES ASSUME registry[b] = "idle", NEW u \in Of(b)
                       PROVE  ~ Called(u)'
          OBVIOUS
        <4>2. ~ Called(u) /\ u \in Visit /\ Who(u) = b
          BY <2>1, <2>2, <4>1 DEF AgentInv, Of
        <4>3. u # v /\ u \notin F
          BY <1>1, <1>9, <2>4, <4>1, <4>2 DEF Called
        <4> QED
          BY <1>2, <1>8, <4>2, <4>3 DEF Called
      <3>3. registry[b] = "working" => \E u \in Of(b) : Called(u)'
        BY <1>8, <2>1, <2>2 DEF AgentInv
      <3> QED
        BY <1>3, <1>14, <1>15, <2>1, <3>1, <3>2, <3>3 DEF AgentInv
    <2> QED
      BY <2>3, <2>4
  <1>16. ASSUME NEW u \in Visit, u[1] = s
         PROVE  VisitInv(u)'
    BY <1>1, <1>14, <1>16 DEF VisitInv, TooFew
  <1>17. \A b, c \in calls' : b[1] = s /\ c[1] = s /\ Topology[s] \in {"sequential", "debate"} => b = c
    <2> SUFFICES ASSUME Topology[s] \in {"sequential", "debate"}, NEW b \in calls', NEW c \in calls',
                        b[1] = s, c[1] = s
                 PROVE  b = c
      OBVIOUS
    <2>1. \A x \in calls : x[1] = s => x = v
      BY <1>1 DEF SwarmInv, SingleInv, s
    <2>2. b \in F /\ c \in F
      BY <1>2, <2>1
    <2> QED
      BY <1>4, <2>2
  <1>18. DepthInv(s)'
    BY <1>1, <1>14 DEF SwarmInv, DepthInv, Overflows, Visits
  <1>19. Untouched(s) /\ s \in Swarm
    BY <1>1, <1>13
  <1>20. SwarmInv'
    BY <1>12, <1>15, <1>16, <1>17, <1>18, <1>19, OthersKeep DEF TypeOK
  <1> QED
    BY <1>12, <1>19, <1>20 DEF s

LEMMA CompletesStep ==
  ASSUME TypeOK, SwarmInv, NEW v \in Visit, NEW good \in BOOLEAN, Completes(v, good)
  PROVE  TypeOK' /\ SwarmInv' /\ Untouched(v[1])
  <1> DEFINE s == v[1]
  <1>1. s \in Swarm /\ v \in Visits(s) /\ v \in calls /\ pc[s] = "running"
    BY VisitsAre DEF Completes
  <1>2. /\ calls \cap Visits(s) = {v} /\ calls' = calls \ {v} /\ subs' = subs \ Team(s)
        /\ Deregisters(s) /\ outcome' = Returns(v, good) /\ round' = round
    BY DEF Completes
  <1>3. /\ pc' = [pc EXCEPT ![s] = "succeeded"]
        /\ failures' \in [TopologyName -> Nat] /\ tier' \in [TopologyName -> 0..3]
    BY <1>1, Succeeds DEF Completes
  <1>4. \A b \in Agent : May(b, "terminated") <=> registry[b] = "working"
    BY Transitions
  <1>5. \A b \in Agent : b \in Team(s) <=> b[1] = s
    BY <1>1, Teams
  <1>6. /\ registry' = [b \in Agent |-> IF b[1] = s /\ registry[b] = "working"
                                        THEN "absent" ELSE registry[b]]
        /\ row' = [b \in Agent |->
                     CASE b[1] = s /\ s \notin Redesigned ->
                            IF b \in Answered(s) THEN "completed" ELSE "failed"
                       [] b[1] = s /\ registry[b] = "working" /\ s \in Redesigned -> "terminated"
                       [] OTHER -> row[b]]
    BY <1>1, <1>2, <1>4, <1>5, Teams DEF Deregisters
  <1>7. /\ \A u \in Visit : outcome[u] # "none" => outcome'[u] # "none"
        /\ outcome'[v] # "none"
        /\ \A u \in Visit \ {v} : outcome'[u] = outcome[u]
        /\ outcome' \in [Visit -> {"none", "ok", "error"}]
    BY <1>2, CalledStays
  <1>8. pc'[s] = "succeeded" /\ ~ Overflows(s)
    BY <1>1, <1>3 DEF TypeOK, SwarmInv, DepthInv
  <1> HIDE DEF s
  <1>9. TypeOK'
    <2>1. registry' \in [Agent -> {"absent", "idle", "working"}]
      BY <1>6 DEF TypeOK
    <2>2. row' \in [Agent -> {"none", "idle", "working", "terminated", "completed", "failed"}]
      BY <1>6 DEF TypeOK
    <2>3. pc' \in [Swarm -> {"waiting", "running", "succeeded", "failed", "degraded"}]
      BY <1>3 DEF TypeOK
    <2> QED
      BY <1>2, <1>3, <1>7, <2>1, <2>2, <2>3 DEF TypeOK
  <1>10. v[1] = s
    BY DEF s
  <1>11. Untouched(s)
    <2>1. ASSUME NEW b \in Agent, b[1] # s
          PROVE  registry'[b] = registry[b] /\ row'[b] = row[b] /\ (b \in subs' <=> b \in subs)
      <3>1. registry'[b] = registry[b]
        BY <1>6, <2>1
      <3>2. row'[b] = row[b]
        BY <1>6, <2>1
      <3> QED
        BY <1>2, <1>5, <2>1, <3>1, <3>2
    <2>2. \A u \in Visit : u[1] # s => outcome'[u] = outcome[u] /\ (u \in calls' <=> u \in calls)
      BY <1>2, <1>7, <1>10
    <2>3. \A t \in Swarm \ {s} : pc'[t] = pc[t]
      BY <1>3 DEF TypeOK
    <2> QED
      BY <2>1, <2>2, <2>3 DEF Untouched
  <1>12. \A u \in calls' : u[1] # s
    BY <1>2, VisitsAre DEF TypeOK
  <1>13. ASSUME NEW b \in Agent, b[1] = s
         PROVE  AgentInv(b)'
    <2>1. AgentInv(b) /\ Of(b)' = Of(b) /\ registry[b] \in {"idle", "working"} /\ row[b] = registry[b]
      BY <1>1, <1>13 DEF SwarmInv, AgentInv, TypeOK, Of, Visits, Who
    <2>2. \A u \in Of(b) : u \in Visit /\ u \in Visits(s) /\ Who(u) = b
      BY <1>1, <1>13, VisitsAre DEF Of
    <2>3. b \notin subs'
      BY <1>2, <1>5, <1>13
    <2>4. CASE registry[b] = "working"
      <3>1. PICK u \in Of(b) : Called(u)
        BY <2>1, <2>4 DEF AgentInv
      <3>2. outcome'[u] # "none"
        <4>1. u \in calls => u = v
          BY <1>2, <2>2
        <4> QED
          BY <1>7, <2>2, <3>1, <4>1 DEF Called
      <3>3. b \in Answered(s)
        <4>1. u \in Visits(s) /\ Who(u) = b /\ (u \in calls \/ outcome[u] # "none")
          BY <2>2, <3>1 DEF Called
        <4> QED
          BY <4>1 DEF Answered
      <3>4. registry'[b] = "absent" /\ row'[b] \in {"completed", "terminated"}
        BY <1>6, <1>13, <2>4, <3>3
      <3> QED
        BY <1>8, <1>13, <2>1, <2>3, <3>1, <3>2, <3>4 DEF AgentInv
    <2>5. CASE registry[b] = "idle"
      <3>1. \A u \in Of(b) : ~ Called(u)
        BY <2>1, <2>5 DEF AgentInv
      <3>2. b \notin Answered(s)
        <4> SUFFICES ASSUME NEW u \in Visits(s), u \in calls \/ outcome[u] # "none", b = Who(u)
                     PROVE  FALSE
          BY DEF Answered
        <4>1. u \in Of(b) /\ Called(u)
          BY <1>13 DEF Of, Called
        <4> QED
          BY <3>1, <4>1
      <3>3. \A u \in Of(b) : ~ Called(u)'
        BY <1>1, <1>2, <1>7, <2>2, <3>1 DEF Called
      <3>4. registry'[b] = "idle" /\ row'[b] \in {"idle", "failed"}
        BY <1>6, <1>13, <2>1, <2>5, <3>2
      <3> QED
        BY <1>8, <1>13, <2>1, <2>3, <3>3, <3>4 DEF AgentInv
    <2> QED
      BY <2>1, <2>4, <2>5
  <1>14. ASSUME NEW u \in Visit, u[1] = s
         PROVE  VisitInv(u)'
    BY <1>8, <1>12, <1>14 DEF VisitInv
  <1>15. DepthInv(s)'
    BY <1>8 DEF DepthInv, Overflows, Visits
  <1>16. s \in Swarm /\ calls' \subseteq Visit
    BY <1>1, <1>9 DEF TypeOK
  <1>17. SwarmInv'
    BY <1>11, <1>12, <1>13, <1>14, <1>15, <1>16, OthersKeep
  <1> QED
    BY <1>9, <1>11, <1>17 DEF s

LEMMA BreaksStep ==
  ASSUME TypeOK, SwarmInv, NEW v \in Visit, Breaks(v)
  PROVE  TypeOK' /\ SwarmInv' /\ Untouched(v[1])
  <1> DEFINE s == v[1]
  <1>1. s \in Swarm /\ v \in Visits(s) /\ v \in calls /\ pc[s] = "running" /\ ~ TooFew(s)
        /\ Topology[s] \in {"sequential", "debate", "forest"}
    BY VisitsAre DEF Breaks, Tolerates, TopologyName, SwarmInv, VisitInv
  <1>2. /\ calls' = calls \ {v} /\ Discards(Team(s)) /\ outcome' = Returns(v, FALSE)
        /\ UNCHANGED <<round, subs>>
    BY DEF Breaks
  <1>3. /\ pc' = [pc EXCEPT ![s] = "failed"]
        /\ failures' \in [TopologyName -> Nat] /\ tier' \in [TopologyName -> 0..3]
    BY <1>1, Fails DEF Breaks
  <1>4. /\ \A b \in Agent : May(b, "error") <=> registry[b] = "working"
        /\ "terminated" \in ValidTransitions["error"]
    BY Transitions, Whose
  <1>5. \A b \in Agent : b \in Team(s) <=> b[1] = s
    BY <1>1, Teams
  <1>6. /\ registry' = [b \in Agent |-> IF b[1] = s /\ registry[b] = "working"
                                        THEN "absent" ELSE registry[b]]
        /\ row' = [b \in Agent |-> IF b[1] = s /\ registry[b] = "working"
                                   THEN "terminated" ELSE row[b]]
    BY <1>1, <1>2, <1>4, <1>5, Teams DEF Discards
  <1>7. /\ outcome'[v] # "none"
        /\ \A u \in Visit \ {v} : outcome'[u] = outcome[u]
        /\ outcome' \in [Visit -> {"none", "ok", "error"}]
    BY <1>2, CalledStays
  <1>8. pc'[s] = "failed"
    BY <1>1, <1>3 DEF TypeOK
  <1> HIDE DEF s
  <1>9. TypeOK'
    <2>1. registry' \in [Agent -> {"absent", "idle", "working"}]
      BY <1>6 DEF TypeOK
    <2>2. row' \in [Agent -> {"none", "idle", "working", "terminated", "completed", "failed"}]
      BY <1>6 DEF TypeOK
    <2>3. pc' \in [Swarm -> {"waiting", "running", "succeeded", "failed", "degraded"}]
      BY <1>3 DEF TypeOK
    <2> QED
      BY <1>2, <1>3, <1>7, <2>1, <2>2, <2>3 DEF TypeOK
  <1>10. v[1] = s
    BY DEF s
  <1>11. Untouched(s)
    <2>1. \A b \in Agent : b[1] # s =>
             registry'[b] = registry[b] /\ row'[b] = row[b] /\ (b \in subs' <=> b \in subs)
      BY <1>2, <1>6
    <2>2. \A u \in Visit : u[1] # s => outcome'[u] = outcome[u] /\ (u \in calls' <=> u \in calls)
      BY <1>2, <1>7, <1>10
    <2>3. \A t \in Swarm \ {s} : pc'[t] = pc[t]
      BY <1>3 DEF TypeOK
    <2> QED
      BY <2>1, <2>2, <2>3 DEF Untouched
  <1>12. ASSUME NEW b \in Agent, b[1] = s
         PROVE  AgentInv(b)'
    <2>1. AgentInv(b) /\ Of(b)' = Of(b) /\ registry[b] \in {"idle", "working"} /\ row[b] = registry[b]
      BY <1>1, <1>12 DEF SwarmInv, AgentInv, TypeOK, Of, Visits, Who
    <2>2. registry[b] = "idle" => \A u \in Of(b) : ~ Called(u)'
      <3>1. \A u \in Of(b) : u \in Visit
        BY <1>1, <1>12, VisitsAre DEF Of
      <3> QED
        BY <1>1, <1>2, <1>7, <2>1, <3>1 DEF AgentInv, Called
    <2>3. CASE registry[b] = "working"
      <3>1. registry'[b] = "absent" /\ row'[b] = "terminated"
        BY <1>6, <1>12, <2>3
      <3> QED
        BY <1>8, <1>12, <3>1 DEF AgentInv
    <2>4. CASE registry[b] = "idle"
      <3>1. registry'[b] = "idle" /\ row'[b] = "idle"
        BY <1>6, <1>12, <2>1, <2>4
      <3> QED
        BY <1>8, <1>12, <2>1, <2>2, <2>4, <3>1 DEF AgentInv
    <2> QED
      BY <2>1, <2>3, <2>4
  <1>13. ASSUME NEW u \in Visit, u[1] = s
         PROVE  VisitInv(u)'
    <2>1. u \in calls' => Topology[s] = "forest"
      BY <1>1, <1>2, <1>10, <1>13 DEF SwarmInv, SingleInv
    <2> QED
      BY <1>1, <1>8, <1>13, <2>1 DEF VisitInv, Active, TooFew
  <1>14. \A b, c \in calls' : b[1] = s /\ c[1] = s /\ Topology[s] \in {"sequential", "debate"} => b = c
    BY <1>2 DEF SwarmInv, SingleInv
  <1>15. DepthInv(s)'
    BY <1>8 DEF DepthInv
  <1>16. s \in Swarm /\ calls' \subseteq Visit
    BY <1>1, <1>9 DEF TypeOK
  <1>17. SwarmInv'
    BY <1>11, <1>12, <1>13, <1>14, <1>15, <1>16, OthersKeep
  <1> QED
    BY <1>9, <1>11, <1>17 DEF s

LEMMA SwarmsStep ==
  ASSUME TypeOK, SwarmInv, [Next]_vars
  PROVE  TypeOK' /\ SwarmInv'
  <1>1. CASE UNCHANGED vars
    <2>1. TypeOK'
      BY <1>1 DEF vars, TypeOK
    <2>2. \A a \in Agent : AgentInv(a) => AgentInv(a)'
      BY <1>1 DEF vars, AgentInv, Active, Of, Called, Visits, Who
    <2>3. \A v \in Visit : VisitInv(v) => VisitInv(v)'
      BY <1>1 DEF vars, VisitInv, Active, Called, TooFew
    <2>4. \A s \in Swarm : DepthInv(s) => DepthInv(s)'
      BY <1>1 DEF vars, DepthInv, Overflows, Visits
    <2> QED
      BY <1>1, <2>1, <2>2, <2>3, <2>4 DEF vars, SwarmInv, SingleInv
  <1>2. ASSUME NEW s \in Swarm, Refuse(s) \/ SpawnFails(s) \/ Start(s) \/ Misfit(s)
        PROVE  TypeOK' /\ SwarmInv'
    BY <1>2, RefuseStep, SpawnFailsStep, StartStep, MisfitStep
  <1>3. ASSUME NEW v \in Visit, Settles(v)
        PROVE  TypeOK' /\ SwarmInv'
    BY <1>3, ContinuesStep, CompletesStep, BreaksStep DEF Settles
  <1> QED
    BY <1>1, <1>2, <1>3 DEF Next

LEMMA Swarming == Spec => [](TypeOK /\ SwarmInv)
  <1>1. Init => TypeOK /\ SwarmInv
    <2> SUFFICES ASSUME Init PROVE TypeOK /\ SwarmInv
      OBVIOUS
    <2>1. failures \in [TopologyName -> Nat]
      BY DEF Init
    <2>2. tier \in [TopologyName -> 0..3]
      BY <2>1, Tiers DEF Init
    <2>3. TypeOK
      BY <2>1, <2>2 DEF Init, TypeOK
    <2>4. calls = {} /\ subs = {} /\ \A s \in Swarm : pc[s] = "waiting"
      BY DEF Init
    <2>5. \A v \in Visit : ~ Called(v) /\ pc[v[1]] = "waiting"
      BY <2>4, VisitsAre DEF Init, Called
    <2>6. \A a \in Agent : pc[a[1]] = "waiting" /\ registry[a] = "absent" /\ row[a] = "none"
      BY <2>4, Teams DEF Init
    <2> QED
      BY <2>3, <2>4, <2>5, <2>6 DEF SwarmInv, AgentInv, VisitInv, SingleInv, DepthInv
  <1>2. TypeOK /\ SwarmInv /\ [Next]_vars => TypeOK' /\ SwarmInv'
    BY SwarmsStep
  <1> QED
    BY <1>1, <1>2, PTL DEF Spec

-----------------------------------------------------------------------------
(***************************************************************************)
(* Results                                                                 *)
(***************************************************************************)

\* All variables keep to their types: at the end of each step no agent is left in
\* error, and a result's status goes to the table alone (swarm-engine.ts:515-535,
\* agent-registry.ts:46, orchestrator.ts:507).
THEOREM TypeCorrect == Spec => []TypeOK
  BY Swarming, PTL

\* Who is left in the registry was never called, but for a failed forest
\* (agent-registry.ts:46).
THEOREM LeftBehindIsIdleHolds == Spec => []LeftBehindIsIdle
  <1>1. TypeOK /\ SwarmInv => LeftBehindIsIdle
    <2> SUFFICES ASSUME TypeOK, SwarmInv, NEW s \in Swarm, NEW a \in Team(s), Ended(s),
                        registry[a] # "absent"
                 PROVE  \/ registry[a] = "idle" /\ \A v \in Visits(s) : Who(v) = a => ~ Called(v)
                        \/ registry[a] = "working" /\ Topology[s] = "forest" /\ pc[s] = "failed"
      BY DEF LeftBehindIsIdle
    <2>1. a \in Agent /\ a[1] = s /\ AgentInv(a) /\ registry[a] \in {"idle", "working"}
      BY Teams DEF TypeOK, SwarmInv
    <2> QED
      BY <2>1 DEF AgentInv, Active, Ended, Of
  <1> QED
    BY <1>1, Swarming, PTL

\* The registry's map and its table agree but for the agent whose insert failed and
\* for the results of a success, which only the table has (agent-registry.ts:92,
\* orchestrator.ts:507).
THEOREM RegistryMatchesTableHolds == Spec => []RegistryMatchesTable
  <1>1. TypeOK /\ SwarmInv => RegistryMatchesTable
    <2> SUFFICES ASSUME TypeOK, SwarmInv, NEW s \in Swarm, NEW a \in Team(s)
                 PROVE  LET heard == \E v \in Visits(s) : Who(v) = a /\ outcome[v] # "none"
                        IN  \/ registry[a] = row[a]
                            \/ registry[a] = "absent" /\ row[a] \in {"none", "terminated"}
                            \/ registry[a] = "idle" /\ row[a] = "none" /\ s \in Orphaned
                               /\ pc[s] = "failed"
                            \/ registry[a] = "absent" /\ row[a] = "completed"
                               /\ pc[s] = "succeeded" /\ heard
                            \/ registry[a] = "idle" /\ row[a] = "failed"
                               /\ pc[s] = "succeeded" /\ ~ heard
      BY DEF RegistryMatchesTable
    <2>1. a \in Agent /\ a[1] = s /\ AgentInv(a) /\ registry[a] \in {"absent", "idle", "working"}
      BY Teams DEF TypeOK, SwarmInv
    <2> QED
      BY <2>1 DEF AgentInv, Of, Called
  <1> QED
    BY <1>1, Swarming, PTL

\* Handlers at the hub are those of swarms that run or have failed
\* (swarm-engine.ts:523).
THEOREM HandlersOfTheLivingHolds == Spec => []HandlersOfTheLiving
  <1>1. TypeOK /\ SwarmInv => HandlersOfTheLiving
    BY Teams DEF TypeOK, SwarmInv, AgentInv, HandlersOfTheLiving
  <1> QED
    BY <1>1, Swarming, PTL

\* Only a failed forest leaves calls behind (experimental.ts:238).
THEOREM CallsBelongHolds == Spec => []CallsBelong
  <1>1. TypeOK /\ SwarmInv => CallsBelong
    BY DEF TypeOK, SwarmInv, VisitInv, Active, CallsBelong
  <1> QED
    BY <1>1, Swarming, PTL

\* No simpler topology is ever tried, whatever the thresholds (orchestrator.ts:441).
THEOREM NeverDegradesHolds == Spec => []NeverDegrades
  <1>1. TypeOK /\ SwarmInv => NeverDegrades
    <2> SUFFICES ASSUME SwarmInv, NEW s \in Swarm
                 PROVE  pc[s] # "degraded"
      BY DEF NeverDegrades
    <2>1. <<s, 1>> \in Agent /\ <<s, 1>>[1] = s
      BY Teams
    <2> QED
      BY <2>1 DEF SwarmInv, AgentInv
  <1> QED
    BY <1>1, Swarming, PTL

-----------------------------------------------------------------------------
(***************************************************************************)
(* Which visits are called, and when                                       *)
(***************************************************************************)

Due(v) == \A w \in Awaits(v) : outcome[w] = "ok"

\* CalledInTurn for one visit.
InTurn(v) ==
  Topology[v[1]] # "debate"
    => /\ v \in calls => outcome[v] = "none"
       /\ Called(v) => Due(v)
       /\ pc[v[1]] \in {"running", "succeeded"} /\ Due(v) => Called(v)

\* A swarm that does not tolerate an error has met none so far.
NoError(v) ==
  pc[v[1]] \in {"running", "succeeded"} /\ Topology[v[1]] \in {"sequential", "forest"}
    => outcome[v] # "error"

TurnInv == \A v \in Visit : InTurn(v) /\ NoError(v)

LEMMA TurnIsCalledInTurn == TurnInv => CalledInTurn
  BY VisitsAre DEF TurnInv, InTurn, Due, CalledInTurn

\* No visit waits for itself, or for another swarm.
LEMMA AwaitsOthers ==
  ASSUME NEW v \in Visit
  PROVE  /\ Awaits(v) \subseteq Visits(v[1]) /\ Awaits(v) \subseteq Visit
         /\ v \notin Awaits(v)
         /\ Topology[v[1]] \in {"parallel", "debate"} => Awaits(v) = {}
         /\ Topology[v[1]] = "forest" => \A w \in Awaits(v) : Len(v[2]) < Len(w[2])
         /\ Topology[v[1]] = "sequential" => \A w \in Awaits(v) : w[2][1] < v[2][1]
  <1>1. v[1] \in Swarm /\ v \in Visits(v[1]) /\ Topology[v[1]] \in TopologyName
        /\ Visits(v[1]) \subseteq Visit /\ Len(v[2]) \in Nat
    BY VisitsAre, PathsAre
  <1>2. CASE Topology[v[1]] = "sequential"
    <2>1. Awaits(v) = {w \in Visits(v[1]) : w[2][1] + 1 = v[2][1]}
      BY <1>2 DEF Awaits
    <2>2. \A w \in Visits(v[1]) : w[2][1] \in Nat
      BY <1>1, VisitsAre, PathsAre DEF Role
    <2> QED
      BY <1>1, <1>2, <2>1, <2>2
  <1>3. CASE Topology[v[1]] = "forest"
    <2>1. Awaits(v) = Children(v)
      BY <1>3 DEF Awaits
    <2>2. \A w \in Children(v) : w \in Visits(v[1]) /\ Len(w[2]) = Len(v[2]) + 1
      BY ChildrenAre
    <2> QED
      BY <1>1, <1>3, <2>1, <2>2
  <1>4. CASE Topology[v[1]] \in {"parallel", "debate"}
    BY <1>4 DEF Awaits
  <1> QED
    BY <1>1, <1>2, <1>3, <1>4 DEF TopologyName

\* Those called when v has answered are those who waited for it last.
LEMMA FollowsInTurn ==
  ASSUME NEW v \in Visit, Topology[v[1]] # "debate", NEW F \in Follows(v), NEW u \in Visits(v[1])
  PROVE  u \in F <=> v \in Awaits(u) /\ \A w \in Awaits(u) \ {v} : outcome[w] = "ok"
  <1>1. v[1] \in Swarm /\ v \in Visits(v[1]) /\ Topology[v[1]] \in TopologyName /\ u[1] = v[1]
    BY VisitsAre
  <1>2. CASE Topology[v[1]] = "sequential"
    <2>1. F = {w \in Visits(v[1]) : w[2][1] = v[2][1] + 1}
      BY <1>2 DEF Follows, FollowsInSequence
    <2>2. Awaits(u) = {w \in Visits(v[1]) : w[2][1] + 1 = u[2][1]}
      BY <1>1, <1>2 DEF Awaits
    <2>3. ASSUME NEW w \in Visits(v[1]), w[2][1] + 1 = u[2][1], v[2][1] + 1 = u[2][1]
          PROVE  w = v
      <3>1. w[2][1] \in Role(v[1]) /\ v[2][1] \in Role(v[1]) /\ u[2][1] \in Role(v[1])
        BY <1>1, <1>2, Alone
      <3>2. w[2][1] = v[2][1]
        BY <2>3, <3>1 DEF Role
      <3> QED
        BY <1>1, <1>2, <3>2, Alone
    <2> QED
      BY <1>1, <2>1, <2>2, <2>3
  <1>3. CASE Topology[v[1]] = "parallel"
    BY <1>1, <1>3 DEF Follows, Awaits
  <1>4. CASE Topology[v[1]] = "forest"
    <2>1. F = {w \in Visits(v[1]) : /\ v \in Children(w)
                                    /\ \A x \in Children(w) \ {v} : outcome[x] = "ok"}
      BY <1>4 DEF Follows, FollowsInForest
    <2>2. Awaits(u) = Children(u)
      BY <1>1, <1>4 DEF Awaits
    <2> QED
      BY <2>1, <2>2
  <1> QED
    BY <1>1, <1>2, <1>3, <1>4 DEF TopologyName

\* The first calls are of those that wait for nobody; of all of them, if the stack
\* suffices.
LEMMA FirstInTurn ==
  ASSUME NEW s \in Swarm, Topology[s] # "debate", NEW v \in Visits(s)
  PROVE  /\ v \in First(s) => Awaits(v) = {}
         /\ ~ Overflows(s) /\ Awaits(v) = {} => v \in First(s)
  <1>1. Topology[s] \in TopologyName /\ v[1] = s /\ v \in Visit
    BY VisitsAre
  <1>2. CASE Topology[s] = "sequential"
    <2>1. Awaits(v) = {w \in Visits(s) : w[2][1] + 1 = v[2][1]} /\ First(s) = {<<s, <<1>>>>}
      BY <1>1, <1>2 DEF Awaits, First
    <2>2. v = <<s, <<v[2][1]>>>> /\ v[2][1] \in Role(s)
      BY <1>2, Alone
    <2>3. CASE v[2][1] = 1
      <3>1. \A w \in Visits(s) : w[2][1] \in Role(s)
        BY <1>2, Alone
      <3>2. \A i \in Role(s) : i + 1 # 1
        BY DEF Role
      <3>3. Awaits(v) = {} /\ v \in First(s)
        BY <2>1, <2>2, <2>3, <3>1, <3>2
      <3> QED
        BY <3>3
    <2>4. CASE v[2][1] # 1
      <3> DEFINE i == v[2][1] - 1
      <3>1. i \in Role(s) /\ i + 1 = v[2][1]
        BY <2>2, <2>4 DEF Role
      <3>2. <<s, <<i>>>> \in Visits(s)
        BY <1>2, <3>1, Alone
      <3>3. <<s, <<i>>>> \in Awaits(v)
        BY <2>1, <3>1, <3>2
      <3> QED
        BY <2>1, <2>2, <2>4, <3>3
    <2> QED
      BY <2>3, <2>4
  <1>3. CASE Topology[s] = "parallel"
    BY <1>1, <1>3 DEF Awaits, First
  <1>4. CASE Topology[s] = "forest"
    <2>1. Awaits(v) = Children(v) /\ First(s) = {w \in Visits(s) : Dependents(s, Who(w)[2]) = {}}
      BY <1>1, <1>4 DEF Awaits, First
    <2>2. v \in First(s) => Children(v) = {}
      BY <1>4, <2>1, Leaf
    <2>3. ~ Overflows(s) /\ Children(v) = {} => v \in First(s)
      BY <1>4, <2>1, Childless
    <2> QED
      BY <2>1, <2>2, <2>3
  <1> QED
    BY <1>1, <1>2, <1>3, <1>4 DEF TopologyName

LEMMA AwaitsStay ==
  ASSUME NEW v \in Visit
  PROVE  Awaits(v)' = Awaits(v)
  BY DEF Awaits, Children, Visits

LEMMA AnsweredStays ==
  ASSUME NEW v \in Visit, NEW o \in {"ok", "error"}, NEW u \in Visit, TypeOK,
         outcome' = [outcome EXCEPT ![v] = o], v \notin Awaits(u)
  PROVE  Due(u)' <=> Due(u)
  <1>1. \A w \in Awaits(u) : outcome'[w] = outcome[w]
    BY AwaitsOthers DEF TypeOK
  <1> QED
    BY <1>1, AwaitsStay DEF Due

\* What the end of a call does to the turns: v has answered o, and F are called.
LEMMA SettleKeepsTurns ==
  ASSUME TypeOK, TypeOK', TurnInv, NEW v \in calls, Untouched(v[1]),
         NEW F \in SUBSET Visits(v[1]), NEW o \in {"ok", "error"},
         \A u \in Visits(v[1]) : u \in calls' <=> (u \in calls /\ u # v) \/ u \in F,
         outcome' = [outcome EXCEPT ![v] = o],
         o = "ok" => F \in Follows(v),
         o = "error" => F = {},
         pc'[v[1]] \in {"running", "succeeded"}
           => pc[v[1]] = "running" /\ (o = "ok" \/ Tolerates(v[1]))
  PROVE  TurnInv'
  <1> DEFINE s == v[1]
  <1>1. v \in Visit /\ s \in Swarm /\ v \in Visits(s)
    BY VisitsAre DEF TypeOK
  <1>2. ASSUME NEW u \in Visit, u[1] # s
        PROVE  InTurn(u)' /\ NoError(u)'
    <2>1. v \notin Awaits(u)
      <3>1. u[1] \in Swarm /\ Awaits(u) \subseteq Visits(u[1])
        BY AwaitsOthers, VisitsAre
      <3> QED
        BY <1>2, <3>1, VisitsAre
    <2>2. Due(u)' <=> Due(u)
      BY <1>1, <2>1, AnsweredStays
    <2>3. outcome'[u] = outcome[u] /\ (u \in calls' <=> u \in calls) /\ pc'[u[1]] = pc[u[1]]
      BY <1>2, VisitsAre DEF Untouched
    <2> QED
      BY <2>2, <2>3 DEF TurnInv, InTurn, NoError, Called
  <1>3. ASSUME NEW u \in Visit, u[1] = s
        PROVE  NoError(u)'
    <2> SUFFICES ASSUME pc'[s] \in {"running", "succeeded"}, Topology[s] \in {"sequential", "forest"}
                 PROVE  outcome'[u] # "error"
      BY <1>3 DEF NoError
    <2>1. pc[s] = "running" /\ o = "ok"
      BY DEF Tolerates
    <2>2. outcome[u] # "error"
      BY <1>3, <2>1 DEF TurnInv, NoError
    <2> QED
      BY <1>1, <2>1, <2>2 DEF TypeOK
  <1>4. ASSUME NEW u \in Visit, u[1] = s, Topology[s] # "debate"
        PROVE  InTurn(u)'
    <2>1. InTurn(v) /\ InTurn(u) /\ outcome[v] = "none" /\ Due(v) /\ u \in Visits(s)
      BY <1>1, <1>4, VisitsAre DEF TurnInv, InTurn, Called
    <2>2. v \in Awaits(u) => ~ Due(u) /\ ~ Called(u)
      BY <1>4, <2>1 DEF InTurn, Due
    <2>3. u \in F => v \in Awaits(u) /\ \A w \in Awaits(u) \ {v} : outcome[w] = "ok"
      BY <1>1, <1>4, <2>1, FollowsInTurn
    <2>4. Awaits(u)' = Awaits(u) /\ Awaits(u) \subseteq Visit
      BY AwaitsOthers, AwaitsStay
    <2>5. CASE u = v
      <3>1. v \notin Awaits(v)
        BY <1>1, AwaitsOthers
      <3>2. v \notin calls' /\ outcome'[v] = o
        BY <1>1, <2>3, <2>5, <3>1 DEF TypeOK
      <3>3. Due(v)'
        BY <1>1, <2>1, <3>1, AnsweredStays
      <3> QED
        BY <2>5, <3>2, <3>3 DEF InTurn, Called
    <2>6. CASE u # v /\ u \in F
      <3>1. o = "ok" /\ ~ Called(u) /\ u \in calls'
        BY <1>4, <2>1, <2>2, <2>3, <2>6
      <3>2. outcome'[u] = "none"
        BY <2>6, <3>1 DEF Called, TypeOK
      <3>3. \A w \in Awaits(u) : outcome'[w] = "ok"
        BY <1>1, <2>3, <2>4, <2>6, <3>1 DEF TypeOK
      <3>4. Due(u)'
        BY <2>4, <3>3 DEF Due
      <3> QED
        BY <3>1, <3>2, <3>4 DEF InTurn, Called
    <2>7. CASE u # v /\ u \notin F
      <3>1. (u \in calls' <=> u \in calls) /\ outcome'[u] = outcome[u]
        BY <2>1, <2>7 DEF TypeOK
      <3>2. CASE v \notin Awaits(u)
        <4>1. Due(u)' <=> Due(u)
          BY <1>1, <3>2, AnsweredStays
        <4> QED
          BY <1>4, <2>1, <3>1, <4>1 DEF InTurn, Called
      <3>3. CASE v \in Awaits(u)
        <4>1. ~ Called(u)
          BY <2>2, <3>3
        <4>2. ~ (o = "ok" /\ \A w \in Awaits(u) \ {v} : outcome[w] = "ok")
          BY <1>1, <1>4, <2>1, <2>7, <3>3, FollowsInTurn
        <4>3. ~ \A w \in Awaits(u) : outcome'[w] = "ok"
          <5>1. outcome'[v] = o
            BY <1>1 DEF TypeOK
          <5>2. \A w \in Awaits(u) \ {v} : outcome'[w] = outcome[w]
            BY <2>4 DEF TypeOK
          <5> QED
            BY <3>3, <4>2, <5>1, <5>2
        <4>4. ~ Due(u)'
          BY <2>4, <4>3 DEF Due
        <4> QED
          BY <3>1, <4>1, <4>4 DEF InTurn, Called
      <3> QED
        BY <3>2, <3>3
    <2> QED
      BY <2>5, <2>6, <2>7
  <1>5. ASSUME NEW u \in Visit, u[1] = s, Topology[s] = "debate"
        PROVE  InTurn(u)'
    BY <1>5 DEF InTurn
  <1> QED
    BY <1>2, <1>3, <1>4, <1>5 DEF TurnInv

\* A swarm that leaves the start makes some of its first calls, or all of them if it
\* runs.
LEMMA StartKeepsTurns ==
  ASSUME TypeOK, SwarmInv, TurnInv, NEW s \in Swarm, Untouched(s), pc[s] = "waiting",
         NEW made \in SUBSET First(s), calls' = calls \cup made, outcome' = outcome,
         \/ pc'[s] = "failed"
         \/ pc'[s] = "running" /\ made = First(s) /\ ~ Overflows(s)
  PROVE  TurnInv'
  <1> SUFFICES ASSUME NEW v \in Visit
               PROVE  InTurn(v)' /\ NoError(v)'
    BY DEF TurnInv
  <1>1. Due(v)' <=> Due(v)
    BY AwaitsStay DEF Due
  <1>2. CASE v[1] # s
    <2>1. pc'[v[1]] = pc[v[1]] /\ (v \in calls' <=> v \in calls)
      BY <1>2, VisitsAre DEF Untouched
    <2> QED
      BY <1>1, <2>1 DEF TurnInv, InTurn, NoError, Called
  <1>3. CASE v[1] = s
    <2>1. \A u \in Visits(s) : outcome[u] = "none" /\ u \notin calls
      BY Waiting DEF Called
    <2>2. v \in Visits(s) /\ Awaits(v) \subseteq Visits(s)
      BY <1>3, VisitsAre, AwaitsOthers
    <2>3. Due(v) <=> Awaits(v) = {}
      BY <2>1, <2>2 DEF Due
    <2>4. (v \in calls' <=> v \in made) /\ outcome'[v] = "none"
      BY <2>1, <2>2
    <2>5. Topology[s] # "debate"
            => /\ v \in made => Awaits(v) = {}
               /\ pc'[s] # "failed" /\ Awaits(v) = {} => v \in made
      BY <2>2, FirstInTurn
    <2> QED
      BY <1>1, <1>3, <2>3, <2>4, <2>5 DEF InTurn, NoError, Called
  <1> QED
    BY <1>2, <1>3

LEMMA BeginningKeepsTurns ==
  ASSUME TypeOK, SwarmInv, TurnInv, NEW s \in Swarm,
         Refuse(s) \/ SpawnFails(s) \/ Start(s) \/ Misfit(s)
  PROVE  TurnInv'
  <1>1. Untouched(s) /\ pc[s] = "waiting" /\ outcome' = outcome
    BY RefuseStep, SpawnFailsStep, StartStep, MisfitStep DEF Refuse, SpawnFails, Start, Misfit
  <1>2. CASE Start(s)
    <2>1. calls' = calls \cup First(s) /\ pc'[s] = "running" /\ ~ Overflows(s)
      BY <1>2 DEF Start, TypeOK
    <2> QED
      BY <1>1, <2>1, StartKeepsTurns
  <1>3. CASE Refuse(s) \/ SpawnFails(s) \/ Misfit(s)
    <2>1. Failure(s)
      BY <1>3 DEF Refuse, SpawnFails, Misfit
    <2>2. pc'[s] = "failed"
      BY <2>1, Fails DEF TypeOK
    <2>3. calls' = calls \cup {} \/ calls' = calls \cup First(s)
      BY <1>3 DEF Refuse, SpawnFails, Misfit
    <2>4. {} \in SUBSET First(s) /\ First(s) \in SUBSET First(s)
      OBVIOUS
    <2> QED
      BY <1>1, <2>2, <2>3, <2>4, StartKeepsTurns
  <1> QED
    BY <1>2, <1>3

LEMMA SettlingKeepsTurns ==
  ASSUME TypeOK, SwarmInv, TurnInv, NEW v \in Visit, Settles(v)
  PROVE  TurnInv'
  <1>1. TypeOK' /\ Untouched(v[1])
    BY ContinuesStep, CompletesStep, BreaksStep DEF Settles
  <1>2. v[1] \in Swarm /\ v \in calls
    BY VisitsAre DEF Settles, Continues, Completes, Breaks
  <1>3. ASSUME NEW good \in BOOLEAN, Continues(v, good)
        PROVE  TurnInv'
    <2>1. PICK F \in IF good THEN Follows(v) ELSE {{}} : calls' = (calls \ {v}) \cup F
      BY <1>3 DEF Continues
    <2>2. ~ TooFew(v[1])
      BY <1>2 DEF SwarmInv, VisitInv
    <2>3. F \subseteq Visits(v[1])
      BY <2>1, <2>2, NextCalls
    <2>4. PICK o \in {"ok", "error"} : o = IF good THEN "ok" ELSE "error"
      OBVIOUS
    <2>5. outcome' = [outcome EXCEPT ![v] = o] /\ pc' = pc
      BY <1>3, <2>4 DEF Continues, Returns
    <2>6. pc'[v[1]] \in {"running", "succeeded"}
            => pc[v[1]] = "running" /\ (o = "ok" \/ Tolerates(v[1]))
      <3>1. pc[v[1]] # "succeeded"
        BY <1>2 DEF SwarmInv, VisitInv, Active
      <3> QED
        BY <1>3, <2>4, <2>5, <3>1 DEF Continues
    <2>7. (o = "ok" => F \in Follows(v)) /\ (o = "error" => F = {})
      BY <2>1, <2>4
    <2>8. \A u \in Visits(v[1]) : u \in calls' <=> (u \in calls /\ u # v) \/ u \in F
      BY <2>1
    <2> QED
      BY <1>1, <1>2, <2>3, <2>5, <2>6, <2>7, <2>8, SettleKeepsTurns
  <1>4. ASSUME NEW good \in BOOLEAN, Completes(v, good)
        PROVE  TurnInv'
    <2>1. /\ calls' = calls \ {v} /\ pc[v[1]] = "running"
          /\ good \/ Tolerates(v[1])
          /\ good => {} \in Follows(v)
      BY <1>4 DEF Completes
    <2>2. PICK o \in {"ok", "error"} : o = IF good THEN "ok" ELSE "error"
      OBVIOUS
    <2>3. outcome' = [outcome EXCEPT ![v] = o]
      BY <1>4, <2>2 DEF Completes, Returns
    <2>4. (o = "ok" => {} \in Follows(v)) /\ (o = "ok" \/ Tolerates(v[1]))
      BY <2>1, <2>2
    <2>5. \A u \in Visits(v[1]) : u \in calls' <=> (u \in calls /\ u # v) \/ u \in {}
      BY <2>1
    <2>6. {} \in SUBSET Visits(v[1])
      OBVIOUS
    <2> QED
      BY <1>1, <1>2, <2>1, <2>3, <2>4, <2>5, <2>6, SettleKeepsTurns
  <1>5. ASSUME Breaks(v)
        PROVE  TurnInv'
    <2>1. calls' = calls \ {v} /\ outcome' = [outcome EXCEPT ![v] = "error"]
      BY <1>5 DEF Breaks, Returns
    <2>2. pc'[v[1]] = "failed"
      BY <1>2, <1>5, Fails DEF Breaks, TypeOK
    <2>3. \A u \in Visits(v[1]) : u \in calls' <=> (u \in calls /\ u # v) \/ u \in {}
      BY <2>1
    <2>4. {} \in SUBSET Visits(v[1]) /\ "error" \in {"ok", "error"} /\ "error" # "ok"
      OBVIOUS
    <2> QED
      BY <1>1, <1>2, <2>1, <2>2, <2>3, <2>4, SettleKeepsTurns
  <1> QED
    BY <1>3, <1>4, <1>5 DEF Settles

LEMMA Turns == Spec => []TurnInv
  <1>1. Init => TurnInv
    <2> SUFFICES ASSUME Init, NEW v \in Visit
                 PROVE  InTurn(v) /\ NoError(v)
      BY DEF TurnInv
    <2>1. pc[v[1]] = "waiting" /\ outcome[v] = "none" /\ calls = {}
      BY VisitsAre DEF Init
    <2> QED
      BY <2>1 DEF InTurn, NoError, Called
  <1>2. TypeOK /\ SwarmInv /\ TurnInv /\ [Next]_vars => TurnInv'
    <2> SUFFICES ASSUME TypeOK, SwarmInv, TurnInv, [Next]_vars
                 PROVE  TurnInv'
      OBVIOUS
    <2>1. CASE UNCHANGED vars
      BY <2>1 DEF vars, TurnInv, InTurn, NoError, Called, Due, Awaits, Children, Visits
    <2> QED
      BY <2>1, BeginningKeepsTurns, SettlingKeepsTurns DEF Next
  <1> QED
    BY <1>1, <1>2, Swarming, PTL DEF Spec

\* No visit is called before all it waits for have answered, nor twice, and none is
\* forgotten, for every team and every graph of dependencies (experimental.ts:204,
\* 238).
THEOREM CalledInTurnHolds == Spec => []CalledInTurn
  BY Turns, TurnIsCalledInTurn, PTL

-----------------------------------------------------------------------------
(***************************************************************************)
(* Success                                                                 *)
(***************************************************************************)

\* A set of numbers that is not empty has a least one.
LEMMA Least ==
  ASSUME NEW T \in SUBSET Nat, T # {}
  PROVE  \E x \in T : \A y \in T : x <= y
  <1> DEFINE R == {ss \in Nat \X Nat : ss[1] < ss[2]}
  <1>1. IsWellFoundedOn(R, Nat)
    BY NatLessThanWellFounded DEF OpToRel
  <1>2. \A x, y \in Nat : ~ (<<y, x>> \in R) => x <= y
    OBVIOUS
  <1> HIDE DEF R
  <1>3. PICK x \in T : \A y \in T : ~ (<<y, x>> \in R)
    BY <1>1, WFMin
  <1> QED
    BY <1>2, <1>3

\* A swarm that has succeeded awaits no call.
LEMMA SuccessIsQuiet ==
  ASSUME SwarmInv, NEW s \in Swarm, pc[s] = "succeeded"
  PROVE  \A v \in Visits(s) : v \notin calls
  BY VisitsAre DEF SwarmInv, VisitInv, Active

\* Were one without an answer, the first of them in the sequence, or the deepest in
\* the forest, would wait for visits that have all answered: it was called, and has
\* answered.
LEMMA AllAnswered ==
  ASSUME TypeOK, SwarmInv, TurnInv, NEW s \in Swarm, pc[s] = "succeeded",
         Topology[s] \in {"sequential", "forest"}
  PROVE  \A v \in Visits(s) : outcome[v] = "ok"
  <1> DEFINE Silent == {v \in Visits(s) : outcome[v] # "ok"}
             Rank(v) == IF Topology[s] = "sequential" THEN v[2][1] ELSE StackDepth - Len(v[2])
  <1>1. ASSUME NEW v \in Visits(s)
        PROVE  v \in Visit /\ v[1] = s /\ Rank(v) \in Nat
    <2>1. v \in Visit /\ v[1] = s /\ v[2] \in Paths(s)
      BY VisitsAre
    <2>2. CASE Topology[s] = "sequential"
      <3>1. v[2][1] \in Role(s)
        BY <2>2, Alone
      <3> QED
        BY <2>1, <2>2, <3>1 DEF Role
    <2>3. CASE Topology[s] = "forest"
      <3>1. Len(v[2]) \in Nat /\ Len(v[2]) <= StackDepth /\ StackDepth \in Nat
        BY <2>1, <2>3, PathsAre
      <3> QED
        BY <2>1, <2>3, <3>1
    <2> QED
      BY <2>2, <2>3
  <1>2. ASSUME NEW v \in Visits(s), NEW w \in Awaits(v)
        PROVE  w \in Visits(s) /\ Rank(w) < Rank(v)
    <2>1. v \in Visit /\ v[1] = s /\ w \in Visits(s)
      BY VisitsAre, AwaitsOthers
    <2>2. CASE Topology[s] = "sequential"
      <3>1. w[2][1] < v[2][1]
        BY <2>1, <2>2, AwaitsOthers
      <3> QED
        BY <2>1, <2>2, <3>1
    <2>3. CASE Topology[s] = "forest"
      <3>1. Len(v[2]) < Len(w[2])
        BY <2>1, <2>3, AwaitsOthers
      <3>2. Len(v[2]) \in Nat /\ Len(w[2]) \in Nat /\ StackDepth \in Nat
        BY <2>1, VisitsAre, PathsAre
      <3> QED
        BY <2>1, <2>3, <3>1, <3>2
    <2> QED
      BY <2>2, <2>3
  <1> SUFFICES ASSUME Silent # {}
               PROVE  FALSE
    OBVIOUS
  <1> HIDE DEF Rank
  <1>3. PICK v \in Silent : \A w \in Silent : Rank(v) <= Rank(w)
    <2> DEFINE T == {Rank(w) : w \in Silent}
    <2>1. T \in SUBSET Nat /\ T # {}
      BY <1>1
    <2>2. \A r \in T : \E w \in Silent : r = Rank(w)
      OBVIOUS
    <2>3. \A w \in Silent : Rank(w) \in T
      OBVIOUS
    <2> HIDE DEF T
    <2>4. PICK r \in T : \A q \in T : r <= q
      BY <2>1, Least
    <2> QED
      BY <2>2, <2>3, <2>4
  <1>4. v \in Visits(s) /\ outcome[v] # "ok"
    BY <1>3
  <1>5. ASSUME NEW w \in Awaits(v)
        PROVE  outcome[w] = "ok"
    <2>1. w \in Visits(s) /\ Rank(w) < Rank(v) /\ Rank(w) \in Nat /\ Rank(v) \in Nat
      BY <1>1, <1>2, <1>4
    <2>2. ~ (Rank(v) <= Rank(w))
      BY <2>1
    <2> QED
      BY <1>3, <2>1, <2>2
  <1>6. Due(v)
    BY <1>5 DEF Due
  <1>7. v \in Visit /\ v[1] = s /\ InTurn(v) /\ NoError(v)
    BY <1>1, <1>4 DEF TurnInv
  <1>8. Called(v) /\ v \notin calls /\ outcome[v] # "error"
    BY <1>4, <1>6, <1>7, SuccessIsQuiet DEF InTurn, NoError
  <1> QED
    BY <1>4, <1>7, <1>8 DEF Called, TypeOK

\* A swarm succeeds only when every visit of a sequence or of a forest has answered,
\* and every branch of a parallel one is known (basic.ts:67, 110,
\* experimental.ts:238).
THEOREM SuccessMeansAllHolds == Spec => []SuccessMeansAll
  <1>1. TypeOK /\ SwarmInv /\ TurnInv => SuccessMeansAll
    <2> SUFFICES ASSUME TypeOK, SwarmInv, TurnInv, NEW s \in Swarm, NEW v \in Visits(s),
                        pc[s] = "succeeded"
                 PROVE  /\ Topology[s] \in {"sequential", "forest"} => outcome[v] = "ok"
                        /\ Topology[s] = "parallel" => outcome[v] # "none"
      BY DEF SuccessMeansAll
    <2>1. ASSUME Topology[s] = "parallel"
          PROVE  outcome[v] # "none"
      <3>1. v \in Visit /\ v[1] = s /\ InTurn(v)
        BY VisitsAre DEF TurnInv
      <3>2. Due(v)
        BY <2>1, <3>1, AwaitsOthers DEF Due
      <3>3. v \notin calls
        BY SuccessIsQuiet
      <3> QED
        BY <2>1, <3>1, <3>2, <3>3 DEF InTurn, Called
    <2> QED
      BY <2>1, AllAnswered
  <1> QED
    BY <1>1, Swarming, Turns, PTL

-----------------------------------------------------------------------------
(***************************************************************************)
(* Less and less to do                                                     *)
(***************************************************************************)

Unanswered(s) == {v \in Visits(s) : outcome[v] = "none"}

\* Of a debate only its two sides are ever called.
SpeakersInv ==
  \A v \in calls : Topology[v[1]] = "debate" => v = <<v[1], <<1>>>> \/ v = <<v[1], <<2>>>>

\* As many visits as there are paths, and those are no longer than the stack is deep:
\* a visit is known by the pairs of a depth and an agent on its path.
LEMMA VisitsAreFinite ==
  ASSUME NEW s \in Swarm
  PROVE  IsFiniteSet(Visits(s)) /\ Cardinality(Visits(s)) \in Nat
  <1> DEFINE pairs == (1..StackDepth) \X Role(s)
             graph == [v \in Visits(s) |-> {<<k, v[2][k]>> : k \in 1..Len(v[2])}]
  <1>1. IsFiniteSet(SUBSET pairs)
    <2>1. \A n \in Nat : IsFiniteSet(1..n)
      BY FS_Interval
    <2>2. IsFiniteSet(1..StackDepth) /\ IsFiniteSet(Role(s))
      BY <2>1 DEF Role
    <2> QED
      BY <2>2, FS_Product, FS_SUBSET
  <1>2. ASSUME NEW v \in Visits(s)
        PROVE  /\ v = <<s, v[2]>> /\ v[2] \in Seq(Role(s))
               /\ Len(v[2]) \in Nat /\ Len(v[2]) > 0 /\ Len(v[2]) <= StackDepth
               /\ v[2] = [k \in 1..Len(v[2]) |-> v[2][k]]
    <2>1. v[2] \in Paths(s) /\ v = <<s, v[2]>>
      BY VisitsAre
    <2> QED
      BY <2>1, PathsAre
  <1>3. graph \in [Visits(s) -> SUBSET pairs]
    <2> SUFFICES ASSUME NEW v \in Visits(s), NEW k \in 1..Len(v[2])
                 PROVE  <<k, v[2][k]>> \in pairs
      OBVIOUS
    <2>1. k \in 1..StackDepth
      <3>1. Len(v[2]) \in Nat /\ Len(v[2]) <= StackDepth /\ StackDepth \in Nat
        BY <1>2
      <3> QED
        BY <3>1
    <2>2. v[2][k] \in Role(s)
      <3>1. v[2] \in Seq(Role(s))
        BY <1>2
      <3> QED
        BY <3>1
    <2> QED
      BY <2>1, <2>2
  <1>4. ASSUME NEW v \in Visits(s), NEW w \in Visits(s), graph[v] = graph[w]
        PROVE  v = w
    <2> DEFINE m == Len(v[2])
               n == Len(w[2])
    <2>1. m \in Nat /\ m > 0 /\ n \in Nat /\ n > 0
      BY <1>2
    <2>2. \A k \in 1..m : k \in 1..n /\ v[2][k] = w[2][k]
      <3>1. \A k \in 1..m : <<k, v[2][k]>> \in graph[w]
        BY <1>4
      <3> QED
        BY <3>1
    <2>3. \A k \in 1..n : k \in 1..m
      <3>1. \A k \in 1..n : <<k, w[2][k]>> \in graph[v]
        BY <1>4
      <3> QED
        BY <3>1
    <2>4. m = n
      <3>1. m \in 1..n /\ n \in 1..m
        BY <2>1, <2>2, <2>3
      <3> QED
        BY <2>1, <3>1
    <2>5. v[2] = w[2]
      <3>1. v[2] = [k \in 1..m |-> v[2][k]] /\ w[2] = [k \in 1..n |-> w[2][k]]
        BY <1>2
      <3> QED
        BY <2>2, <2>4, <3>1
    <2> QED
      BY <1>2, <2>5
  <1> HIDE DEF graph, pairs
  <1>5. graph \in Injection(Visits(s), SUBSET pairs)
    BY <1>3, <1>4 DEF Injection, IsInjective
  <1> QED
    BY <1>1, <1>5, FS_Injection, FS_CardinalityType

LEMMA UnansweredAreFew ==
  ASSUME NEW s \in Swarm
  PROVE  /\ IsFiniteSet(Unanswered(s)) /\ Cardinality(Unanswered(s)) \in Nat
         /\ Cardinality(Unanswered(s)) <= Cardinality(Visits(s))
         /\ IsFiniteSet(Unanswered(s)') /\ Cardinality(Unanswered(s)') \in Nat
         /\ Cardinality(Unanswered(s)') <= Cardinality(Visits(s))
  <1>1. Unanswered(s) \in SUBSET Visits(s) /\ Unanswered(s)' \in SUBSET Visits(s)
    BY DEF Unanswered, Visits
  <1> QED
    BY <1>1, VisitsAreFinite, FS_Subset, FS_CardinalityType

\* A swarm that leaves the start has less to do than one that waits.
LEMMA StartsWithLess ==
  ASSUME TypeOK', NEW s \in Swarm, pc[s] = "waiting", pc'[s] # "waiting"
  PROVE  CallsLeft(s)' < CallsLeft(s)
  <1>1. CallsLeft(s) = Cardinality(Visits(s)) + 2 * MaxRounds + 3
    BY DEF CallsLeft
  <1>2. Cardinality(Visits(s)) \in Nat /\ MaxRounds \in Nat
    BY VisitsAreFinite
  <1>3. CASE Topology[s] # "debate"
    <2>1. CallsLeft(s)' = Cardinality(Unanswered(s)')
      BY <1>3 DEF CallsLeft, Unanswered, Visits
    <2> QED
      BY <1>1, <1>2, <2>1, UnansweredAreFew
  <1>4. CASE Topology[s] = "debate"
    <2>1. round'[s] \in 0..MaxRounds
      BY DEF TypeOK
    <2>2. \E k \in {0, 1, 2} : CallsLeft(s)' = 2 * (MaxRounds - round'[s]) + k
      BY <1>4 DEF CallsLeft
    <2> QED
      BY <1>1, <1>2, <2>1, <2>2
  <1> QED
    BY <1>3, <1>4

\* The answer that arrives is one the swarm has waited for.
LEMMA AnswerLeavesLess ==
  ASSUME TypeOK, TurnInv, NEW v \in calls, Topology[v[1]] # "debate",
         pc[v[1]] # "waiting", pc'[v[1]] # "waiting",
         NEW o \in {"ok", "error"}, outcome' = [outcome EXCEPT ![v] = o]
  PROVE  CallsLeft(v[1])' < CallsLeft(v[1])
  <1> DEFINE s == v[1]
  <1>1. v \in Visit /\ s \in Swarm /\ v \in Visits(s) /\ Visits(s) \subseteq Visit
    BY VisitsAre DEF TypeOK
  <1>2. outcome[v] = "none"
    BY <1>1 DEF TurnInv, InTurn
  <1>3. v \in Unanswered(s)
    BY <1>1, <1>2 DEF Unanswered
  <1>4. Unanswered(s)' = Unanswered(s) \ {v}
    <2>1. \A u \in Visits(s) : outcome'[u] = IF u = v THEN o ELSE outcome[u]
      BY <1>1 DEF TypeOK
    <2>2. Unanswered(s)' = {u \in Visits(s) : outcome'[u] = "none"}
      BY DEF Unanswered, Visits
    <2> QED
      BY <2>1, <2>2 DEF Unanswered
  <1>5. Cardinality(Unanswered(s) \ {v}) = Cardinality(Unanswered(s)) - 1
    BY <1>1, <1>3, UnansweredAreFew, FS_RemoveElement
  <1>6. CallsLeft(s) = Cardinality(Unanswered(s))
    BY DEF CallsLeft, Unanswered
  <1>7. CallsLeft(s)' = Cardinality(Unanswered(s)')
    BY DEF CallsLeft, Unanswered, Visits
  <1>8. Cardinality(Unanswered(s)) \in Nat
    BY <1>1, UnansweredAreFew
  <1> HIDE DEF s
  <1>9. CallsLeft(s)' < CallsLeft(s)
    BY <1>4, <1>5, <1>6, <1>7, <1>8
  <1> QED
    BY <1>9 DEF s

\* Of the two sides of a debate one is called at a time; the proposer is called
\* again only at the price of a round.
LEMMA TurnLeavesLess ==
  ASSUME TypeOK, TypeOK', SwarmInv, SpeakersInv, NEW v \in calls, Topology[v[1]] = "debate",
         pc[v[1]] # "waiting", pc'[v[1]] # "waiting",
         NEW F, calls' = (calls \ {v}) \cup F,
         \/ F = {} /\ round' = round
         \/ F \in FollowsInDebate(v) /\ Round(F)
  PROVE  CallsLeft(v[1])' < CallsLeft(v[1])
  <1> DEFINE s == v[1]
             proposer == <<s, <<1>>>>
             critic == <<s, <<2>>>>
             Turn(A) == IF proposer \in A THEN 2 ELSE IF critic \in A THEN 1 ELSE 0
  <1>1. /\ v \in Visit /\ s \in Swarm /\ proposer[1] = s /\ critic[1] = s
        /\ <<1>> # <<2>> /\ proposer # critic
    BY VisitsAre DEF TypeOK
  <1>2. \A u \in calls : u[1] = s => u = v
    BY DEF SwarmInv, SingleInv
  <1>3. v = proposer \/ v = critic
    BY DEF SpeakersInv
  <1>4. CallsLeft(s) = 2 * (MaxRounds - round[s]) + Turn(calls)
    BY DEF CallsLeft
  <1>5. CallsLeft(s)' = 2 * (MaxRounds - round'[s]) + Turn(calls')
    BY DEF CallsLeft
  <1>6. round[s] \in 0..MaxRounds /\ round'[s] \in 0..MaxRounds /\ MaxRounds \in Nat
    BY <1>1 DEF TypeOK
  <1>7. v[2] = <<1>> <=> v = proposer
    BY <1>1, <1>3
  <1>8. F \in FollowsInDebate(v) =>
          IF v = proposer THEN F = {critic}
                          ELSE F = {} \/ (F = {proposer} /\ round[s] < MaxRounds)
    BY <1>7 DEF FollowsInDebate, MoreRounds
  <1>9. Round(F) => round'[s] = IF proposer \in F /\ round[s] < MaxRounds
                                THEN round[s] + 1 ELSE round[s]
    BY <1>1 DEF Round
  <1> HIDE DEF proposer, critic
  <1>10. Turn(calls) = IF v = proposer THEN 2 ELSE 1
    BY <1>1, <1>2, <1>3
  <1>11. Turn(calls') = Turn(F)
    BY <1>1, <1>2
  <1>12. Turn({}) = 0 /\ Turn({critic}) = 1 /\ Turn({proposer}) = 2
    BY <1>1
  <1>13. \/ Turn(F) = 0 /\ round'[s] = round[s]
         \/ Turn(F) = 1 /\ round'[s] = round[s] /\ v = proposer
         \/ Turn(F) = 2 /\ round'[s] = round[s] + 1 /\ v # proposer
    <2>1. CASE F = {} /\ round' = round
      BY <1>12, <2>1
    <2>2. CASE F \in FollowsInDebate(v) /\ Round(F)
      <3>1. CASE v = proposer
        BY <1>1, <1>8, <1>9, <1>12, <2>2, <3>1
      <3>2. CASE v # proposer
        BY <1>8, <1>9, <1>12, <2>2, <3>2
      <3> QED
        BY <3>1, <3>2
    <2> QED
      BY <2>1, <2>2
  <1> HIDE DEF s, Turn
  <1>14. CallsLeft(s)' < CallsLeft(s)
    <2>1. CASE v = proposer
      <3>1. Turn(calls) = 2 /\ round'[s] = round[s] /\ (Turn(F) = 0 \/ Turn(F) = 1)
        BY <1>10, <1>13, <2>1
      <3> QED
        BY <1>4, <1>5, <1>6, <1>11, <3>1
    <2>2. CASE v # proposer
      <3>1. /\ Turn(calls) = 1
            /\ \/ Turn(F) = 0 /\ round'[s] = round[s]
               \/ Turn(F) = 2 /\ round'[s] = round[s] + 1
        BY <1>10, <1>13, <2>2
      <3> QED
        BY <1>4, <1>5, <1>6, <1>11, <3>1
    <2> QED
      BY <2>1, <2>2
  <1> QED
    BY <1>14 DEF s

LEMMA RoundsOfOthers ==
  ASSUME TypeOK, NEW s \in Swarm, NEW F \in SUBSET Visits(s), Round(F), NEW t \in Swarm, t # s
  PROVE  round'[t] = round[t]
  <1>1. <<t, <<1>>>> \notin F
    BY VisitsAre
  <1> QED
    BY <1>1 DEF Round

LEMMA OthersAreQuiet ==
  ASSUME NEW s \in Swarm, Untouched(s), NEW t \in Swarm, t # s, round'[t] = round[t]
  PROVE  UNCHANGED <<pc[t], round[t], calls \cap Visits(t), Unanswered(t)>>
  <1>1. \A v \in Visits(t) : outcome'[v] = outcome[v] /\ (v \in calls' <=> v \in calls)
    BY VisitsAre DEF Untouched
  <1>2. pc'[t] = pc[t]
    BY DEF Untouched
  <1>3. Visits(t)' = Visits(t)
    BY DEF Visits
  <1> QED
    BY <1>1, <1>2, <1>3 DEF Unanswered

\* Either nothing happens to the swarm, or less is left for it to do.
QuietStep ==
  \A s \in Swarm : \/ UNCHANGED <<pc[s], round[s], calls \cap Visits(s), Unanswered(s)>>
                   \/ CallsLeft(s)' < CallsLeft(s)

LEMMA BeginningIsQuiet ==
  ASSUME TypeOK, SwarmInv, SpeakersInv, NEW s \in Swarm,
         Refuse(s) \/ SpawnFails(s) \/ Start(s) \/ Misfit(s)
  PROVE  QuietStep /\ SpeakersInv'
  <1>1. TypeOK' /\ Untouched(s)
    BY RefuseStep, SpawnFailsStep, StartStep, MisfitStep
  <1>2. pc[s] = "waiting"
    BY DEF Refuse, SpawnFails, Start, Misfit
  <1>3. pc'[s] # "waiting"
    <2>1. CASE Start(s)
      BY <2>1 DEF Start, TypeOK
    <2>2. CASE Refuse(s) \/ SpawnFails(s) \/ Misfit(s)
      <3>1. Failure(s)
        BY <2>2 DEF Refuse, SpawnFails, Misfit
      <3> QED
        BY <3>1, Fails DEF TypeOK
    <2> QED
      BY <2>1, <2>2
  <1>4. CallsLeft(s)' < CallsLeft(s)
    BY <1>1, <1>2, <1>3, StartsWithLess
  <1>5. ASSUME NEW t \in Swarm, t # s
        PROVE  UNCHANGED <<pc[t], round[t], calls \cap Visits(t), Unanswered(t)>>
    <2>1. round' = round \/ (Round(First(s)) /\ First(s) \in SUBSET Visits(s))
      BY FirstCalls DEF Refuse, SpawnFails, Start, Misfit
    <2>2. round'[t] = round[t]
      BY <1>5, <2>1, RoundsOfOthers
    <2> QED
      BY <1>1, <1>5, <2>2, OthersAreQuiet
  <1>6. SpeakersInv'
    <2>1. \A v \in First(s) : v[1] = s /\ (Topology[s] = "debate" => v = <<s, <<1>>>>)
      BY FirstCalls, VisitsAre
    <2>2. calls' \subseteq calls \cup First(s)
      BY DEF Refuse, SpawnFails, Start, Misfit
    <2> QED
      BY <2>1, <2>2 DEF SpeakersInv
  <1> QED
    BY <1>4, <1>5, <1>6 DEF QuietStep

LEMMA SettlingIsQuiet ==
  ASSUME TypeOK, SwarmInv, TurnInv, SpeakersInv, NEW v \in Visit, Settles(v)
  PROVE  QuietStep /\ SpeakersInv'
  <1> DEFINE s == v[1]
  <1>1. TypeOK' /\ Untouched(s)
    BY ContinuesStep, CompletesStep, BreaksStep DEF Settles
  <1>2. s \in Swarm /\ v \in calls /\ ~ TooFew(s) /\ pc[s] # "waiting"
    BY VisitsAre DEF Settles, Continues, Completes, Breaks, SwarmInv, VisitInv, Active
  <1>3. PICK o \in {"ok", "error"} : outcome' = [outcome EXCEPT ![v] = o]
    BY DEF Settles, Continues, Completes, Breaks, Returns
  <1>4. PICK F \in SUBSET Visits(s) :
           /\ calls' = (calls \ {v}) \cup F
           /\ \/ F = {} /\ round' = round
              \/ F \in {{}} \cup Follows(v) /\ Round(F)
    <2>1. ASSUME NEW good \in BOOLEAN, Continues(v, good)
          PROVE  \E F \in SUBSET Visits(s) : calls' = (calls \ {v}) \cup F
                                             /\ F \in {{}} \cup Follows(v) /\ Round(F)
      <3>1. PICK F \in IF good THEN Follows(v) ELSE {{}} : calls' = (calls \ {v}) \cup F /\ Round(F)
        BY <2>1 DEF Continues
      <3>2. F \subseteq Visits(s) /\ F \in {{}} \cup Follows(v)
        BY <1>2, <3>1, NextCalls
      <3> QED
        BY <3>1, <3>2
    <2>2. ASSUME NEW good \in BOOLEAN, Completes(v, good) \/ Breaks(v)
          PROVE  calls' = (calls \ {v}) \cup {} /\ round' = round
      BY <2>2 DEF Completes, Breaks
    <2>3. {} \in SUBSET Visits(s)
      OBVIOUS
    <2> QED
      BY <2>1, <2>2, <2>3 DEF Settles
  <1>5. pc'[s] # "waiting"
    <2>1. ASSUME NEW good \in BOOLEAN, Continues(v, good)
          PROVE  pc'[s] # "waiting"
      BY <1>2, <2>1 DEF Continues
    <2>2. ASSUME NEW good \in BOOLEAN, Completes(v, good)
          PROVE  pc'[s] # "waiting"
      <3>1. pc' = [pc EXCEPT ![s] = "succeeded"]
        BY <1>2, <2>2, Succeeds DEF Completes
      <3> QED
        BY <1>2, <3>1 DEF TypeOK
    <2>3. ASSUME Breaks(v)
          PROVE  pc'[s] # "waiting"
      <3>1. pc' = [pc EXCEPT ![s] = "failed"]
        BY <1>2, <2>3, Fails DEF Breaks
      <3> QED
        BY <1>2, <3>1 DEF TypeOK
    <2> QED
      BY <2>1, <2>2, <2>3 DEF Settles
  <1>6. CallsLeft(s)' < CallsLeft(s)
    <2>1. CASE Topology[s] # "debate"
      BY <1>2, <1>3, <1>5, <2>1, AnswerLeavesLess
    <2>2. CASE Topology[s] = "debate"
      <3>1. Follows(v) = FollowsInDebate(v)
        BY <2>2 DEF Follows
      <3>2. CASE F = {} /\ round' = round
        BY <1>1, <1>2, <1>4, <1>5, <2>2, <3>2, TurnLeavesLess
      <3>3. CASE F \in FollowsInDebate(v) /\ Round(F)
        BY <1>1, <1>2, <1>4, <1>5, <2>2, <3>3, TurnLeavesLess
      <3>4. CASE F = {} /\ Round(F)
        <4>1. round' = [t \in Swarm |-> round[t]]
          BY <3>4 DEF Round
        <4>2. round' = round
          BY <4>1 DEF TypeOK
        <4> QED
          BY <3>2, <3>4, <4>2
      <3> QED
        BY <1>4, <3>1, <3>2, <3>3, <3>4
    <2> QED
      BY <2>1, <2>2
  <1>7. ASSUME NEW t \in Swarm, t # s
        PROVE  UNCHANGED <<pc[t], round[t], calls \cap Visits(t), Unanswered(t)>>
    <2>1. round'[t] = round[t]
      BY <1>2, <1>4, <1>7, RoundsOfOthers
    <2> QED
      BY <1>1, <1>2, <1>7, <2>1, OthersAreQuiet
  <1>8. SpeakersInv'
    <2> SUFFICES ASSUME NEW u \in F, Topology[s] = "debate"
                 PROVE  u = <<s, <<1>>>> \/ u = <<s, <<2>>>>
      <3>1. \A u \in F : u[1] = s
        BY <1>2, VisitsAre
      <3> QED
        BY <1>4, <3>1 DEF SpeakersInv
    <2>1. F \in FollowsInDebate(v)
      BY <1>4 DEF Follows
    <2> QED
      BY <2>1 DEF FollowsInDebate
  <1> QED
    BY <1>6, <1>7, <1>8 DEF QuietStep

\* Every swarm has less to do after whatever happens to it, whatever its size, its
\* dependencies and the rounds of its debate (advanced.ts:130, experimental.ts:238).
THEOREM OnlyQuietsHolds == Spec => OnlyQuiets
  <1>1. Init => SpeakersInv
    BY DEF Init, SpeakersInv
  <1>2. TypeOK /\ SwarmInv /\ TurnInv /\ SpeakersInv /\ [Next]_vars
          => SpeakersInv' /\ (QuietStep \/ UNCHANGED vars)
    <2> SUFFICES ASSUME TypeOK, SwarmInv, TurnInv, SpeakersInv, [Next]_vars
                 PROVE  SpeakersInv' /\ (QuietStep \/ UNCHANGED vars)
      OBVIOUS
    <2>1. CASE UNCHANGED vars
      BY <2>1 DEF vars, SpeakersInv
    <2> QED
      BY <2>1, BeginningIsQuiet, SettlingIsQuiet DEF Next
  <1>3. QuietStep \/ UNCHANGED vars
          => [\A s \in Swarm : \/ UNCHANGED <<pc[s], round[s], calls \cap Visits(s),
                                              {v \in Visits(s) : outcome[v] = "none"}>>
                               \/ CallsLeft(s)' < CallsLeft(s)]_vars
    BY DEF QuietStep, Unanswered
  <1> QED
    BY <1>1, <1>2, <1>3, Swarming, Turns, PTL DEF Spec, OnlyQuiets

\* The measure is a number with an upper bound, so that all that can happen to a
\* swarm is over after as many steps.
THEOREM CallsAreBounded ==
  Spec => [](\A s \in Swarm :
               CallsLeft(s) \in 0 .. Cardinality(Visits(s)) + 2 * MaxRounds + 3)
  <1>1. ASSUME TypeOK, NEW s \in Swarm
        PROVE  CallsLeft(s) \in 0 .. Cardinality(Visits(s)) + 2 * MaxRounds + 3
    <2>1. Cardinality(Visits(s)) \in Nat /\ MaxRounds \in Nat /\ round[s] \in 0..MaxRounds
      BY <1>1, VisitsAreFinite DEF TypeOK
    <2>2. CASE pc[s] = "waiting"
      <3>1. CallsLeft(s) = Cardinality(Visits(s)) + 2 * MaxRounds + 3
        BY <2>2 DEF CallsLeft
      <3> QED
        BY <2>1, <3>1
    <2>3. CASE pc[s] # "waiting" /\ Topology[s] = "debate"
      <3>1. PICK k \in {0, 1, 2} : CallsLeft(s) = 2 * (MaxRounds - round[s]) + k
        BY <2>3 DEF CallsLeft
      <3> QED
        BY <2>1, <3>1
    <2>4. CASE pc[s] # "waiting" /\ Topology[s] # "debate"
      <3>1. CallsLeft(s) = Cardinality(Unanswered(s))
        BY <2>4 DEF CallsLeft, Unanswered
      <3> QED
        BY <2>1, <3>1, UnansweredAreFew
    <2> QED
      BY <2>2, <2>3, <2>4
  <1>2. TypeOK => \A s \in Swarm :
                    CallsLeft(s) \in 0 .. Cardinality(Visits(s)) + 2 * MaxRounds + 3
    BY <1>1
  <1> QED
    BY <1>2, Swarming, PTL

=============================================================================
