------------------------------ MODULE MCSwarms ------------------------------
EXTENDS Swarms

CONSTANTS
    seq, par, deb, for, cyc, red, http, bad,
    MaxStarted     \* swarms that have begun

Sizes ==
    [s \in Swarm |-> CASE s = for -> 5 [] s \in {deb, cyc} -> 3 [] s \in {seq, par} -> 2
                       [] OTHER -> 1]

Topologies ==
    [s \in Swarm |-> CASE s = par          -> "parallel"
                       [] s \in {deb, bad} -> "debate"
                       [] s \in {for, cyc} -> "forest"
                       [] OTHER            -> "sequential"]

\* In for, agent 4 is visited for 2 and for 3, both below the root, and 5 depends on
\* itself alone.  In cyc, 2 depends on the root and on itself, 3 on the root.
Dependencies ==
    [a \in Agent |->
       CASE a \in {<<for, 2>>, <<for, 3>>, <<cyc, 3>>} -> {1}
         [] a = <<for, 4>> -> {2, 3}
         [] a = <<for, 5>> -> {5}
         [] a = <<cyc, 2>> -> {1, 2}
         [] OTHER -> {}]

\* Swarms share nothing but the tiers of degradation.
FewStarted == Cardinality({s \in Swarm : pc[s] # "waiting"}) <= MaxStarted

\* TIER_DEFINITIONS.
Tiers == [i \in 0..3 |-> 2 * i]

=============================================================================
