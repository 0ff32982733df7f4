--------------------------- MODULE MCModelRouter ---------------------------
EXTENDS ModelRouter

CONSTANTS p1, p2, m1, m2, m3

\* Two models of one provider and a worse one of the other.
Providers == [m \in {m1, m2, m3} |-> IF m = m3 THEN p2 ELSE p1]

Scores == [m \in {m1, m2, m3} |-> CASE m = m1 -> 1 [] m = m2 -> 2 [] m = m3 -> 0]

\* Both catalogues have the model of p2.
Configurations == {{m1, m3}, {m1, m2, m3}}

\* Discovery finds a model that one catalogue lacks, or nothing.
Lists == {{}, {m2}}

=============================================================================
