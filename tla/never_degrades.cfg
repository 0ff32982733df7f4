\* A sequence and a parallel swarm; one more failure of either topology reaches the
\* threshold of its next tier.
SPECIFICATION Spec
CONSTANTS
  seq = seq
  par = par
  deb = deb
  for = for
  cyc = cyc
  red = red
  http = http
  bad = bad
  Swarm = {seq, par}
  Size <- Sizes
  Topology <- Topologies
  DependsOn <- Dependencies
  StackDepth = 4
  MaxRounds = 2
  MaxStarted = 2
  Redesigned = {}
  Orphaned = {}
  Thresholds <- Tiers
  PastFailures = {1}
PROPERTIES FailureDegrades
CHECK_DEADLOCK FALSE
