\* Teams of one to five, each topology, a forest with a shared and one with a cyclic
\* dependency, a debate with one agent, and the swarms of redesigns with and without
\* a task; every topology has failed once before.
\* Any three of them run.
SPECIFICATION FairSpec
CONSTANTS
  seq = seq
  par = par
  deb = deb
  for = for
  cyc = cyc
  red = red
  http = http
  bad = bad
  Swarm = {seq, par, deb, for, cyc, red, http, bad}
  Size <- Sizes
  Topology <- Topologies
  DependsOn <- Dependencies
  StackDepth = 4
  MaxRounds = 2
  MaxStarted = 3
  Redesigned = {red, http}
  Orphaned = {red}
  Thresholds <- Tiers
  PastFailures = {1}
CONSTRAINT FewStarted
INVARIANTS TypeOK LeftBehindIsIdle RegistryMatchesTable HandlersOfTheLiving CallsBelong CalledInTurn
PROPERTIES EverySwarmQuiets
CHECK_DEADLOCK FALSE
