\* Three deployments, two of which fit into the limit; they may wait for the end
\* of a run, for a cancellation, or for an event of others.
SPECIFICATION FairSpec
CONSTANTS
  Deployment = {d1, d2, d3}
  TriggerEvents = {"executed", "cancelled", "other"}
  MaxActive = 2
  MaxCrashes = 1
INVARIANTS TypeOK OneRunAtATime LimitHolds
PROPERTIES ContractSpec CancelIsFinal CancelQuiets ScheduledRunsAgain
CHECK_DEADLOCK FALSE
