SPECIFICATION FairSpec
CONSTANTS
  Builds <- MCBuilds
  Names <- MCNames
  Starts <- MCStarts
INVARIANTS
  FleetTypeOK
  NeverLost
  EndsIdle
  CancelledStaysCancelled
PROPERTIES
  VerdictStands
  EveryBuildSettles
  InstancesGo
CHECK_DEADLOCK FALSE
