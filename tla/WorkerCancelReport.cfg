SPECIFICATION WorkerSpec
CONSTANTS
  ArtifactTypes <- MCArtifactTypes
  Undeletable   <- MCUndeletable
  Unadvertised  <- MCUnadvertised
  HostnameSet   = TRUE
  SelfTerminates = TRUE
  Disturbances  = {"cancel"}
INVARIANT RunnerReportsItsOwnCancellation
CHECK_DEADLOCK FALSE
