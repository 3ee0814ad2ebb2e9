SPECIFICATION WorkerSpec
CONSTANTS
  ArtifactTypes <- MCArtifactTypes
  Undeletable   <- MCUndeletable
  Unadvertised  <- MCUnadvertised
  HostnameSet   = TRUE
  SelfTerminates = TRUE
  Disturbances  = {"docker"}
INVARIANT PreContainerFailureReported
CHECK_DEADLOCK FALSE
