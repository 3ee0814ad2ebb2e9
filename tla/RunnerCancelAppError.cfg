SPECIFICATION Spec
CONSTANTS
  ArtifactTypes <- MCArtifactTypes
  Undeletable   <- MCUndeletable
  Unadvertised  <- MCUnadvertised
  HostnameSet   = TRUE
  Disturbances  = {"cancel"}
INVARIANT CancelNotReportedAsAppError
CHECK_DEADLOCK FALSE
