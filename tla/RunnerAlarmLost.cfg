SPECIFICATION Spec
CONSTANTS
  ArtifactTypes <- MCArtifactTypes
  Undeletable   <- MCUndeletable
  Unadvertised  <- MCUnadvertised
  HostnameSet   = TRUE
  Disturbances  = {"alarm"}
INVARIANT TimedOutBuildFails
CHECK_DEADLOCK FALSE
