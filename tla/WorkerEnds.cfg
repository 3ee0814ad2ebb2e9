SPECIFICATION FairWorkerSpec
CONSTANTS
  ArtifactTypes <- EndingArtifactTypes
  Undeletable   <- MCUndeletable
  Unadvertised  <- MCUnadvertised
  HostnameSet   = TRUE
  SelfTerminates = TRUE
  Disturbances  <- EndingDisturbances
PROPERTIES
  InstanceLetGo
CHECK_DEADLOCK FALSE
