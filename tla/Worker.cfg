SPECIFICATION WorkerSpec
CONSTANTS
  ArtifactTypes <- MCArtifactTypes
  Undeletable   <- MCUndeletable
  Unadvertised  <- MCUnadvertised
  HostnameSet   = TRUE
  SelfTerminates = TRUE
  Disturbances  <- WorkerDisturbances
INVARIANTS
  TaskTypeOK
  SettledAtEnd
  ContainerNotLeft
PROPERTIES
  FinalStateKept
  ImplementsTask
CHECK_DEADLOCK FALSE
