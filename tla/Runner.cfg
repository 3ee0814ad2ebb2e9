SPECIFICATION Spec
CONSTANTS
  ArtifactTypes <- MCArtifactTypes
  Undeletable   <- MCUndeletable
  Unadvertised  <- MCUnadvertised
  HostnameSet   = TRUE
  Disturbances  <- RunnerDisturbances
INVARIANTS
  TypeOK
  SuccessMeansPublished
  CancelLeavesNoPartialUpload
  CancelledOnRequest
  FailureIsExplained
  ClaimedWhileUnderWay
PROPERTIES
  UndeletableKept
  ImplementsLifecycle
CHECK_DEADLOCK FALSE
