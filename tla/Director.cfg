SPECIFICATION Spec
CONSTANTS
  Disturbances <- DirectorDisturbances
  Builds <- DirectorBuilds
INVARIANTS
  DirectorTypeOK
  StepsKeepTheirContract
  RecordsSettled
  LanguageEnvironmentFirst
  ToolsReady
  NoJobWithWriteKey
  CleanCheckoutSucceeds
  FormatsDelivered
  EveryJobRuns
  DocToolConfigured
