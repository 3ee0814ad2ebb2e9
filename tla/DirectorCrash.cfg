SPECIFICATION Spec
CONSTANTS
  Disturbances <- NoDisturbances
  Builds <- UndisturbedSeen
INVARIANTS
  InvalidConfigIsRejected
