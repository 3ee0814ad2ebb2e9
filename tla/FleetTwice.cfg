SPECIFICATION Spec
CONSTANTS
  Builds <- MCBuilds
  Names <- MCNames
  Starts <- DropStarts
INVARIANT DoesNotRunTwice
CHECK_DEADLOCK FALSE
