\* Close while the lifecycle waits for a signature.
SPECIFICATION Spec
CONSTANTS
  Starts <- MCStarts
  IdSpace = 3
  Lateness = {TRUE}
  MayClose = TRUE
PROPERTY CloseUnwinds
