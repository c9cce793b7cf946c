SPECIFICATION Spec
CONSTANTS
  read = read
  write = write
  curl = curl
  NoCall = NoCall
  Calls = {read, write, curl}
  Gated = {write, curl}
  SecretKeys = {}
  SecretText = {curl}
  StartModes = {"portable"}
  MaxSteps = 3
  MaxErrors = 2
  MaxToolCalls = 2
  MaxRepeats = 2
  HasDeadline = TRUE
  MaxBatch = 2
  MaxResumes = 2
  MaxCrashes = 0
INVARIANT NoRedactedArguments
CHECK_DEADLOCK FALSE
