SPECIFICATION FairSpec
CONSTANTS
  read = read
  write = write
  curl = curl
  NoCall = NoCall
  Calls = {read, write}
  Gated = {write}
  SecretKeys = {}
  SecretText = {}
  StartModes = {"portable", "native", "auto"}
  MaxSteps = 2
  MaxErrors = 2
  MaxToolCalls = 2
  MaxRepeats = 2
  HasDeadline = TRUE
  MaxBatch = 2
  MaxResumes = 2
  MaxCrashes = 1
INVARIANT IndInv
PROPERTY SessionEnds
CHECK_DEADLOCK FALSE
