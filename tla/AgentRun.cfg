SPECIFICATION Spec
CONSTANTS
  read = read
  write = write
  curl = curl
  NoCall = NoCall
  Calls = {read, write, curl}
  Gated = {write, curl}
  SecretKeys = {}
  SecretText = {curl}
  StartModes = {"portable", "native", "auto"}
  MaxSteps = 3
  MaxErrors = 2
  MaxToolCalls = 3
  MaxRepeats = 2
  HasDeadline = TRUE
  MaxBatch = 2
  MaxResumes = 2
  MaxCrashes = 2
INVARIANTS
  TypeOK
  EffectsAccounted
  NoUnapprovedRerun
  GatedNeedsApproval
  BudgetHolds
  HonestCompletion
  WaitingHasAction
PROPERTIES
  TraceOnlyGrows
  KeepsContract
CHECK_DEADLOCK FALSE
