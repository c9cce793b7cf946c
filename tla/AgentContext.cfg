SPECIFICATION Spec
CONSTANTS
  ask = ask
  again = again
  NoTask = NoTask
  Tasks = {ask, again}
  StartModes = {"native", "auto"}
  HasSystem = TRUE
  RecentKeep = 2
  MaxTokens = 6
  Overhead = 1
  MaxBatch = 2
  MaxReplies = 3
  MaxRuns = 2
  MaxPins = 1
  MaxBreaks = 1
INVARIANTS
  TypeOK
  NoOrphanResult
  OnlyCutBatchesDangle
  TaskInRequest
  SummaryLeads
PROPERTIES
  NotesStay
CHECK_DEADLOCK FALSE
