SPECIFICATION Spec
CONSTANTS
  ask = ask
  again = again
  NoTask = NoTask
  Tasks = {ask, again}
  StartModes = {"native"}
  HasSystem = TRUE
  RecentKeep = 2
  MaxTokens = 6
  Overhead = 1
  MaxBatch = 2
  MaxReplies = 4
  MaxRuns = 2
  MaxPins = 1
  MaxBreaks = 0
INVARIANT RequestPaired
CHECK_DEADLOCK FALSE
