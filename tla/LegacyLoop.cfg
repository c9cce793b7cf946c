SPECIFICATION Spec
CONSTANTS
  Budget = 6
  PinnedTurns = 1
  Summarizer = TRUE
  HistoryLimit = 3
  MaxTurns = 3
  MaxRetries = 1
  FirstReplies <- ShortTexts
  LaterReplies <- SomeTexts
  MaxBatch = 2
  MaxRuns = 3
  MaxText = 5
INVARIANTS
  TypeOK
  RequestWhole
  HistoryPaired
  PlainObjectFound
CHECK_DEADLOCK FALSE
