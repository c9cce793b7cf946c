SPECIFICATION Spec
CONSTANTS
  first = first
  second = second
  Procs = {first, second}
  Settled <- SettledSettings
  Loud <- LoudSettings
  Known = {"fake", "openai"}
  Calls <- SomeCalls
  MaxSessions = 2
  MaxRuns = 2
  MaxSteps = 3
  ListLimit = 2
SYMMETRY Symmetry
CONSTRAINT SharedAlone
INVARIANTS
  TypeOK
  TraceKept
  OutcomeTold
  GatesFollowSettings
CHECK_DEADLOCK FALSE
