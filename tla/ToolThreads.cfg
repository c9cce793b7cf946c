SPECIFICATION Spec
CONSTANTS
  first = first
  second = second
  Nobody = Nobody
  Callers = {first, second}
  HasTimeout = TRUE
  MaxCalls = 2
  MaxNotes = 1
INVARIANTS
  TypeOK
  AnswersMatch
  NoStaleToken
  LockHeld
PROPERTIES
  CallsReturn
  ThreadsDrain
CHECK_DEADLOCK FALSE
