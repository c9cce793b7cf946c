SPECIFICATION Spec
CONSTANTS
  first = first
  second = second
  Nobody = Nobody
  Callers = {first, second}
  HasTimeout = TRUE
  MaxCalls = 2
  MaxNotes = 1
INVARIANT AnswerIsOwn
CHECK_DEADLOCK FALSE
