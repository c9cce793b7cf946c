SPECIFICATION Spec
CONSTANTS
  task = task
  other = other
  x = x
  y = y
  Empty = Empty
  Tasks = {task, other}
  Texts = {Empty, x, y}
  Reviews <- SomeReviews
  RoleSteps <- Steps
  MaxRetries = 2
  MaxRuns = 2
INVARIANTS
  TypeOK
  ApprovedCodeReturned
  RetryCarriesFeedback
  Accounted
PROPERTIES
  PipelineEnds
CHECK_DEADLOCK FALSE
