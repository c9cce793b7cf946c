SPECIFICATION Spec
CONSTANTS
  caller1 = caller1
  caller2 = caller2
  me = me
  you = you
  Nobody = Nobody
  apple = apple
  berry = berry
  cherry = cherry
  password = password
  Layouts <- Configured
  Callers = {caller1, caller2}
  User = me
  Other = you
  Names = {apple, berry, cherry, password}
  Secret = password
  Foreign <- Theirs
  Texts <- SomeTexts
  Tasks <- SomeTasks
  Threshold = 50
  Dedup = 66
  Limit = 2
  MaxLen = 5
  MaxAdds = 2
INVARIANTS
  TypeOK
  Retained
  NoSecrets
  SearchAnswers
CHECK_DEADLOCK FALSE
