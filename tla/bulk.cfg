SPECIFICATION FairSpec
CONSTANTS
  w1 = w1
  w2 = w2
  Workers = {w1, w2}
  Options <- MCOptions
  Bodies <- MCBodies
  BulkMaxSize = 3
INVARIANTS
  TypeOK
  ResultsMatchElements
  StopsAtFailure
  AllOrNothing
  AnswerIsTrue
PROPERTIES
  BulkIsAnswered
CHECK_DEADLOCK FALSE
