CONSTANTS
  Requests = {r1, r2, r3}
  Workers = {w1, w2, w3}
  Streaming = {r1}
  MaxBatch = 2
  HasConverter = TRUE
SPECIFICATION FairSpec
INVARIANTS
  TypeOK
  BatchBound
  NoTaskLost
  PromiseOnStack
  AnswerJustified
PROPERTIES
  ServiceSpec
  EveryCallReturns
  StopReturnsOutsideWindow
CHECK_DEADLOCK FALSE
