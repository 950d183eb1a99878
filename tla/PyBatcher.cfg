CONSTANTS
  Requests = {r1, r2, r3}
  Workers = {w1, w2, w3}
  Streaming = {r1}
  MaxBatch = 2
  HasConverter = FALSE
  LateNotifyErrs = TRUE
SPECIFICATION FairSpec
INVARIANTS
  AnswerJustified
PROPERTIES
  ServiceSpec
  EveryCallReturns
CHECK_DEADLOCK FALSE
