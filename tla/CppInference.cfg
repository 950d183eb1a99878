CONSTANTS
  Pipelines <- AllPipelines
  Interfaces = {"unary", "grpc_stream", "http_stream", "custom", "custom_stream"}
  MaxParts = 2
SPECIFICATION FairSpec
INVARIANTS
  NodeInputIntact
  OkMeansComplete
  ErrorReported
  FinalIsLast
PROPERTIES
  PromiseAlive
  PredictReturns
CHECK_DEADLOCK FALSE
