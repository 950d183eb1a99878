CONSTANTS
  Interfaces = {"grpc", "http", "custom"}
  MaxMessages = 3
  None = None
SPECIFICATION FairSpec
INVARIANTS
  NothingLostInLoop
  FinalEndsStream
  ErrorEndsStream
PROPERTIES
  StreamEnds
