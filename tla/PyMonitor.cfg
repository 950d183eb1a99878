SPECIFICATION Spec
CONSTANTS
  Keys = {"k1", "k2"}
  Kinds = {"inc", "cdf"}
  PerMinute = 2
  PerHour = 2
  PerDay = 1
  Days = 1
  QueueSize = 1
  MaxPieces = 2
  MaxTicks = 4
INVARIANTS
  CountedOnce
  WindowsAligned
PROPERTIES
  StopReturns
CHECK_DEADLOCK FALSE
