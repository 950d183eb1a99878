CONSTANTS
  Putters = {p1, p2}
  Idle = Idle
  Sub = 2
  PerMinute = 2
  PerHour = 2
  PerDay = 1
  Days = 2
  MaxLag = 1
  MaxSamples = 2
  Horizon = 11
SPECIFICATION FairSpec
INVARIANTS
  OneTimer
  SamplesCounted
  WindowsAligned
PROPERTIES
  StopReturnsUnlessCreating
CHECK_DEADLOCK FALSE
