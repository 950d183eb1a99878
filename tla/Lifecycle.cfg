SPECIFICATION Spec
CONSTANTS
  Users = {u1}
  Procs = {p1, p2, p3}
  Inodes = {i1, i2}
  Timeout = 2
  GiveUp = 1
  None = None
INVARIANT Tracked
PROPERTIES StopStops SuccessIsOwn KillsOwn CommandEnds
CHECK_DEADLOCK FALSE
