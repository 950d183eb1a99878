SPECIFICATION Spec
CONSTANTS
  Users = {u1, u2}
  Procs = {p1, p2, p3}
  Inodes = {i1, i2, i3}
  Timeout = 2
  GiveUp = 1
  None = None
INVARIANT DeploymentsExclude
CHECK_DEADLOCK FALSE
