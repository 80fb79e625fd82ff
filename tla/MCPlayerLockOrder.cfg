CONSTANTS
  Role = {r1, r2}
  Slot = {s1}
  Link = {l1}
  Master = {m1}
  Worker = {w1}
  None = None
  MaxTasks = 2
  MaxCalls = 1
SPECIFICATION Spec
INVARIANT LockInTime
