CONSTANTS
  Role = {r1, r2}
  Slot = {s1}
  Link = {l1}
  Master = {m1}
  Worker = {w1}
  None = None
  MaxTasks = 1
  MaxCalls = 1
SPECIFICATION FairSpec
PROPERTIES OfflineLeaves ImplementsSession
