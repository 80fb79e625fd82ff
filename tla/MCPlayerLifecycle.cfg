CONSTANTS
  Role = {r1, r2}
  Slot = {s1, s2}
  Link = {l1}
  Master = {m1}
  Worker = {w1, w2}
  None = None
  MaxTasks = 2
  MaxCalls = 1
SPECIFICATION Spec
SYMMETRY Symmetry
INVARIANTS MapMatchesPlayer OnlineMatchesManager ForEachSafe AssertsHold
           PoolClean NoSlotLost OfflineWillLeave OnlyCircularWait
