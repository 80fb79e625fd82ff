CONSTANTS
  Slot = {s1, s2}
  World = {w1, w2}
  Elem = {e1, e2}
  e1 = e1
  e2 = e2
  w1 = w1
  w2 = w2
  WorldOf <- MCWorldOf
  Normal = {w2}
  Default = {e1}
  AutoReborn <- MCAutoReborn
  Retain <- MCRetain
  None = None
  MaxQueue = 1
  MaxClose = 1
  MaxTasks = 1
  MaxTalk = 1
SPECIFICATION Spec
INVARIANTS
  RecycleTaskExact
  RebornIsQueued
  ElemMapMatches
