CONSTANTS
  Slot = {s1}
  World = {w1}
  Elem = {e1, e2}
  e1 = e1
  e2 = e2
  w1 = w1
  w2 = w1
  WorldOf <- MCWorldOf
  Normal = {}
  Default = {e1}
  AutoReborn <- MCAutoReborn
  Retain <- MCRetain
  None = None
  MaxQueue = 1
  MaxClose = 1
  MaxTasks = 1
  MaxTalk = 2
SPECIFICATION FairSpec
INVARIANT CombatHoldsModel
PROPERTIES
  DeadLeaves
  ClosedWorldEmpties
