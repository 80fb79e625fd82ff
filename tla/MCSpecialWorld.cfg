CONSTANTS
  Manager = {m1}
  Player = {p1, p2}
  None = None
  MaxTag = 1
  MaxQuit = 1
  Remain <- MCRemain
  Survival <- MCSurvival
  MinCount <- MCMinCount
  MaxCount <- MCMaxCount
  CloseTime = 0
  RemoveDelay = 1
  TicksPerSec = 2
SPECIFICATION Spec
SYMMETRY Symmetry
INVARIANTS
  AssertsHold
  ManagerInOnePlace
  IndexExact
  PlayerCountExact
  ClosingTold
PROPERTY BusyWorldStays
