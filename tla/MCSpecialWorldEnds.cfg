CONSTANTS
  Manager = {m1}
  Player = {p1}
  None = None
  MaxTag = 1
  MaxQuit = 1
  Remain <- MCRemain
  Survival <- MCSurvival
  MinCount <- MCMinCount
  MaxCount <- MCMaxCount
  CloseTime = 0
  RemoveDelay = 1
  TicksPerSec = 4
SPECIFICATION LiveSpec
PROPERTIES
  ManagerReturns
  ImplementsSpan
