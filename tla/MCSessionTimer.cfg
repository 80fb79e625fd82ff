CONSTANTS
  Unit = {u1}
  None = None
  MaxSessions = 2
  MaxTimes = 2
  MaxInterval = 2
  MaxTask = 3
  MaxSes = 4
SPECIFICATION LiveSpec
INVARIANTS
  TaskSetsAgree
  CanceledIsMet
  SessionWillEnd
  OwnTimerOnly
PROPERTIES
  SessionsEnd
  TimersRunOut
