CONSTANTS
  MAX_COUNT = 3
  MM_HEARTBEAT_TICK = 2
  IDLE_LIMIT = 2
SPECIFICATION Spec
INVARIANTS
  PendingMembership
  AssertsHold
  CursorInSet
  CollectedOnce
  FreeListExact
PROPERTY BeatOnlyOwned
