CONSTANTS
  MAX_COUNT = 2
  MM_HEARTBEAT_TICK = 2
  IDLE_LIMIT = 3
SPECIFICATION FairSpec
PROPERTY EveryObjectBeats
