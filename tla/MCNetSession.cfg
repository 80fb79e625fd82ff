CONSTANTS
  Link = {l1}
  Master = {m1}
  MaxSid = 3
  NDEBUG = TRUE
  None = None
SPECIFICATION FairSpec
INVARIANTS
  NothingLeft
  AssertsHold
PROPERTIES
  Reachable
