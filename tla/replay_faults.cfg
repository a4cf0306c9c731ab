SPECIFICATION FairSpec
CONSTANTS
  MaxEvents = 3
  MaxDrops = 2
  MaxLen = 2
  ScanWindow = 2
  Limit = 2
  RedisMayFail = TRUE
  MayRefuse = TRUE
INVARIANTS
  HolesAccounted
PROPERTY
  EventuallyDelivered
CHECK_DEADLOCK FALSE
