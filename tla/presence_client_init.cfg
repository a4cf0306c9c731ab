SPECIFICATION Spec
CONSTANTS
  Sockets = {s1}
  Cursors = {TRUE, FALSE}
  HonestInit = FALSE
  CalmDisconnect = FALSE
  CountMayFail = FALSE
  RedisMayFail = FALSE
  Refusals = FALSE
INVARIANT
  InvisibleNeverAnnounced
CHECK_DEADLOCK FALSE
