SPECIFICATION FairSpec
CONSTANTS
  Sockets = {s1}
  Cursors = {TRUE, FALSE}
  HonestInit = TRUE
  CalmDisconnect = FALSE
  CountMayFail = TRUE
  RedisMayFail = TRUE
  Refusals = TRUE
INVARIANTS
  InvisibleNeverAnnounced
  GhostExplained
PROPERTY
  OrphanKeyReaped
CHECK_DEADLOCK FALSE
