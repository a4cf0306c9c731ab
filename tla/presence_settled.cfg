SPECIFICATION Spec
CONSTANTS
  Sockets = {s1, s2}
  Cursors = {TRUE, FALSE}
  HonestInit = TRUE
  CalmDisconnect = TRUE
  CountMayFail = FALSE
  RedisMayFail = FALSE
  Refusals = FALSE
INVARIANT
  PresenceSettled
SYMMETRY SocketSymmetry
CHECK_DEADLOCK FALSE
