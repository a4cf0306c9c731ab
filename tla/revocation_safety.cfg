SPECIFICATION FairSpec
CONSTANTS
  Devices = {d1}
  Revokes = {v1, v2}
  SecondTicks = 2
  TokenLifetime = 2
  RevocationTTL = 5
  CacheTTL = 1
  FallbackAge = 1
  MaxDelay = 1
  MaxTime = 6
  Faults = TRUE
INVARIANTS
  TypeOK
  RevokedNeverAdmitted
  ExpiredTokenLapses
PROPERTY
  RevocationDisconnects
CHECK_DEADLOCK FALSE
