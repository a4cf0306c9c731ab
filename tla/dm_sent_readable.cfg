SPECIFICATION Spec
CONSTANTS
  Runs = {r1, r2}
  MaxMsgs = 2
  MaxLoads = 1
INVARIANT StaysReadable
CHECK_DEADLOCK FALSE
