SPECIFICATION Spec
CONSTANTS
  Users = {u1, u2, u3}
  Chans = {c1, c2}
  Msgs = {m1, m2}
  PageSize = 1
  MaxOps = 3
SYMMETRY Symmetry
INVARIANTS
  FriendsConsistent
  OneDirectChannel
  LogTellsMembers
  UnreadTracksSeen
PROPERTY
  StaleSendExplained
CHECK_DEADLOCK FALSE
