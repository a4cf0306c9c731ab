SPECIFICATION Spec
CONSTANTS
  Users = {u1}
  DMs = {c1}
  Sockets = {s1, s2}
  Replicas = {r1, r2}
  UserOf <- OneUser
  ReplicaOf <- Apart
  LossyRevoke = TRUE
  MaxInFlight = 1
INVARIANTS
  TypeOK
  InRoomIdentified
  StaleEntryAccounted
