SPECIFICATION RequestSpec
CONSTANTS
  Users = {u1}
  DMs = {c1}
  Sockets = {s1}
  Replicas = {r1}
  UserOf <- OneUser
  ReplicaOf <- Apart
  LossyRevoke = TRUE
  MaxInFlight = 2
INVARIANTS
  GuardImpliesRoom
  RequestsMet
PROPERTIES
  RemovalTakesEffect
  RoomsOnPermit
