SPECIFICATION Spec
CONSTANTS
  Ids = {n1, n2}
  Ops = {o1}
  Tabs = {t1, t2}
  MaxQueue = 2
  Callers = {p1, p2, p3}
  Couple = {p1, p2}
  MaxInvites = 3
  MaxFaults = 1
  Peers = {q1}
  MaxRuns = 2
  Requests = {r1, r2}
  Endpoints = {"health", "stored", "passing", "channel", "sessions"}
  Bodies = {"fits", "large", "garbled"}
  Clients = {u1}
SYMMETRY Symmetry
CONSTRAINT Explored
INVARIANTS
  InboxAgrees
  GatewayAgrees
  CallsAgree
CHECK_DEADLOCK FALSE
