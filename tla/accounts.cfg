SPECIFICATION Spec
CONSTANTS
  Signups = {s1, s2}
  Names = {n1, n2}
  Codes = {k1, k2}
  MaxUses = 2
  Clients = {c1, c2}
  MaxAttempts = 1
  MaxTries = 4
  People = {p1, p2}
  Buttons = {b1, b2}
  MaxProofs = 2
  Browsers = {w1, w2}
  Accts = {a1}
  MaxFlows = 2
  Pages = {d1, d2}
  Switches = {sw1}
  Pickers = {pk1}
  MaxPuts = 2
  Devices = {v1, v2}
  Values = {light, dark}
  Default = light
  MaxRequests = 3
  MaxChanges = 2
  Types = {png, gif}
  MaxSaves = 3
  Items = {i1, i2}
  MaxPins = 1
  Runs = {r1, r2}
  MaxEnds = 2
  Senders = {s1}
  MaxTopics = 3
  Day = 3
  Fetches = {f1}
  MaxUsers = 2
  SampleSize = 1
  MaxWrites = 3
  MaxScripts = 2
  Windows = {t1, t2}
  Moods = {"online", "dnd", "invisible"}
  MaxQueue = 3
  Views = {d1, d2}
  Statuses = {"online", "invisible"}
  Sweeps = {q1}
  MaxChoices = 2
  Checks = {k1, k2}
  Limit = 2
  Widths = {2, 4}
  MaxAge = 2
  MaxDelay = 1
  MaxTime = 5
  Queries = {"", "cat"}
  Named = {""}
  Trending = ""
  Long = {"cat"}
INVARIANTS
  AdmissionsAccounted
  GuessesBounded
  ProofsAccounted
  LinkedByStarter
  SettingsKept
  ProfileKept
  DeliveriesKept
  PagesAgree
  MigrationAccounted
PROPERTY
  RefusalHolds
CHECK_DEADLOCK FALSE
