SPECIFICATION Spec
CONSTANTS
  Tabs = {t1, t2}
  Batch = 1
  Watermark = 2
  MaxStored = 2
  MaxKeys = 3
  MaxIdents = 2
  MaxWraps = 2
  Runs = {r1, r2}
  MaxMsgs = 2
  MaxLoads = 1
  Texts = {x1}
  Files = {f1, f2}
  MaxUploads = 2
  MaxPosts = 2
  Msgs = {m1, m2}
  PageSize = 1
  MaxTrips = 2
  MaxDocs = 3
  Letters = 2
  Said = {{1, 2}, {2}}
  Queries = {{1}, {1, 2}}
  Cap = 2
  MaxFound = 1
  MaxVisits = 2
  MaxDeletes = 1
  Phrases = {w1, w2}
  MaxChanges = 1
SYMMETRY Symmetry
CONSTRAINT Explored
INVARIANTS
  KeysAccounted
  RatchetAccounted
  SendsAccounted
  ListExplained
  SearchTrue
CHECK_DEADLOCK FALSE
