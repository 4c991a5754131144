SPECIFICATION CrashFairSpec
CONSTANTS
  s = s
  a = a
  Node = {n1, n2, n3}
  Coordinator = n1
  Url = {s, a}
  Seed = s
  Links <- Pair
  NoUrl = noUrl
  Capacity = 1
  PoolSize = 1
  MaxFailures = 0
  MaxEarly = 0
  MaxDrops = 0
  MaxLag = 1
  MaxCrashes = 1
INVARIANTS
  SurvivorsRemember
PROPERTIES
  SurvivorsVisit
