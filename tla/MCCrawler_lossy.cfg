SPECIFICATION Spec
CONSTANTS
  s = s
  a = a
  b = b
  Node = {n1}
  Coordinator = n1
  Url = {s, a, b}
  Seed = s
  Links <- Fork
  NoUrl = noUrl
  Capacity = 1
  PoolSize = 2
  MaxFailures = 1
  MaxEarly = 1
  MaxDrops = 1
  MaxLag = 1
INVARIANTS
  VisitedWasAnswered
  
