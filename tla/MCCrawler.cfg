SPECIFICATION Spec
CONSTANTS
  s = s
  a = a
  b = b
  Node = {n1, n2}
  Coordinator = n1
  Url = {s, a, b}
  Seed = s
  Links <- Fork
  NoUrl = noUrl
  Capacity = 2
  PoolSize = 1
  MaxFailures = 0
  MaxEarly = 0
  MaxDrops = 0
  MaxLag = 2
INVARIANTS
  TypeOK
  VisitedIsReplica
  NoLinkLost
  AnnouncedBeforeVisited
PROPERTIES
  ImplementsWebCrawl
