SPECIFICATION FairSpec
CONSTANTS
  s = s
  a = a
  b = b
  Node = {n1, n2}
  Coordinator = n1
  Url = {s, a}
  Seed = s
  Links <- Pair
  NoUrl = noUrl
  Capacity = 1
  PoolSize = 1
  MaxFailures = 0
  MaxEarly = 1
  MaxDrops = 0
  MaxLag = 1
PROPERTIES
  CrawlEnds
