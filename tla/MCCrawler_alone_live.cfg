SPECIFICATION FairSpec
CONSTANTS
  s = s
  a = a
  b = b
  Node = {n1}
  Coordinator = n1
  Url = {s, a, b}
  Seed = s
  Links <- Fork
  NoUrl = noUrl
  Capacity = 1
  PoolSize = 1
  MaxFailures = 1
  MaxEarly = 1
  MaxDrops = 0
  MaxLag = 1
PROPERTIES
  ClaimResolved
  
  ImplementsWebCrawl
