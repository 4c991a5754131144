SPECIFICATION FairSpec
CONSTANTS
  Host = {h1, h2}
  Home = h1
  First = first
  Child = {c1, c2, c3}
  Http = http
  Args <- AnyArgs
  MaxLost = 1
INVARIANTS
  TypeOK
  LinkInPlace
  ChildrenStart
  NoNullPeer
PROPERTIES
  AllJoin
CHECK_DEADLOCK FALSE
