SPECIFICATION Spec
CONSTANTS
  User = {ann, ben, cat}
  Request = {r1, r2, r3}
  Password = {p1, p2}
  Secret = {s1, s2}
  Plans <- PairsAndTriples
  Rows <- Tables
  None = None
  MaxFailed = 2
  MaxFaults = 1
  r1 = r1
  r2 = r2
  r3 = r3
  ann = ann
  ben = ben
  cat = cat
  old = old
  s1 = s1
  s2 = s2
  p1 = p1
  p2 = p2
  k1 = k1
  k2 = k2
INVARIANTS CodeOpensOnce EndedSessionsGo OverlapAside
PROPERTIES AdminStays
CHECK_DEADLOCK FALSE
