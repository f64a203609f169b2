CONSTANTS
  p1 = p1
  p2 = p2
  user = user
  s1 = s1
  s2 = s2
  svc1 = svc1
  d1 = d1
  d2 = d2
  MaxId = 9
  Anchor = {user, s1, s2}
  Id <- Ids
  NoKey = NoKey
  NoData = NoData
  NoService = NoService
  Proc = {p1, p2}
  Key = {k1}
  Data = {d1, d2}
  Size <- Lengths
  Stranger = d2
  Scope <- UserScope
  SessionOf <- OwnSessions
  Service <- OneService
  UsePerm <- OnlyP1
  Strangers = {}
  OpenAlone = TRUE
  Faults <- None
SPECIFICATION FairSpec
INVARIANTS TypeOK PermissionFirst SessionClean HandleIsRing
PROPERTIES Contract EveryCallReturns
