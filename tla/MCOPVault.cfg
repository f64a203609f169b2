CONSTANTS
  c1 = c1
  c2 = c2
  k1 = k1
  d1 = d1
  MaxId = 7
  Client = {c1, c2}
  Kind <- BothKinds
  Key = {k1}
  Data = {d1, d2}
  ItemId <- Ids
  Gone = Gone
  Personal <- TwoLookalikes
  Answers <- AnyToken
  Faults <- AllFaults
SPECIFICATION Spec
INVARIANTS TypeOK OneItemUnlessOverlap
PROPERTIES Contract PersonalUntouched
