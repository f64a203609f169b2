CONSTANTS
  Client = {c1, c2}
  Key = {k1, k2}
  Data = {d1}
  p1 = p1
  p2 = p2
  Passphrase = {p1}
  NoPassphrase = NoPassphrase
  Cancel = Cancel
  Answers <- OneAnswer
  Absent = Absent
  Empty = Empty
  Torn = Torn
  ExclusiveSets = FALSE
  Faults <- AllFaults
SPECIFICATION FairSpec
PROPERTIES WeakContract EveryCallReturns
