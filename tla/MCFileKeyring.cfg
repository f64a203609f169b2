CONSTANTS
  Client = {c1, c2}
  Key = {k1}
  Data = {d1, d2}
  p1 = p1
  p2 = p2
  Passphrase = {p1, p2}
  NoPassphrase = NoPassphrase
  Cancel = Cancel
  Answers <- AnyAnswer
  Absent = Absent
  Empty = Empty
  Torn = Torn
  ExclusiveSets = TRUE
  Faults <- AllButList
SPECIFICATION Spec
INVARIANTS TypeOK ReadYourWrites
PROPERTY Contract
