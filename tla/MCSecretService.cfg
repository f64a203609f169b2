CONSTANTS
  Proc = {p1, p2}
  Key = {k1, k2}
  Data = {d1, d2}
  CollId = {i1, i2, i3}
  NoColl = NoColl
  NoItem = NoItem
  Faults <- AllFaults
SPECIFICATION Spec
INVARIANTS TypeOK OneCollection
PROPERTY Contract
SYMMETRY Symmetry
