CONSTANTS
  Proc = {p1, p2}
  Key = {k1}
  Data = {d1, d2}
  KeyId = {i1, i2, i3, i4}
  NoKey = NoKey
  NoCred = NoCred
  Foreign = Foreign
  Elsewhere = Elsewhere
  Faults <- AllFaults
SYMMETRY Alike
SPECIFICATION Spec
INVARIANTS TypeOK OneKeyServes KeyWhole HandlesFreed
PROPERTY Contract
