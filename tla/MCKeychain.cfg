CONSTANTS
  p1 = p1
  p2 = p2
  Proc = {p1, p2}
  Key = {k1}
  Data = {d1, d2}
  Kinds <- AnyKind
  Passphrase = {w1, w2}
  NoPass = NoPass
  NoItem = NoItem
  NoEntry = NoEntry
  OtherEntry = OtherEntry
  Faults <- AllFaults
SPECIFICATION Spec
INVARIANTS TypeOK StoredPassphraseOpens
PROPERTY Contract
