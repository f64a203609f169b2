CONSTANTS
  p1 = p1
  p2 = p2
  Proc = {p1}
  Key = {k1}
  Data = {d1}
  Kinds <- TouchOnly
  Passphrase = {w1, w2}
  NoPass = NoPass
  NoItem = NoItem
  NoEntry = NoEntry
  OtherEntry = OtherEntry
  Faults = {}
SPECIFICATION Spec
INVARIANT AlreadyUnlocked
