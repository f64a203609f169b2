CONSTANTS
  p1 = p1
  p2 = p2
  Client <- Both
  Services <- ServicePairs
  Nothing = Nothing
  Broken = Broken
  Key <- TwoKeys
  Data = {d1, d2}
  PassFaults = {"stat", "run"}
  CredFaults = {"cred"}
  WalletFaults = {"dbus", "refuse", "close", "write"}
SPECIFICATION Spec
INVARIANT TypeOK
PROPERTIES PassContract WinCredContract ServicesApart KWalletContract
