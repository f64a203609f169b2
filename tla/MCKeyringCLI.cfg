CONSTANTS
  Platforms <- Builds
  NoRing = NoRing
  Config <- Configured
  Value = {v1, v2}
  NoValue = NoValue
  Named = {"pass", "op-connect"}
  Volatile = {"secret-service", "pass"}
  FirstWorlds <- AnyBus
SPECIFICATION Spec
INVARIANTS TypeOK  NothingPickedBehindSure
