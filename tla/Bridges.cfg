CONSTANTS
  Frames = {f1, f2, f3}
  Roots = {r1}
  User = user
  None = none
SPECIFICATION BridgeSpec
INVARIANTS OneOwner LifetimesNested
PROPERTIES QuietDestroy ConsumerReturns
CHECK_DEADLOCK FALSE
