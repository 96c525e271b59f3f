CONSTANTS
  N = 3
  Modes = {"all", "any"}
  Timers = {3}
SPECIFICATION JoinSpec
INVARIANTS NoneAbandoned FirstObserved
PROPERTIES RaceDrains
CHECK_DEADLOCK FALSE
