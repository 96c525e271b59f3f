CONSTANTS
  Tasks = {t1, t2}
  Threads = {x1}
  Kinds = {"timer", "io", "wait", "join", "remote"}
  Budget = 1
  Faults = TRUE
SPECIFICATION Spec
SYMMETRY Symmetry
INVARIANTS NoLostWakeup NoLostCancel CallbackOnLiveOp OneQueue NothingAbandoned
