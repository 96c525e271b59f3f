CONSTANTS
  Tasks = {t1, t2}
  Workers = {w1, w2}
  Files = {a, b}
  Length = 2
SPECIFICATION MCSpec
INVARIANTS FrameOutlivesJob NeverEmpty FileSteady
PROPERTIES JobsReturn
CHECK_DEADLOCK FALSE
