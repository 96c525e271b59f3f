CONSTANTS
  Tasks = {t1, t2}
  Threads = {x1}
  Kinds = {"timer"}
  Budget = 1
  Faults = FALSE
SPECIFICATION FairSpec
PROPERTIES NothingStarves StopQuiesces
