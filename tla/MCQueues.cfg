CONSTANTS
  t1 = t1
  t2 = t2
  t3 = t3
  l1 = l1
  l2 = l2
  Tasks <- MCTasks
  Loops <- MCLoops
  Home <- MCHome
  Values = {v1, v2}
  Capacities = {0, 1, 2}
SPECIFICATION MCSpec
SYMMETRY Symmetry
INVARIANT NoIdleWait
PROPERTIES NoOvertaking ImplementsFifo
