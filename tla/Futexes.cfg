CONSTANTS
  Waiters = {t1, t2}
  Writers = {x1, x2}
  Values = {0, 1}
SPECIFICATION FutexSpec
INVARIANT NoStaleWait
PROPERTIES NotSwallowed WaitEnds
