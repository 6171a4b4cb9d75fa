CONSTANTS
  Threads = {t1, t2}
  Messages = {m1, m2}
  FlushThreshold = 2
  TimeoutSecs = 1
SPECIFICATION Spec
INVARIANT NoLoss
