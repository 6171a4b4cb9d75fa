CONSTANTS
  Threads = {h1, timer}
  Timer = timer
  Messages = {m1, m2, m3}
  FlushThreshold = 2
  TimeoutSecs = 1
  Quota = 1
  MaxAttempts = 2
SPECIFICATION FairPSpec
INVARIANTS TypeOK NoDuplicates LossNeedsOverlap RetryRemains
PROPERTIES SetAsideIsSafe ImplementsPool EventuallySettled FlushesEnd
