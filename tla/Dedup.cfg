CONSTANTS
  Requests = {r1, r2, r3, r4}
  Impatient = {r1}
  Keys = {k1, k2}
  ShardOf <- OneShard
  Workers = 4
  None = None
SPECIFICATION Spec
INVARIANTS GuardKeepsEntry WaitsForALeader
PROPERTY EndsUnlessHung
CHECK_DEADLOCK FALSE
