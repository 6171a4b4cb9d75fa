CONSTANTS
  Conns = {c1, c2}
  Guilds = {g1}
  Limit = 3
  MaxSubs = 2
  None = None
SPECIFICATION Spec
INVARIANTS LimitHolds NothingLeaks
PROPERTY SilentIsClosed
