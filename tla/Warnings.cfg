CONSTANTS
  Users = {u1}
  Tasks = {r1, r2}
  DayLength = 2
  MaxOffences = 6
SPECIFICATION FairSpec
INVARIANTS LevelEarned BanAfterKick
PROPERTIES OnlyStaleReadsLower EventuallyForgiven
