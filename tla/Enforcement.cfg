CONSTANTS
  u1 = u1
  u2 = u2
  m1 = m1
  m2 = m2
  m3 = m3
  v1 = v1
  v2 = v2
  v3 = v3
  v4 = v4
  Users = {u1, u2}
  Tasks = {r1, r2}
  Messages = {m1, m2, m3}
  Verdicts = {v1, v2, v3, v4}
  About <- Subjects
  Author <- Authors
  Direct = {m3}
  StartRows <- Rows
  DayLength = 1
  MaxOffences = 4
SPECIFICATION ESpec
SYMMETRY Symmetry
INVARIANTS DeletedOnce SanctionsFollow LeftoverNeedsError
