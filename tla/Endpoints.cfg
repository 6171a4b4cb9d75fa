CONSTANTS
  Tasks = {t1, t2}
  Texts = {x1}
  Fields = {f1, f2}
  Values = {v0, v1, v2}
  DefaultValue = v0
  Accepted = {v0, v1}
  CommandAccepted = {v1}
  Absent = Absent
SPECIFICATION EndpointsSpec
SYMMETRY Symmetry
INVARIANTS StaleNeedsRace SettingsInRange LogExplains
PROPERTIES OnlyAskedFields
