\* Two concurrent commands, two NSE rows each: the races for a version.
CONSTANTS
  s1 = s1
  s2 = s2
  a1 = a1
  a2 = a2
  r1 = r1
  NoRatio = NoRatio
  NONE = NONE
  Sessions = {s1, s2}
  Dates = {1}
  Amounts = {a1, a2}
  Ratios = {r1}
  ManualSources = {"manual"}
  MaxRows = 2
  MaxVersion = 3
  MaxTime = 1
SPECIFICATION Spec
CHECK_DEADLOCK FALSE
SYMMETRY Symmetry
INVARIANT LatestIsHighest
PROPERTIES VersionsRecorded SettledPast
