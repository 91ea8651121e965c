SPECIFICATION FairSpec
CONSTANTS
  Sessions = {s1, s2}
  Periods = {p1, p2}
  Figures = {f1, f2}
  ResultDates = {0}
  Docs = {}
  Published <- MCPublished
  DayLength = 3
  MaxVersion = 2
  Start = 0
  MaxTime = 0
  MaxBatch = 2
  NONE = NONE
CHECK_DEADLOCK FALSE
PROPERTIES CommandsEnd VersionsRecorded
