SPECIFICATION Spec
CONSTANTS
  Sessions = {s1, s2}
  Periods = {p1}
  Figures = {f1, f2}
  ResultDates = {0}
  Docs = {d1}
  Published <- MCPublished
  DayLength = 3
  MaxVersion = 2
  Start = 2
  MaxTime = 3
  MaxBatch = 1
  NONE = NONE
SYMMETRY Symmetry
CHECK_DEADLOCK FALSE
INVARIANTS OneLatest DefensibleAvailability
PROPERTIES HistoryPreserved VerifiedByDocument
