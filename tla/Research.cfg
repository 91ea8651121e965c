\* Two concurrent commands of research and advice while others publish.
CONSTANTS
  s1 = s1
  s2 = s2
  NONE = NONE
  Sessions = {s1, s2}
  MaxCommands = 2
  Publications <- Others
  Moments = {3, 4}
  DayLength = 2
  Year = 2
  MAX_FINANCIAL_AGE = 2
  MIN_OBSERVATIONS = 1
  Subject = "BEL"
  Portfolios <- Held
  Validation <- Named
  STALE_VALUATION_DAYS = 2
  CandidateSpecs <- Rules
  Audits <- Audited
  MIN_N = 2
  Past <- Databases
SPECIFICATION Spec
INVARIANTS PointInTime ScoredBlind AdviceIsSupported
PROPERTY RecordsStand
CHECK_DEADLOCK FALSE
