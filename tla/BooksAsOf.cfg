\* A split that is recorded after the day it is asked about.
CONSTANTS
  s1 = s1
  s2 = s2
  NONE = NONE
  Sessions = {s1}
  MaxCommands = 1
  Listings = {}
  Facts <- History
  Openings = {}
  Directories = {}
  Past <- NoPast
SPECIFICATION BooksSpec
INVARIANT PortfolioOfTheDate
CHECK_DEADLOCK FALSE
