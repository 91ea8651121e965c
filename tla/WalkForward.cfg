\* One run at a time to be created, and two commands at a time on it.
CONSTANTS
  s1 = s1
  s2 = s2
  NONE = NONE
  Sessions = {s1, s2}
  Timeline <- Events
  Price <- Closes
  Months <- TwoHorizons
  Lookahead = 1
  Points = {1}
  Worlds <- SomeWorlds
  Today = 3
  Unit = 100
  MaxPoints = 2
  MaxRuns = 1
  MaxCommands = 3
SPECIFICATION Spec
INVARIANTS OutcomesInWindow SplitNeutral PairsComparable
PROPERTY Frozen
CHECK_DEADLOCK FALSE
