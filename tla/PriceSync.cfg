\* Two concurrent syncs of overlapping days, republished and unreadable files.
CONSTANTS
  s1 = s1
  s2 = s2
  NONE = NONE
  Sessions = {s1, s2}
  MaxCommands = 2
  LastDay = 3
  Weekend = {3}
  Span = 1
  Parsed <- Contents
  Offered <- Answers
  Known = {{}, {"BEL", "HAL"}}
  Commands <- CommandLines
SPECIFICATION FairSpec
INVARIANT PricesTraceable
PROPERTIES FirstPriceStands SyncIsAccountedFor SyncsEnd
CHECK_DEADLOCK FALSE
