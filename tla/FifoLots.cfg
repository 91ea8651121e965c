SPECIFICATION Spec
CONSTANTS
  Symbols = {A, B}
  Quantities = {1, 2}
  Prices = {1, 3}
  Ratios <- ExactRatios
  Scale = 16
  MaxDate = 1
  MaxEvents = 4
  NONE = NONE
CHECK_DEADLOCK FALSE
INVARIANTS QueueMatchesLots ConsumedInOrder CashIdentity
PROPERTY SplitScope
