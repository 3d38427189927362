CONSTANTS
  LastDay = 3
  Expiry = 2
  Lookback = 1
  NLegs = 2
  MaxUpsets = 1
  MaxCuts = 1
  MaxHands = 1
  MaxTouches = 1
SPECIFICATION Spec
CHECK_DEADLOCK FALSE
INVARIANT WholeUnlessCut
PROPERTIES EndStays RowsSettle
