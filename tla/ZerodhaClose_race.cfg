CONSTANTS
  Clicks = {c1}
  Autos = {a1}
  NLegs = 2
  Qty = 1
  MaxCrashes = 0
  None = None
SPECIFICATION Spec
CHECK_DEADLOCK FALSE
INVARIANT ExitsOnlyReduce
