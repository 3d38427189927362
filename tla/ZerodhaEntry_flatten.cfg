CONSTANTS
  Attempts = {a1, a2}
  Manuals = {}
  NLegs = 2
  Qty = 2
  MaxCrashes = 0
  None = None
SPECIFICATION Spec
CHECK_DEADLOCK FALSE
INVARIANT FlattenedOrAlerted
