CONSTANTS
  Clicks = {c1, c2}
  Autos = {a1}
  NLegs = 2
  Qty = 2
  MaxCrashes = 1
  None = None
SPECIFICATION Spec
SYMMETRY Symmetry
CHECK_DEADLOCK FALSE
INVARIANTS
  TypeOK
  NeverOverClosed
  NeverReopenedTwice
  ClosedIsFlat
  ClosedFromFills
