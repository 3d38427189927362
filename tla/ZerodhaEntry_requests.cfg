CONSTANTS
  Attempts = {a1, a2, a3}
  Manuals = {m1}
  NLegs = 2
  Qty = 2
  MaxCrashes = 1
  None = None
SPECIFICATION Spec
CHECK_DEADLOCK FALSE
INVARIANTS
  NoDoubleEntry
  LedgerCovers
  BookedIsHeld
  KiteBookedOnce
  ShortCovered
PROPERTY RequestsSettle
