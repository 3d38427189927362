CONSTANTS
  Qty = 2
  MaxRetries = 2
  AllowMarket = TRUE
SPECIFICATION Spec
CHECK_DEADLOCK FALSE
INVARIANTS
  RowSettled
  ReportedFillIsReal
  CompleteRowIsWhole
  OnlyCurrentOrderLive
  LiveOrderLeft
PROPERTY Terminates
