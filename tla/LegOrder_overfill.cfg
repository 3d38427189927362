CONSTANTS
  Qty = 1
  MaxRetries = 3
  AllowMarket = FALSE
SPECIFICATION Spec
CHECK_DEADLOCK FALSE
INVARIANT PlannedQuantityNotExceeded
