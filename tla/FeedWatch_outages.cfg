CONSTANTS
  WatchStale = 1
  TickStale = 1
  MinStreak = 2
  OpenAt = 1
  CloseAt = 3
  DayEnd = 3
  LastDay = 2
  Tokens <- MCTokens
  Wishes <- MCWishes
  MaxLogins = 2
  MaxUpsets = 1
SPECIFICATION Spec
CHECK_DEADLOCK FALSE
INVARIANTS
  BlindBounded
  OutageAlerted
PROPERTIES
  LoginPickedUp
