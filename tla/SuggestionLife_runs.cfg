CONSTANTS
  Underlyings <- MCUnderlyings
  Kinds <- MCKinds
  Names <- MCNames
  Outlooks <- MCOutlooks
  LastRun = 2
  RunKinds = {"eod", "catchup", "live"}
  LastDay = 2
  MaxFails = 1
  MaxTouches = 2
  MaxEvents = 2
SPECIFICATION Spec
CHECK_DEADLOCK FALSE
INVARIANTS
  TypeOK
  OneCardPerSlot
  NotOfferedTwice
  OneDirectionPerRun
  FoughtCardIsWarned
PROPERTIES
  BookedStaysExecuted
  RunsEnd
