CONSTANTS
  trade = trade
  leg = leg
  other = other
  another = another
  Rows <- MCRows
  TableOf <- MCTableOf
  ParentOf <- MCParentOf
  DeleteOrder <- MCOrder
  Ackers = {a1, a2}
  MaxExports = 2
  MaxFaults = 2
SPECIFICATION Spec
CHECK_DEADLOCK FALSE
INVARIANTS
  TypeOK
  LegHasParent
  ChunkKept
PROPERTIES
  ImplementsTransfer
  PendingClears
