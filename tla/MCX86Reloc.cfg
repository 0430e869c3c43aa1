SPECIFICATION Spec
CONSTANTS
  Tables <- MCTables
  Placings <- MCPlacings
  Contents <- MCContents
  Size = 16
INVARIANTS
  AcceptedReadsBack
  RefusedIsOverflow
CHECK_DEADLOCK FALSE
