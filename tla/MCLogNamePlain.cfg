SPECIFICATION LogSpec
CONSTANTS
  Paths <- MCPaths
  Limit = 8
  width = 3
INVARIANTS
  NameIsPrinted
CHECK_DEADLOCK FALSE
