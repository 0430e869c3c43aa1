SPECIFICATION FrontSpec
CONSTANTS
  Arguments <- MCArguments
  MaxArgs = 4
  Paths <- MCPaths
  Limit = 8
  width = 3
INVARIANTS
  ArgumentsAreSorted
  UsageHasCause
  NameOfPathIsPrinted
CHECK_DEADLOCK FALSE
