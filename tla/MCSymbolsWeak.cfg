SPECIFICATION Spec
CONSTANTS
  NMod = 3
  MaxSym = 3
  Names <- MCNames
  Tables <- MCTables
  Host <- MCHost
  Garbage <- MCGarbage
INVARIANTS
  UndefinedAreSought
CHECK_DEADLOCK FALSE
