SPECIFICATION FairLoaderSpec
CONSTANTS
  NMod = 3
  MaxSym = 3
  Names <- MCNames
  Tables <- MCTables
  Host <- MCHost
  Garbage <- MCGarbage
  Objects <- MCObjects
  DivTraps = TRUE
INVARIANTS
  CallsInOrder
  CallsComplete
  LinkedIsInitialised
  CrashHasCause
PROPERTIES
  Ends
CHECK_DEADLOCK FALSE
