SPECIFICATION Spec
CONSTANTS
  Calls <- MCCalls
  Garbage <- MCGarbage
  CharBits = 2
  ShortBits = 3
  IntBits = 4
  LongBits = 6
  PRINT_BUF_LEN = 6
  BufLen = 9
INVARIANTS
  CountMissesReturns
  ArgumentsInStep
  UndefinedHasCause
PROPERTIES
  FieldReadsBack
  FieldIsPadded
CHECK_DEADLOCK FALSE
