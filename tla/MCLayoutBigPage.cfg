SPECIFICATION Spec
CONSTANTS
  NSec = 2
  Headers <- MCHeaders
  MaxStep = 6
  U32 = 64
  Split = 4
  Page = 16
  Bases <- MCBases
INVARIANTS
  WritableStaysWritable
CHECK_DEADLOCK FALSE
