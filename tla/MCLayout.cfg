SPECIFICATION FairSpec
CONSTANTS
  NSec = 3
  Headers <- MCHeaders
  MaxStep = 6
  U32 = 32
  Split = 4
  Page = 4
  Bases <- MCBases
INVARIANTS
  SectionsDisjoint
  RegionsHold
  ImageIntact
  AddressesAligned
  WritableStaysWritable
  CodeRuns
PROPERTIES
  ReachesConstructors
  LayoutIsArena
CHECK_DEADLOCK FALSE
