SPECIFICATION Spec
CONSTANTS
  Codes <- MCCodes
  Placings <- MCPlacings
  Contents <- MCContents
INVARIANTS
  AddressIsMade
  OverflowIsExact
PROPERTIES
  OthersKeep
CHECK_DEADLOCK FALSE
