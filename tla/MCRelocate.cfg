SPECIFICATION Spec
CONSTANTS
  NSec = 5
  Headers <- MCHeaders
INVARIANTS
  AddressesAreFinal
  CallsInOrder
  AllApplied
  WritesAreAllowed
  LinkedSymbolIsUsed
CHECK_DEADLOCK FALSE
