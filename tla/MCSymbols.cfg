SPECIFICATION Spec
CONSTANTS
  NMod = 3
  MaxSym = 3
  Names <- MCNames
  Tables <- MCTables
  Host <- MCHost
  Garbage <- MCGarbage
INVARIANTS
  FirstDefinitionWins
  ImportsHoldFirstDefinition
  DefinitionsAreOwn
  ConstructIsOwn
PROPERTIES
  SysEnvIsRegistry
CHECK_DEADLOCK FALSE
