CONSTANTS
  Bases <- MCBases
  Operations <- MCOperations
SPECIFICATION MapSpec
INVARIANTS MapTypeOK OperandsInTheirLanes StoresMeanStatements OnlyNamedCells
CHECK_DEADLOCK FALSE
