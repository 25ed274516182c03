CONSTANTS
  Inputs <- MCInputs
  MaxLines = 9
  PairLines = 5
SPECIFICATION Spec
INVARIANTS
  TypeOK
  ScopsInOrder
  RegionsOnly
  AllRegions
  InTextOrder
PROPERTY
  ClosedScopsKept
