CONSTANTS
  Names <- MCNames
  Temps <- MCTemps
  Codes <- MCPackCodes
  MaxVectorLength = 4
  Slots = 2
  Options <- MCOptions
  Index <- MCIndex
SPECIFICATION PackSpec
INVARIANTS
  PackTypeOK
  StoredOnce
  TemporariesFirst
  AccumulateInOrder
  LostOnlyIfReduced
PROPERTY
  StepsLeaveLess
