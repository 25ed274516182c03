CONSTANTS
  Names <- VecNames
  Temps <- VecTemps
  Codes <- MCVecCodes
  MaxVectorLength = 8
  Slots = 8
  Options <- MCDefault
  Index <- VecIndex
  Cell <- MCCell
  Double = FALSE
SPECIFICATION VecSpec
INVARIANTS VecTypeOK VectorCodeMeansSource DefinedBeforeUsed
CHECK_DEADLOCK FALSE
