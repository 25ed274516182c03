CONSTANTS
  Names <- VecNames
  Temps <- VecTemps
  Codes <- MCAlongCodes
  MaxVectorLength = 8
  Slots = 8
  Options <- MCDefault
  Index <- VecIndex
  Cell <- MCCell
  Double = FALSE
SPECIFICATION VecSpec
INVARIANT MapsAreIndependent
CHECK_DEADLOCK FALSE
