CONSTANTS
  Names <- MCNames
  Temps <- MCTemps
  Codes <- MCLostCodes
  MaxVectorLength = 8
  Slots = 4
  Options <- MCDefault
  Index <- MCIndex
SPECIFICATION PackSpec
INVARIANT
  RestIsDealtWith
