CONSTANTS
  Names <- MCNames
  Temps <- MCTemps
  Codes <- MCCodes
SPECIFICATION Spec
INVARIANTS
  TypeOK
  DeeperThanInputs
  InputsFirst
PROPERTY
  GraphMeansCode
