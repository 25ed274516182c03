CONSTANTS
  Cases <- MCCases
  Stale <- MCStale
SPECIFICATION FairSpec
INVARIANTS
  TypeOK
  IterationsInOrder
  NothingLost
  ExitValue
PROPERTIES
  ImplementsSourceLoop
  Terminates
