CONSTANTS
  Cases <- MCNoUnrollCases
  Stale <- MCStale
SPECIFICATION FairSpec
INVARIANT
  NoUnrollIsFactorOne
