CONSTANTS
  Programs <- SupportedPrograms
SPECIFICATION PeepSpec
INVARIANTS PeepTypeOK ReductionsMeanSource UsesSeeSource ReadsDefined
PROPERTY PassesKeepMeaning
CHECK_DEADLOCK FALSE
