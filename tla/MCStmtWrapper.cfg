CONSTANT
  Nests <- MCNests
SPECIFICATION Spec
INVARIANTS
  TypeOK
  TacsConnected
  TacsMeanCopies
  TacsMeanNest
  RenderedIsSource
