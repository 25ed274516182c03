CONSTANT
  Nests <- MCPairs
SPECIFICATION Spec
INVARIANT
  ListMeansNest
