CONSTANTS
  p1 = p1
  p2 = p2
  p3 = p3
  Paths <- MCPaths
  Bytes <- MCBytes
  maxBytes = 3
SPECIFICATION Spec
INVARIANTS
  ThumbnailTypeOK
  CountsMatchHolders
  WithinBudget
PROPERTIES
  ImplementsPool
