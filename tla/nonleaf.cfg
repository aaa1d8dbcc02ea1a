\* Two nodes of three pairs, saved to and read from a page, with failures and crashes.
SPECIFICATION Spec
CONSTANTS
  Nodes = {n1, n2}
  Pairs <- MCPairs
  MAX_KEY = 3
  IndexFiles = {f1}
  NoFile = NoFile
  NoContent = NoContent
  MaxPid = 0
INVARIANTS
  TypeOK
  NodesInOrder
  InsertRoutes
  SplitRoutes
VIEW WithoutResults
SYMMETRY Symmetry
CHECK_DEADLOCK FALSE
