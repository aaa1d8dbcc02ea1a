\* Two leaves of three slots, saved to and read from a page, with failures and crashes.
SPECIFICATION Spec
CONSTANTS
  Nodes = {n1, n2}
  Keys <- MCKeys
  Rids = {r1}
  NoRid = NoRid
  MAX_KEY = 3
  IndexFiles = {f1}
  NoFile = NoFile
  NoContent = NoContent
  MaxPid = 0
INVARIANTS
  TypeOK
  NodesInOrder
  InsertAdds
  SplitHalves
  LocateSkipsNothing
  LocateFindsOthers
VIEW WithoutResults
SYMMETRY Symmetry
CHECK_DEADLOCK FALSE
