\* Search for the first key of a leaf.
SPECIFICATION Spec
CONSTANTS
  Nodes = {n1}
  Keys <- MCKeys
  Rids = {r1}
  NoRid = NoRid
  MAX_KEY = 3
  IndexFiles = {}
  NoFile = NoFile
  NoContent = NoContent
  MaxPid = 0
INVARIANTS
  LocateFinds
CHECK_DEADLOCK FALSE
