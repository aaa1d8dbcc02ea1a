\* Two objects, one file of two pages with two slots each.
SPECIFICATION Spec
CONSTANTS
  zero = zero
  short = short
  long = long
  Handles = {h1, h2}
  Files = {f1}
  NoFile = NoFile
  NoContent = NoContent
  MaxPid = 1
  Records = {zero, short, long}
  Blank = zero
  Stored <- MCStored
  NoRecord = NoRecord
  Garbage <- MCGarbage
  RECORDS_PER_PAGE = 2
INVARIANTS
  TypeOK
  WellFormed
  EridIsEnd
PROPERTIES
  ImplementsLog
VIEW WithoutResults
SYMMETRY Symmetry
CHECK_DEADLOCK FALSE
