\* One object, two pages, one slot; ::read may fail.
SPECIFICATION Spec
CONSTANTS
  Handles = {h1}
  Files = {f1}
  NoFile = NoFile
  Contents = {z, a}
  Zeros = z
  NoContent = NoContent
  Fds = {3}
  CACHE_COUNT = 1
  SeekLimit = 2
  MaxPid = 1
  ClockLimit = 100
  Faults = {"read"}
INVARIANTS
  ReadDelivers
CHECK_DEADLOCK FALSE
