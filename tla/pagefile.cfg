\* Two objects on one file, two pages and one out of lseek's reach, one slot, a clock
\* that wraps at once; every system call may fail.
SPECIFICATION DisciplinedSpec
CONSTANTS
  Handles = {h1, h2}
  Files = {f1}
  NoFile = NoFile
  Contents = {z, a}
  Zeros = z
  NoContent = NoContent
  Fds = {3, 4}
  CACHE_COUNT = 1
  SeekLimit = 2
  MaxPid = 2
  ClockLimit = 2
  Faults = {"open", "stat", "close", "read", "write"}
INVARIANTS
  TypeOK
  CacheCoherent
  EndPidExact
  OwnDescriptor
PROPERTIES
  ImplementsStore
VIEW WithoutResult
SYMMETRY Symmetry
CHECK_DEADLOCK FALSE
