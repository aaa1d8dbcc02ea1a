\* Two objects that share one descriptor number, two slots, three pages, every system
\* call failing, the clock far from its limit.
SPECIFICATION LRUSpec
CONSTANTS
  Handles = {h1, h2}
  Files = {f1}
  NoFile = NoFile
  Contents = {z}
  Zeros = z
  NoContent = NoContent
  Fds = {3}
  CACHE_COUNT = 2
  SeekLimit = 4
  MaxPid = 2
  ClockLimit = 100
  MaxTick = 9
  Faults = {"open", "stat", "close", "read", "write"}
INVARIANTS
  RecentlyReadIsCached
  UniqueSlots
VIEW WithoutHistory
CHECK_DEADLOCK FALSE
