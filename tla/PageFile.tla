------------------------------- MODULE PageFile -------------------------------
(***************************************************************************)
(* PageFile.cc and PageFile.h: page-at-a-time access to unix files through *)
(* one read cache that all PageFile objects of the process share.          *)
(*                                                                         *)
(* The program is single threaded, so a call is one step.  The kernel's    *)
(* side (descriptor table, file contents) is modelled from how PageFile.cc *)
(* calls it.  A page is abstracted to one value of Contents.               *)
(***************************************************************************)
EXTENDS Integers, FiniteSets

CONSTANTS Handles,     \* the PageFile objects of the process
          Files,       \* the names of the files
          NoFile,      \* the file behind a free descriptor
          Contents,    \* what a page can hold
          Zeros,       \* a page of zero bytes
          NoContent,   \* the buffer of a call that returns none
          Fds,         \* the descriptors the kernel may hand out
          CACHE_COUNT, \* number of cache slots, 10 in the code
          SeekLimit,   \* pages below 2^31 bytes, 2^21 in the code
          MaxPid,      \* bound: the largest page id a client passes
          ClockLimit,  \* first value past INT_MAX, 2^31 in the code
          Faults       \* which system calls may fail for no visible reason

(* Descriptor 0 is the standard input main.cc reads SQL from; it is never  *)
(* closed, so open(2) never returns it.                                    *)
ASSUME PageFileAssumption ==
  /\ NoFile \notin Files
  /\ Zeros \in Contents
  /\ Fds \subseteq Nat \ {0}
  /\ CACHE_COUNT \in Nat \ {0}
  /\ SeekLimit \in Nat \ {0}
  /\ MaxPid \in Nat
  /\ ClockLimit \in Nat /\ ClockLimit >= 2
  /\ Faults \subseteq {"open", "stat", "close", "read", "write"}

Pids     == 0 .. MaxPid
Slots    == 0 .. CACHE_COUNT - 1
Modes    == {"r", "w", "x"}
NoHandle == "none"
Absent   == -1

VARIABLES
  page,       \* page[f][p]: page p of file f on disk
  size,       \* whole pages in each file, Absent if it does not exist
  kernel,     \* the file each descriptor is open on, or NoFile
  writable,   \* the descriptors open for writing
  fd,         \* PageFile::fd of each object, -1 if not open
  epid,       \* PageFile::epid of each object
  cache,      \* PageFile::readCache
  cacheClock, \* PageFile::cacheClock
  foreign,    \* history: descriptors whose file was written through another one
  suspect,    \* history: <<d, p>> if a slot of page p of descriptor d may have other bytes
  doomed,     \* history: the objects whose ::close failed
  call        \* history: the last call and its result

disk   == <<page, size>>
table  == <<kernel, writable>>
object == <<fd, epid>>
cached == <<cache, cacheClock>>
wrong  == <<suspect, doomed>>
vars   == <<page, size, kernel, writable, fd, epid, cache, cacheClock, foreign,
            suspect, doomed, call>>

Call(op, h, p, rc, c) == [op |-> op, by |-> h, pid |-> p, rc |-> rc, buffer |-> c]
Return(op, h, p, rc)  == call' = Call(op, h, p, rc, NoContent)

(* A call that returns an error and changes nothing. *)
Refuse(op, h, p, rc) == /\ Return(op, h, p, rc)
                        /\ UNCHANGED <<disk, table, object, cached, foreign, wrong>>

EmptySlot == [fd |-> 0, pid |-> 0, lastAccessed |-> 0, buffer |-> Zeros]

Init ==
  /\ page = [f \in Files |-> [p \in Pids |-> Zeros]]
  /\ size = [f \in Files |-> Absent]
  /\ kernel = [d \in Fds |-> NoFile]
  /\ writable = {}
  /\ fd = [h \in Handles |-> -1]
  /\ epid = [h \in Handles |-> 0]
  /\ cache = [s \in Slots |-> EmptySlot]
  /\ cacheClock = 1
  /\ foreign = {}
  /\ suspect = {}
  /\ doomed = {}
  /\ call = Call("start", NoHandle, 0, "OK", NoContent)

-----------------------------------------------------------------------------
(* Slips: variants of definitions below, each of which one of the runs     *)
(* must notice.                                                            *)

Tick_Wide             == cacheClock + 1
Detached_Not(h)       == fd
EndPid_Late(e, p)     == IF p > e THEN p + 1 ELSE e
Evicted_None(d)       == cache
Invalidated_None(d, p) == cache
InCache_FromOne(d, p) ==
  \E s \in Slots \ {0} :
    cache[s].fd = d /\ cache[s].pid = p /\ cache[s].lastAccessed # 0
ToEvict_Newest(s) ==
  \A t \in Slots : cache[t].lastAccessed <= cache[s].lastAccessed

-----------------------------------------------------------------------------
(* The kernel *)

LowestFree(d) == /\ kernel[d] = NoFile
                 /\ \A e \in Fds : kernel[e] = NoFile => d <= e

Exhausted == \A d \in Fds : kernel[d] # NoFile

(* O_CREAT makes an empty file; plain O_RDONLY leaves the directory alone. *)
Created(f, mode) == IF mode = "w" /\ size[f] = Absent
                    THEN [size EXCEPT ![f] = 0] ELSE size

IsOpen(d) == d \in Fds /\ kernel[d] # NoFile

(* ::close, with or without an error *)
Released(d) == /\ kernel' = [kernel EXCEPT ![d] = NoFile]
               /\ writable' = writable \ {d}
               /\ foreign' = foreign \ {d}

-----------------------------------------------------------------------------
(* open *)

(* The object is open already, the mode is unknown, or ::open fails: no    *)
(* such file, no free descriptor, any other reason.  (An object that is    *)
(* not open has fd = -1, the value ::open's failure assigns.)              *)
OpenRefused(h, f, mode) ==
  \/ fd[h] > 0 /\ Refuse("open", h, 0, "RC_FILE_OPEN_FAILED")
  \/ fd[h] <= 0 /\ mode \notin {"r", "w"} /\ Refuse("open", h, 0, "RC_INVALID_FILE_MODE")
  \/ /\ fd[h] <= 0
     /\ mode \in {"r", "w"}
     /\ (mode = "r" /\ size[f] = Absent) \/ Exhausted \/ "open" \in Faults
     /\ Refuse("open", h, 0, "RC_FILE_OPEN_FAILED")

(* ::fstat fails: the descriptor is given back, a created file remains. *)
OpenStatFails(h, f, mode) ==
  /\ fd[h] <= 0
  /\ mode \in {"r", "w"}
  /\ "stat" \in Faults
  /\ size' = Created(f, mode)
  /\ size'[f] # Absent
  /\ ~Exhausted
  /\ Return("open", h, 0, "RC_FILE_OPEN_FAILED")
  /\ UNCHANGED <<page, table, object, cached, foreign, wrong>>

OpenOK(h, f, mode) ==
  /\ fd[h] <= 0
  /\ mode \in {"r", "w"}
  /\ size' = Created(f, mode)
  /\ size'[f] # Absent
  /\ \E d \in Fds :
       /\ LowestFree(d)
       /\ kernel' = [kernel EXCEPT ![d] = f]
       /\ writable' = IF mode = "w" THEN writable \cup {d} ELSE writable
       /\ fd' = [fd EXCEPT ![h] = d]
  /\ epid' = [epid EXCEPT ![h] = size'[f]]
  /\ Return("open", h, 0, "OK")
  /\ UNCHANGED <<page, cached, foreign, wrong>>

Open(h, f, mode) ==
  OpenRefused(h, f, mode) \/ OpenStatFails(h, f, mode) \/ OpenOK(h, f, mode)

-----------------------------------------------------------------------------
(* close *)

CloseRefused(h) == fd[h] <= 0 /\ Refuse("close", h, 0, "RC_FILE_CLOSE_FAILED")

CachedFor(d) ==
  {<<d, cache[s].pid>> : s \in {t \in Slots : cache[t].fd = d /\ cache[t].lastAccessed # 0}}

(* ::close fails: the object keeps its descriptor and its cached pages.  A *)
(* descriptor that was open is released all the same, and whoever gets its *)
(* number next finds those pages.                                          *)
CloseFails(h) ==
  /\ fd[h] > 0
  /\ ~IsOpen(fd[h]) \/ "close" \in Faults
  /\ Released(fd[h])
  /\ suspect' = suspect \cup CachedFor(fd[h])
  /\ doomed' = doomed \cup {h}
  /\ Return("close", h, 0, "RC_FILE_CLOSE_FAILED")
  /\ UNCHANGED <<disk, object, cached>>

Detached(h) == [fd EXCEPT ![h] = -1]

(* The slots of descriptor d are emptied; their buffers keep their bytes. *)
Evicted(d) ==
  [s \in Slots |-> IF cache[s].fd = d /\ cache[s].lastAccessed # 0
                   THEN [cache[s] EXCEPT !.fd = 0, !.pid = 0, !.lastAccessed = 0]
                   ELSE cache[s]]

CloseOK(h) ==
  /\ fd[h] > 0
  /\ IsOpen(fd[h])
  /\ Released(fd[h])
  /\ cache' = Evicted(fd[h])
  /\ fd' = Detached(h)
  /\ epid' = [epid EXCEPT ![h] = 0]
  /\ suspect' = suspect \ ({fd[h]} \X Pids)
  /\ Return("close", h, 0, "OK")
  /\ UNCHANGED <<disk, cacheClock, doomed>>

Close(h) == CloseRefused(h) \/ CloseFails(h) \/ CloseOK(h)

(* The class has no destructor: an object that goes away keeps its         *)
(* descriptor open and its pages cached.                                   *)
Destroy(h) ==
  /\ fd' = Detached(h)
  /\ epid' = [epid EXCEPT ![h] = 0]
  /\ doomed' = doomed \ {h}
  /\ Return("destroy", h, 0, "OK")
  /\ UNCHANGED <<disk, table, cached, foreign, suspect>>

-----------------------------------------------------------------------------
(* seek: pid * PAGE_SIZE is an int product, so it wraps at 2^32 bytes, and *)
(* lseek refuses the half of the results that is negative.                 *)

SeekPage(p) == p % (2 * SeekLimit)
SeekOK(h, p) == IsOpen(fd[h]) /\ SeekPage(p) < SeekLimit

-----------------------------------------------------------------------------
(* write *)

Holds(s, d, p) == /\ cache[s].fd = d
                  /\ cache[s].pid = p
                  /\ cache[s].lastAccessed # 0

FirstHit(s, d, p) == /\ Holds(s, d, p)
                     /\ \A t \in Slots : t < s => ~Holds(t, d, p)

(* The first slot that holds the page is emptied: the loop stops there. *)
Invalidated(d, p) ==
  [s \in Slots |-> IF FirstHit(s, d, p)
                   THEN [cache[s] EXCEPT !.fd = 0, !.pid = 0, !.lastAccessed = 0]
                   ELSE cache[s]]

WriteRefused(h, p) ==
  \/ p < 0 /\ Refuse("write", h, p, "RC_INVALID_PID")
  \/ p >= 0 /\ ~SeekOK(h, p) /\ Refuse("write", h, p, "RC_FILE_SEEK_FAILED")
  \/ /\ p >= 0 /\ SeekOK(h, p)
     /\ fd[h] \notin writable \/ "write" \in Faults
     /\ Refuse("write", h, p, "RC_FILE_WRITE_FAILED")

EndPid(e, p) == IF p >= e THEN p + 1 ELSE e

WriteOK(h, p, c) ==
  /\ p >= 0
  /\ SeekOK(h, p)
  /\ fd[h] \in writable
  /\ LET d == fd[h]
         f == kernel[d]
         q == SeekPage(p)
     IN /\ page' = [page EXCEPT ![f] = [@ EXCEPT ![q] = c]]
        /\ size' = [size EXCEPT ![f] = IF q >= @ THEN q + 1 ELSE @]
        /\ cache' = Invalidated(d, p)
        /\ foreign' = foreign \cup {e \in Fds \ {d} : kernel[e] = f}
        /\ suspect' = suspect \ {<<d, p>>}
  /\ epid' = [epid EXCEPT ![h] = EndPid(@, p)]
  /\ Return("write", h, p, "OK")
  /\ UNCHANGED <<table, fd, cacheClock, doomed>>

Write(h, p) == WriteRefused(h, p) \/ \E c \in Contents : WriteOK(h, p, c)

-----------------------------------------------------------------------------
(* read *)

Tick == IF cacheClock = ClockLimit - 1 THEN -ClockLimit ELSE cacheClock + 1

InCache(d, p) == \E s \in Slots : Holds(s, d, p)

(* The first empty slot, or else the first one with the oldest access. *)
ToEvict(s) ==
  IF \E t \in Slots : cache[t].lastAccessed = 0
  THEN /\ cache[s].lastAccessed = 0
       /\ \A t \in Slots : t < s => cache[t].lastAccessed # 0
  ELSE \A t \in Slots :
         \/ cache[s].lastAccessed < cache[t].lastAccessed
         \/ cache[s].lastAccessed = cache[t].lastAccessed /\ s <= t

(* read(2) at or past the end of the file leaves the buffer as it was. *)
Fetched(f, q, old) == IF q < size[f] THEN page[f][q] ELSE old

ReadRefused(h, p) ==
  \/ (p < 0 \/ p >= epid[h]) /\ Refuse("read", h, p, "RC_INVALID_PID")
  \/ /\ p >= 0 /\ p < epid[h] /\ ~InCache(fd[h], p) /\ ~SeekOK(h, p)
     /\ Refuse("read", h, p, "RC_FILE_SEEK_FAILED")

ReadHit(h, p) ==
  /\ p >= 0 /\ p < epid[h]
  /\ \E s \in Slots :
       /\ FirstHit(s, fd[h], p)
       /\ cache' = [cache EXCEPT ![s] = [@ EXCEPT !.lastAccessed = Tick]]
       /\ call' = Call("read", h, p, "OK", cache[s].buffer)
  /\ cacheClock' = Tick
  /\ UNCHANGED <<disk, table, object, foreign, wrong>>

(* The victim is labelled with the new page before ::read fills it, and    *)
(* keeps the label and its old bytes when ::read fails.                    *)
ReadFails(h, p) ==
  /\ p >= 0 /\ p < epid[h] /\ ~InCache(fd[h], p) /\ SeekOK(h, p)
  /\ "read" \in Faults
  /\ \E s \in Slots :
       /\ ToEvict(s)
       /\ cache' = [cache EXCEPT ![s] = [fd |-> fd[h], pid |-> p, lastAccessed |-> Tick,
                                         buffer |-> cache[s].buffer]]
  /\ cacheClock' = Tick
  /\ suspect' = suspect \cup {<<fd[h], p>>}
  /\ Return("read", h, p, "RC_FILE_READ_FAILED")
  /\ UNCHANGED <<disk, table, object, foreign, doomed>>

ReadMiss(h, p) ==
  /\ p >= 0 /\ p < epid[h] /\ ~InCache(fd[h], p) /\ SeekOK(h, p)
  /\ \E s \in Slots :
       LET c == Fetched(kernel[fd[h]], SeekPage(p), cache[s].buffer)
       IN /\ ToEvict(s)
          /\ cache' = [cache EXCEPT ![s] = [fd |-> fd[h], pid |-> p,
                                            lastAccessed |-> Tick, buffer |-> c]]
          /\ call' = Call("read", h, p, "OK", c)
  /\ cacheClock' = Tick
  /\ UNCHANGED <<disk, table, object, foreign, wrong>>

Read(h, p) == ReadRefused(h, p) \/ ReadHit(h, p) \/ ReadFails(h, p) \/ ReadMiss(h, p)

-----------------------------------------------------------------------------
(* The process ends without closing anything and a new one starts. *)
Restart ==
  /\ kernel' = [d \in Fds |-> NoFile]
  /\ writable' = {}
  /\ fd' = [h \in Handles |-> -1]
  /\ epid' = [h \in Handles |-> 0]
  /\ cache' = [s \in Slots |-> EmptySlot]
  /\ cacheClock' = 1
  /\ foreign' = {}
  /\ suspect' = {}
  /\ doomed' = {}
  /\ call' = Call("start", NoHandle, 0, "OK", NoContent)
  /\ UNCHANGED disk

Next ==
  \/ \E h \in Handles, f \in Files, mode \in Modes : Open(h, f, mode)
  \/ \E h \in Handles : Close(h) \/ Destroy(h)
  \/ \E h \in Handles, p \in -1 .. MaxPid : Write(h, p) \/ Read(h, p)
  \/ Restart

Spec == Init /\ [][Next]_vars

(* An object whose close() failed has a descriptor number that is no       *)
(* longer its own.  All that its owner may do is to let go of it.          *)
Disciplined     == call'.by \in doomed => call'.op = "destroy"
DisciplinedSpec == Init /\ [][Next /\ Disciplined]_vars

-----------------------------------------------------------------------------
(* Properties *)

Rcs == {"OK", "RC_FILE_OPEN_FAILED", "RC_INVALID_FILE_MODE", "RC_FILE_CLOSE_FAILED",
        "RC_INVALID_PID", "RC_FILE_SEEK_FAILED", "RC_FILE_READ_FAILED",
        "RC_FILE_WRITE_FAILED"}

Ticks == -ClockLimit .. ClockLimit - 1

Slot == [fd : Fds \cup {0}, pid : Pids, lastAccessed : Ticks, buffer : Contents]

Calls == [op : {"start", "open", "close", "destroy", "read", "write"},
          by : Handles \cup {NoHandle}, pid : -1 .. MaxPid, rc : Rcs,
          buffer : Contents \cup {NoContent}]

(* Every variable keeps its type: descriptors, page ids and clock values   *)
(* stay in their ranges whatever calls are made and whatever fails.        *)
TypeOK ==
  /\ page \in [Files -> [Pids -> Contents]]
  /\ size \in [Files -> Absent .. MaxPid + 1]
  /\ kernel \in [Fds -> Files \cup {NoFile}]
  /\ writable \in SUBSET Fds
  /\ fd \in [Handles -> Fds \cup {-1}]
  /\ epid \in [Handles -> 0 .. MaxPid + 1]
  /\ cache \in [Slots -> Slot]
  /\ cacheClock \in Ticks
  /\ foreign \in SUBSET Fds
  /\ suspect \in SUBSET (Fds \X Pids)
  /\ doomed \in SUBSET Handles
  /\ call \in Calls

Valid(s) == cache[s].lastAccessed # 0

(* No page is cached twice for one descriptor: write() empties only the    *)
(* first slot it finds (the break at PageFile.cc:121), so a second copy    *)
(* would survive the write and be read later.                              *)
UniqueSlots ==
  \A s, t \in Slots :
    Valid(s) /\ Valid(t) /\ cache[s].fd = cache[t].fd /\ cache[s].pid = cache[t].pid
      => s = t

Trusted(s) == Valid(s) /\ <<cache[s].fd, cache[s].pid>> \notin suspect

(* A cached page belongs to a descriptor that is open and to a page the    *)
(* file has.  The kernel reuses descriptor numbers, so a page left behind  *)
(* by close() would be served to whoever gets the number next.             *)
CachedOpen ==
  \A s \in Slots : Trusted(s) =>
    /\ IsOpen(cache[s].fd)
    /\ cache[s].pid < size[kernel[cache[s].fd]]

(* A cached page equals the page on disk, unless the file was written      *)
(* through another descriptor, which the cache cannot see.  What a failed  *)
(* ::read does harm to is that page of that descriptor, up to its next     *)
(* write or close(); a failed ::close, the pages of the next descriptor of *)
(* that number.                                                            *)
CacheCoherent ==
  \A s \in Slots : Trusted(s) /\ cache[s].fd \notin foreign =>
    cache[s].buffer = page[kernel[cache[s].fd]][cache[s].pid]

Live == {h \in Handles : fd[h] > 0 /\ h \notin doomed}

(* Each open object has a descriptor of its own, open in the kernel.       *)
OwnDescriptor ==
  /\ \A h \in Live : IsOpen(fd[h])
  /\ \A g, h \in Live : fd[g] = fd[h] => g = h

(* endPid() is the number of pages of the file as long as nobody else      *)
(* writes the file, and never exceeds it; an object not open has none.     *)
EndPidExact ==
  /\ \A h \in Live : /\ epid[h] <= size[kernel[fd[h]]]
                     /\ fd[h] \notin foreign => epid[h] = size[kernel[fd[h]]]
  /\ \A h \in Handles : ~(fd[h] > 0) => epid[h] = 0

(* A read that returns no error has delivered the page that is on disk,    *)
(* through any descriptor but one whose file was written elsewhere.        *)
Delivers(h, p, c) ==
  h \in Live /\ fd[h] \notin foreign => c = page[kernel[fd[h]]][p]

(* PageFile.h:45: "read a disk page into memory buffer".                   *)
ReadDelivers == call.op = "read" /\ call.rc = "OK" => Delivers(call.by, call.pid, call.buffer)

(* It does, but for a page whose last ::read failed, and the pages of a    *)
(* descriptor whose number an object has that failed to close.             *)
ReadReturnsPage ==
  call.op = "read" /\ call.rc = "OK" /\ <<fd[call.by], call.pid>> \notin suspect
    => Delivers(call.by, call.pid, call.buffer)

(* What the next property needs: no page id is so large that its byte      *)
(* offset wraps around.                                                    *)
OffsetsFit == MaxPid < 2 * SeekLimit

(* The promise of PageStore: descriptors, cache and clock hidden. *)
Opened   == [h \in Handles |-> IF h \in Live THEN kernel[fd[h]] ELSE NoFile]
Rw       == {h \in Live : fd[h] \in writable}
Stale    == {h \in Live : fd[h] \in foreign}
Doubtful == {k \in Live \X Pids : <<fd[k[1]], k[2]>> \in suspect}
Spoiled  == \E d \in Fds, p \in Pids : kernel[d] = NoFile /\ <<d, p>> \in suspect
Store    == INSTANCE PageStore WITH opened <- Opened, rw <- Rw, stale <- Stale,
                                    suspect <- Doubtful, spoiled <- Spoiled

(* Every behaviour of PageFile, disciplined clients assumed, is one of     *)
(* PageStore, whatever system calls fail.                                  *)
ImplementsStore == Store!Spec
=============================================================================
