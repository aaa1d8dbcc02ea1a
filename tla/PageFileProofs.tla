---------------------------- MODULE PageFileProofs ----------------------------
(***************************************************************************)
(* Proofs about PageFile: types and slot bookkeeping for every way system  *)
(* calls can fail; coherence of the cache and the refinement of PageStore, *)
(* when byte offsets do not wrap and an object that failed to close is     *)
(* only destroyed; and that readCache is LRU until its clock wraps.        *)
(***************************************************************************)
EXTENDS PageCacheLRU, FiniteSetTheorems, TLAPS

-----------------------------------------------------------------------------
(* Facts about the helpers *)

LEMMA SeekPageRange ==
  \A p \in Nat : SeekPage(p) \in Nat /\ SeekPage(p) <= p
BY PageFileAssumption DEF SeekPage

LEMMA SeekPageExact ==
  ASSUME NEW p \in Nat, p < 2 * SeekLimit
  PROVE  SeekPage(p) = p
BY PageFileAssumption DEF SeekPage

LEMMA TickType == cacheClock \in Ticks => Tick \in Ticks
BY PageFileAssumption DEF Tick, Ticks

LEMMA CallType ==
  ASSUME NEW op \in {"start", "open", "close", "destroy", "read", "write"},
         NEW h \in Handles \cup {NoHandle}, NEW p \in -1 .. MaxPid, NEW rc \in Rcs,
         NEW c \in Contents \cup {NoContent}
  PROVE  Call(op, h, p, rc, c) \in Calls
BY DEF Call, Calls

LEMMA OpenPositive == ASSUME NEW d, IsOpen(d) PROVE d \in Fds /\ d > 0
BY PageFileAssumption DEF IsOpen

LEMMA FdPositive == \A d \in Fds : d > 0
BY PageFileAssumption

LEMMA SlotType == TypeOK => \A s \in Slots : cache[s] \in Slot
BY DEF TypeOK

LEMMA PageType ==
  TypeOK => \A f \in Files, q \in Pids : page[f][q] \in Contents
<1> SUFFICES ASSUME TypeOK, NEW f \in Files, NEW q \in Pids
             PROVE  page[f][q] \in Contents
  OBVIOUS
<1>1. page[f] \in [Pids -> Contents]
  BY DEF TypeOK
<1> QED BY <1>1

(* The cache keeps its type when slots are emptied ... *)
LEMMA EvictedType ==
  ASSUME cache \in [Slots -> Slot], NEW d
  PROVE  Evicted(d) \in [Slots -> Slot]
<1>1. \A s \in Slots : cache[s] \in Slot
  OBVIOUS
<1>2. 0 \in Ticks /\ 0 \in Pids
  BY PageFileAssumption DEF Ticks, Pids
<1> QED BY <1>1, <1>2 DEF Evicted, Slot

LEMMA InvalidatedType ==
  ASSUME cache \in [Slots -> Slot], NEW d, NEW p
  PROVE  Invalidated(d, p) \in [Slots -> Slot]
<1>1. \A s \in Slots : cache[s] \in Slot
  OBVIOUS
<1>2. 0 \in Ticks /\ 0 \in Pids
  BY PageFileAssumption DEF Ticks, Pids
<1> QED BY <1>1, <1>2 DEF Invalidated, Slot

(* A slot still in use after close() is untouched and of another file. *)
LEMMA EvictedKeeps ==
  ASSUME TypeOK, NEW d, NEW s \in Slots, Evicted(d)[s].lastAccessed # 0
  PROVE  Evicted(d)[s] = cache[s] /\ Valid(s) /\ cache[s].fd # d
BY SlotType DEF Evicted, Slot, Valid

(* A slot still in use after write() is untouched ... *)
LEMMA InvalidatedKeeps ==
  ASSUME TypeOK, NEW d, NEW p, NEW s \in Slots, Invalidated(d, p)[s].lastAccessed # 0
  PROVE  Invalidated(d, p)[s] = cache[s] /\ Valid(s) /\ ~FirstHit(s, d, p)
<1>1. CASE FirstHit(s, d, p)
  <2>1. Invalidated(d, p)[s].lastAccessed = 0
    BY <1>1, SlotType DEF Invalidated, Slot
  <2> QED BY <2>1
<1>2. CASE ~FirstHit(s, d, p)
  BY <1>2 DEF Invalidated, Valid
<1> QED BY <1>1, <1>2

(* ... and, when no page is cached twice, does not hold the written page. *)
LEMMA InvalidatedMisses ==
  ASSUME TypeOK, UniqueSlots, NEW d, NEW p, NEW s \in Slots, Holds(s, d, p)
  PROVE  FirstHit(s, d, p)
<1>1. ASSUME NEW t \in Slots, t < s PROVE ~Holds(t, d, p)
  <2>1. s \in Int /\ t \in Int
    BY PageFileAssumption DEF Slots
  <2> QED BY <1>1, <2>1 DEF Holds, UniqueSlots, Valid
<1> QED BY <1>1 DEF FirstHit

-----------------------------------------------------------------------------
(* Type correctness *)

LEMMA TypeInit == Init => TypeOK
<1> SUFFICES ASSUME Init PROVE TypeOK
  OBVIOUS
<1> USE PageFileAssumption
<1>1. 0 \in Ticks /\ 1 \in Ticks
  BY DEF Ticks
<1>2. 0 \in Pids /\ 0 \in -1 .. MaxPid
  BY DEF Pids
<1>3. EmptySlot \in Slot
  BY <1>1, <1>2 DEF EmptySlot, Slot
<1>4. cache \in [Slots -> Slot]
  BY <1>3 DEF Init
<1>5. call \in Calls
  BY <1>2, CallType DEF Init, Rcs
<1>6. /\ page \in [Files -> [Pids -> Contents]]
      /\ size \in [Files -> Absent .. MaxPid + 1]
      /\ epid \in [Handles -> 0 .. MaxPid + 1]
  BY DEF Init, Absent
<1> QED BY <1>1, <1>4, <1>5, <1>6 DEF TypeOK, Init

(* One lemma per operation. *)
LEMMA OpenType ==
  ASSUME TypeOK, NEW h \in Handles, NEW f \in Files, NEW mode \in Modes,
         Open(h, f, mode)
  PROVE  TypeOK'
<1> USE PageFileAssumption
<1>1. 0 \in -1 .. MaxPid
  OBVIOUS
<1>2. call' \in Calls
  BY <1>1, CallType DEF Rcs, Open, OpenRefused, OpenStatFails, OpenOK, Refuse, Return
<1>4. CASE OpenRefused(h, f, mode)
  BY <1>2, <1>4 DEF TypeOK, OpenRefused, Refuse, disk, table, object, cached, wrong
<1>5. Created(f, mode) \in [Files -> Absent .. MaxPid + 1]
  BY DEF Created, TypeOK, Absent
<1>6. CASE OpenStatFails(h, f, mode)
  BY <1>2, <1>5, <1>6 DEF TypeOK, OpenStatFails, table, object, cached, wrong
<1>7. CASE OpenOK(h, f, mode)
  <2>1. size'[f] \in 0 .. MaxPid + 1
    BY <1>5, <1>7 DEF OpenOK, Absent
  <2> QED BY <1>2, <1>5, <1>7, <2>1 DEF TypeOK, OpenOK, cached, wrong
<1> QED BY <1>4, <1>6, <1>7 DEF Open

LEMMA CloseType ==
  ASSUME TypeOK, NEW h \in Handles, Close(h) \/ Destroy(h)
  PROVE  TypeOK'
<1> USE PageFileAssumption
<1>1. 0 \in -1 .. MaxPid /\ 0 \in 0 .. MaxPid + 1
  OBVIOUS
<1>2. call' \in Calls
  BY <1>1, CallType DEF Rcs, Close, CloseRefused, CloseFails, CloseOK, Destroy,
     Refuse, Return
<1>3. CASE CloseRefused(h)
  BY <1>2, <1>3 DEF TypeOK, CloseRefused, Refuse, disk, table, object, cached, wrong
<1>4. CASE CloseFails(h)
  <2>1. fd[h] \in Fds
    BY <1>4 DEF TypeOK, CloseFails
  <2>2. CachedFor(fd[h]) \subseteq Fds \X Pids
    BY <2>1, SlotType DEF CachedFor, Slot
  <2>3. /\ kernel' \in [Fds -> Files \cup {NoFile}]
        /\ writable' \in SUBSET Fds /\ foreign' \in SUBSET Fds
    BY <1>4 DEF TypeOK, CloseFails, Released
  <2> QED BY <1>2, <1>4, <2>2, <2>3 DEF TypeOK, CloseFails, disk, object, cached
<1>5. CASE CloseOK(h)
  <2>1. cache' \in [Slots -> Slot]
    BY <1>5, EvictedType DEF TypeOK, CloseOK
  <2>2. /\ kernel' \in [Fds -> Files \cup {NoFile}]
        /\ writable' \in SUBSET Fds /\ foreign' \in SUBSET Fds
        /\ suspect' \in SUBSET (Fds \X Pids)
    BY <1>5 DEF TypeOK, CloseOK, Released
  <2> QED BY <1>1, <1>2, <1>5, <2>1, <2>2 DEF TypeOK, CloseOK, disk, Detached
<1>6. CASE Destroy(h)
  BY <1>1, <1>2, <1>6 DEF TypeOK, Destroy, disk, table, cached, Detached
<1> QED BY <1>3, <1>4, <1>5, <1>6 DEF Close

LEMMA WriteType ==
  ASSUME TypeOK, NEW h \in Handles, NEW p \in -1 .. MaxPid, Write(h, p)
  PROVE  TypeOK'
<1> USE PageFileAssumption
<1>1. call' \in Calls
  <2>1. \E rc \in Rcs : Return("write", h, p, rc)
    BY DEF Rcs, Write, WriteRefused, WriteOK, Refuse
  <2> QED BY <2>1, CallType DEF Return
<1>2. CASE WriteRefused(h, p)
  BY <1>1, <1>2 DEF TypeOK, WriteRefused, Refuse, disk, table, object, cached, wrong
<1>3. ASSUME NEW c \in Contents, WriteOK(h, p, c)
      PROVE  TypeOK'
  <2>1. p \in Nat /\ SeekPage(p) \in Nat /\ SeekPage(p) <= p
    BY <1>3, SeekPageRange DEF WriteOK
  <2>2. page' \in [Files -> [Pids -> Contents]]
    <3>1. \A f \in Files : \A q : [page[f] EXCEPT ![q] = c] \in [Pids -> Contents]
      BY DEF TypeOK
    <3> QED BY <1>3, <3>1 DEF WriteOK, TypeOK
  <2> DEFINE q == SeekPage(p)
  <2>6. \A f \in Files : (IF q >= size[f] THEN q + 1 ELSE size[f]) \in Absent .. MaxPid + 1
    <3>1. q + 1 \in Absent .. MaxPid + 1
      BY <2>1 DEF Absent
    <3>2. \A f \in Files : size[f] \in Absent .. MaxPid + 1
      BY DEF TypeOK
    <3> QED BY <3>1, <3>2
  <2>3. size' \in [Files -> Absent .. MaxPid + 1]
    <3> HIDE DEF q
    <3>1. size' = [size EXCEPT ![kernel[fd[h]]] = IF q >= @ THEN q + 1 ELSE @]
      BY <1>3 DEF WriteOK, q
    <3> QED BY <2>6, <3>1 DEF TypeOK
  <2>4. epid' \in [Handles -> 0 .. MaxPid + 1]
    BY <1>3, <2>1 DEF WriteOK, EndPid, TypeOK
  <2>5. cache' \in [Slots -> Slot]
    BY <1>3, InvalidatedType DEF WriteOK, TypeOK
  <2> QED BY <1>1, <1>3, <2>2, <2>3, <2>4, <2>5 DEF WriteOK, TypeOK, table
<1> QED BY <1>2, <1>3 DEF Write

LEMMA ReadType ==
  ASSUME TypeOK, NEW h \in Handles, NEW p \in -1 .. MaxPid, Read(h, p)
  PROVE  TypeOK'
<1> USE PageFileAssumption
<1> DEFINE CallOK == call' \in Calls
<1>1. CASE ReadRefused(h, p)
  <2>1. CallOK
    BY <1>1, CallType DEF Rcs, ReadRefused, Refuse, Return
  <2> QED BY <1>1, <2>1 DEF TypeOK, ReadRefused, Refuse, disk, table, object, cached, wrong
<1>2. Tick \in Ticks
  BY TickType DEF TypeOK
<1>3. \A s \in Slots : cache[s] \in Slot
  BY DEF TypeOK
<1>4. CASE ReadHit(h, p)
  <2>1. PICK s \in Slots :
          /\ cache' = [cache EXCEPT ![s] = [@ EXCEPT !.lastAccessed = Tick]]
          /\ call' = Call("read", h, p, "OK", cache[s].buffer)
    BY <1>4 DEF ReadHit
  <2>2. [cache[s] EXCEPT !.lastAccessed = Tick] \in Slot /\ cache[s].buffer \in Contents
    BY <1>2, <1>3 DEF Slot
  <2>3. cache' \in [Slots -> Slot]
    BY <2>1, <2>2 DEF TypeOK
  <2>4. CallOK
    BY <2>1, <2>2, CallType DEF Rcs
  <2> QED BY <1>2, <1>4, <2>3, <2>4 DEF TypeOK, ReadHit, disk, table, object, wrong
<1>5. ASSUME 0 <= p, p < epid[h], SeekOK(h, p)
      PROVE  fd[h] \in Fds /\ p \in Pids
  BY <1>5 DEF SeekOK, IsOpen, Pids
<1>6. CASE ReadFails(h, p)
  <2>1. PICK s \in Slots :
          cache' = [cache EXCEPT ![s] = [fd |-> fd[h], pid |-> p, lastAccessed |-> Tick,
                                         buffer |-> cache[s].buffer]]
    BY <1>6 DEF ReadFails
  <2>2. [fd |-> fd[h], pid |-> p, lastAccessed |-> Tick, buffer |-> cache[s].buffer] \in Slot
    BY <1>2, <1>3, <1>5, <1>6 DEF Slot, ReadFails
  <2>3. cache' \in [Slots -> Slot]
    BY <2>1, <2>2 DEF TypeOK
  <2>4. CallOK
    BY <1>6, CallType DEF Rcs, ReadFails, Return
  <2>5. suspect' \in SUBSET (Fds \X Pids)
    BY <1>5, <1>6 DEF ReadFails, TypeOK
  <2> QED BY <1>2, <1>6, <2>3, <2>4, <2>5 DEF TypeOK, ReadFails, disk, table, object
<1>7. CASE ReadMiss(h, p)
  <2> DEFINE Got(s) == Fetched(kernel[fd[h]], SeekPage(p), cache[s].buffer)
  <2>1. PICK s \in Slots :
          /\ cache' = [cache EXCEPT ![s] = [fd |-> fd[h], pid |-> p,
                                            lastAccessed |-> Tick, buffer |-> Got(s)]]
          /\ call' = Call("read", h, p, "OK", Got(s))
    BY <1>7 DEF ReadMiss
  <2>2. p \in Pids /\ SeekPage(p) \in Pids
    BY <1>5, <1>7, SeekPageRange DEF ReadMiss, Pids
  <2>3. kernel[fd[h]] \in Files /\ cache[s].buffer \in Contents
    BY <1>3, <1>7 DEF ReadMiss, SeekOK, IsOpen, TypeOK, Slot
  <2>4. page[kernel[fd[h]]][SeekPage(p)] \in Contents
    BY <2>2, <2>3, PageType
  <2> HIDE DEF Got
  <2>8. Got(s) \in Contents
    BY <2>3, <2>4 DEF Fetched, Got
  <2>5. [fd |-> fd[h], pid |-> p, lastAccessed |-> Tick, buffer |-> Got(s)] \in Slot
    BY <1>2, <1>5, <1>7, <2>8 DEF Slot, ReadMiss
  <2>6. cache' \in [Slots -> Slot]
    BY <2>1, <2>5 DEF TypeOK
  <2>7. CallOK
    BY <2>1, <2>8, CallType DEF Rcs
  <2> QED BY <1>2, <1>7, <2>6, <2>7 DEF TypeOK, ReadMiss, disk, table, object, wrong
<1> QED BY <1>1, <1>4, <1>6, <1>7 DEF Read

LEMMA RestartType == TypeOK /\ Restart => TypeOK'
<1> SUFFICES ASSUME TypeOK, Restart PROVE TypeOK'
  OBVIOUS
<1> USE PageFileAssumption
<1>1. 0 \in Ticks /\ 1 \in Ticks /\ 0 \in Pids /\ 0 \in -1 .. MaxPid /\ 0 \in 0 .. MaxPid + 1
  BY DEF Ticks, Pids
<1>2. cache' \in [Slots -> Slot]
  BY <1>1 DEF EmptySlot, Slot, Restart
<1>3. call' \in Calls
  BY <1>1, CallType DEF Restart, Rcs
<1> QED BY <1>1, <1>2, <1>3 DEF TypeOK, Restart, disk

LEMMA TypeStep == TypeOK /\ [Next]_vars => TypeOK'
<1>1. TypeOK /\ Next => TypeOK'
  BY OpenType, CloseType, WriteType, ReadType, RestartType DEF Next
<1>2. TypeOK /\ UNCHANGED vars => TypeOK'
  BY DEF TypeOK, vars
<1> QED BY <1>1, <1>2

(* Whatever is called and whatever fails, every variable of PageFile keeps *)
(* its type, for any number of objects, files, descriptors and slots.      *)
THEOREM TypeCorrect == Spec => []TypeOK
<1> QED BY TypeInit, TypeStep, PTL DEF Spec

-----------------------------------------------------------------------------
(* No page is cached twice.  Slots are only ever emptied, or relabelled    *)
(* with a page that no slot holds.                                         *)

LEMMA UniqueInit == Init => UniqueSlots
BY DEF Init, UniqueSlots, Valid, EmptySlot

(* Emptying some slots. *)
LEMMA UniqueShrinks ==
  ASSUME UniqueSlots,
         \A s \in Slots : Valid(s)' =>
            /\ Valid(s)
            /\ cache'[s].fd = cache[s].fd
            /\ cache'[s].pid = cache[s].pid
  PROVE  UniqueSlots'
BY DEF UniqueSlots, Valid

(* Relabelling one slot. *)
LEMMA UniqueRelabelled ==
  ASSUME TypeOK, UniqueSlots, NEW s \in Slots, NEW d, NEW p, NEW t, NEW c,
         ~InCache(d, p),
         cache' = [cache EXCEPT ![s] = [fd |-> d, pid |-> p, lastAccessed |-> t,
                                        buffer |-> c]]
  PROVE  UniqueSlots'
<1> SUFFICES ASSUME NEW u \in Slots, NEW v \in Slots, Valid(u)', Valid(v)',
                    cache'[u].fd = cache'[v].fd, cache'[u].pid = cache'[v].pid
             PROVE  u = v
  BY DEF UniqueSlots
<1>1. \A w \in Slots : cache'[w] = IF w = s
                                   THEN [fd |-> d, pid |-> p, lastAccessed |-> t, buffer |-> c]
                                   ELSE cache[w]
  BY DEF TypeOK
<1>2. \A w \in Slots \ {s} : Valid(w)' => cache'[w].fd # d \/ cache'[w].pid # p
  BY <1>1 DEF InCache, Holds, Valid
<1> QED BY <1>1, <1>2 DEF UniqueSlots, Valid

LEMMA UniqueStep == TypeOK /\ UniqueSlots /\ [Next]_vars => UniqueSlots'
<1> SUFFICES ASSUME TypeOK, UniqueSlots, [Next]_vars PROVE UniqueSlots'
  OBVIOUS
<1>1. CASE UNCHANGED cache
  BY <1>1 DEF UniqueSlots, Valid
<1>2. ASSUME NEW h \in Handles, CloseOK(h) PROVE UniqueSlots'
  <2>1. cache' = Evicted(fd[h])
    BY <1>2 DEF CloseOK
  <2> QED BY <2>1, EvictedKeeps, UniqueShrinks DEF Valid
<1>3. ASSUME NEW h \in Handles, NEW p \in -1 .. MaxPid, NEW c \in Contents, WriteOK(h, p, c)
      PROVE  UniqueSlots'
  <2>1. cache' = Invalidated(fd[h], p)
    BY <1>3 DEF WriteOK
  <2> QED BY <2>1, InvalidatedKeeps, UniqueShrinks DEF Valid
<1>4. ASSUME NEW h \in Handles, NEW p \in -1 .. MaxPid, ReadHit(h, p)
      PROVE  UniqueSlots'
  <2>1. PICK s \in Slots :
          /\ FirstHit(s, fd[h], p)
          /\ cache' = [cache EXCEPT ![s] = [@ EXCEPT !.lastAccessed = Tick]]
    BY <1>4 DEF ReadHit
  <2>2. Valid(s)
    BY <2>1 DEF FirstHit, Holds, Valid
  <2>3. \A w \in Slots : /\ cache'[w].fd = cache[w].fd
                         /\ cache'[w].pid = cache[w].pid
                         /\ w # s => cache'[w] = cache[w]
    BY <2>1 DEF TypeOK, Slot
  <2> QED BY <2>2, <2>3, UniqueShrinks DEF Valid
<1>5. ASSUME NEW h \in Handles, NEW p \in -1 .. MaxPid, ReadFails(h, p) \/ ReadMiss(h, p)
      PROVE  UniqueSlots'
  <2>1. ~InCache(fd[h], p)
    BY <1>5 DEF ReadFails, ReadMiss
  <2>2. \E s \in Slots : \E c : cache' = [cache EXCEPT ![s] =
          [fd |-> fd[h], pid |-> p, lastAccessed |-> Tick, buffer |-> c]]
    BY <1>5 DEF ReadFails, ReadMiss
  <2> QED BY <2>1, <2>2, UniqueRelabelled
<1>6. CASE Restart
  BY <1>6 DEF Restart, UniqueSlots, Valid, EmptySlot
<1>7. ASSUME NEW h \in Handles, NEW f \in Files, NEW mode \in Modes, Open(h, f, mode)
      PROVE  UNCHANGED cache
  BY <1>7 DEF Open, OpenRefused, OpenStatFails, OpenOK, Refuse, cached
<1>8. ASSUME NEW h \in Handles, Close(h) \/ Destroy(h), ~CloseOK(h)
      PROVE  UNCHANGED cache
  BY <1>8 DEF Close, CloseRefused, CloseFails, Destroy, Refuse, cached
<1>9. ASSUME NEW h \in Handles, NEW p \in -1 .. MaxPid, Write(h, p),
             \A c \in Contents : ~WriteOK(h, p, c)
      PROVE  UNCHANGED cache
  BY <1>9 DEF Write, WriteRefused, Refuse, cached
<1>10. ASSUME NEW h \in Handles, NEW p \in -1 .. MaxPid, Read(h, p),
             ~ReadHit(h, p), ~ReadFails(h, p), ~ReadMiss(h, p)
       PROVE  UNCHANGED cache
  BY <1>10 DEF Read, ReadRefused, Refuse, cached
<1>11. CASE UNCHANGED vars
  BY <1>1, <1>11 DEF vars
<1> QED BY <1>1, <1>2, <1>3, <1>4, <1>5, <1>6, <1>7, <1>8, <1>9, <1>10, <1>11 DEF Next

(* Whatever fails, no page of a descriptor is ever in two slots, so that   *)
(* the loop of write() that stops at the first slot empties all it must.   *)
THEOREM NoPageCachedTwice == Spec => []UniqueSlots
<1> QED BY TypeCorrect, UniqueInit, UniqueStep, PTL DEF Spec

-----------------------------------------------------------------------------
(* Coherence.  The invariant is inductive only as a whole: a slot filled   *)
(* by read() is right because endPid() is, endPid() because each object    *)
(* has its own descriptor, a reused descriptor has no trusted slots        *)
(* because those belong to open descriptors.                               *)

(* What the kernel forgets of a descriptor that is closed *)
FreeIsClean == \A d \in writable \cup foreign : kernel[d] # NoFile

CacheInv == /\ TypeOK
            /\ OwnDescriptor
            /\ UniqueSlots
            /\ CachedOpen
            /\ CacheCoherent
            /\ EndPidExact
            /\ FreeIsClean

LEMMA CacheInit == Init => CacheInv
<1> SUFFICES ASSUME Init PROVE CacheInv
  OBVIOUS
<1>1. TypeOK /\ UniqueSlots
  BY TypeInit, UniqueInit
<1>2. \A s \in Slots : ~Trusted(s)
  BY DEF Init, EmptySlot, Trusted, Valid
<1>3. \A h \in Handles : ~(fd[h] > 0) /\ epid[h] = 0
  BY DEF Init
<1>4. FreeIsClean
  BY DEF Init, FreeIsClean
<1> QED BY <1>1, <1>2, <1>3, <1>4
        DEF CacheInv, OwnDescriptor, CachedOpen, CacheCoherent, EndPidExact, Live

(* An open object is open on a file that exists. *)
LEMMA OpenObject ==
  ASSUME CacheInv, NEW h \in Live
  PROVE  /\ h \in Handles /\ fd[h] > 0 /\ h \notin doomed
         /\ fd[h] \in Fds
         /\ kernel[fd[h]] \in Files
         /\ kernel[fd[h]] # NoFile
         /\ size[kernel[fd[h]]] \in 0 .. MaxPid + 1
         /\ epid[h] \in 0 .. MaxPid + 1
         /\ epid[h] <= size[kernel[fd[h]]]
         /\ fd[h] \notin foreign => epid[h] = size[kernel[fd[h]]]
<1> USE PageFileAssumption
<1>0. h \in Handles /\ fd[h] > 0 /\ h \notin doomed
  BY DEF Live
<1>1. fd[h] \in Fds /\ kernel[fd[h]] \in Files /\ kernel[fd[h]] # NoFile
  BY <1>0 DEF CacheInv, OwnDescriptor, IsOpen, TypeOK
<1>2. size[kernel[fd[h]]] \in Absent .. MaxPid + 1 /\ epid[h] \in 0 .. MaxPid + 1
  BY <1>0, <1>1 DEF CacheInv, TypeOK
<1>3. /\ epid[h] <= size[kernel[fd[h]]]
      /\ fd[h] \notin foreign => epid[h] = size[kernel[fd[h]]]
  BY DEF CacheInv, EndPidExact
<1> QED BY <1>0, <1>1, <1>2, <1>3 DEF Absent

(* A slot that can be trusted belongs to a file that exists. *)
LEMMA UsedSlot ==
  ASSUME CacheInv, NEW s \in Slots, Trusted(s)
  PROVE  /\ cache[s].fd \in Fds
         /\ kernel[cache[s].fd] \in Files
         /\ kernel[cache[s].fd] # NoFile
         /\ cache[s].pid \in Pids
         /\ size[kernel[cache[s].fd]] \in Absent .. MaxPid + 1
         /\ cache[s].pid < size[kernel[cache[s].fd]]
<1>1. IsOpen(cache[s].fd) /\ cache[s].pid < size[kernel[cache[s].fd]]
  BY DEF CacheInv, CachedOpen
<1>2. cache[s].pid \in Pids
  BY SlotType DEF CacheInv, Slot
<1> QED BY <1>1, <1>2 DEF IsOpen, CacheInv, TypeOK

(* Steps that change neither descriptors, pages nor slots. *)
LEMMA QuietStep ==
  ASSUME CacheInv, TypeOK', UNCHANGED <<disk, table, object, cached, foreign, wrong>>
  PROVE  CacheInv'
BY DEF CacheInv, OwnDescriptor, UniqueSlots, CachedOpen, CacheCoherent, EndPidExact, FreeIsClean,
   Live, Trusted, Valid, IsOpen, disk, table, object, cached, wrong

(* Creating an empty file disturbs nobody. *)
LEMMA CreateStep ==
  ASSUME CacheInv, TypeOK', NEW f \in Files, NEW mode,
         size' = Created(f, mode),
         UNCHANGED <<page, table, object, cached, foreign, wrong>>
  PROVE  CacheInv'
<1> USE PageFileAssumption
<1>1. \A g \in Files : size[g] # Absent => size'[g] = size[g]
  BY DEF Created, CacheInv, TypeOK
<1>2. \A s \in Slots : Trusted(s) =>
        size'[kernel[cache[s].fd]] = size[kernel[cache[s].fd]]
  <2> SUFFICES ASSUME NEW s \in Slots, Trusted(s)
               PROVE  size[kernel[cache[s].fd]] # Absent
    BY <1>1, UsedSlot
  <2> QED BY UsedSlot DEF Absent, Pids
<1>3. \A h \in Live : size'[kernel[fd[h]]] = size[kernel[fd[h]]]
  <2> SUFFICES ASSUME NEW h \in Live
               PROVE  size[kernel[fd[h]]] # Absent
    BY <1>1, OpenObject
  <2> QED BY OpenObject DEF Absent
<1>4. OwnDescriptor' /\ UniqueSlots' /\ CacheCoherent' /\ FreeIsClean'
  BY DEF CacheInv, OwnDescriptor, UniqueSlots, CacheCoherent, FreeIsClean, Live, Trusted, Valid,
         IsOpen, table, object, cached, wrong
<1>5. CachedOpen'
  BY <1>2 DEF CacheInv, CachedOpen, Trusted, Valid, IsOpen, table, cached, wrong
<1>6. EndPidExact'
  <2>1. \A h \in Live : /\ epid[h] <= size'[kernel[fd[h]]]
                        /\ fd[h] \notin foreign => epid[h] = size'[kernel[fd[h]]]
    BY <1>3 DEF CacheInv, EndPidExact
  <2>2. Live' = Live
    BY DEF Live, object, wrong
  <2> QED BY <2>1, <2>2 DEF CacheInv, EndPidExact, table, object
<1> QED BY <1>4, <1>5, <1>6 DEF CacheInv

LEMMA OpenCache ==
  ASSUME CacheInv, NEW h \in Handles, NEW f \in Files, NEW mode \in Modes,
         Open(h, f, mode), h \notin doomed
  PROVE  CacheInv'
<1> USE PageFileAssumption
<1>1. TypeOK'
  BY OpenType DEF CacheInv
<1>2. CASE OpenRefused(h, f, mode)
  BY <1>1, <1>2, QuietStep DEF OpenRefused, Refuse
<1>3. CASE OpenStatFails(h, f, mode)
  BY <1>1, <1>3, CreateStep DEF OpenStatFails
<1>4. CASE OpenOK(h, f, mode)
  <2>1. PICK d \in Fds :
          /\ LowestFree(d)
          /\ kernel' = [kernel EXCEPT ![d] = f]
          /\ writable' = IF mode = "w" THEN writable \cup {d} ELSE writable
          /\ fd' = [fd EXCEPT ![h] = d]
    BY <1>4 DEF OpenOK
  <2>2. /\ size' = Created(f, mode)
        /\ epid' = [epid EXCEPT ![h] = size'[f]]
        /\ UNCHANGED <<page, cache, foreign, suspect, doomed>>
    BY <1>4 DEF OpenOK, cached, wrong
  <2>3. kernel[d] = NoFile
    BY <2>1 DEF LowestFree
  <2>4. \A e \in Fds : kernel'[e] = IF e = d THEN f ELSE kernel[e]
    BY <2>1 DEF CacheInv, TypeOK
  <2>5. \A g \in Handles : /\ fd'[g] = IF g = h THEN d ELSE fd[g]
                           /\ epid'[g] = IF g = h THEN size'[f] ELSE epid[g]
    BY <2>1, <2>2 DEF CacheInv, TypeOK
  <2>6. \A g \in Files : size[g] # Absent => size'[g] = size[g]
    BY <2>2 DEF Created, CacheInv, TypeOK
  <2>7. \A g \in Live :
          /\ fd[g] # d
          /\ fd[g] \in Fds
          /\ size'[kernel[fd[g]]] = size[kernel[fd[g]]]
    <3> SUFFICES ASSUME NEW g \in Live
                 PROVE  fd[g] # d /\ fd[g] \in Fds /\ size[kernel[fd[g]]] # Absent
      BY <2>6, OpenObject
    <3> QED BY <2>3, OpenObject DEF Absent
  <2>8. \A s \in Slots : Trusted(s) =>
          /\ cache[s].fd # d
          /\ cache[s].fd \in Fds
          /\ size'[kernel[cache[s].fd]] = size[kernel[cache[s].fd]]
    <3> SUFFICES ASSUME NEW s \in Slots, Trusted(s)
                 PROVE  /\ cache[s].fd # d
                        /\ cache[s].fd \in Fds
                        /\ size[kernel[cache[s].fd]] # Absent
      BY <2>6, UsedSlot
    <3> QED BY <2>3, UsedSlot DEF Absent, Pids
  <2>14. d > 0 /\ f # NoFile
    OBVIOUS
  <2>15. \A g \in Handles : /\ g \in Live' => g = h \/ g \in Live
                            /\ g # h /\ g \in Live => g \in Live'
    BY <2>2, <2>5 DEF Live
  <2>9. OwnDescriptor'
    <3>2. \A g \in Live' : IsOpen(fd[g])'
      <4> SUFFICES ASSUME NEW g \in Live' PROVE fd'[g] \in Fds /\ kernel'[fd'[g]] # NoFile
        BY DEF IsOpen
      <4>0. g \in Handles
        BY DEF Live
      <4>1. CASE g = h
        BY <4>1, <2>4, <2>5, <2>14
      <4>2. CASE g # h
        <5>1. g \in Live
          BY <4>0, <4>2, <2>15
        <5> QED BY <4>0, <4>2, <5>1, <2>4, <2>5, <2>7, OpenObject
      <4> QED BY <4>1, <4>2
    <3>3. \A g, k \in Live' : fd'[g] = fd'[k] => g = k
      <4> SUFFICES ASSUME NEW g \in Live', NEW k \in Live', fd'[g] = fd'[k] PROVE g = k
        OBVIOUS
      <4>0. g \in Handles /\ k \in Handles
        BY DEF Live
      <4>1. (g = h \/ g \in Live) /\ (k = h \/ k \in Live)
        BY <4>0, <2>15
      <4>2. CASE g # h /\ k # h
        BY <4>0, <4>1, <4>2, <2>5 DEF CacheInv, OwnDescriptor
      <4>3. CASE g = h \/ k = h
        BY <4>0, <4>1, <4>3, <2>5, <2>7
      <4> QED BY <4>2, <4>3
    <3> QED BY <3>2, <3>3 DEF OwnDescriptor
  <2>10. UniqueSlots'
    BY <2>2 DEF CacheInv, UniqueSlots, Valid
  <2>16. \A s \in Slots : Trusted(s)' <=> Trusted(s)
    BY <2>2 DEF Trusted, Valid
  <2>11. CachedOpen'
    BY <2>2, <2>4, <2>8, <2>16 DEF CacheInv, CachedOpen, IsOpen
  <2>12. CacheCoherent'
    BY <2>2, <2>4, <2>8, <2>16 DEF CacheInv, CacheCoherent
  <2>13. EndPidExact'
    <3>1. ASSUME NEW g \in Live'
          PROVE  /\ epid'[g] <= size'[kernel'[fd'[g]]]
                 /\ fd'[g] \notin foreign' => epid'[g] = size'[kernel'[fd'[g]]]
      <4>0. g \in Handles
        BY <3>1 DEF Live
      <4>1. CASE g = h
        <5>1. size'[f] \in Int
          BY <1>1 DEF TypeOK, Absent
        <5> QED BY <2>4, <2>5, <4>1, <5>1
      <4>2. CASE g # h
        <5>1. g \in Live
          BY <4>0, <4>2, <3>1, <2>15
        <5>2. /\ epid[g] <= size[kernel[fd[g]]]
              /\ fd[g] \notin foreign => epid[g] = size[kernel[fd[g]]]
          BY <5>1, OpenObject
        <5>3. fd[g] \in Fds /\ fd[g] # d /\ size'[kernel[fd[g]]] = size[kernel[fd[g]]]
          BY <5>1, <2>7
        <5>4. fd'[g] = fd[g] /\ epid'[g] = epid[g] /\ kernel'[fd'[g]] = kernel[fd[g]]
          BY <4>0, <4>2, <5>3, <2>4, <2>5
        <5> QED BY <5>2, <5>3, <5>4, <2>2
      <4> QED BY <4>1, <4>2
    <3>2. ASSUME NEW g \in Handles, ~(fd'[g] > 0) PROVE epid'[g] = 0
      <4>1. g # h
        BY <3>2, <2>5, <2>14
      <4> QED BY <3>2, <4>1, <2>5 DEF CacheInv, EndPidExact
    <3> QED BY <3>1, <3>2 DEF EndPidExact
  <2>17. FreeIsClean'
    <3>1. \A e \in writable' \cup foreign' : e = d \/ e \in writable \cup foreign
      BY <2>1, <2>2
    <3>2. \A e \in writable \cup foreign : kernel[e] # NoFile /\ e \in Fds
      BY DEF CacheInv, FreeIsClean, TypeOK
    <3> QED BY <3>1, <3>2, <2>4, <2>14 DEF FreeIsClean
  <2> QED BY <1>1, <2>9, <2>10, <2>11, <2>12, <2>13, <2>17 DEF CacheInv
<1> QED BY <1>2, <1>3, <1>4 DEF Open

(* What closing a descriptor leaves, whether ::close reports an error or   *)
(* not: an object lets go of it, and its slots go or are not trusted.      *)
LEMMA ReleaseCache ==
  ASSUME CacheInv, TypeOK', UniqueSlots', NEW h \in Live, Released(fd[h]),
         Live' = Live \ {h}, UNCHANGED disk,
         \A g \in Handles : \/ fd'[g] = fd[g] /\ epid'[g] = epid[g]
                            \/ g = h /\ (fd'[h] > 0 \/ epid'[h] = 0),
         \A s \in Slots : Trusted(s)' => /\ cache'[s] = cache[s]
                                         /\ Trusted(s)
                                         /\ cache[s].fd # fd[h]
  PROVE  CacheInv'
<1> USE PageFileAssumption
<1> DEFINE d == fd[h]
<1>1. /\ d \in Fds
      /\ kernel' = [kernel EXCEPT ![d] = NoFile]
      /\ writable' = writable \ {d}
      /\ foreign' = foreign \ {d}
  BY OpenObject DEF Released
<1>2. \A g \in Live' : /\ g \in Live /\ g \in Handles /\ fd'[g] = fd[g] /\ epid'[g] = epid[g]
                       /\ fd[g] # d /\ fd[g] \in Fds
  BY OpenObject DEF CacheInv, OwnDescriptor
<1> HIDE DEF d
<1>3. \A e \in Fds : e # d => kernel'[e] = kernel[e]
  BY <1>1 DEF CacheInv, TypeOK
<1>4. OwnDescriptor'
  <2>1. \A g \in Live : fd[g] \in Fds /\ kernel[fd[g]] # NoFile
    BY OpenObject
  <2>2. \A g \in Live' : fd'[g] \in Fds /\ kernel'[fd'[g]] # NoFile
    BY <1>2, <1>3, <2>1
  <2>3. \A g, k \in Live' : fd'[g] = fd'[k] => g = k
    BY <1>2 DEF CacheInv, OwnDescriptor
  <2> QED BY <2>2, <2>3 DEF OwnDescriptor, IsOpen
<1>5. \A s \in Slots : Trusted(s)' => cache[s].fd \in Fds
  BY UsedSlot
<1>6. CachedOpen'
  BY <1>3, <1>5 DEF CacheInv, CachedOpen, IsOpen, disk, d
<1>7. CacheCoherent'
  BY <1>1, <1>3, <1>5 DEF CacheInv, CacheCoherent, disk, d
<1>8. EndPidExact'
  <2>1. ASSUME NEW g \in Live'
        PROVE  /\ epid'[g] <= size'[kernel'[fd'[g]]]
               /\ fd'[g] \notin foreign' => epid'[g] = size'[kernel'[fd'[g]]]
    <3>1. g \in Live /\ fd'[g] = fd[g] /\ epid'[g] = epid[g] /\ fd[g] # d /\ fd[g] \in Fds
      BY <1>2, <2>1
    <3>3. kernel'[fd'[g]] = kernel[fd[g]]
      BY <3>1, <1>3
    <3>4. fd'[g] \notin foreign' => fd[g] \notin foreign
      BY <3>1, <1>1
    <3> QED BY <3>1, <3>3, <3>4, OpenObject DEF disk
  <2>2. ASSUME NEW g \in Handles, ~(fd'[g] > 0) PROVE epid'[g] = 0
    BY <2>2 DEF CacheInv, EndPidExact
  <2> QED BY <2>1, <2>2 DEF EndPidExact
<1>9. FreeIsClean'
  <2>1. \A e \in writable \cup foreign : kernel[e] # NoFile /\ e \in Fds
    BY DEF CacheInv, FreeIsClean, TypeOK
  <2> QED BY <2>1, <1>1, <1>3 DEF FreeIsClean
<1> QED BY <1>4, <1>6, <1>7, <1>8, <1>9 DEF CacheInv

LEMMA CloseCache ==
  ASSUME CacheInv, NEW h \in Handles, Close(h), h \notin doomed
  PROVE  CacheInv'
<1> USE PageFileAssumption
<1>1. TypeOK'
  BY CloseType DEF CacheInv
<1>2. UniqueSlots'
  BY UniqueStep DEF CacheInv, Next
<1>3. CASE CloseRefused(h)
  BY <1>1, <1>3, QuietStep DEF CloseRefused, Refuse
<1>4. CASE CloseFails(h)
  <2>1. /\ h \in Live /\ Released(fd[h])
        /\ suspect' = suspect \cup CachedFor(fd[h]) /\ doomed' = doomed \cup {h}
        /\ UNCHANGED <<disk, fd, epid, cache>>
    BY <1>4 DEF CloseFails, Live, object, cached
  <2>2. Live' = Live \ {h}
    BY <2>1 DEF Live
  <2>3. ASSUME NEW s \in Slots, Trusted(s)' PROVE Trusted(s) /\ cache[s].fd # fd[h]
    <3>1. Valid(s) /\ <<cache[s].fd, cache[s].pid>> \notin suspect'
      BY <2>1, <2>3 DEF Trusted, Valid
    <3>2. cache[s].fd = fd[h] => <<cache[s].fd, cache[s].pid>> \in CachedFor(fd[h])
      BY <3>1 DEF Valid, CachedFor
    <3> QED BY <3>1, <3>2, <2>1 DEF Trusted
  <2>4. \A g \in Handles : \/ fd'[g] = fd[g] /\ epid'[g] = epid[g]
                           \/ g = h /\ (fd'[h] > 0 \/ epid'[h] = 0)
    BY <2>1
  <2>5. \A s \in Slots : Trusted(s)' => cache'[s] = cache[s] /\ Trusted(s) /\ cache[s].fd # fd[h]
    BY <2>1, <2>3
  <2> QED BY <1>1, <1>2, <2>1, <2>2, <2>4, <2>5, ReleaseCache
<1>5. CASE CloseOK(h)
  <2>1. /\ h \in Live /\ Released(fd[h])
        /\ cache' = Evicted(fd[h])
        /\ fd' = [fd EXCEPT ![h] = -1]
        /\ epid' = [epid EXCEPT ![h] = 0]
        /\ suspect' = suspect \ ({fd[h]} \X Pids)
        /\ UNCHANGED <<disk, doomed>>
    BY <1>5 DEF CloseOK, Live, Detached
  <2>2. \A g \in Handles : /\ fd'[g] = IF g = h THEN -1 ELSE fd[g]
                           /\ epid'[g] = IF g = h THEN 0 ELSE epid[g]
    BY <2>1 DEF CacheInv, TypeOK
  <2>3. Live' = Live \ {h}
    BY <2>1, <2>2 DEF Live
  <2>4. ASSUME NEW s \in Slots, Trusted(s)'
        PROVE  cache'[s] = cache[s] /\ Trusted(s) /\ cache[s].fd # fd[h]
    <3>1. cache'[s] = cache[s] /\ Valid(s) /\ cache[s].fd # fd[h]
      BY <2>1, <2>4, EvictedKeeps DEF Trusted, Valid, CacheInv
    <3>2. <<cache[s].fd, cache[s].pid>> \notin suspect'
      BY <2>4, <3>1 DEF Trusted
    <3> QED BY <3>1, <3>2, <2>1 DEF Trusted
  <2>5. \A g \in Handles : \/ fd'[g] = fd[g] /\ epid'[g] = epid[g]
                           \/ g = h /\ (fd'[h] > 0 \/ epid'[h] = 0)
    BY <2>2
  <2> QED BY <1>1, <1>2, <2>1, <2>3, <2>4, <2>5, ReleaseCache
<1> QED BY <1>3, <1>4, <1>5 DEF Close

LEMMA DestroyCache ==
  ASSUME CacheInv, NEW h \in Handles, Destroy(h)
  PROVE  CacheInv'
<1> USE PageFileAssumption
<1>1. TypeOK' /\ UniqueSlots'
  BY CloseType, UniqueStep DEF CacheInv, Next
<1>2. /\ fd' = [fd EXCEPT ![h] = -1]
      /\ epid' = [epid EXCEPT ![h] = 0]
      /\ doomed' = doomed \ {h}
      /\ UNCHANGED <<page, size, kernel, writable, cache, foreign, suspect>>
  BY DEF Destroy, disk, table, cached, Detached
<1>3. \A g \in Handles : /\ fd'[g] = IF g = h THEN -1 ELSE fd[g]
                         /\ epid'[g] = IF g = h THEN 0 ELSE epid[g]
  BY <1>2 DEF CacheInv, TypeOK
<1>4. \A g \in Live' : g \in Live /\ fd'[g] = fd[g] /\ epid'[g] = epid[g]
  BY <1>2, <1>3 DEF Live
<1>5. OwnDescriptor'
  BY <1>2, <1>4 DEF CacheInv, OwnDescriptor, IsOpen
<1>6. EndPidExact'
  BY <1>2, <1>3, <1>4 DEF CacheInv, EndPidExact
<1>7. CachedOpen' /\ CacheCoherent' /\ FreeIsClean'
  BY <1>2 DEF CacheInv, CachedOpen, CacheCoherent, FreeIsClean, Trusted, Valid, IsOpen
<1> QED BY <1>1, <1>5, <1>6, <1>7 DEF CacheInv

LEMMA WriteCache ==
  ASSUME CacheInv, OffsetsFit, NEW h \in Handles, NEW p \in -1 .. MaxPid, Write(h, p),
         h \notin doomed
  PROVE  CacheInv'
<1> USE PageFileAssumption
<1>1. TypeOK'
  BY WriteType DEF CacheInv
<1>2. UniqueSlots'
  BY UniqueStep DEF CacheInv, Next
<1>3. CASE WriteRefused(h, p)
  BY <1>1, <1>3, QuietStep DEF WriteRefused, Refuse
<1>4. ASSUME NEW c \in Contents, WriteOK(h, p, c)
      PROVE  CacheInv'
  <2> DEFINE d == fd[h]
             f == kernel[d]
  <2>1. p \in Nat /\ SeekPage(p) = p
    BY <1>4, SeekPageExact DEF WriteOK, OffsetsFit
  <2>2. /\ d \in Fds
        /\ f \in Files
        /\ page' = [page EXCEPT ![f] = [@ EXCEPT ![p] = c]]
        /\ size' = [size EXCEPT ![f] = IF p >= @ THEN p + 1 ELSE @]
        /\ cache' = Invalidated(d, p)
        /\ foreign' = foreign \cup {e \in Fds \ {d} : kernel[e] = f}
        /\ epid' = [epid EXCEPT ![h] = IF p >= @ THEN p + 1 ELSE @]
        /\ suspect' = suspect \ {<<d, p>>}
        /\ UNCHANGED <<kernel, writable, fd, doomed>>
    BY <1>4, <2>1 DEF WriteOK, EndPid, SeekOK, IsOpen, CacheInv, TypeOK, table
  <2> HIDE DEF d, f
  <2>3. \A g \in Files : size[g] \in Int
    BY DEF CacheInv, TypeOK, Absent
  <2>4. \A g \in Files : size'[g] = IF g = f /\ p >= size[g] THEN p + 1 ELSE size[g]
    BY <2>2 DEF CacheInv, TypeOK
  <2>5. \A g \in Files, q \in Pids : g # f \/ q # p => page'[g][q] = page[g][q]
    BY <2>2 DEF CacheInv, TypeOK
  <2>11. h \in Live /\ Live' = Live
    BY <2>2, OpenPositive, PageFileAssumption DEF Live, d
  <2>6. \A s \in Slots : Trusted(s)' => /\ cache'[s] = cache[s]
                                        /\ Trusted(s)
                                        /\ cache[s].fd = d => cache[s].pid # p
                                        /\ cache[s].fd \in Fds
                                        /\ kernel[cache[s].fd] \in Files
                                        /\ cache[s].pid \in Pids
    <3> SUFFICES ASSUME NEW s \in Slots, Trusted(s)'
                 PROVE  /\ cache'[s] = cache[s]
                        /\ Trusted(s)
                        /\ cache[s].fd = d => cache[s].pid # p
                        /\ cache[s].fd \in Fds
                        /\ kernel[cache[s].fd] \in Files
                        /\ cache[s].pid \in Pids
      OBVIOUS
    <3>1. cache'[s] = cache[s] /\ Valid(s) /\ ~FirstHit(s, d, p)
      BY <2>2, InvalidatedKeeps DEF Trusted, Valid, CacheInv
    <3>2. ~Holds(s, d, p)
      BY <3>1, InvalidatedMisses DEF CacheInv
    <3>3. cache[s].fd # d \/ cache[s].pid # p
      BY <3>1, <3>2 DEF Holds, Valid
    <3>4. Trusted(s)
      BY <2>2, <3>1, <3>3 DEF Trusted
    <3> QED BY <3>1, <3>3, <3>4, UsedSlot
  <2>7. OwnDescriptor'
    BY <2>2, <2>11 DEF CacheInv, OwnDescriptor, IsOpen
  <2>8. CachedOpen'
    <3> SUFFICES ASSUME NEW s \in Slots, Trusted(s)'
                 PROVE  IsOpen(cache[s].fd)' /\ cache[s].pid < size'[kernel[cache[s].fd]]
      BY <2>2, <2>6 DEF CachedOpen
    <3>1. IsOpen(cache[s].fd) /\ cache[s].pid < size[kernel[cache[s].fd]]
      BY <2>6 DEF CacheInv, CachedOpen
    <3>2. IsOpen(cache[s].fd)'
      BY <2>2, <2>6, <3>1 DEF IsOpen
    <3>3. cache[s].pid \in Int
      BY <2>6 DEF Pids
    <3> QED BY <2>1, <2>3, <2>4, <2>6, <3>1, <3>2, <3>3
  <2>9. CacheCoherent'
    <3> SUFFICES ASSUME NEW s \in Slots, Trusted(s)', cache'[s].fd \notin foreign'
                 PROVE  cache[s].buffer = page'[kernel[cache[s].fd]][cache[s].pid]
      BY <2>2, <2>6 DEF CacheCoherent
    <3>1. cache[s].buffer = page[kernel[cache[s].fd]][cache[s].pid]
      BY <2>2, <2>6 DEF CacheInv, CacheCoherent
    <3>2. kernel[cache[s].fd] # f \/ cache[s].pid # p
      BY <2>2, <2>6 DEF f
    <3> QED BY <2>5, <2>6, <3>1, <3>2
  <2>10. EndPidExact'
    <3>1. \A g \in Handles : epid'[g] = IF g = h /\ p >= epid[g] THEN p + 1 ELSE epid[g]
      BY <2>2 DEF CacheInv, TypeOK
    <3>2. ASSUME NEW g \in Live
          PROVE  /\ epid'[g] <= size'[kernel[fd[g]]]
                 /\ fd[g] \notin foreign' => epid'[g] = size'[kernel[fd[g]]]
      <4>1. /\ g \in Handles
            /\ fd[g] \in Fds
            /\ kernel[fd[g]] \in Files
            /\ size[kernel[fd[g]]] \in Int
            /\ epid[g] \in Int
            /\ epid[g] <= size[kernel[fd[g]]]
            /\ fd[g] \notin foreign => epid[g] = size[kernel[fd[g]]]
        BY <2>3, <3>2, OpenObject
      <4>2. CASE g = h
        BY <2>1, <2>2, <2>4, <3>1, <4>1, <4>2 DEF d, f
      <4>3. CASE g # h
        <5>1. fd[g] # d
          BY <3>2, <4>3, <2>11 DEF CacheInv, OwnDescriptor, d
        <5>2. fd[g] \notin foreign' => kernel[fd[g]] # f
          BY <2>2, <4>1, <5>1
        <5> QED BY <2>1, <2>2, <2>4, <3>1, <4>1, <4>3, <5>2
      <4> QED BY <4>2, <4>3
    <3>3. ASSUME NEW g \in Handles, ~(fd[g] > 0) PROVE epid'[g] = 0
      BY <3>1, <3>3, <2>11 DEF CacheInv, EndPidExact, Live
    <3> QED BY <2>2, <2>11, <3>2, <3>3 DEF EndPidExact
  <2>12. FreeIsClean'
    BY <2>2, OpenObject, <2>11 DEF CacheInv, FreeIsClean, f
  <2> QED BY <1>1, <1>2, <2>7, <2>8, <2>9, <2>10, <2>12 DEF CacheInv
<1> QED BY <1>3, <1>4 DEF Write

LEMMA ReadCache ==
  ASSUME CacheInv, OffsetsFit, NEW h \in Handles, NEW p \in -1 .. MaxPid, Read(h, p),
         h \notin doomed
  PROVE  CacheInv'
<1> USE PageFileAssumption
<1>1. TypeOK'
  BY ReadType DEF CacheInv
<1>2. UniqueSlots'
  BY UniqueStep DEF CacheInv, Next
<1>3. CASE ReadRefused(h, p)
  BY <1>1, <1>3, QuietStep DEF ReadRefused, Refuse
<1>5. ASSUME UNCHANGED <<disk, table, object, foreign, doomed>>,
             suspect \subseteq suspect',
             NEW s \in Slots,
             \A t \in Slots \ {s} : cache'[t] = cache[t],
             Trusted(s)' =>
               /\ IsOpen(cache'[s].fd)
               /\ cache'[s].pid < size[kernel[cache'[s].fd]]
               /\ cache'[s].fd \notin foreign =>
                    cache'[s].buffer = page[kernel[cache'[s].fd]][cache'[s].pid]
      PROVE  CacheInv'
  <2>1. OwnDescriptor' /\ EndPidExact' /\ FreeIsClean'
    BY <1>5 DEF CacheInv, OwnDescriptor, EndPidExact, FreeIsClean, Live, IsOpen, disk, table,
               object
  <2>4. \A t \in Slots \ {s} : Trusted(t)' => Trusted(t)
    BY <1>5 DEF Trusted, Valid
  <2>2. CachedOpen'
    BY <1>5, <2>4 DEF CacheInv, CachedOpen, IsOpen, disk, table
  <2>3. CacheCoherent'
    BY <1>5, <2>4 DEF CacheInv, CacheCoherent, disk, table
  <2> QED BY <1>1, <1>2, <2>1, <2>2, <2>3 DEF CacheInv
<1>4. CASE ReadFails(h, p)
  <2>1. PICK s \in Slots :
          cache' = [cache EXCEPT ![s] = [fd |-> fd[h], pid |-> p, lastAccessed |-> Tick,
                                         buffer |-> cache[s].buffer]]
    BY <1>4 DEF ReadFails
  <2>2. /\ \A t \in Slots \ {s} : cache'[t] = cache[t]
        /\ cache'[s].fd = fd[h] /\ cache'[s].pid = p
    BY <2>1 DEF CacheInv, TypeOK
  <2>3. suspect' = suspect \cup {<<fd[h], p>>} /\ UNCHANGED <<disk, table, object, foreign, doomed>>
    BY <1>4 DEF ReadFails
  <2>4. ~Trusted(s)'
    BY <2>2, <2>3 DEF Trusted
  <2> QED BY <1>5, <2>2, <2>3, <2>4
<1>6. CASE ReadHit(h, p)
  <2>1. PICK s \in Slots :
          /\ FirstHit(s, fd[h], p)
          /\ cache' = [cache EXCEPT ![s] = [@ EXCEPT !.lastAccessed = Tick]]
    BY <1>6 DEF ReadHit
  <2>3. /\ \A t \in Slots \ {s} : cache'[t] = cache[t]
        /\ cache'[s].fd = cache[s].fd
        /\ cache'[s].pid = cache[s].pid
        /\ cache'[s].buffer = cache[s].buffer
    BY <2>1, SlotType DEF CacheInv, TypeOK, Slot
  <2>2. Valid(s) /\ UNCHANGED <<disk, table, object, foreign, suspect, doomed>>
    BY <1>6, <2>1 DEF ReadHit, FirstHit, Holds, Valid, wrong
  <2>4. Trusted(s)' =>
        /\ IsOpen(cache[s].fd)
        /\ cache[s].pid < size[kernel[cache[s].fd]]
        /\ cache[s].fd \notin foreign =>
             cache[s].buffer = page[kernel[cache[s].fd]][cache[s].pid]
    <3>1. Trusted(s)' => Trusted(s)
      BY <2>2, <2>3 DEF Trusted
    <3> QED BY <3>1 DEF CacheInv, CachedOpen, CacheCoherent
  <2> QED BY <1>5, <2>2, <2>3, <2>4
<1>7. CASE ReadMiss(h, p)
  <2>1. p \in Nat /\ SeekPage(p) = p /\ p < epid[h] /\ IsOpen(fd[h])
    BY <1>7, SeekPageExact DEF ReadMiss, SeekOK, OffsetsFit
  <2>2. h \in Live
    BY <2>1, OpenPositive DEF Live
  <2>3. p < size[kernel[fd[h]]]
    <3>1. epid[h] \in Int /\ size[kernel[fd[h]]] \in Int /\ epid[h] <= size[kernel[fd[h]]]
      BY <2>2, OpenObject
    <3> QED BY <2>1, <3>1
  <2>4. PICK s \in Slots :
          cache' = [cache EXCEPT ![s] =
            [fd |-> fd[h], pid |-> p, lastAccessed |-> Tick,
             buffer |-> Fetched(kernel[fd[h]], p, cache[s].buffer)]]
    BY <1>7, <2>1 DEF ReadMiss
  <2>5. /\ \A t \in Slots \ {s} : cache'[t] = cache[t]
        /\ cache'[s].fd = fd[h]
        /\ cache'[s].pid = p
        /\ cache'[s].buffer = page[kernel[fd[h]]][p]
    BY <2>3, <2>4 DEF CacheInv, TypeOK, Fetched
  <2>6. UNCHANGED <<disk, table, object, foreign, suspect, doomed>>
    BY <1>7 DEF ReadMiss, wrong
  <2> QED BY <1>5, <2>1, <2>3, <2>5, <2>6
<1> QED BY <1>3, <1>4, <1>6, <1>7 DEF Read

LEMMA RestartCache == CacheInv /\ Restart => CacheInv'
<1> SUFFICES ASSUME CacheInv, Restart PROVE CacheInv'
  OBVIOUS
<1>1. TypeOK' /\ UniqueSlots'
  BY RestartType, UniqueStep DEF CacheInv, Next
<1>2. \A s \in Slots : ~Trusted(s)'
  BY DEF Restart, EmptySlot, Trusted, Valid
<1>3. \A h \in Handles : ~(fd'[h] > 0) /\ epid'[h] = 0
  BY DEF Restart
<1>4. FreeIsClean'
  BY DEF Restart, FreeIsClean
<1> QED BY <1>1, <1>2, <1>3, <1>4
        DEF CacheInv, OwnDescriptor, CachedOpen, CacheCoherent, EndPidExact, Live

(* The calls an object that failed to close does not make any more *)
LEMMA OpenIsCalled ==
  ASSUME NEW h, NEW f, NEW mode, Open(h, f, mode)
  PROVE  call'.by = h /\ call'.op = "open"
BY DEF Open, OpenRefused, OpenStatFails, OpenOK, Refuse, Return, Call

LEMMA CloseIsCalled ==
  ASSUME NEW h, Close(h)
  PROVE  call'.by = h /\ call'.op = "close"
BY DEF Close, CloseRefused, CloseFails, CloseOK, Refuse, Return, Call

LEMMA WriteIsCalled ==
  ASSUME NEW h, NEW p, Write(h, p)
  PROVE  call'.by = h /\ call'.op = "write"
<1>1. \E rc : Return("write", h, p, rc)
  BY DEF Write, WriteRefused, WriteOK, Refuse
<1> QED BY <1>1 DEF Return, Call

LEMMA ReadIsCalled ==
  ASSUME NEW h, NEW p, Read(h, p)
  PROVE  call'.by = h /\ call'.op = "read"
BY DEF Read, ReadRefused, ReadHit, ReadFails, ReadMiss, Refuse, Return, Call

LEMMA CacheStep == OffsetsFit /\ CacheInv /\ [Next /\ Disciplined]_vars => CacheInv'
<1> SUFFICES ASSUME OffsetsFit, CacheInv, [Next /\ Disciplined]_vars PROVE CacheInv'
  OBVIOUS
<1>1. CASE Next /\ Disciplined
  <2>1. ASSUME NEW h \in Handles, NEW f \in Files, NEW mode \in Modes, Open(h, f, mode)
        PROVE  CacheInv'
    BY <1>1, <2>1, OpenIsCalled, OpenCache DEF Disciplined
  <2>2. ASSUME NEW h \in Handles, Close(h) PROVE CacheInv'
    BY <1>1, <2>2, CloseIsCalled, CloseCache DEF Disciplined
  <2>3. ASSUME NEW h \in Handles, NEW p \in -1 .. MaxPid, Write(h, p) PROVE CacheInv'
    BY <1>1, <2>3, WriteIsCalled, WriteCache DEF Disciplined
  <2>4. ASSUME NEW h \in Handles, NEW p \in -1 .. MaxPid, Read(h, p) PROVE CacheInv'
    BY <1>1, <2>4, ReadIsCalled, ReadCache DEF Disciplined
  <2> QED BY <1>1, <2>1, <2>2, <2>3, <2>4, DestroyCache, RestartCache DEF Next
<1>2. CASE UNCHANGED vars
  <2>1. TypeOK'
    BY <1>2, TypeStep DEF CacheInv
  <2> QED BY <1>2, <2>1, QuietStep DEF vars, disk, table, object, cached, wrong
<1> QED BY <1>1, <1>2

LEMMA CacheInvariant == ASSUME OffsetsFit PROVE DisciplinedSpec => []CacheInv
<1> QED BY CacheInit, CacheStep, PTL DEF DisciplinedSpec

(* The cache is coherent with the disk and holds pages of open descriptors *)
(* only: nothing left behind by close() or overtaken by write() is read.   *)
THEOREM CacheIsCoherent ==
  ASSUME OffsetsFit PROVE DisciplinedSpec => [](CachedOpen /\ CacheCoherent)
<1>1. CacheInv => CachedOpen /\ CacheCoherent
  BY DEF CacheInv
<1> QED BY <1>1, CacheInvariant, PTL

(* endPid() is the number of pages of the file (PageFile.h:63), as long as *)
(* nobody else has written it, and never more.                             *)
THEOREM EndPidIsExact == ASSUME OffsetsFit PROVE DisciplinedSpec => []EndPidExact
<1>1. CacheInv => EndPidExact
  BY DEF CacheInv
<1> QED BY <1>1, CacheInvariant, PTL

(* Objects that are open have descriptors of their own, that are open: no  *)
(* close() takes the file away from under another object.                  *)
THEOREM DescriptorsAreOwned == ASSUME OffsetsFit PROVE DisciplinedSpec => []OwnDescriptor
<1>1. CacheInv => OwnDescriptor
  BY DEF CacheInv
<1> QED BY <1>1, CacheInvariant, PTL

-----------------------------------------------------------------------------
(* What a caller sees *)

(* A read that succeeds has returned the page that is on disk. *)
LEMMA ReadStep ==
  ASSUME OffsetsFit, CacheInv, NEW h \in Handles, NEW p \in -1 .. MaxPid, Read(h, p),
         h \notin doomed
  PROVE  /\ UNCHANGED <<disk, table, object, foreign, doomed>>
         /\ \/ ReadRefused(h, p)
            \/ /\ h \in Live
               /\ p \in Pids
               /\ \/ ReadFails(h, p)
                  \/ /\ p < size[kernel[fd[h]]]
                     /\ UNCHANGED suspect
                     /\ \E c \in Contents :
                          /\ call' = Call("read", h, p, "OK", c)
                          /\ fd[h] \notin foreign /\ <<fd[h], p>> \notin suspect
                               => c = page[kernel[fd[h]]][p]
<1> USE PageFileAssumption
<1>1. CASE ReadRefused(h, p)
  BY <1>1 DEF ReadRefused, Refuse, wrong
<1>2. ASSUME 0 <= p, p < epid[h]
      PROVE  h \in Live /\ p \in Pids /\ p < size[kernel[fd[h]]]
  <2>1. h \in Live
    BY <1>2 DEF CacheInv, EndPidExact, Live
  <2>2. epid[h] \in Int /\ size[kernel[fd[h]]] \in Int /\ epid[h] <= size[kernel[fd[h]]]
    BY <2>1, OpenObject
  <2> QED BY <1>2, <2>1, <2>2 DEF Pids
<1>3. CASE ReadFails(h, p)
  BY <1>2, <1>3 DEF ReadFails
<1>4. CASE ReadHit(h, p)
  <2>1. PICK s \in Slots :
          /\ FirstHit(s, fd[h], p)
          /\ call' = Call("read", h, p, "OK", cache[s].buffer)
    BY <1>4 DEF ReadHit
  <2>2. Valid(s) /\ cache[s].fd = fd[h] /\ cache[s].pid = p
    BY <2>1 DEF FirstHit, Holds, Valid
  <2>3. fd[h] \notin foreign /\ <<fd[h], p>> \notin suspect
          => cache[s].buffer = page[kernel[fd[h]]][p]
    BY <2>2 DEF CacheInv, CacheCoherent, Trusted
  <2>4. cache[s].buffer \in Contents
    BY SlotType DEF CacheInv, Slot
  <2> QED BY <1>2, <1>4, <2>1, <2>3, <2>4 DEF ReadHit, wrong
<1>5. CASE ReadMiss(h, p)
  <2>1. h \in Live /\ p \in Pids /\ p < size[kernel[fd[h]]] /\ SeekPage(p) = p
    BY <1>2, <1>5, SeekPageExact DEF ReadMiss, OffsetsFit
  <2>2. call' = Call("read", h, p, "OK", page[kernel[fd[h]]][p])
    BY <1>5, <2>1 DEF ReadMiss, Fetched
  <2>3. page[kernel[fd[h]]][p] \in Contents
    BY <2>1, OpenObject, PageType DEF CacheInv
  <2> QED BY <1>5, <2>1, <2>2, <2>3 DEF ReadMiss, wrong
<1> QED BY <1>1, <1>3, <1>4, <1>5 DEF Read

LEMMA ReadReturnsPageStep ==
  OffsetsFit /\ CacheInv /\ ReadReturnsPage /\ [Next /\ Disciplined]_vars => ReadReturnsPage'
<1> SUFFICES ASSUME OffsetsFit, CacheInv, ReadReturnsPage, [Next /\ Disciplined]_vars
             PROVE  ReadReturnsPage'
  OBVIOUS
<1>1. ASSUME Disciplined, NEW h \in Handles, NEW p \in -1 .. MaxPid, Read(h, p)
      PROVE  ReadReturnsPage'
  <2>1. h \notin doomed
    BY <1>1, ReadIsCalled DEF Disciplined
  <2>2. UNCHANGED <<page, kernel, fd, foreign, doomed>>
    BY <1>1, <2>1, ReadStep DEF disk, table, object
  <2>3. CASE ReadRefused(h, p) \/ ReadFails(h, p)
    BY <2>3 DEF ReadRefused, ReadFails, Refuse, Return, ReadReturnsPage, Call
  <2>4. CASE /\ UNCHANGED suspect
             /\ \E c \in Contents :
                  /\ call' = Call("read", h, p, "OK", c)
                  /\ fd[h] \notin foreign /\ <<fd[h], p>> \notin suspect
                       => c = page[kernel[fd[h]]][p]
    BY <2>2, <2>4 DEF ReadReturnsPage, Delivers, Call
  <2> QED BY <1>1, <2>1, <2>3, <2>4, ReadStep
<1>2. CASE UNCHANGED vars
  BY <1>2 DEF vars, ReadReturnsPage, Delivers, Live
<1>3. ASSUME call'.op # "read" PROVE ReadReturnsPage'
  BY <1>3 DEF ReadReturnsPage
<1>4. \A h \in Handles, f \in Files, mode \in Modes : Open(h, f, mode) => call'.op # "read"
  BY OpenIsCalled
<1>5. \A h \in Handles : Close(h) \/ Destroy(h) => call'.op # "read"
  BY CloseIsCalled DEF Destroy, Return, Call
<1>6. \A h \in Handles, p \in -1 .. MaxPid : Write(h, p) => call'.op # "read"
  BY WriteIsCalled
<1>7. Restart => call'.op # "read"
  BY DEF Restart, Call
<1> QED BY <1>1, <1>2, <1>3, <1>4, <1>5, <1>6, <1>7 DEF Next

(* A read that returns no error has delivered the page on disk, however    *)
(* the calls are interleaved and whatever else failed, unless somebody     *)
(* else wrote the file, or read(2) or close() failed as the property says. *)
THEOREM ReadIsHonest == ASSUME OffsetsFit PROVE DisciplinedSpec => []ReadReturnsPage
<1>1. Init => ReadReturnsPage
  BY DEF Init, ReadReturnsPage, Call
<1> QED BY <1>1, CacheInvariant, ReadReturnsPageStep, PTL DEF DisciplinedSpec

-----------------------------------------------------------------------------
(* PageFile implements PageStore: each call is one step of the store. *)

StoreVars == <<page, size, Opened, Rw, Stale, Doubtful, doomed, Spoiled>>

(* Steps that touch neither descriptors nor files are invisible. *)
LEMMA QuietMapping ==
  UNCHANGED <<disk, table, object, foreign, wrong>> => UNCHANGED StoreVars
BY DEF disk, table, object, wrong, StoreVars, Opened, Rw, Stale, Doubtful, Spoiled, Live

(* A page is doubtful for an object by the descriptor of that object. *)
LEMMA InDoubt ==
  \A k : k \in Doubtful <=> /\ k = <<k[1], k[2]>> /\ k[1] \in Live /\ k[2] \in Pids
                            /\ <<fd[k[1]], k[2]>> \in suspect
BY DEF Doubtful

(* An object that is not open, or failed to close, has no file. *)
LEMMA NotOpenMapping ==
  ASSUME CacheInv, NEW h \in Handles, fd[h] <= 0 PROVE h \notin Live /\ Opened[h] = NoFile
<1>1. fd[h] \in Int
  <2>1. fd[h] \in Fds \cup {-1}
    BY DEF CacheInv, TypeOK
  <2>2. Fds \cup {-1} \subseteq Int
    BY PageFileAssumption
  <2> QED BY <2>1, <2>2
<1>2. ~(fd[h] > 0)
  BY <1>1
<1> QED BY <1>2 DEF Opened, Live

LEMMA StoreInit == Init => Store!Init
<1> SUFFICES ASSUME Init PROVE Store!Init
  OBVIOUS
<1>1. Live = {}
  BY DEF Init, Live
<1>2. /\ Opened = [h \in Handles |-> NoFile] /\ Rw = {} /\ Stale = {}
      /\ Doubtful = {} /\ Spoiled = FALSE
  BY <1>1 DEF Init, Opened, Rw, Stale, Doubtful, Spoiled
<1> QED BY <1>2 DEF Init, Store!Init, Store!Pids, Pids, Store!Absent, Absent,
        Store!Call, Call, Store!NoHandle, NoHandle

LEMMA StoreOpen ==
  ASSUME CacheInv, NEW h \in Handles, NEW f \in Files, NEW mode \in Modes,
         Open(h, f, mode), h \notin doomed
  PROVE  Store!Next
<1> USE PageFileAssumption
<1>0. call'.op = "open"
  BY OpenIsCalled
<1>1. CASE OpenRefused(h, f, mode)
  <2>1. UNCHANGED StoreVars
    BY <1>1, QuietMapping DEF OpenRefused, Refuse
  <2>2. PICK rc \in {"RC_FILE_OPEN_FAILED", "RC_INVALID_FILE_MODE"} :
          call' = Call("open", h, 0, rc, NoContent)
    BY <1>1 DEF OpenRefused, Refuse, Return
  <2>3. Store!OpenFails(h, f, FALSE, rc) /\ call'.rc = rc
    BY <2>1, <2>2 DEF StoreVars, Call, Store!OpenFails, Store!Call, Store!handles
  <2> QED BY <1>0, <2>3 DEF Store!Next
<1>2. CASE OpenStatFails(h, f, mode)
  <2>1. IF mode = "w"
        THEN size' \in {size} \cup (IF size[f] = Absent THEN {[size EXCEPT ![f] = 0]} ELSE {})
        ELSE UNCHANGED size
    BY <1>2 DEF OpenStatFails, Created
  <2>2. UNCHANGED <<page, Opened, Rw, Stale, Doubtful, doomed, Spoiled>>
    BY <1>2 DEF OpenStatFails, table, object, wrong, Opened, Rw, Stale, Doubtful, Spoiled, Live
  <2>3. call' = Call("open", h, 0, "RC_FILE_OPEN_FAILED", NoContent)
    BY <1>2 DEF OpenStatFails, Return
  <2>4. Store!OpenFails(h, f, mode = "w", "RC_FILE_OPEN_FAILED")
    BY <2>1, <2>2, <2>3 DEF Call, Absent,
       Store!OpenFails, Store!MayCreate, Store!Call, Store!Absent, Store!handles
  <2>5. call'.rc = "RC_FILE_OPEN_FAILED"
    BY <2>3 DEF Call
  <2> QED BY <1>0, <2>4, <2>5 DEF Store!Next
<1>3. CASE OpenOK(h, f, mode)
  <2>1. PICK d \in Fds :
          /\ LowestFree(d)
          /\ kernel' = [kernel EXCEPT ![d] = f]
          /\ writable' = IF mode = "w" THEN writable \cup {d} ELSE writable
          /\ fd' = [fd EXCEPT ![h] = d]
    BY <1>3 DEF OpenOK
  <2>2. d > 0 /\ \A g \in Handles : fd'[g] = IF g = h THEN d ELSE fd[g]
    BY <2>1 DEF CacheInv, TypeOK
  <2>3. kernel[d] = NoFile /\ d \notin writable /\ d \notin foreign
    BY <2>1 DEF LowestFree, CacheInv, FreeIsClean
  <2>4. \A e \in Fds : kernel'[e] = IF e = d THEN f ELSE kernel[e]
    BY <2>1 DEF CacheInv, TypeOK
  <2>5. UNCHANGED <<foreign, suspect, doomed>>
    BY <1>3 DEF OpenOK, wrong
  <2>6. Opened[h] = NoFile /\ h \notin Live
    BY <1>3, NotOpenMapping DEF OpenOK
  <2>7. Live' = Live \cup {h} /\ \A g \in Live : fd'[g] = fd[g] /\ fd[g] # d /\ fd[g] \in Fds
    <3>1. \A g \in Handles : g \in Live' <=> g \in Live \/ g = h
      BY <2>2, <2>5 DEF Live
    <3>2. Live \subseteq Handles /\ Live' \subseteq Handles
      BY DEF Live
    <3>3. \A g \in Live : fd[g] # d /\ fd[g] \in Fds
      BY <2>3, OpenObject
    <3> QED BY <2>2, <2>6, <3>1, <3>2, <3>3
  <2>8. Opened' = [Opened EXCEPT ![h] = f]
    <3>1. \A g \in Handles : (IF g \in Live' THEN kernel'[fd'[g]] ELSE NoFile)
                               = IF g = h THEN f ELSE IF g \in Live THEN kernel[fd[g]] ELSE NoFile
      <4> TAKE g \in Handles
      <4>1. CASE g = h
        <5>1. g \in Live' /\ kernel'[fd'[g]] = f
          BY <2>2, <2>4, <2>7, <4>1
        <5> QED BY <4>1, <5>1
      <4>2. CASE g # h /\ g \in Live
        <5>1. fd'[g] = fd[g] /\ fd[g] \in Fds /\ fd[g] # d
          BY <2>7, <4>2
        <5>2. g \in Live' /\ kernel'[fd'[g]] = kernel[fd[g]]
          BY <2>4, <2>7, <4>2, <5>1
        <5> QED BY <4>2, <5>2
      <4>3. CASE g # h /\ g \notin Live
        BY <2>7, <4>3
      <4> QED BY <4>1, <4>2, <4>3
    <3> QED BY <3>1 DEF Opened
  <2>9. Rw' = IF mode = "w" THEN Rw \cup {h} ELSE Rw \ {h}
    BY <2>1, <2>2, <2>3, <2>6, <2>7 DEF Rw
  <2>10. Stale' = Stale \ {h}
    BY <2>2, <2>3, <2>5, <2>6, <2>7 DEF Stale
  <2> DEFINE K == {p \in Pids : <<d, p>> \in suspect}
  <2>11. Doubtful' = Doubtful \cup ({h} \X K)
    <3>1. ASSUME NEW k PROVE k \in Doubtful' <=> k \in Doubtful \/ k \in {h} \X K
      BY <2>2, <2>5, <2>6, <2>7, InDoubt DEF Doubtful
    <3> QED BY <3>1
  <2>12. K \in IF Spoiled THEN SUBSET Pids ELSE {{}}
    BY <2>3 DEF Spoiled
  <2>13. Spoiled' \in {Spoiled, FALSE}
    <3>1. Spoiled' => Spoiled
      BY <2>4, <2>5 DEF Spoiled
    <3> QED BY <3>1 DEF Spoiled
  <2> HIDE DEF K
  <2>14. IF mode = "w"
         THEN size' \in {size} \cup (IF size[f] = Absent THEN {[size EXCEPT ![f] = 0]} ELSE {})
         ELSE UNCHANGED size
    BY <1>3 DEF OpenOK, Created
  <2>15. /\ size'[f] # Absent
         /\ call' = Call("open", h, 0, "OK", NoContent)
         /\ UNCHANGED page
    BY <1>3 DEF OpenOK, Return
  <2>16. \E L \in IF Spoiled THEN SUBSET Pids ELSE {{}} : Doubtful' = Doubtful \cup ({h} \X L)
    BY <2>11, <2>12
  <2>17. Store!Open(h, f, mode = "w")
    BY <2>5, <2>6, <2>8, <2>9, <2>10, <2>13, <2>14, <2>15, <2>16 DEF Store!Open, Store!MayCreate,
            Store!Call, Call, Store!Absent, Absent, Store!Pids, Pids
  <2> QED BY <1>0, <2>17 DEF Store!Next
<1> QED BY <1>1, <1>2, <1>3 DEF Open

(* An object lets go of its descriptor, which may be closed. *)
LEMMA LetGoMapping ==
  ASSUME CacheInv, NEW h \in Handles, Live' = Live \ {h},
         \A g \in Live \ {h} :
           /\ fd'[g] = fd[g] /\ kernel'[fd[g]] = kernel[fd[g]]
           /\ fd[g] \in writable' <=> fd[g] \in writable
           /\ fd[g] \in foreign' <=> fd[g] \in foreign
           /\ \A p \in Pids : <<fd[g], p>> \in suspect' <=> <<fd[g], p>> \in suspect
  PROVE  /\ Opened' = [Opened EXCEPT ![h] = NoFile]
         /\ Rw' = Rw \ {h}
         /\ Stale' = Stale \ {h}
         /\ Doubtful' = Doubtful \ ({h} \X Pids)
<1>1. Opened' = [Opened EXCEPT ![h] = NoFile]
  <2>1. \A g \in Handles : (IF g \in Live' THEN kernel'[fd'[g]] ELSE NoFile)
                             = IF g = h THEN NoFile ELSE IF g \in Live THEN kernel[fd[g]] ELSE NoFile
    OBVIOUS
  <2> QED BY <2>1 DEF Opened
<1>2. Rw' = Rw \ {h} /\ Stale' = Stale \ {h}
  BY DEF Rw, Stale
<1>3. ASSUME NEW k PROVE k \in Doubtful' <=> k \in Doubtful /\ k \notin {h} \X Pids
  BY InDoubt DEF Doubtful
<1> QED BY <1>1, <1>2, <1>3

LEMMA StoreClose ==
  ASSUME CacheInv, NEW h \in Handles, Close(h), h \notin doomed
  PROVE  Store!Next
<1> USE PageFileAssumption
<1>0. call'.op = "close"
  BY CloseIsCalled
<1>1. CASE CloseRefused(h)
  <2>1. Opened[h] = NoFile
    BY <1>1, NotOpenMapping DEF CloseRefused
  <2>2. UNCHANGED StoreVars
    BY <1>1, QuietMapping DEF CloseRefused, Refuse
  <2>3. Store!CloseRefused(h)
    BY <1>1, <2>1, <2>2 DEF CloseRefused, Refuse, Return, Call, StoreVars,
       Store!CloseRefused, Store!Call, Store!handles
  <2> QED BY <1>0, <2>3 DEF Store!Next
<1> DEFINE d == fd[h]
<1>2. ASSUME fd[h] > 0, Released(d)
      PROVE  /\ Opened[h] # NoFile
             /\ kernel[d] # NoFile /\ d \in Fds
             /\ \A e \in Fds : kernel'[e] = IF e = d THEN NoFile ELSE kernel[e]
             /\ \A g \in Live \ {h} : /\ fd[g] # d /\ fd[g] \in Fds
                                      /\ kernel'[fd[g]] = kernel[fd[g]]
                                      /\ fd[g] \in writable' <=> fd[g] \in writable
                                      /\ fd[g] \in foreign' <=> fd[g] \in foreign
  <2>1. h \in Live
    BY <1>2 DEF Live
  <2>2. kernel[d] # NoFile /\ d \in Fds /\ Opened[h] # NoFile
    BY <2>1, OpenObject DEF Opened
  <2>3. \A e \in Fds : kernel'[e] = IF e = d THEN NoFile ELSE kernel[e]
    BY <1>2 DEF Released, CacheInv, TypeOK
  <2>4. \A g \in Live \ {h} : fd[g] # d /\ fd[g] \in Fds
    BY <2>1, OpenObject DEF CacheInv, OwnDescriptor
  <2> QED BY <1>2, <2>2, <2>3, <2>4 DEF Released
<1>3. CASE CloseFails(h)
  <2>1. /\ fd[h] > 0 /\ Released(d)
        /\ suspect' = suspect \cup CachedFor(d)
        /\ doomed' = doomed \cup {h}
        /\ call' = Call("close", h, 0, "RC_FILE_CLOSE_FAILED", NoContent)
        /\ UNCHANGED <<page, size, fd>>
    BY <1>3 DEF CloseFails, Return, disk, object
  <2>2. \A g \in Live \ {h} : /\ fd[g] # d /\ fd[g] \in Fds
                              /\ kernel'[fd[g]] = kernel[fd[g]]
                              /\ fd[g] \in writable' <=> fd[g] \in writable
                              /\ fd[g] \in foreign' <=> fd[g] \in foreign
    BY <1>2, <2>1
  <2>3. \A e, p : e # d => (<<e, p>> \in suspect' <=> <<e, p>> \in suspect)
    BY <2>1 DEF CachedFor
  <2>4. Live' = Live \ {h}
    BY <2>1 DEF Live
  <2>5. /\ Opened' = [Opened EXCEPT ![h] = NoFile] /\ Rw' = Rw \ {h} /\ Stale' = Stale \ {h}
        /\ Doubtful' = Doubtful \ ({h} \X Pids)
    BY <2>1, <2>2, <2>3, <2>4, LetGoMapping
  <2>6. Spoiled' \in {Spoiled, TRUE}
    <3>1. Spoiled => Spoiled'
      BY <1>2, <2>1 DEF Spoiled
    <3> QED BY <3>1 DEF Spoiled
  <2>7. Store!CloseFails(h)
    BY <1>2, <2>1, <2>5, <2>6 DEF Store!CloseFails, Store!LetGo, Store!Call, Call, Store!Pids, Pids
  <2> QED BY <1>0, <2>7 DEF Store!Next
<1>4. CASE CloseOK(h)
  <2>1. /\ fd[h] > 0 /\ Released(d)
        /\ fd' = [fd EXCEPT ![h] = -1]
        /\ suspect' = suspect \ ({d} \X Pids)
        /\ call' = Call("close", h, 0, "OK", NoContent)
        /\ UNCHANGED <<page, size, doomed>>
    BY <1>4 DEF CloseOK, Return, disk, Detached
  <2>2. \A g \in Live \ {h} : /\ fd[g] # d /\ fd[g] \in Fds
                              /\ kernel'[fd[g]] = kernel[fd[g]]
                              /\ fd[g] \in writable' <=> fd[g] \in writable
                              /\ fd[g] \in foreign' <=> fd[g] \in foreign
    BY <1>2, <2>1
  <2>3. \A e, p : e # d => (<<e, p>> \in suspect' <=> <<e, p>> \in suspect)
    BY <2>1
  <2>8. \A g \in Handles : fd'[g] = IF g = h THEN -1 ELSE fd[g]
    BY <2>1 DEF CacheInv, TypeOK
  <2>4. Live' = Live \ {h}
    BY <2>1, <2>8 DEF Live
  <2>9. \A g \in Live \ {h} : fd'[g] = fd[g]
    BY <2>8 DEF Live
  <2>5. /\ Opened' = [Opened EXCEPT ![h] = NoFile] /\ Rw' = Rw \ {h} /\ Stale' = Stale \ {h}
        /\ Doubtful' = Doubtful \ ({h} \X Pids)
    BY <2>2, <2>3, <2>4, <2>9, LetGoMapping
  <2>6. Spoiled' = Spoiled
    <3>1. \A e \in Fds, p \in Pids : kernel'[e] = NoFile /\ <<e, p>> \in suspect' <=>
                                     kernel[e] = NoFile /\ <<e, p>> \in suspect
      BY <1>2, <2>1
    <3> QED BY <3>1 DEF Spoiled
  <2>7. Store!Close(h)
    BY <1>2, <2>1, <2>5, <2>6 DEF Store!Close, Store!LetGo, Store!Call, Call, Store!Pids, Pids
  <2> QED BY <1>0, <2>7 DEF Store!Next
<1> QED BY <1>1, <1>3, <1>4 DEF Close

LEMMA StoreDestroy ==
  ASSUME CacheInv, NEW h \in Handles, Destroy(h)
  PROVE  Store!Next
<1>1. /\ fd' = [fd EXCEPT ![h] = -1]
      /\ doomed' = doomed \ {h}
      /\ call' = Call("destroy", h, 0, "OK", NoContent)
      /\ UNCHANGED <<page, size, kernel, writable, foreign, suspect>>
  BY DEF Destroy, Return, disk, table, Detached
<1>2. \A g \in Handles : fd'[g] = IF g = h THEN -1 ELSE fd[g]
  BY <1>1 DEF CacheInv, TypeOK
<1>3. Live' = Live \ {h}
  BY <1>1, <1>2 DEF Live
<1>4. \A g \in Live \ {h} : fd'[g] = fd[g]
  BY <1>2 DEF Live
<1>5. /\ Opened' = [Opened EXCEPT ![h] = NoFile] /\ Rw' = Rw \ {h} /\ Stale' = Stale \ {h}
      /\ Doubtful' = Doubtful \ ({h} \X Pids)
  BY <1>1, <1>3, <1>4, LetGoMapping
<1>6. Spoiled' = Spoiled
  BY <1>1 DEF Spoiled
<1>7. Store!Destroy(h)
  BY <1>1, <1>5, <1>6 DEF Store!Destroy, Store!LetGo, Store!Call, Call, Store!Pids, Pids
<1> QED BY <1>7 DEF Store!Next

LEMMA StoreWrite ==
  ASSUME CacheInv, OffsetsFit, NEW h \in Handles, NEW p \in -1 .. MaxPid, Write(h, p),
         h \notin doomed
  PROVE  Store!Next
<1> USE PageFileAssumption
<1>0. call'.op = "write"
  BY WriteIsCalled
<1>1. CASE WriteRefused(h, p)
  <2>1. UNCHANGED StoreVars
    BY <1>1, QuietMapping DEF WriteRefused, Refuse
  <2>2. PICK rc \in {"RC_INVALID_PID", "RC_FILE_SEEK_FAILED", "RC_FILE_WRITE_FAILED"} :
          call' = Call("write", h, p, rc, NoContent)
    BY <1>1 DEF WriteRefused, Refuse, Return
  <2>3. Store!WriteFails(h, p, rc) /\ call'.rc = rc
    BY <2>1, <2>2 DEF Call, StoreVars, Store!WriteFails, Store!Call, Store!handles
  <2> QED BY <1>0, <2>3 DEF Store!Next
<1>2. ASSUME NEW c \in Contents, WriteOK(h, p, c)
      PROVE  Store!Next
  <2> DEFINE d == fd[h]
             f == kernel[d]
  <2>1. p \in Nat /\ p \in Pids /\ SeekPage(p) = p
    BY <1>2, SeekPageExact DEF WriteOK, OffsetsFit, Pids
  <2>2. IsOpen(d) /\ d \in writable
    BY <1>2 DEF WriteOK, SeekOK
  <2>3. /\ page' = [page EXCEPT ![f] = [@ EXCEPT ![p] = c]]
        /\ size' = [size EXCEPT ![f] = IF p >= @ THEN p + 1 ELSE @]
        /\ foreign' = foreign \cup {e \in Fds \ {d} : kernel[e] = f}
        /\ suspect' = suspect \ {<<d, p>>}
        /\ call' = Call("write", h, p, "OK", NoContent)
        /\ UNCHANGED <<kernel, writable, fd, doomed>>
    BY <1>2, <2>1 DEF WriteOK, Return, table
  <2>4. d > 0 /\ d \in Fds /\ h \in Live /\ Live' = Live
    BY <2>2, <2>3, OpenPositive DEF Live
  <2>5. Opened[h] = f /\ f # NoFile
    BY <2>2, <2>4 DEF Opened, IsOpen
  <2>6. Opened' = Opened /\ Rw' = Rw /\ h \in Rw
    BY <2>2, <2>3, <2>4 DEF Opened, Rw
  <2>7. Stale' = Stale \cup {g \in Handles \ {h} : Opened[g] = Opened[h]}
    <3>1. \A g \in Live : fd[g] \in foreign' <=> fd[g] \in foreign \/ (g # h /\ kernel[fd[g]] = f)
      BY <2>3, <2>4, OpenObject DEF CacheInv, OwnDescriptor
    <3>2. \A g \in Handles : Opened[g] = f <=> g \in Live /\ kernel[fd[g]] = f
      BY <2>5 DEF Opened
    <3>3. Live \subseteq Handles
      BY DEF Live
    <3> QED BY <2>3, <2>4, <2>5, <3>1, <3>2, <3>3 DEF Stale
  <2>8. Doubtful' = Doubtful \ {<<h, p>>}
    <3>1. \A g \in Live : fd[g] = d => g = h
      BY <2>4 DEF CacheInv, OwnDescriptor
    <3>2. ASSUME NEW k PROVE k \in Doubtful' <=> k \in Doubtful /\ k # <<h, p>>
      BY <2>1, <2>3, <2>4, <3>1, InDoubt DEF Doubtful
    <3> QED BY <3>2
  <2>9. Spoiled' = Spoiled
    <3>1. \A e \in Fds, q \in Pids : kernel[e] = NoFile =>
            (<<e, q>> \in suspect' <=> <<e, q>> \in suspect)
      BY <2>3, <2>5 DEF f
    <3> QED BY <2>3, <3>1 DEF Spoiled
  <2> HIDE DEF d, f
  <2>10. Store!Write(h, p, c)
    BY <2>1, <2>3, <2>5, <2>6, <2>7, <2>8, <2>9 DEF Store!Write, Store!Call, Call, Store!Pids
  <2> QED BY <1>0, <2>1, <2>10 DEF Store!Next, Store!Pids, Pids
<1> QED BY <1>1, <1>2 DEF Write

LEMMA StoreRead ==
  ASSUME CacheInv, OffsetsFit, NEW h \in Handles, NEW p \in -1 .. MaxPid, Read(h, p),
         h \notin doomed
  PROVE  Store!Next
<1> USE PageFileAssumption
<1>0. call'.op = "read"
  BY ReadIsCalled
<1>1. UNCHANGED <<disk, table, object, foreign, doomed>>
  BY ReadStep
<1>2. CASE ReadRefused(h, p)
  <2>0. UNCHANGED StoreVars
    BY <1>2, QuietMapping DEF ReadRefused, Refuse
  <2>1. PICK rc \in {"RC_INVALID_PID", "RC_FILE_SEEK_FAILED"} :
          /\ call' = Call("read", h, p, rc, NoContent)
          /\ rc = "RC_INVALID_PID" => p < 0 \/ p >= epid[h]
    BY <1>2 DEF ReadRefused, Refuse, Return
  <2>2. ASSUME rc = "RC_INVALID_PID", h \in Live, h \notin Stale
        PROVE  p \notin 0 .. size[Opened[h]] - 1
    <3>1. epid[h] = size[Opened[h]] /\ epid[h] \in Int
      BY <2>2, OpenObject DEF Stale, Opened
    <3> QED BY <2>1, <2>2, <3>1
  <2>3. h \notin Live => Opened[h] = NoFile
    BY DEF Opened
  <2>4. Store!ReadFails(h, p, rc) /\ call'.rc = rc
    BY <2>0, <2>1, <2>2, <2>3 DEF Store!ReadFails, StoreVars, Store!Call, Call
  <2> QED BY <1>0, <2>4 DEF Store!Next
<1>3. CASE h \in Live /\ p \in Pids /\ ReadFails(h, p)
  <2>1. /\ call' = Call("read", h, p, "RC_FILE_READ_FAILED", NoContent)
        /\ suspect' = suspect \cup {<<fd[h], p>>}
    BY <1>3 DEF ReadFails, Return
  <2>2. Live' = Live /\ UNCHANGED <<page, size, fd, kernel, doomed, Opened, Rw, Stale>>
    BY <1>1 DEF Live, Opened, Rw, Stale, disk, table, object
  <2>3. Opened[h] # NoFile /\ kernel[fd[h]] # NoFile
    BY <1>3, OpenObject DEF Opened
  <2>4. Doubtful' = Doubtful \cup {<<h, p>>}
    <3>1. \A g \in Live : fd[g] = fd[h] => g = h
      BY <1>3 DEF CacheInv, OwnDescriptor
    <3>2. ASSUME NEW k PROVE k \in Doubtful' <=> k \in Doubtful \/ k = <<h, p>>
      BY <1>3, <2>1, <2>2, <3>1, InDoubt DEF Doubtful
    <3> QED BY <3>2
  <2>5. Spoiled' = Spoiled
    BY <2>1, <2>2, <2>3 DEF Spoiled
  <2>6. Store!ReadFails(h, p, "RC_FILE_READ_FAILED")
    BY <1>3, <2>1, <2>2, <2>3, <2>4, <2>5 DEF Store!ReadFails, Store!Call, Call, Store!Pids, Pids
  <2>7. call'.rc = "RC_FILE_READ_FAILED"
    BY <2>1 DEF Call
  <2> QED BY <1>0, <2>6, <2>7 DEF Store!Next
<1>4. ASSUME h \in Live, p \in Pids, p < size[kernel[fd[h]]], UNCHANGED suspect,
             NEW c \in Contents,
             call' = Call("read", h, p, "OK", c),
             fd[h] \notin foreign /\ <<fd[h], p>> \notin suspect => c = page[kernel[fd[h]]][p]
      PROVE  Store!Next
  <2>1. Opened[h] = kernel[fd[h]] /\ Opened[h] # NoFile
    BY <1>4, OpenObject DEF Opened
  <2>2. UNCHANGED StoreVars
    BY <1>1, <1>4, QuietMapping DEF wrong
  <2>3. h \notin Stale /\ <<h, p>> \notin Doubtful => c = page[Opened[h]][p]
    BY <1>4, <2>1 DEF Stale, Doubtful
  <2>4. Store!Read(h, p, c)
    BY <1>4, <2>1, <2>2, <2>3 DEF Store!Read, StoreVars, Store!Call, Call, Store!Pids, Pids,
       Store!handles
  <2> QED BY <1>0, <1>4, <2>4 DEF Store!Next, Store!Pids, Pids
<1> QED BY <1>2, <1>3, <1>4, ReadStep

LEMMA StoreRestart == Restart => Store!Next
<1> SUFFICES ASSUME Restart PROVE Store!Next
  OBVIOUS
<1>1. Live' = {}
  BY DEF Restart, Live
<1>2. /\ Opened' = [h \in Handles |-> NoFile] /\ Rw' = {} /\ Stale' = {}
      /\ Doubtful' = {} /\ Spoiled' = FALSE
  BY <1>1 DEF Restart, Opened, Rw, Stale, Doubtful, Spoiled
<1>3. Store!Restart
  BY <1>2 DEF Restart, disk, Call, NoHandle, Store!Restart, Store!Call, Store!NoHandle
<1> QED BY <1>3 DEF Store!Next

LEMMA StoreStep ==
  OffsetsFit /\ CacheInv /\ [Next /\ Disciplined]_vars => [Store!Next]_(Store!vars)
<1> SUFFICES ASSUME OffsetsFit, CacheInv, [Next /\ Disciplined]_vars
             PROVE  [Store!Next]_(Store!vars)
  OBVIOUS
<1>1. CASE Next /\ Disciplined
  <2>1. ASSUME NEW h \in Handles, NEW f \in Files, NEW mode \in Modes, Open(h, f, mode)
        PROVE  Store!Next
    BY <1>1, <2>1, OpenIsCalled, StoreOpen DEF Disciplined
  <2>2. ASSUME NEW h \in Handles, Close(h) PROVE Store!Next
    BY <1>1, <2>2, CloseIsCalled, StoreClose DEF Disciplined
  <2>3. ASSUME NEW h \in Handles, NEW p \in -1 .. MaxPid, Write(h, p) PROVE Store!Next
    BY <1>1, <2>3, WriteIsCalled, StoreWrite DEF Disciplined
  <2>4. ASSUME NEW h \in Handles, NEW p \in -1 .. MaxPid, Read(h, p) PROVE Store!Next
    BY <1>1, <2>4, ReadIsCalled, StoreRead DEF Disciplined
  <2> QED BY <1>1, <2>1, <2>2, <2>3, <2>4, StoreDestroy, StoreRestart DEF Next
<1>2. CASE UNCHANGED vars
  BY <1>2, QuietMapping DEF vars, disk, table, object, wrong, StoreVars, Store!vars
<1> QED BY <1>1, <1>2

(* Descriptors, cache and clock are invisible: PageFile is a PageStore,    *)
(* whatever system calls fail, for any number of objects, files and slots. *)
THEOREM PageFileIsPageStore == ASSUME OffsetsFit PROVE DisciplinedSpec => ImplementsStore
<1> QED BY StoreInit, StoreStep, CacheInvariant, PTL DEF DisciplinedSpec, ImplementsStore, Store!Spec

-----------------------------------------------------------------------------
(* Replacement *)

(* Reading stops before cacheClock, an int, reaches its largest value. *)
NoWrap == MaxTick \in 1 .. ClockLimit - 2

Page(s) == <<cache[s].fd, cache[s].pid>>
Later(s, t) == cache[s].lastAccessed < cache[t].lastAccessed

(* The clock tells slots in use apart, and is ahead of all of them. *)
ClockOrders ==
  /\ cacheClock \in 1 .. MaxTick
  /\ \A s \in Slots : cache[s].lastAccessed \in 0 .. cacheClock
  /\ \A s, t \in Slots : Valid(s) /\ cache[s].lastAccessed = cache[t].lastAccessed => s = t

(* What was accessed after a page's slot was read after the page. *)
LaterWasRead ==
  \A k \in DOMAIN since, s, t \in Slots :
    Holds(s, k[1], k[2]) /\ Later(s, t) => Page(t) \in since[k]

LRUInv ==
  /\ TypeOK /\ UniqueSlots
  /\ ClockOrders
  /\ since = [k \in DOMAIN since |-> since[k]]
  /\ DOMAIN since \subseteq Int \X Pids
  /\ \A k \in DOMAIN since : IsFiniteSet(since[k])
  /\ LaterWasRead
  /\ RecentlyReadIsCached

-----------------------------------------------------------------------------
(* What a step does to the history *)

LEMMA ReadHistory ==
  ASSUME LRUNext, NEW h, NEW p, NEW rc \in {"OK", "RC_FILE_READ_FAILED"}, NEW c,
         call' = Call("read", h, p, rc, c)
  PROVE  since' = AfterRead(<<fd[h], p>>)
<1>1. call'.op = "read" /\ call'.rc = rc /\ call'.by = h /\ call'.pid = p
  BY DEF Call
<1> QED BY <1>1 DEF LRUNext

LEMMA WriteHistory ==
  ASSUME LRUNext, NEW h, NEW p, NEW c, call' = Call("write", h, p, "OK", c)
  PROVE  since' = Forgotten({<<fd[h], p>>})
<1>1. call'.op = "write" /\ call'.rc = "OK" /\ call'.by = h /\ call'.pid = p
  BY DEF Call
<1> QED BY <1>1 DEF LRUNext

LEMMA CloseHistory ==
  ASSUME LRUNext, NEW h, NEW p, NEW c, call' = Call("close", h, p, "OK", c)
  PROVE  since' = Forgotten({fd[h]} \X Pids)
<1>1. call'.op = "close" /\ call'.rc = "OK" /\ call'.by = h
  BY DEF Call
<1> QED BY <1>1 DEF LRUNext

LEMMA NoHistory ==
  ASSUME LRUNext, NEW op, NEW h, NEW p, NEW rc, NEW c, call' = Call(op, h, p, rc, c),
         \/ op \in {"open", "destroy"}
         \/ op = "read" /\ rc \notin {"OK", "RC_FILE_READ_FAILED"}
         \/ op \in {"write", "close"} /\ rc # "OK"
  PROVE  since' = since
<1>1. call'.op = op /\ call'.rc = rc
  BY DEF Call
<1> QED BY <1>1 DEF LRUNext

-----------------------------------------------------------------------------
(* The three things a step can do to the cache *)

(* Slots are emptied, and the pages they held are no longer looked for. *)
Emptied ==
  /\ cacheClock' = cacheClock
  /\ \A s \in Slots : cache'[s].lastAccessed # 0 => cache'[s] = cache[s]
  /\ \A s \in Slots : cache'[s].lastAccessed \in {0, cache[s].lastAccessed}
  /\ since' = [k \in DOMAIN since' |-> since'[k]]
  /\ \A k \in DOMAIN since' :
       /\ k \in DOMAIN since /\ since'[k] = since[k]
       /\ \A s \in Slots : Holds(s, k[1], k[2]) => cache'[s] = cache[s]

(* A page is read: it is in slot s already, or replaces what is there. *)
Accessed(s, d, p) ==
  /\ cacheClock' = Tick
  /\ \E c : cache' = [cache EXCEPT ![s] = [fd |-> d, pid |-> p, lastAccessed |-> Tick,
                                           buffer |-> c]]
  /\ since' = AfterRead(<<d, p>>)
  /\ Holds(s, d, p) \/ (~InCache(d, p) /\ ToEvict(s))

Restarted ==
  /\ cacheClock' = 1
  /\ cache' = [s \in Slots |-> EmptySlot]
  /\ since' = <<>>

LEMMA QuietEmpties ==
  ASSUME LRUInv, UNCHANGED <<cache, cacheClock, since>>
  PROVE  Emptied
BY DEF Emptied, LRUInv

LEMMA OpenEmpties ==
  ASSUME LRUInv, LRUNext, NEW h \in Handles, NEW f \in Files, NEW mode \in Modes,
         Open(h, f, mode)
  PROVE  Emptied
<1>1. UNCHANGED <<cache, cacheClock>>
  BY DEF Open, OpenRefused, OpenStatFails, OpenOK, Refuse, cached
<1>2. \E rc : call' = Call("open", h, 0, rc, NoContent)
  BY DEF Open, OpenRefused, OpenStatFails, OpenOK, Refuse, Return
<1> QED BY <1>1, <1>2, NoHistory, QuietEmpties

LEMMA CloseEmpties ==
  ASSUME LRUInv, LRUNext, NEW h \in Handles, Close(h) \/ Destroy(h)
  PROVE  Emptied
<1>1. CASE ~CloseOK(h)
  <2>1. UNCHANGED <<cache, cacheClock>>
    BY <1>1 DEF Close, CloseRefused, CloseFails, Destroy, Refuse, cached
  <2>2. \/ call' = Call("close", h, 0, "RC_FILE_CLOSE_FAILED", NoContent)
        \/ call' = Call("destroy", h, 0, "OK", NoContent)
    BY <1>1 DEF Close, CloseRefused, CloseFails, Destroy, Refuse, Return
  <2>3. since' = since
    BY <2>2, NoHistory
  <2> QED BY <2>1, <2>3, QuietEmpties
<1>2. CASE CloseOK(h)
  <2> DEFINE K == {fd[h]} \X Pids
  <2>1. cache' = Evicted(fd[h]) /\ cacheClock' = cacheClock
    BY <1>2 DEF CloseOK
  <2>2. since' = Forgotten(K)
    BY <1>2, CloseHistory DEF CloseOK, Return
  <2>3. \A s \in Slots : cache'[s].lastAccessed # 0 => cache'[s] = cache[s]
    BY <2>1, EvictedKeeps DEF LRUInv
  <2>4. \A s \in Slots : cache'[s].lastAccessed \in {0, cache[s].lastAccessed}
    BY <2>3
  <2>5. /\ since' = [k \in DOMAIN since' |-> since'[k]]
        /\ \A k \in DOMAIN since' : k \in DOMAIN since /\ k \notin K /\ since'[k] = since[k]
    BY <2>2 DEF Forgotten, Restrict
  <2>6. ASSUME NEW k \in DOMAIN since', NEW s \in Slots, Holds(s, k[1], k[2])
        PROVE  cache'[s] = cache[s]
    <3>1. k \in Int \X Pids /\ k \notin K
      BY <2>5 DEF LRUInv
    <3>2. k[1] # fd[h]
      BY <3>1
    <3> QED BY <2>1, <2>6, <3>2 DEF Evicted, Holds
  <2> HIDE DEF K
  <2> QED BY <2>1, <2>3, <2>4, <2>5, <2>6 DEF Emptied
<1> QED BY <1>1, <1>2

LEMMA WriteEmpties ==
  ASSUME LRUInv, LRUNext, NEW h \in Handles, NEW p \in -1 .. MaxPid, Write(h, p)
  PROVE  Emptied
<1>1. CASE WriteRefused(h, p)
  <2>1. UNCHANGED <<cache, cacheClock>>
    BY <1>1 DEF WriteRefused, Refuse, cached
  <2>2. \E rc \in {"RC_INVALID_PID", "RC_FILE_SEEK_FAILED", "RC_FILE_WRITE_FAILED"} :
          call' = Call("write", h, p, rc, NoContent)
    BY <1>1 DEF WriteRefused, Refuse, Return
  <2>3. since' = since
    BY <2>2, NoHistory
  <2> QED BY <2>1, <2>3, QuietEmpties
<1>2. CASE \E c \in Contents : WriteOK(h, p, c)
  <2>1. cache' = Invalidated(fd[h], p) /\ cacheClock' = cacheClock
    BY <1>2 DEF WriteOK
  <2>2. since' = Forgotten({<<fd[h], p>>})
    BY <1>2, WriteHistory DEF WriteOK, Return
  <2>3. \A s \in Slots : cache'[s].lastAccessed # 0 => cache'[s] = cache[s]
    BY <2>1, InvalidatedKeeps DEF LRUInv
  <2>4. \A s \in Slots : cache'[s].lastAccessed \in {0, cache[s].lastAccessed}
    BY <2>3
  <2>5. /\ since' = [k \in DOMAIN since' |-> since'[k]]
        /\ \A k \in DOMAIN since' :
             k \in DOMAIN since /\ k # <<fd[h], p>> /\ since'[k] = since[k]
    BY <2>2 DEF Forgotten, Restrict
  <2>6. ASSUME NEW k \in DOMAIN since', NEW s \in Slots, Holds(s, k[1], k[2])
        PROVE  cache'[s] = cache[s]
    <3>1. k \in Int \X Pids /\ k # <<fd[h], p>>
      BY <2>5 DEF LRUInv
    <3>2. k[1] # fd[h] \/ k[2] # p
      BY <3>1
    <3>3. ~FirstHit(s, fd[h], p)
      BY <2>6, <3>2 DEF FirstHit, Holds
    <3> QED BY <2>1, <3>3 DEF Invalidated
  <2> QED BY <2>1, <2>3, <2>4, <2>5, <2>6 DEF Emptied
<1> QED BY <1>1, <1>2 DEF Write

LEMMA ReadAccesses ==
  ASSUME LRUInv, LRUNext, NEW h \in Handles, NEW p \in -1 .. MaxPid, Read(h, p)
  PROVE  \/ Emptied
         \/ \E s \in Slots, d \in Int, q \in Pids : Accessed(s, d, q)
<1>1. CASE ReadRefused(h, p)
  <2>1. UNCHANGED <<cache, cacheClock>>
    BY <1>1 DEF ReadRefused, Refuse, cached
  <2>2. \E rc \in {"RC_INVALID_PID", "RC_FILE_SEEK_FAILED"} :
          call' = Call("read", h, p, rc, NoContent)
    BY <1>1 DEF ReadRefused, Refuse, Return
  <2>3. since' = since
    BY <2>2, NoHistory
  <2> QED BY <2>1, <2>3, QuietEmpties
<1>2. CASE ReadHit(h, p) \/ ReadFails(h, p) \/ ReadMiss(h, p)
  <2>1. p \in Pids /\ fd[h] \in Int /\ cacheClock' = Tick
    <3>1. fd[h] \in Fds \cup {-1} /\ Fds \subseteq Int
      BY PageFileAssumption DEF LRUInv, TypeOK
    <3> QED BY <1>2, <3>1 DEF ReadHit, ReadFails, ReadMiss, Pids
  <2>2. since' = AfterRead(<<fd[h], p>>)
    BY <1>2, ReadHistory DEF ReadHit, ReadFails, ReadMiss, Return
  <2>3. CASE ReadHit(h, p)
    <3>1. PICK s \in Slots :
            /\ FirstHit(s, fd[h], p)
            /\ cache' = [cache EXCEPT ![s] = [@ EXCEPT !.lastAccessed = Tick]]
      BY <2>3 DEF ReadHit
    <3>2. cache[s] \in Slot /\ cache[s].fd = fd[h] /\ cache[s].pid = p
      BY <3>1 DEF LRUInv, TypeOK, FirstHit, Holds
    <3>3. [cache[s] EXCEPT !.lastAccessed = Tick] =
            [fd |-> fd[h], pid |-> p, lastAccessed |-> Tick, buffer |-> cache[s].buffer]
      BY <3>2 DEF Slot
    <3>4. \E c : cache' = [cache EXCEPT ![s] = [fd |-> fd[h], pid |-> p,
                                                lastAccessed |-> Tick, buffer |-> c]]
      BY <3>1, <3>3
    <3> QED BY <2>1, <2>2, <3>1, <3>4 DEF Accessed, FirstHit
  <2>4. CASE ReadFails(h, p) \/ ReadMiss(h, p)
    <3>1. PICK s \in Slots :
            /\ ToEvict(s)
            /\ \E c : cache' = [cache EXCEPT ![s] = [fd |-> fd[h], pid |-> p,
                                                     lastAccessed |-> Tick, buffer |-> c]]
      BY <2>4 DEF ReadFails, ReadMiss
    <3>2. ~InCache(fd[h], p)
      BY <2>4 DEF ReadFails, ReadMiss
    <3> QED BY <2>1, <2>2, <3>1, <3>2 DEF Accessed
  <2> QED BY <1>2, <2>3, <2>4
<1> QED BY <1>1, <1>2 DEF Read

LEMMA RestartForgets ==
  ASSUME LRUNext, Restart
  PROVE  Restarted
<1>1. call'.op = "start"
  BY DEF Restart, Call
<1> QED BY <1>1 DEF LRUNext, Restart, Restarted

-----------------------------------------------------------------------------
(* Each of them preserves the invariant *)

LEMMA SlotNumbers ==
  /\ Slots \subseteq Nat /\ IsFiniteSet(Slots) /\ Cardinality(Slots) = CACHE_COUNT
  /\ CACHE_COUNT \in Nat /\ CACHE_COUNT # 0
<1>1. CACHE_COUNT \in Nat \ {0}
  BY PageFileAssumption
<1>2. Cardinality(0 .. CACHE_COUNT - 1) = CACHE_COUNT /\ IsFiniteSet(0 .. CACHE_COUNT - 1)
  BY <1>1, FS_Interval
<1> QED BY <1>1, <1>2 DEF Slots

LEMMA EmptiedKeeps ==
  ASSUME LRUInv, TypeOK', UniqueSlots', Emptied
  PROVE  LRUInv'
<1>1. \A s \in Slots : Valid(s)' => cache'[s] = cache[s] /\ Valid(s)
  BY DEF Emptied, Valid
<1>2. ClockOrders'
  <2>1. cacheClock' \in 1 .. MaxTick
    BY DEF LRUInv, ClockOrders, Emptied
  <2>2. \A s \in Slots : cache'[s].lastAccessed \in 0 .. cacheClock'
    <3> TAKE s \in Slots
    <3>1. cache[s].lastAccessed \in 0 .. cacheClock /\ 0 \in 0 .. cacheClock
      BY DEF LRUInv, ClockOrders
    <3> QED BY <3>1 DEF Emptied
  <2>3. ASSUME NEW s \in Slots, NEW t \in Slots, Valid(s)',
               cache'[s].lastAccessed = cache'[t].lastAccessed
        PROVE  s = t
    <3>1. Valid(t)'
      BY <2>3 DEF Valid
    <3> QED BY <1>1, <2>3, <3>1 DEF LRUInv, ClockOrders
  <2> QED BY <2>1, <2>2, <2>3 DEF ClockOrders
<1>3. \A k \in DOMAIN since' :
        /\ k \in DOMAIN since /\ since'[k] = since[k]
        /\ \A s \in Slots : Holds(s, k[1], k[2]) => cache'[s] = cache[s]
  BY DEF Emptied
<1>4. LaterWasRead'
  <2> SUFFICES ASSUME NEW k \in DOMAIN since', NEW s \in Slots, NEW t \in Slots,
                      Holds(s, k[1], k[2])', Later(s, t)'
               PROVE  Page(t)' \in since'[k]
    BY DEF LaterWasRead
  <2>1. Valid(s)' /\ Valid(t)'
    <3>1. cache'[s].lastAccessed # 0 /\ cache'[s].lastAccessed < cache'[t].lastAccessed
          /\ cache'[s].lastAccessed \in 0 .. cacheClock'
      BY <1>2 DEF Holds, Later, ClockOrders
    <3> QED BY <3>1 DEF Valid
  <2>2. cache'[s] = cache[s] /\ cache'[t] = cache[t]
    BY <1>1, <2>1
  <2>3. Holds(s, k[1], k[2]) /\ Later(s, t) /\ Page(t)' = Page(t)
    BY <2>2 DEF Holds, Later, Page
  <2> QED BY <1>3, <2>3 DEF LRUInv, LaterWasRead
<1>5. RecentlyReadIsCached'
  <2> SUFFICES ASSUME NEW k \in DOMAIN since', Cardinality(since'[k]) < CACHE_COUNT
               PROVE  InCache(k[1], k[2])'
    BY DEF RecentlyReadIsCached
  <2>1. InCache(k[1], k[2])
    BY <1>3 DEF LRUInv, RecentlyReadIsCached
  <2>2. PICK s \in Slots : Holds(s, k[1], k[2])
    BY <2>1 DEF InCache
  <2>3. cache'[s] = cache[s]
    BY <1>3, <2>2
  <2> QED BY <2>2, <2>3 DEF InCache, Holds
<1>6. since' = [k \in DOMAIN since' |-> since'[k]]
  BY DEF Emptied
<1> QED BY <1>2, <1>3, <1>4, <1>5, <1>6 DEF LRUInv

(* The clock has room for one more access. *)
LEMMA TickGrows ==
  ASSUME NoWrap, LRUInv, LRUNext, cacheClock' = Tick
  PROVE  Tick = cacheClock + 1 /\ cacheClock + 1 \in 1 .. MaxTick
<1>1. /\ cacheClock \in 1 .. MaxTick /\ MaxTick \in 1 .. ClockLimit - 2
      /\ ClockLimit \in Nat /\ cacheClock' <= MaxTick
  BY PageFileAssumption DEF NoWrap, LRUInv, ClockOrders, LRUNext
<1>2. cacheClock # ClockLimit - 1
  BY <1>1
<1>3. Tick = cacheClock + 1
  BY <1>2 DEF Tick
<1> QED BY <1>1, <1>3

(* A page that leaves the cache does so as the oldest of CACHE_COUNT; the  *)
(* others and the page it makes room for were all read after it.           *)
LEMMA OthersWereRead ==
  ASSUME LRUInv, NEW v \in Slots, ToEvict(v), NEW k \in DOMAIN since,
         Holds(v, k[1], k[2]), NEW d, NEW p, ~InCache(d, p)
  PROVE  Cardinality(since[k] \cup {<<d, p>>}) >= CACHE_COUNT
<1> DEFINE T == since[k] \cup {<<d, p>>}
           g == [t \in Slots |-> IF t = v THEN <<d, p>> ELSE Page(t)]
<1>1. \A t \in Slots : /\ cache[t].lastAccessed \in Int /\ cache[t].lastAccessed >= 0
                       /\ Valid(t) => \A u \in Slots :
                            cache[t].lastAccessed = cache[u].lastAccessed => t = u
  BY DEF LRUInv, ClockOrders
<1>2. Valid(v)
  BY DEF Holds, Valid
<1>3. \A t \in Slots : cache[t].lastAccessed # 0
  BY <1>2 DEF ToEvict, Valid
<1>4. \A t \in Slots \ {v} : Later(v, t)
  <2> TAKE t \in Slots \ {v}
  <2>1. cache[v].lastAccessed <= cache[t].lastAccessed
    BY <1>1, <1>3 DEF ToEvict
  <2>2. cache[v].lastAccessed # cache[t].lastAccessed
    BY <1>1, <1>2
  <2> QED BY <1>1, <2>1, <2>2 DEF Later
<1>5. \A t \in Slots \ {v} : Page(t) \in since[k]
  BY <1>4 DEF LRUInv, LaterWasRead
<1>6. g \in [Slots -> T]
  BY <1>5
<1>7. ASSUME NEW s \in Slots, NEW t \in Slots, g[s] = g[t]
      PROVE  s = t
  <2>1. \A u \in Slots : Page(u) # <<d, p>>
    BY <1>3 DEF InCache, Holds, Page
  <2>2. \A u, w \in Slots : Page(u) = Page(w) => u = w
    BY <1>3 DEF LRUInv, UniqueSlots, Valid, Page
  <2> QED BY <1>7, <2>1, <2>2
<1>8. g \in Injection(Slots, T)
  <2> HIDE DEF g, T
  <2> QED BY <1>6, <1>7 DEF Injection, IsInjective
<1>9. IsFiniteSet(T)
  BY FS_AddElement DEF LRUInv
<1> HIDE DEF T, g
<1>10. Cardinality(Slots) <= Cardinality(T)
  BY <1>8, <1>9, FS_Injection
<1> QED BY <1>10, SlotNumbers, <1>9, FS_CardinalityType DEF T

LEMMA AccessedKeeps ==
  ASSUME NoWrap, LRUInv, LRUNext, TypeOK', UniqueSlots',
         NEW v \in Slots, NEW d \in Int, NEW p \in Pids, Accessed(v, d, p)
  PROVE  LRUInv'
<1>1. /\ Tick = cacheClock + 1 /\ cacheClock' = cacheClock + 1
      /\ cacheClock + 1 \in 1 .. MaxTick /\ cacheClock \in Int /\ cacheClock >= 1
  BY TickGrows DEF Accessed, LRUInv, ClockOrders
<1>2. /\ cache'[v].fd = d /\ cache'[v].pid = p /\ cache'[v].lastAccessed = cacheClock + 1
      /\ \A s \in Slots \ {v} : cache'[s] = cache[s]
  BY <1>1 DEF Accessed, LRUInv, TypeOK
<1>3. \A s \in Slots : /\ cache[s].lastAccessed \in Int /\ cache[s].lastAccessed >= 0
                       /\ cache[s].lastAccessed <= cacheClock
  BY <1>1 DEF LRUInv, ClockOrders
<1>4. ClockOrders'
  <2>1. \A s \in Slots : cache'[s].lastAccessed \in 0 .. cacheClock'
    BY <1>1, <1>2, <1>3
  <2>2. ASSUME NEW s \in Slots, NEW t \in Slots, Valid(s)',
               cache'[s].lastAccessed = cache'[t].lastAccessed
        PROVE  s = t
    <3>1. CASE s = v \/ t = v
      BY <1>1, <1>2, <1>3, <2>2, <3>1
    <3>2. CASE s # v /\ t # v
      BY <1>2, <2>2, <3>2 DEF Valid, LRUInv, ClockOrders
    <3> QED BY <3>1, <3>2
  <2> QED BY <1>1, <2>1, <2>2 DEF ClockOrders
<1> DEFINE q == <<d, p>>
<1>5. /\ DOMAIN since' = DOMAIN since \cup {q}
      /\ since' = [k \in DOMAIN since' |-> since'[k]]
      /\ since'[q] = {}
      /\ \A k \in DOMAIN since : k # q => since'[k] = since[k] \cup {q}
  BY DEF Accessed, AfterRead
<1>6. q \in Int \X Pids /\ DOMAIN since' \subseteq Int \X Pids
  BY <1>5 DEF LRUInv
<1>7. \A k \in DOMAIN since' : IsFiniteSet(since'[k])
  <2> TAKE k \in DOMAIN since'
  <2>1. CASE k = q
    BY <1>5, <2>1, FS_EmptySet
  <2>2. CASE k # q
    <3>1. IsFiniteSet(since[k]) /\ since'[k] = since[k] \cup {q}
      BY <1>5, <2>2 DEF LRUInv
    <3> HIDE DEF q
    <3> QED BY <3>1, FS_AddElement
  <2> QED BY <2>1, <2>2
<1>8. Holds(v, d, p)' /\ Page(v)' = q
  BY <1>1, <1>2 DEF Holds, Page
<1>9. LaterWasRead'
  <2> SUFFICES ASSUME NEW k \in DOMAIN since', NEW s \in Slots, NEW t \in Slots,
                      Holds(s, k[1], k[2])', Later(s, t)'
               PROVE  Page(t)' \in since'[k]
    BY DEF LaterWasRead
  <2>1. s # v
    BY <1>1, <1>2, <1>3 DEF Later
  <2>2. k # q
    <3> SUFFICES ASSUME k = q PROVE FALSE
      OBVIOUS
    <3>1. Holds(s, d, p)'
      BY DEF Holds
    <3> QED BY <1>8, <2>1, <3>1 DEF UniqueSlots, Valid, Holds
  <2>3. Holds(s, k[1], k[2]) /\ k \in DOMAIN since /\ since'[k] = since[k] \cup {q}
    BY <1>2, <1>5, <2>1, <2>2 DEF Holds
  <2>4. CASE t = v
    BY <1>8, <2>3, <2>4
  <2>5. CASE t # v
    <3>1. Later(s, t) /\ Page(t)' = Page(t)
      BY <1>2, <2>1, <2>5 DEF Later, Page
    <3> QED BY <2>3, <3>1 DEF LRUInv, LaterWasRead
  <2> QED BY <2>4, <2>5
<1>10. RecentlyReadIsCached'
  <2> SUFFICES ASSUME NEW k \in DOMAIN since', Cardinality(since'[k]) < CACHE_COUNT
               PROVE  InCache(k[1], k[2])'
    BY DEF RecentlyReadIsCached
  <2>1. CASE k = q
    BY <1>8, <2>1 DEF InCache
  <2>2. CASE k # q
    <3>1. k \in DOMAIN since /\ since'[k] = since[k] \cup {q} /\ k = <<k[1], k[2]>>
      BY <1>5, <1>6, <2>2
    <3>2. IsFiniteSet(since[k]) /\ IsFiniteSet(since[k] \cup {q})
      BY <1>7, <3>1 DEF LRUInv
    <3>3. Cardinality(since[k]) < CACHE_COUNT
      <4>1. Cardinality(since[k]) <= Cardinality(since'[k])
        BY <3>1, <3>2, FS_Subset
      <4>2. Cardinality(since[k]) \in Nat /\ Cardinality(since'[k]) \in Nat
        BY <3>1, <3>2, FS_CardinalityType
      <4> QED BY <4>1, <4>2, SlotNumbers
    <3>4. PICK s \in Slots : Holds(s, k[1], k[2])
      BY <3>1, <3>3 DEF LRUInv, RecentlyReadIsCached, InCache
    <3>5. CASE s # v
      BY <1>2, <3>4, <3>5 DEF InCache, Holds
    <3>6. CASE s = v
      <4>1. ~Holds(v, d, p)
        BY <2>2, <3>1, <3>4, <3>6 DEF Holds
      <4>2. ~InCache(d, p) /\ ToEvict(v)
        BY <4>1 DEF Accessed
      <4>3. Cardinality(since'[k]) >= CACHE_COUNT
        BY <3>1, <3>4, <3>6, <4>2, OthersWereRead
      <4>4. Cardinality(since'[k]) \in Nat
        BY <3>1, <3>2, FS_CardinalityType
      <4> QED BY <4>3, <4>4, SlotNumbers
    <3> QED BY <3>5, <3>6
  <2> QED BY <2>1, <2>2
<1> HIDE DEF q
<1> QED BY <1>4, <1>5, <1>6, <1>7, <1>9, <1>10 DEF LRUInv

LEMMA RestartedKeeps ==
  ASSUME NoWrap, TypeOK', UniqueSlots', Restarted
  PROVE  LRUInv'
<1>1. \A s \in Slots : cache'[s].lastAccessed = 0
  BY DEF Restarted, EmptySlot
<1>2. 1 \in 1 .. MaxTick /\ 0 \in 0 .. 1
  BY DEF NoWrap
<1>3. ClockOrders'
  BY <1>1, <1>2 DEF Restarted, ClockOrders, Valid
<1>4. DOMAIN since' = {} /\ since' = [k \in {} |-> since'[k]]
  BY DEF Restarted
<1> QED BY <1>3, <1>4 DEF LRUInv, LaterWasRead, RecentlyReadIsCached

-----------------------------------------------------------------------------
(* The theorem *)

LEMMA LRUInvInit == NoWrap /\ LRUInit => LRUInv
<1> SUFFICES ASSUME NoWrap, LRUInit PROVE LRUInv
  OBVIOUS
<1>1. TypeOK /\ UniqueSlots
  BY TypeInit, UniqueInit DEF LRUInit
<1>2. \A s \in Slots : cache[s].lastAccessed = 0
  BY DEF LRUInit, Init, EmptySlot
<1>3. 1 \in 1 .. MaxTick /\ 0 \in 0 .. 1 /\ cacheClock = 1
  BY DEF NoWrap, LRUInit, Init
<1>4. ClockOrders
  BY <1>2, <1>3 DEF ClockOrders, Valid
<1>5. DOMAIN since = {} /\ since = [k \in {} |-> since[k]]
  BY DEF LRUInit
<1> QED BY <1>1, <1>4, <1>5 DEF LRUInv, LaterWasRead, RecentlyReadIsCached

LEMMA LRUInvNext == NoWrap /\ LRUInv /\ [LRUNext]_lruVars => LRUInv'
<1> SUFFICES ASSUME NoWrap, LRUInv, [LRUNext]_lruVars PROVE LRUInv'
  OBVIOUS
<1>1. CASE UNCHANGED lruVars
  BY <1>1 DEF lruVars, vars, LRUInv, TypeOK, UniqueSlots, ClockOrders, LaterWasRead,
              RecentlyReadIsCached, Valid, Holds, Later, Page, InCache
<1>2. CASE LRUNext
  <2>1. Next /\ TypeOK' /\ UniqueSlots'
    BY <1>2, TypeStep, UniqueStep DEF LRUNext, LRUInv
  <2>2. \/ Emptied \/ Restarted
        \/ \E s \in Slots, d \in Int, p \in Pids : Accessed(s, d, p)
    BY <1>2, <2>1, OpenEmpties, CloseEmpties, WriteEmpties, ReadAccesses, RestartForgets
       DEF Next
  <2> QED BY <1>2, <2>1, <2>2, EmptiedKeeps, AccessedKeeps, RestartedKeeps
<1> QED BY <1>1, <1>2

(* PageFile.h:93, "LRU caching": until cacheClock wraps, a page that was   *)
(* read is cached as long as fewer than CACHE_COUNT other pages were read  *)
(* after it, with writes, closings, failing calls and leaked descriptors   *)
(* in between.                                                             *)
THEOREM RecentStaysCached == ASSUME NoWrap PROVE LRUSpec => []RecentlyReadIsCached
<1>1. LRUInv => RecentlyReadIsCached
  BY DEF LRUInv
<1> QED BY <1>1, LRUInvInit, LRUInvNext, PTL DEF LRUSpec
=============================================================================
