--------------------------- MODULE RecordFileProofs ---------------------------
(***************************************************************************)
(* Proofs about RecordFile, for any number of objects, files, pages and    *)
(* slots: what open() relies on to find the end of a file, that every open *)
(* object stands at that end, and that RecordFile is the log of RecordLog, *)
(* whatever PageFile call fails and wherever the process ends.  What an    *)
(* error of read(2) costs is in RecordLog; what the callers keep to, in    *)
(* RecordFile.                                                             *)
(***************************************************************************)
EXTENDS RecordFile, SequenceTheorems, TLAPS

-----------------------------------------------------------------------------
(* The invariant *)

(* Where the next record of a file goes *)
EndOf(f) == IF size[f] > 0 THEN EndAfter(size[f] - 1, page[f][size[f] - 1]) ELSE Rid(0, 0)

(* An object that may write has its file to itself. *)
OneWriter ==
  \A g, h \in Handles : g # h /\ opened[g] # NoFile /\ opened[g] = opened[h] => g \notin rw

EridsAtEnd ==
  \A h \in Handles : opened[h] # NoFile /\ ~Opening(h) => erid[h] = EndOf(opened[h])

(* What a call has found out before its second call of PageFile still holds. *)
PendingHolds ==
  /\ pending.op = "open" =>
       /\ opened[pending.by] # NoFile
       /\ size[opened[pending.by]] > 0
       /\ erid[pending.by].pid = size[opened[pending.by]] - 1
       /\ \A p \in PF!Pids : <<pending.by, p>> \notin suspect
       /\ ~spoiled
  /\ pending.op = "append" =>
       LET h == pending.by
           e == erid[h]
       IN opened[h] # NoFile /\ e.sid > 0 /\ <<h, e.pid>> \notin suspect =>
            pending.page = page[opened[h]][e.pid]

(* Only an object that is open has met an error of read(2). *)
SuspectIsOpen == \A h \in Handles, p \in PF!Pids : <<h, p>> \in suspect => opened[h] # NoFile

RecInv == /\ TypeOK
          /\ WellFormed
          /\ OneWriter
          /\ stale = {}
          /\ EridsAtEnd
          /\ PendingHolds
          /\ SuspectIsOpen

Rids == [pid : Int, sid : Int]

LEMMA RidType == \A a, b \in Int : Rid(a, b) \in Rids
BY DEF Rid, Rids

LEMMA ZeroPageType == ZeroPage \in Pages
BY RecordFileAssumption DEF ZeroPage, Pages

LEMMA RecInvInit == Init => RecInv
<1> SUFFICES ASSUME Init PROVE RecInv
  OBVIOUS
<1> USE DEF Init, PF!Init, PF!Absent
<1>1. TypeOK
  <2>1. page \in [Files -> [PF!Pids -> Pages]]
    BY ZeroPageType
  <2>2. size \in [Files -> PF!Absent .. MaxPid + 1]
    BY RecordFileAssumption
  <2>3. erid \in [Handles -> Rids]
    BY RidType
  <2> QED BY <2>1, <2>2, <2>3 DEF TypeOK, Rids
<1>2. WellFormed
  BY DEF WellFormed
<1>3. OneWriter /\ EridsAtEnd /\ SuspectIsOpen
  BY DEF OneWriter, EridsAtEnd, SuspectIsOpen
<1>4. PendingHolds
  BY DEF PendingHolds, Idle
<1> QED BY <1>1, <1>2, <1>3, <1>4 DEF RecInv

(* Types of the parts, for the steps below *)
LEMMA Types ==
  ASSUME TypeOK
  PROVE  /\ page \in [Files -> [0 .. MaxPid -> Pages]]
         /\ size \in [Files -> -1 .. MaxPid + 1]
         /\ opened \in [Handles -> Files \cup {NoFile}]
         /\ erid \in [Handles -> Rids]
         /\ rw \in SUBSET Handles /\ doomed \in SUBSET Handles
         /\ suspect \in SUBSET (Handles \X (0 .. MaxPid)) /\ spoiled \in BOOLEAN
BY DEF TypeOK, PF!Pids, PF!Absent, Rids

LEMMA PageParts ==
  ASSUME NEW c \in Pages
  PROVE  /\ c.count \in 0 .. RECORDS_PER_PAGE
         /\ c.slot \in [Slots -> Records]
BY DEF Pages

LEMMA EndAfterType ==
  ASSUME NEW p \in 0 .. MaxPid, NEW c \in Pages
  PROVE  EndAfter(p, c) \in [pid : 0 .. MaxPid + 1, sid : Slots]
<1>1. c.count \in 0 .. RECORDS_PER_PAGE
  BY PageParts
<1>2. CASE c.count >= RECORDS_PER_PAGE
  BY <1>2, RecordFileAssumption DEF EndAfter, Rid, Slots
<1>3. CASE ~(c.count >= RECORDS_PER_PAGE)
  BY <1>1, <1>3, RecordFileAssumption DEF EndAfter, Rid, Slots
<1> QED BY <1>2, <1>3

LEMMA EndOfType ==
  ASSUME TypeOK, NEW f \in Files
  PROVE  EndOf(f) \in [pid : 0 .. MaxPid + 1, sid : Slots]
<1>1. CASE size[f] > 0
  <2>1. size[f] - 1 \in 0 .. MaxPid /\ page[f][size[f] - 1] \in Pages
    BY <1>1, Types, RecordFileAssumption
  <2> QED BY <1>1, <2>1, EndAfterType DEF EndOf
<1>2. CASE ~(size[f] > 0)
  BY <1>2, RecordFileAssumption DEF EndOf, Rid, Slots
<1> QED BY <1>1, <1>2

(* Creating a file changes nothing about its records. *)
SameFiles == /\ UNCHANGED page
             /\ \A f \in Files : size'[f] = size[f] \/ (size[f] = -1 /\ size'[f] = 0)

LEMMA SameEnds ==
  ASSUME SameFiles
  PROVE  \A f \in Files : EndOf(f)' = EndOf(f)
BY DEF SameFiles, EndOf

LEMMA SameWellFormed ==
  ASSUME RecInv, SameFiles
  PROVE  WellFormed'
<1> SUFFICES ASSUME NEW f \in Files, NEW p \in 0 .. size'[f] - 1
             PROVE  LET c == page'[f][p]
                    IN IF p < size'[f] - 1 THEN c.count = RECORDS_PER_PAGE ELSE c.count > 0
  BY DEF WellFormed
<1>1. size'[f] = size[f] /\ page' = page
  BY DEF SameFiles
<1> QED BY <1>1 DEF RecInv, WellFormed

(* A step of one object that leaves the files alone: what it has to show. *)
LEMMA QuietStep ==
  ASSUME RecInv, SameFiles, TypeOK', UNCHANGED <<opened, rw, stale>>,
         NEW h \in Handles, \A g \in Handles \ {h} : erid'[g] = erid[g] /\ ~Opening(g)',
         pending.op = "none" \/ pending.by = h,
         opened[h] # NoFile /\ ~Opening(h)' => erid'[h] = EndOf(opened[h]),
         PendingHolds', SuspectIsOpen'
  PROVE  RecInv'
<1>1. WellFormed'
  BY SameWellFormed
<1>2. OneWriter'
  BY DEF RecInv, OneWriter
<1>3. EridsAtEnd'
  <2> SUFFICES ASSUME NEW g \in Handles, opened[g] # NoFile, ~Opening(g)'
               PROVE  erid'[g] = EndOf(opened[g])'
    BY DEF EridsAtEnd
  <2>1. opened[g] \in Files
    BY DEF RecInv, TypeOK
  <2>2. erid'[g] = EndOf(opened[g])
    BY DEF RecInv, EridsAtEnd, Opening
  <2> QED BY <2>1, <2>2, SameEnds
<1> QED BY <1>1, <1>2, <1>3 DEF RecInv

-----------------------------------------------------------------------------
(* The steps *)

LEMMA UnchangedStep ==
  ASSUME RecInv, UNCHANGED <<page, size, opened, rw, stale, doomed, spoiled, erid, pending>>,
         \/ UNCHANGED suspect
         \/ /\ pending = Idle
            /\ \E h \in Handles, p \in PF!Pids :
                 opened[h] # NoFile /\ suspect' = suspect \cup {<<h, p>>}
  PROVE  RecInv'
<1>1. TypeOK'
  BY DEF RecInv, TypeOK
<1>2. WellFormed' /\ OneWriter' /\ stale' = {}
  BY DEF RecInv, WellFormed, OneWriter
<1>3. EridsAtEnd'
  BY DEF RecInv, EridsAtEnd, EndOf, Opening
<1>4. PendingHolds'
  BY DEF RecInv, PendingHolds, Idle
<1>5. SuspectIsOpen'
  BY DEF RecInv, SuspectIsOpen
<1> QED BY <1>1, <1>2, <1>3, <1>4, <1>5 DEF RecInv

(* open() may create the file. *)
LEMMA CreateProp ==
  ASSUME TypeOK, NEW f \in Files, PF!MayCreate(f) \/ UNCHANGED size, UNCHANGED page
  PROVE  SameFiles /\ size' \in [Files -> -1 .. MaxPid + 1]
<1>1. size' = size \/ (size[f] = -1 /\ size' = [size EXCEPT ![f] = 0])
  BY DEF PF!MayCreate, PF!Absent
<1>2. size \in [Files -> -1 .. MaxPid + 1]
  BY Types
<1>3. SameFiles
  BY <1>1, <1>2 DEF SameFiles
<1>4. size' \in [Files -> -1 .. MaxPid + 1]
  BY <1>1, <1>2, RecordFileAssumption
<1> QED BY <1>3, <1>4

LEMMA OpenRefusedStep ==
  ASSUME RecInv, NEW h \in Handles, NEW f \in Files, NEW writes \in BOOLEAN,
         OpenRefused(h, f, writes)
  PROVE  RecInv'
<1>1. /\ PF!MayCreate(f) \/ UNCHANGED size
      /\ UNCHANGED <<page, opened, rw, stale, suspect, doomed, spoiled>>
      /\ pending = Idle /\ pending' = Idle
  BY DEF OpenRefused, PF!OpenFails, PF!handles
<1>2. TypeOK
  BY DEF RecInv
<1>3. SameFiles /\ size' \in [Files -> -1 .. MaxPid + 1]
  BY <1>1, <1>2, CreateProp
<1>4. \/ UNCHANGED erid
      \/ /\ opened[h] = NoFile
         /\ \E r \in Garbage : erid' = [erid EXCEPT ![h] = r]
  BY DEF OpenRefused
<1>5. erid' \in [Handles -> Rids]
  BY <1>2, <1>4, RecordFileAssumption DEF TypeOK, Rids
<1>6. TypeOK'
  BY <1>1, <1>2, <1>3, <1>5 DEF TypeOK, PF!Absent, Rids
<1>7. \A g \in Handles \ {h} : erid'[g] = erid[g] /\ ~Opening(g)'
  BY <1>1, <1>2, <1>4 DEF TypeOK, Opening, Idle
<1>8. opened[h] # NoFile => erid'[h] = EndOf(opened[h])
  BY <1>1, <1>4 DEF RecInv, EridsAtEnd, Opening, Idle
<1>9. PendingHolds' /\ SuspectIsOpen'
  BY <1>1 DEF RecInv, PendingHolds, SuspectIsOpen, Idle
<1>10. pending.op = "none"
  BY <1>1 DEF Idle
<1> QED BY <1>1, <1>3, <1>6, <1>7, <1>8, <1>9, <1>10, QuietStep

LEMMA OpenStartStep ==
  ASSUME RecInv, NEW h \in Handles, NEW f \in Files, NEW writes \in BOOLEAN,
         OpenStart(h, f, writes)
  PROVE  RecInv'
<1>1. /\ PF!MayCreate(f) \/ UNCHANGED size
      /\ size'[f] # -1
      /\ UNCHANGED page
      /\ pending = Idle /\ opened[h] = NoFile
      /\ opened' = [opened EXCEPT ![h] = f]
      /\ rw' = IF writes THEN rw \cup {h} ELSE rw \ {h}
      /\ stale' = stale \ {h}
      /\ Allowed(h, f, writes)
      /\ ~spoiled /\ spoiled' \in {spoiled, FALSE}
      /\ suspect' = suspect /\ doomed' = doomed
  BY DEF OpenStart, PF!Open, PF!Absent
<1>2. TypeOK /\ stale = {}
  BY DEF RecInv
<1>3. SameFiles /\ size' \in [Files -> -1 .. MaxPid + 1]
  BY <1>1, <1>2, CreateProp
<1>4. /\ opened \in [Handles -> Files \cup {NoFile}]
      /\ erid \in [Handles -> Rids]
      /\ page \in [Files -> [0 .. MaxPid -> Pages]]
  BY <1>2, Types
<1>5. WellFormed'
  BY <1>3, SameWellFormed
<1>6. OneWriter'
  <2> SUFFICES ASSUME NEW g \in Handles, NEW k \in Handles, g # k,
                      opened'[g] # NoFile, opened'[g] = opened'[k], g \in rw'
               PROVE  FALSE
    BY DEF OneWriter
  <2>1. CASE g # h /\ k # h
    BY <2>1, <1>1, <1>4 DEF RecInv, OneWriter
  <2>2. CASE g = h
    <3>1. opened[k] = f /\ k \in Handles \ {h}
      BY <2>2, <1>1, <1>4
    <3>2. ~writes
      BY <3>1, <1>1 DEF Allowed
    <3> QED BY <3>2, <2>2, <1>1
  <2>3. CASE k = h
    <3>1. opened[g] = f /\ g \in Handles \ {h}
      BY <2>3, <1>1, <1>4
    <3>2. ~writes /\ g \notin rw
      BY <3>1, <1>1 DEF Allowed
    <3> QED BY <3>2, <1>1
  <2> QED BY <2>1, <2>2, <2>3
<1>7. \A g \in Handles \ {h} : opened'[g] = opened[g]
  BY <1>1, <1>4
<1>10. SuspectIsOpen'
  BY <1>1, <1>4 DEF RecInv, SuspectIsOpen
<1>8. CASE size'[f] = 0
  <2>1. erid' = [erid EXCEPT ![h] = Rid(0, 0)] /\ pending' = Idle
    BY <1>1, <1>8 DEF OpenStart
  <2>2. TypeOK'
    <3>1. Rid(0, 0) \in Rids
      BY RidType
    <3>2. erid' \in [Handles -> Rids]
      BY <3>1, <2>1, <1>4
    <3>3. opened' \in [Handles -> Files \cup {NoFile}] /\ rw' \in SUBSET Handles
      BY <1>1, <1>2, <1>4 DEF TypeOK
    <3> QED BY <3>2, <3>3, <2>1, <1>1, <1>2, <1>3 DEF TypeOK, PF!Absent, Rids
  <2>3. EridsAtEnd'
    <3> SUFFICES ASSUME NEW g \in Handles, opened'[g] # NoFile
                 PROVE  erid'[g] = EndOf(opened[g])'
      BY DEF EridsAtEnd
    <3>1. CASE g = h
      <4>1. opened'[g] = f /\ erid'[g] = Rid(0, 0)
        BY <3>1, <2>1, <1>1, <1>4
      <4>2. EndOf(f)' = Rid(0, 0)
        BY <1>8 DEF EndOf
      <4> QED BY <4>1, <4>2 DEF EndOf
    <3>2. CASE g # h
      <4>1. opened'[g] = opened[g] /\ opened[g] \in Files /\ erid'[g] = erid[g]
        BY <3>2, <2>1, <1>1, <1>4
      <4>2. erid[g] = EndOf(opened[g])
        BY <4>1, <1>1 DEF RecInv, EridsAtEnd, Opening, Idle
      <4> QED BY <4>1, <4>2, <1>3 DEF EndOf, SameFiles
    <3> QED BY <3>1, <3>2
  <2>4. PendingHolds'
    BY <2>1 DEF PendingHolds, Idle
  <2> QED BY <2>2, <2>3, <2>4, <1>1, <1>2, <1>5, <1>6, <1>10 DEF RecInv
<1>9. CASE size'[f] # 0
  <2>1. /\ erid' = [erid EXCEPT ![h] = Rid(size'[f] - 1, erid[h].sid)]
        /\ pending' = [op |-> "open", by |-> h]
    BY <1>9 DEF OpenStart
  <2>2. size'[f] \in 1 .. MaxPid + 1
    BY <1>1, <1>3, <1>9
  <2>3. TypeOK'
    <3>1. Rid(size'[f] - 1, erid[h].sid) \in Rids
      BY <2>2, <1>4, RecordFileAssumption DEF Rid, Rids
    <3>2. erid' \in [Handles -> Rids]
      BY <3>1, <2>1, <1>4
    <3>3. opened' \in [Handles -> Files \cup {NoFile}] /\ rw' \in SUBSET Handles
      BY <1>1, <1>2, <1>4 DEF TypeOK
    <3>4. pending' \in [op : {"open"}, by : Handles]
      BY <2>1
    <3> QED BY <3>2, <3>3, <3>4, <1>1, <1>2, <1>3 DEF TypeOK, PF!Absent, Rids
  <2>4. EridsAtEnd'
    <3> SUFFICES ASSUME NEW g \in Handles, opened'[g] # NoFile, ~Opening(g)'
                 PROVE  erid'[g] = EndOf(opened[g])'
      BY DEF EridsAtEnd
    <3>1. g # h
      BY <2>1 DEF Opening
    <3>2. opened'[g] = opened[g] /\ opened[g] \in Files /\ erid'[g] = erid[g]
      BY <3>1, <2>1, <1>1, <1>4
    <3>3. erid[g] = EndOf(opened[g])
      BY <3>2, <1>1 DEF RecInv, EridsAtEnd, Opening, Idle
    <3> QED BY <3>2, <3>3, <1>3 DEF EndOf, SameFiles
  <2>5. PendingHolds'
    <3>1. opened'[h] = f /\ f # NoFile /\ erid'[h].pid = size'[f] - 1 /\ size'[f] > 0
      BY <2>1, <2>2, <1>1, <1>4, RecordFileAssumption DEF Rid
    <3>2. \A p \in PF!Pids : <<h, p>> \notin suspect'
      BY <1>1 DEF RecInv, SuspectIsOpen
    <3>3. ~spoiled'
      BY <1>1, Zenon
    <3>4. pending'.op = "open" /\ pending'.by = h
      BY <2>1
    <3> QED BY <3>1, <3>2, <3>3, <3>4 DEF PendingHolds
  <2> QED BY <2>3, <2>4, <2>5, <1>1, <1>2, <1>5, <1>6, <1>10 DEF RecInv
<1> QED BY <1>8, <1>9

LEMMA OpenLastPageStep ==
  ASSUME RecInv, NEW h \in Handles, OpenLastPage(h)
  PROVE  RecInv'
<1> DEFINE f == opened[h]
           c == page[f][erid[h].pid]
<1>1. /\ pending = [op |-> "open", by |-> h] /\ pending' = Idle
      /\ UNCHANGED <<page, size, opened, rw, stale, suspect, doomed, spoiled>>
  BY DEF OpenLastPage, PF!Read, PF!handles
<1>2. /\ f # NoFile /\ size[f] > 0 /\ erid[h].pid = size[f] - 1
      /\ TypeOK /\ stale = {}
      /\ \A p \in PF!Pids : <<h, p>> \notin suspect
  BY <1>1 DEF RecInv, PendingHolds
<1>3. /\ f \in Files /\ size[f] \in -1 .. MaxPid + 1
      /\ erid \in [Handles -> Rids]
      /\ page \in [Files -> [0 .. MaxPid -> Pages]]
  BY <1>2, Types
<1>4. erid[h].pid \in 0 .. MaxPid /\ c \in Pages
  BY <1>2, <1>3, RecordFileAssumption
<1>5. erid' = [erid EXCEPT ![h] = EndAfter(erid[h].pid, c)]
  BY <1>2 DEF OpenLastPage, PF!Read
<1>6. EndAfter(erid[h].pid, c) = EndOf(f)
  BY <1>2 DEF EndOf
<1>7. erid' \in [Handles -> Rids]
  <2>1. EndAfter(erid[h].pid, c) \in Rids
    BY <1>4, EndAfterType, RecordFileAssumption DEF Rids, Slots
  <2> QED BY <1>3, <1>5, <2>1
<1> HIDE DEF c
<1>8. TypeOK'
  BY <1>1, <1>2, <1>7 DEF TypeOK, Rids
<1>9. \A g \in Handles \ {h} : erid'[g] = erid[g] /\ ~Opening(g)'
  BY <1>1, <1>3, <1>5 DEF Opening, Idle
<1>10. erid'[h] = EndOf(opened[h])
  BY <1>3, <1>5, <1>6
<1>11. PendingHolds' /\ SuspectIsOpen'
  BY <1>1 DEF RecInv, PendingHolds, SuspectIsOpen, Idle
<1>12. SameFiles /\ pending.by = h
  BY <1>1 DEF SameFiles
<1> QED BY <1>1, <1>8, <1>9, <1>10, <1>11, <1>12, QuietStep

LEMMA OpenLastPageFailsStep ==
  ASSUME RecInv, NEW h \in Handles, OpenLastPageFails(h)
  PROVE  RecInv'
<1>1. /\ pending = [op |-> "open", by |-> h]
      /\ UNCHANGED <<page, size, opened, rw, stale, doomed, spoiled>>
      /\ erid' = [erid EXCEPT ![h] = Rid(0, 0)]
      /\ \/ UNCHANGED suspect
         \/ \E p \in PF!Pids : opened[h] # NoFile /\ suspect' = suspect \cup {<<h, p>>}
  BY DEF OpenLastPageFails, PF!ReadFails
<1>2. PICK rc \in {"RC_FILE_SEEK_FAILED", "RC_FILE_READ_FAILED"} :
        pending' = [op |-> "giveup", by |-> h, rc |-> rc]
  BY DEF OpenLastPageFails
<1>3. TypeOK /\ erid \in [Handles -> Rids]
  BY DEF RecInv, TypeOK, Rids
<1>4. TypeOK'
  <2>1. erid' \in [Handles -> Rids]
    BY <1>1, <1>3, RidType
  <2>2. pending' \in [op : {"giveup"}, by : Handles,
                      rc : {"RC_FILE_SEEK_FAILED", "RC_FILE_READ_FAILED"}]
    BY <1>2
  <2>3. suspect' \in SUBSET (Handles \X PF!Pids)
    BY <1>1, <1>3 DEF TypeOK
  <2> QED BY <2>1, <2>2, <2>3, <1>1, <1>3 DEF TypeOK, Rids
<1>5. \A g \in Handles \ {h} : erid'[g] = erid[g] /\ ~Opening(g)'
  BY <1>1, <1>2, <1>3 DEF Opening
<1>6. Opening(h)'
  BY <1>2 DEF Opening
<1>7. PendingHolds' /\ SuspectIsOpen'
  BY <1>1, <1>2 DEF RecInv, PendingHolds, SuspectIsOpen
<1>8. SameFiles /\ pending.by = h
  BY <1>1 DEF SameFiles
<1> QED BY <1>1, <1>4, <1>5, <1>6, <1>7, <1>8, QuietStep

(* An object gives up its file, or loses it. *)
LEMMA ReleaseStep ==
  ASSUME RecInv, NEW h \in Handles, UNCHANGED <<page, size>>, PF!LetGo(h),
         doomed' \in SUBSET Handles, spoiled' \in BOOLEAN,
         pending = Idle \/ pending.by = h, pending' = Idle,
         erid' = [erid EXCEPT ![h] = Rid(0, 0)] \/ UNCHANGED erid
  PROVE  RecInv'
<1>0. /\ opened' = [opened EXCEPT ![h] = NoFile]
      /\ rw' = rw \ {h} /\ stale' = stale \ {h}
      /\ suspect' = suspect \ ({h} \X PF!Pids)
  BY DEF PF!LetGo
<1>1. /\ TypeOK
      /\ opened \in [Handles -> Files \cup {NoFile}]
      /\ erid \in [Handles -> Rids]
  BY DEF RecInv, TypeOK, Rids
<1>2. TypeOK'
  <2>1. erid' \in [Handles -> Rids]
    BY <1>1, RidType
  <2>2. opened' \in [Handles -> Files \cup {NoFile}]
    BY <1>0, <1>1
  <2> QED BY <2>1, <2>2, <1>0, <1>1 DEF TypeOK, Rids
<1>3. \A g \in Handles \ {h} : /\ opened'[g] = opened[g] /\ erid'[g] = erid[g]
                               /\ ~Opening(g)
  BY <1>0, <1>1 DEF Opening, Idle
<1>4. opened'[h] = NoFile
  BY <1>0, <1>1
<1>5. WellFormed' /\ stale' = {}
  BY <1>0 DEF RecInv, WellFormed
<1>6. OneWriter'
  BY <1>0, <1>3, <1>4 DEF RecInv, OneWriter
<1>7. EridsAtEnd'
  BY <1>3, <1>4 DEF RecInv, EridsAtEnd, EndOf
<1>8. PendingHolds'
  BY DEF PendingHolds, Idle
<1>9. SuspectIsOpen'
  BY <1>0, <1>3 DEF RecInv, SuspectIsOpen
<1> QED BY <1>2, <1>5, <1>6, <1>7, <1>8, <1>9 DEF RecInv

LEMMA OpenGiveUpStep ==
  ASSUME RecInv, NEW h \in Handles, OpenGiveUp(h)
  PROVE  RecInv'
BY ReleaseStep DEF OpenGiveUp, PF!Close, PF!CloseFails, RecInv, TypeOK

LEMMA CloseStep ==
  ASSUME RecInv, NEW h \in Handles, Close(h)
  PROVE  RecInv'
<1>1. CASE PF!Close(h) \/ PF!CloseFails(h)
  BY <1>1, ReleaseStep DEF Close, PF!Close, PF!CloseFails, RecInv, TypeOK
<1>2. CASE PF!CloseRefused(h)
  <2>1. /\ UNCHANGED <<page, size, opened, rw, stale, suspect, doomed, spoiled>>
        /\ opened[h] = NoFile
        /\ erid' = [erid EXCEPT ![h] = Rid(0, 0)]
        /\ pending = Idle /\ pending' = Idle
    BY <1>2 DEF Close, PF!CloseRefused, PF!handles
  <2>2. TypeOK /\ erid \in [Handles -> Rids]
    BY DEF RecInv, TypeOK, Rids
  <2>3. erid' \in [Handles -> Rids]
    BY <2>1, <2>2, RidType
  <2>4. TypeOK'
    BY <2>1, <2>2, <2>3 DEF TypeOK, Rids
  <2>5. \A g \in Handles \ {h} : erid'[g] = erid[g] /\ ~Opening(g)'
    BY <2>1, <2>2 DEF Opening, Idle
  <2>6. SameFiles /\ pending.op = "none" /\ PendingHolds' /\ SuspectIsOpen'
    BY <2>1 DEF SameFiles, Idle, PendingHolds, RecInv, SuspectIsOpen
  <2> QED BY <2>1, <2>4, <2>5, <2>6, QuietStep
<1> QED BY <1>1, <1>2 DEF Close

LEMMA DestroyStep ==
  ASSUME RecInv, NEW h \in Handles, Destroy(h)
  PROVE  RecInv'
BY ReleaseStep DEF Destroy, PF!Destroy, RecInv, TypeOK

LEMMA AppendStartStep ==
  ASSUME RecInv, NEW h \in Handles, NEW r \in Records, AppendStart(h, r)
  PROVE  RecInv'
<1>1. /\ pending = Idle
      /\ UNCHANGED <<page, size, opened, rw, stale, suspect, doomed, spoiled, erid>>
  BY DEF AppendStart, PF!Read, PF!handles, pfVars
<1>2. TypeOK /\ stale = {}
  BY DEF RecInv
<1>3. PICK c \in Pages :
        /\ pending' = [op |-> "append", by |-> h, rec |-> r, page |-> c]
        /\ erid[h].sid > 0 /\ <<h, erid[h].pid>> \notin suspect
             => c = page[opened[h]][erid[h].pid]
  <2>1. CASE erid[h].sid > 0
    BY <2>1, <1>2 DEF AppendStart, PF!Read
  <2>2. CASE ~(erid[h].sid > 0)
    BY <2>2, ZeroPageType DEF AppendStart
  <2> QED BY <2>1, <2>2
<1>4. TypeOK'
  <2>1. pending' \in [op : {"append"}, by : Handles, rec : Records, page : Pages]
    BY <1>3
  <2> QED BY <2>1, <1>1, <1>2 DEF TypeOK
<1>5. \A g \in Handles : ~Opening(g)' /\ ~Opening(g)
  BY <1>1, <1>3 DEF Opening, Idle
<1>6. EridsAtEnd'
  BY <1>1, <1>5 DEF RecInv, EridsAtEnd, EndOf
<1>7. PendingHolds'
  BY <1>1, <1>3 DEF PendingHolds
<1>8. WellFormed' /\ OneWriter' /\ stale' = {} /\ SuspectIsOpen'
  BY <1>1 DEF RecInv, WellFormed, OneWriter, SuspectIsOpen
<1> QED BY <1>4, <1>6, <1>7, <1>8 DEF RecInv

LEMMA AppendWriteFailsStep ==
  ASSUME RecInv, NEW h \in Handles, AppendWriteFails(h)
  PROVE  RecInv'
<1>1. /\ pending.op = "append" /\ pending.by = h /\ pending' = Idle
      /\ UNCHANGED <<page, size, opened, rw, stale, suspect, doomed, spoiled, erid>>
  BY DEF AppendWriteFails, PF!WriteFails, PF!handles
<1>2. TypeOK'
  BY <1>1 DEF RecInv, TypeOK
<1>3. EridsAtEnd'
  BY <1>1 DEF RecInv, EridsAtEnd, EndOf, Opening
<1>4. WellFormed' /\ OneWriter' /\ stale' = {} /\ PendingHolds' /\ SuspectIsOpen'
  BY <1>1 DEF RecInv, WellFormed, OneWriter, PendingHolds, SuspectIsOpen, Idle
<1> QED BY <1>2, <1>3, <1>4 DEF RecInv

LEMMA RestartStep ==
  ASSUME RecInv, Restart
  PROVE  RecInv'
<1>1. /\ UNCHANGED <<page, size>> /\ opened' = [h \in Handles |-> NoFile]
      /\ rw' = {} /\ stale' = {} /\ pending' = Idle
      /\ erid' = [h \in Handles |-> Rid(0, 0)]
      /\ suspect' = {} /\ doomed' = {} /\ spoiled' = FALSE
  BY DEF Restart, PF!Restart
<1>2. TypeOK'
  <2>1. erid' \in [Handles -> Rids]
    BY <1>1, RidType
  <2> QED BY <2>1, <1>1 DEF RecInv, TypeOK, Rids
<1>3. WellFormed' /\ OneWriter' /\ EridsAtEnd' /\ PendingHolds' /\ SuspectIsOpen'
  BY <1>1 DEF RecInv, WellFormed, OneWriter, EridsAtEnd, PendingHolds, SuspectIsOpen, Idle
<1> QED BY <1>1, <1>2, <1>3 DEF RecInv

(* append() where a record fits: the page it writes, and the pages before. *)
LEMMA AppendProp ==
  ASSUME RecInv, NEW h \in Handles, AppendWrite(h)
  PROVE  LET f == opened[h]
             p == erid[h].pid
             s == erid[h].sid
             w == WithRecord(pending.page, s, pending.rec)
         IN /\ f \in Files /\ p \in 0 .. MaxPid /\ s \in Slots
            /\ erid[h] = EndOf(f)
            /\ pending.page \in Pages /\ pending.rec \in Records
            /\ page' = [page EXCEPT ![f] = [page[f] EXCEPT ![p] = w]]
            /\ size' = [size EXCEPT ![f] = p + 1]
            /\ \A q \in 0 .. p - 1 : q \in 0 .. size[f] - 1
                                      /\ page[f][q].count = RECORDS_PER_PAGE
            /\ w \in Pages /\ w.count = s + 1
            /\ w.slot[s] = Stored[pending.rec]
            /\ s > 0 => /\ size[f] = p + 1 /\ page[f][p].count = s
                        /\ <<h, p>> \notin suspect =>
                             \A i \in 0 .. s - 1 : w.slot[i] = page[f][p].slot[i]
            /\ s = 0 => size[f] <= p
<1> DEFINE f == opened[h]
           p == erid[h].pid
           s == erid[h].sid
           c == pending.page
           w == WithRecord(c, s, pending.rec)
           l == page[f][size[f] - 1]
<1>1. /\ pending.op = "append" /\ pending.by = h
      /\ f # NoFile /\ p \in 0 .. MaxPid
      /\ page' = [page EXCEPT ![f][p] = w]
      /\ size' = [size EXCEPT ![f] = IF p >= size[f] THEN p + 1 ELSE size[f]]
  BY DEF AppendWrite, PF!Write, PF!Pids
<1>2. /\ TypeOK /\ PendingHolds /\ erid[h] = EndOf(f)
  BY <1>1 DEF RecInv, EridsAtEnd, Opening
<1>3. /\ f \in Files /\ size \in [Files -> -1 .. MaxPid + 1]
      /\ size[f] \in -1 .. MaxPid + 1
      /\ page \in [Files -> [0 .. MaxPid -> Pages]]
      /\ page[f] \in [0 .. MaxPid -> Pages]
  BY <1>1, <1>2, Types
<1>0. s \in Slots /\ p \in 0 .. MaxPid + 1
  BY <1>2, <1>3, EndOfType
<1>4. c \in Pages /\ pending.rec \in Records
  BY <1>1, <1>2 DEF TypeOK, Idle
<1>5. s > 0 /\ <<h, p>> \notin suspect => c = page[f][p]
  BY <1>1, <1>2 DEF PendingHolds
<1>6. \A q \in 0 .. size[f] - 1 :
        IF q < size[f] - 1 THEN page[f][q].count = RECORDS_PER_PAGE ELSE page[f][q].count > 0
  BY <1>3 DEF RecInv, WellFormed
<1>7. Slots = 0 .. RECORDS_PER_PAGE - 1 /\ RECORDS_PER_PAGE \in Nat /\ RECORDS_PER_PAGE > 1
      /\ MaxPid \in Nat
  BY RecordFileAssumption DEF Slots
<1> HIDE DEF f, p, s, c
<1>8. /\ w.count = s + 1
      /\ w.slot = [c.slot EXCEPT ![s] = Stored[pending.rec]]
      /\ c.slot \in [Slots -> Records]
      /\ Stored[pending.rec] \in Records
  BY <1>4, PageParts, RecordFileAssumption DEF WithRecord
<1>9. w \in Pages
  <2>1. s + 1 \in 0 .. RECORDS_PER_PAGE
    BY <1>0, <1>7
  <2>2. [c.slot EXCEPT ![s] = Stored[pending.rec]] \in [Slots -> Records]
    BY <1>8
  <2> QED BY <2>1, <2>2 DEF WithRecord, Pages
<1>10. /\ w.slot[s] = Stored[pending.rec]
       /\ \A i \in Slots : i # s => w.slot[i] = c.slot[i]
  BY <1>0, <1>8
<1> HIDE DEF w
<1>11. page' = [page EXCEPT ![f] = [page[f] EXCEPT ![p] = w]]
  BY <1>1
<1>12. CASE size[f] <= 0
  <2>1. p = 0 /\ s = 0
    BY <1>2, <1>3, <1>12 DEF EndOf, Rid, p, s
  <2>2. size' = [size EXCEPT ![f] = p + 1]
    BY <1>1, <1>12, <2>1
  <2>4. size[f] <= p /\ ~(s > 0)
    BY <1>12, <2>1
  <2> QED BY <2>1, <2>2, <2>4, <1>0, <1>1, <1>2, <1>3, <1>4, <1>8, <1>9, <1>10, <1>11
          DEF f, p, s, c, w
<1>13. CASE size[f] > 0
  <2>1. /\ size[f] - 1 \in 0 .. MaxPid /\ l \in Pages /\ l.count \in 0 .. RECORDS_PER_PAGE
        /\ l.count > 0
        /\ \A q \in 0 .. size[f] - 2 : page[f][q].count = RECORDS_PER_PAGE
    <3>1. size[f] - 1 \in 0 .. MaxPid /\ size[f] - 1 \in 0 .. size[f] - 1
      BY <1>3, <1>7, <1>13
    <3>2. l \in Pages
      BY <1>3, <3>1
    <3>3. l.count > 0
      BY <3>1, <1>6
    <3>4. \A q \in 0 .. size[f] - 2 : page[f][q].count = RECORDS_PER_PAGE
      BY <1>3, <1>6
    <3> QED BY <3>1, <3>2, <3>3, <3>4, PageParts
  <2>2. erid[h] = EndAfter(size[f] - 1, l)
    BY <1>2, <1>13 DEF EndOf
  <2>3. CASE l.count = RECORDS_PER_PAGE
    <3>1. p = size[f] /\ s = 0
      BY <2>1, <2>2, <2>3, <1>3, <1>7 DEF EndAfter, Rid, p, s
    <3>2. size' = [size EXCEPT ![f] = p + 1]
      <4>1. (IF p >= size[f] THEN p + 1 ELSE size[f]) = p + 1
        BY <3>1, <1>3
      <4> QED BY <4>1, <1>1
    <3>4. \A q \in 0 .. p - 1 : q \in 0 .. size[f] - 1 /\ page[f][q].count = RECORDS_PER_PAGE
      <4> SUFFICES ASSUME NEW q \in 0 .. p - 1 PROVE page[f][q].count = RECORDS_PER_PAGE
        BY <3>1
      <4>1. CASE q = size[f] - 1
        BY <4>1, <2>3
      <4>2. CASE q # size[f] - 1
        BY <4>2, <2>1, <3>1, <1>3
      <4> QED BY <4>1, <4>2
    <3>5. size[f] <= p /\ ~(s > 0)
      BY <1>3, <3>1
    <3> QED BY <3>2, <3>4, <3>5, <1>0, <1>1, <1>2, <1>3, <1>4, <1>8, <1>9, <1>10, <1>11
            DEF f, p, s, c, w
  <2>4. CASE l.count # RECORDS_PER_PAGE
    <3>1. p = size[f] - 1 /\ s = l.count
      BY <2>1, <2>2, <2>4, <1>3, <1>7 DEF EndAfter, Rid, p, s
    <3>2. s > 0 /\ page[f][p] = l /\ size[f] = p + 1
      BY <2>1, <3>1, <1>3
    <3>3. size' = [size EXCEPT ![f] = p + 1]
      <4>1. (IF p >= size[f] THEN p + 1 ELSE size[f]) = p + 1
        BY <3>2
      <4> QED BY <4>1, <1>1
    <3>5. <<h, p>> \notin suspect => \A i \in 0 .. s - 1 : w.slot[i] = page[f][p].slot[i]
      <4> SUFFICES ASSUME <<h, p>> \notin suspect, NEW i \in 0 .. s - 1
                   PROVE  w.slot[i] = page[f][p].slot[i]
        OBVIOUS
      <4>1. i # s /\ i \in Slots
        BY <1>0, <1>7
      <4> QED BY <4>1, <3>2, <1>5, <1>10
    <3>6. \A q \in 0 .. p - 1 : q \in 0 .. size[f] - 1 /\ page[f][q].count = RECORDS_PER_PAGE
      <4> SUFFICES ASSUME NEW q \in 0 .. p - 1
                   PROVE  q \in 0 .. size[f] - 1 /\ q \in 0 .. size[f] - 2
        BY <2>1
      <4> QED BY <3>2, <1>1
    <3>7. page[f][p].count = s /\ s # 0
      BY <3>1, <3>2
    <3> QED BY <3>2, <3>3, <3>5, <3>6, <3>7, <1>0, <1>1, <1>2, <1>3, <1>4, <1>8, <1>9, <1>10,
               <1>11
            DEF f, p, s, c, w
  <2>5. l.count = RECORDS_PER_PAGE \/ l.count # RECORDS_PER_PAGE
    OBVIOUS
  <2> QED BY <2>3, <2>4, <2>5, Zenon
<1>14. size[f] <= 0 \/ size[f] > 0
  BY <1>3
<1> QED BY <1>12, <1>13, <1>14, Zenon

LEMMA AppendWriteStep ==
  ASSUME RecInv, NEW h \in Handles, AppendWrite(h)
  PROVE  RecInv'
<1> DEFINE f == opened[h]
           p == erid[h].pid
           s == erid[h].sid
           w == WithRecord(pending.page, s, pending.rec)
<1>1. /\ f \in Files /\ p \in 0 .. MaxPid /\ s \in Slots
      /\ page' = [page EXCEPT ![f] = [page[f] EXCEPT ![p] = w]]
      /\ size' = [size EXCEPT ![f] = p + 1]
      /\ \A q \in 0 .. p - 1 : q \in 0 .. size[f] - 1
                                /\ page[f][q].count = RECORDS_PER_PAGE
      /\ w \in Pages /\ w.count = s + 1
  BY AppendProp
<1>2. /\ pending.op = "append" /\ pending.by = h /\ pending' = Idle
      /\ h \in rw /\ f # NoFile /\ UNCHANGED <<opened, rw>>
      /\ stale' = stale \cup {g \in Handles \ {h} : opened[g] = f}
      /\ erid' = [erid EXCEPT ![h] = Increment(erid[h])]
      /\ suspect' = suspect \ {<<h, p>>} /\ UNCHANGED <<doomed, spoiled>>
  BY DEF AppendWrite, PF!Write
<1>3. /\ TypeOK /\ WellFormed /\ stale = {}
      /\ size \in [Files -> -1 .. MaxPid + 1]
      /\ page \in [Files -> [0 .. MaxPid -> Pages]]
      /\ erid \in [Handles -> Rids]
      /\ opened \in [Handles -> Files \cup {NoFile}]
  BY Types DEF RecInv
<1>4. \A g \in Handles \ {h} : opened[g] # f
  BY <1>2 DEF RecInv, OneWriter
<1>5. Slots = 0 .. RECORDS_PER_PAGE - 1 /\ RECORDS_PER_PAGE \in Nat /\ RECORDS_PER_PAGE > 1
      /\ MaxPid \in Nat
  BY RecordFileAssumption DEF Slots
<1>6. Increment(erid[h]) \in Rids
  <2>1. Rid(p + 1, 0) \in Rids /\ Rid(p, s + 1) \in Rids
    <3>1. p + 1 \in Int /\ s + 1 \in Int /\ p \in Int
      BY <1>1, <1>5
    <3> QED BY <3>1, RidType
  <2> QED BY <2>1 DEF Increment
<1> HIDE DEF w, f, p, s
<1>7. page' \in [Files -> [0 .. MaxPid -> Pages]]
  BY <1>1, <1>3
<1>8. size' \in [Files -> -1 .. MaxPid + 1]
  BY <1>1, <1>3, <1>5
<1>9. page'[f][p] = w /\ size'[f] = p + 1
      /\ \A q \in 0 .. p - 1 : page'[f][q] = page[f][q]
  <2>1. page[f] \in [0 .. MaxPid -> Pages] /\ page'[f] = [page[f] EXCEPT ![p] = w]
        /\ size'[f] = p + 1
    BY <1>1, <1>3
  <2>2. \A q \in 0 .. p - 1 : q \in 0 .. MaxPid /\ q # p
    BY <1>1, <1>5
  <2> QED BY <2>1, <2>2, <1>1
<1>10. TypeOK'
  <2>1. erid' \in [Handles -> Rids]
    BY <1>2, <1>3, <1>6
  <2>2. stale' \in SUBSET Handles /\ suspect' \in SUBSET (Handles \X PF!Pids)
    BY <1>2, <1>3 DEF TypeOK
  <2> QED BY <2>1, <2>2, <1>2, <1>3, <1>7, <1>8 DEF TypeOK, PF!Pids, PF!Absent, Rids
<1>11. WellFormed'
  <2> SUFFICES ASSUME NEW g \in Files, NEW q \in 0 .. size'[g] - 1
               PROVE  LET c == page'[g][q]
                      IN IF q < size'[g] - 1 THEN c.count = RECORDS_PER_PAGE ELSE c.count > 0
    BY DEF WellFormed
  <2>1. CASE g # f
    <3>1. page'[g] = page[g] /\ size'[g] = size[g]
      BY <2>1, <1>1, <1>3
    <3> QED BY <3>1, <1>3 DEF WellFormed
  <2>2. CASE g = f /\ q = p
    <3>1. s + 1 > 0
      BY <1>1, <1>5
    <3> QED BY <3>1, <2>2, <1>1, <1>9
  <2>3. CASE g = f /\ q # p
    <3>1. q \in 0 .. p - 1 /\ q < size'[f] - 1
      BY <2>3, <1>1, <1>9
    <3>2. q \in 0 .. size[f] - 1 /\ page'[f][q] = page[f][q]
          /\ page[f][q].count = RECORDS_PER_PAGE
      BY <3>1, <1>1, <1>9
    <3> QED BY <3>1, <3>2, <2>3
  <2> QED BY <2>1, <2>2, <2>3
<1>12. EridsAtEnd'
  <2> SUFFICES ASSUME NEW g \in Handles, opened'[g] # NoFile
               PROVE  erid'[g] = EndOf(opened[g])'
    BY DEF EridsAtEnd
  <2>1. CASE g = h
    <3>1. EndOf(opened[g])' = EndAfter(p, w)
      <4>1. opened'[g] = f
        BY <2>1, <1>2 DEF f
      <4>2. size'[f] - 1 = p /\ size'[f] > 0
        BY <1>1, <1>9, <1>5
      <4> QED BY <4>1, <4>2, <1>9 DEF EndOf
    <3>2. erid'[g] = Increment(erid[h])
      BY <2>1, <1>2, <1>3
    <3>3. EndAfter(p, w) = Increment(erid[h])
      BY <1>1 DEF EndAfter, Increment, p, s
    <3> QED BY <3>1, <3>2, <3>3
  <2>2. CASE g # h
    <3>1. opened[g] # f /\ opened[g] \in Files /\ opened'[g] = opened[g] /\ erid'[g] = erid[g]
      BY <2>2, <1>2, <1>3, <1>4
    <3>2. page'[opened[g]] = page[opened[g]] /\ size'[opened[g]] = size[opened[g]]
      BY <3>1, <1>1, <1>3
    <3>3. erid[g] = EndOf(opened[g])
      BY <3>1, <1>2, <1>3 DEF RecInv, EridsAtEnd, Opening
    <3> QED BY <3>1, <3>2, <3>3 DEF EndOf
  <2> QED BY <2>1, <2>2
<1>13. OneWriter' /\ stale' = {} /\ PendingHolds' /\ SuspectIsOpen'
  BY <1>2, <1>3, <1>4 DEF RecInv, OneWriter, PendingHolds, SuspectIsOpen, Idle
<1> QED BY <1>10, <1>11, <1>12, <1>13 DEF RecInv

LEMMA RecInvNext == RecInv /\ [Next]_recordVars => RecInv'
<1> SUFFICES ASSUME RecInv, [Next]_recordVars PROVE RecInv'
  OBVIOUS
<1>1. ASSUME NEW h \in Handles, NEW f \in Files, NEW writes \in BOOLEAN,
             OpenStart(h, f, writes) \/ OpenRefused(h, f, writes)
      PROVE  RecInv'
  BY <1>1, OpenStartStep, OpenRefusedStep
<1>2. ASSUME NEW h \in Handles, OpenLastPage(h) \/ OpenLastPageFails(h) \/ OpenGiveUp(h)
      PROVE  RecInv'
  BY <1>2, OpenLastPageStep, OpenLastPageFailsStep, OpenGiveUpStep
<1>3. ASSUME NEW h \in Handles, Close(h) \/ Destroy(h)
      PROVE  RecInv'
  BY <1>3, CloseStep, DestroyStep
<1>4. ASSUME NEW h \in Handles, NEW r,
             ReadRefused(h, r) \/ ReadOK(h, r) \/ ReadFails(h, r) \/ AppendReadFails(h)
      PROVE  RecInv'
  <2>1. CASE ReadRefused(h, r) \/ ReadOK(h, r)
    BY <2>1, UnchangedStep DEF ReadRefused, ReadOK, pfVars, PF!Read, PF!handles
  <2>2. ASSUME NEW q, NEW rc, pending = Idle, PF!ReadFails(h, q, rc), UNCHANGED <<erid, pending>>
        PROVE  RecInv'
    BY <2>2, UnchangedStep DEF PF!ReadFails
  <2> QED BY <1>4, <2>1, <2>2 DEF ReadFails, AppendReadFails
<1>5. ASSUME NEW h \in Handles, NEW r \in Records, AppendStart(h, r)
      PROVE  RecInv'
  BY <1>5, AppendStartStep
<1>6. ASSUME NEW h \in Handles, AppendWrite(h) \/ AppendWriteFails(h)
      PROVE  RecInv'
  BY <1>6, AppendWriteStep, AppendWriteFailsStep
<1>7. CASE Restart
  BY <1>7, RestartStep
<1>8. CASE UNCHANGED recordVars
  BY <1>8, UnchangedStep DEF recordVars, pfVars
<1> QED BY <1>1, <1>2, <1>3, <1>4, <1>5, <1>6, <1>7, <1>8 DEF Next

-----------------------------------------------------------------------------
(* Record ids and positions *)

LEMMA PerPage == RECORDS_PER_PAGE \in Nat /\ RECORDS_PER_PAGE > 1
BY RecordFileAssumption

LEMMA Rows ==
  ASSUME NEW R \in Nat, NEW a \in Int, NEW b \in Int, a < b
  PROVE  a * R + R <= b * R
OBVIOUS

LEMMA DivMod ==
  ASSUME NEW R \in Nat \ {0}, NEW i \in Nat
  PROVE  /\ i \div R \in Nat /\ i % R \in 0 .. R - 1
         /\ i = (i \div R) * R + (i % R)
OBVIOUS

(* Positions are ordered as record ids are. *)
LEMMA PositionOrder ==
  ASSUME NEW R \in Nat, NEW p \in Nat, NEW q \in Nat, NEW s \in 0 .. R - 1, NEW t \in 0 .. R - 1
  PROVE  p * R + s < q * R + t <=> p < q \/ (p = q /\ s < t)
<1> DEFINE x == p * R
           y == q * R
<1>1. x \in Int /\ y \in Int
  OBVIOUS
<1>2. p < q => x + R <= y
  BY Rows
<1>3. q < p => y + R <= x
  BY Rows
<1>4. p = q => x = y
  OBVIOUS
<1> HIDE DEF x, y
<1>5. x + s < y + t <=> p < q \/ (p = q /\ s < t)
  BY <1>1, <1>2, <1>3, <1>4
<1> QED BY <1>5 DEF x, y

LEMMA RowBefore ==
  ASSUME NEW R \in Nat \ {0}, NEW p \in Nat, NEW q \in Nat, NEW s \in 0 .. R - 1,
         p * R + s < q * R
  PROVE  p < q
<1>1. p * R + s < q * R + 0 /\ 0 \in 0 .. R - 1
  OBVIOUS
<1>2. p < q \/ (p = q /\ s < 0)
  BY <1>1, PositionOrder
<1> QED BY <1>2

LEMMA DivModIs ==
  ASSUME NEW R \in Nat \ {0}, NEW p \in Nat, NEW s \in 0 .. R - 1
  PROVE  /\ p * R + s \in Nat
         /\ (p * R + s) \div R = p
         /\ (p * R + s) % R = s
<1> DEFINE i == p * R + s
<1>1. i \in Nat
  <2>1. p * R \in Nat
    OBVIOUS
  <2> QED BY <2>1
<1> DEFINE q == i \div R
           m == i % R
<1>2. q \in Nat /\ m \in 0 .. R - 1 /\ i = q * R + m
  <2> HIDE DEF i
  <2> QED BY <1>1, DivMod
<1>3. ~(q * R + m < p * R + s) /\ ~(p * R + s < q * R + m)
  <2> HIDE DEF q, m
  <2>1. i \in Int /\ i = q * R + m /\ i = p * R + s
    BY <1>1, <1>2
  <2> HIDE DEF i
  <2> QED BY <2>1
<1> HIDE DEF q, m, i
<1>4. /\ ~(q < p \/ (q = p /\ m < s))
      /\ ~(p < q \/ (p = q /\ s < m))
  BY <1>2, <1>3, PositionOrder
<1>5. q = p /\ m = s
  BY <1>2, <1>4
<1> QED BY <1>1, <1>5 DEF q, m, i

(* What open() finds is the number of records the file has. *)
LEMMA EndPosition ==
  ASSUME RecInv, NEW f \in Files
  PROVE  /\ EndOf(f).pid \in Nat /\ EndOf(f).sid \in Slots
         /\ Position(EndOf(f)) = EndOf(f).pid * RECORDS_PER_PAGE + EndOf(f).sid
         /\ Position(EndOf(f)) = Count(f)
         /\ Count(f) \in Nat
         /\ size[f] > 0 => Count(f) <= size[f] * RECORDS_PER_PAGE
<1> DEFINE R == RECORDS_PER_PAGE
           n == size[f]
           c == page[f][n - 1]
<1>1. /\ n \in -1 .. MaxPid + 1 /\ page[f] \in [0 .. MaxPid -> Pages]
      /\ MaxPid \in Nat /\ R \in Nat /\ R > 1 /\ Slots = 0 .. R - 1
  BY Types, RecordFileAssumption DEF RecInv, Slots
<1>2. CASE n <= 0
  <2>1. EndOf(f) = Rid(0, 0) /\ Count(f) = 0
    BY <1>1, <1>2 DEF EndOf, Count
  <2>2. Position(Rid(0, 0)) = 0 * R + 0 /\ 0 * R + 0 = 0
    BY <1>1 DEF Position, Rid
  <2>3. Rid(0, 0).pid = 0 /\ Rid(0, 0).sid = 0 /\ 0 \in Slots
    BY <1>1 DEF Rid
  <2> QED BY <1>1, <1>2, <2>1, <2>2, <2>3
<1>3. CASE n > 0
  <2>1. n - 1 \in 0 .. MaxPid /\ c \in Pages /\ c.count \in 0 .. R
    <3>1. n - 1 \in 0 .. MaxPid
      BY <1>1, <1>3
    <3> QED BY <3>1, <1>1, PageParts
  <2>2. Count(f) = (n - 1) * R + c.count /\ EndOf(f) = EndAfter(n - 1, c)
    BY <1>1, <1>3 DEF Count, EndOf
  <2> DEFINE x == (n - 1) * R
             e == EndOf(f)
  <2>3. x \in Nat /\ x + R = n * R
    BY <1>1, <1>3, <2>1
  <2> HIDE DEF n, c, R
  <2>4. CASE c.count >= R
    <3>1. e = Rid(n, 0)
      BY <2>2, <2>4, <2>1, <1>1 DEF EndAfter, R
    <3>2. e.pid = n /\ e.sid = 0 /\ n \in Nat /\ 0 \in Slots
      BY <3>1, <1>1, <1>3 DEF Rid
    <3>3. Position(e) = n * R + 0
      BY <3>2 DEF Position, R
    <3>4. c.count = R
      BY <2>1, <2>4, <1>1
    <3>5. n * R \in Nat /\ Count(f) = x + R
      BY <2>2, <2>3, <3>4, <1>1
    <3>6. n * R + 0 = Count(f) /\ Count(f) \in Nat /\ Count(f) <= n * R
      <4> DEFINE y == n * R
      <4>1. y \in Nat /\ x + R = y
        BY <2>3, <3>5
      <4> HIDE DEF x, y
      <4>2. y + 0 = Count(f) /\ Count(f) \in Nat /\ Count(f) <= y
        BY <4>1, <3>5
      <4> QED BY <4>2 DEF y
    <3> QED BY <3>2, <3>3, <3>6 DEF R, n
  <2>5. CASE ~(c.count >= R)
    <3>1. e = Rid(n - 1, c.count)
      BY <2>2, <2>5 DEF EndAfter, R
    <3>2. e.pid = n - 1 /\ e.sid = c.count /\ n - 1 \in Nat /\ c.count \in Slots
      BY <3>1, <2>1, <2>5, <1>1 DEF Rid
    <3>3. Position(e) = (n - 1) * R + c.count
      BY <3>2 DEF Position, R
    <3>4. Count(f) \in Nat /\ Count(f) <= n * R
      <4> DEFINE y == n * R
      <4>1. Count(f) = x + c.count /\ x \in Nat /\ x + R = y
        BY <2>2, <2>3
      <4> HIDE DEF x, y
      <4>2. Count(f) \in Nat /\ Count(f) <= y
        BY <4>1, <2>1, <1>1
      <4> QED BY <4>2 DEF y
    <3> QED BY <3>2, <3>3, <3>4, <2>2 DEF R, n
  <2> QED BY <2>4, <2>5
<1> QED BY <1>1, <1>2, <1>3

(* A file's log is a sequence of records, each where its record id says. *)
LEMMA LogProp ==
  ASSUME RecInv, NEW f \in Files
  PROVE  /\ LogOf(f) \in Seq(Records)
         /\ Len(LogOf(f)) = Count(f)
         /\ \A i \in 0 .. Count(f) - 1 : LogOf(f)[i + 1] = RecordAt(f, i)
<1> DEFINE R == RECORDS_PER_PAGE
           n == Count(f)
<1>1. n \in Nat /\ R \in Nat \ {0}
  BY EndPosition, PerPage
<1>2. LogOf(f) = [i \in 1 .. n |-> RecordAt(f, i - 1)]
  BY DEF LogOf
<1>3. ASSUME NEW i \in 0 .. n - 1 PROVE RecordAt(f, i) \in Records
  <2> DEFINE q == i \div R
             m == i % R
  <2>0. i \in Nat
    BY <1>1
  <2>1. q \in Nat /\ m \in 0 .. R - 1 /\ i = q * R + m
    <3> HIDE DEF n, R
    <3> QED BY <2>0, <1>1, DivMod
  <2> HIDE DEF q, m
  <2>2. size[f] > 0
    <3>1. ~(size[f] > 0) => n = 0
      BY DEF Count
    <3> QED BY <3>1, <1>1
  <2>3. /\ size[f] \in 0 .. MaxPid + 1 /\ page[f] \in [0 .. MaxPid -> Pages]
        /\ MaxPid \in Nat /\ Slots = 0 .. R - 1
    BY <2>2, Types, RecordFileAssumption DEF RecInv, Slots
  <2>4. q < size[f]
    <3>1. q * R + m < size[f] * R
      <4> DEFINE x == q * R + m
                 y == size[f] * R
      <4>1. y \in Int /\ n <= y /\ i = x
        BY <2>1, <2>2, <2>3, <1>1, EndPosition
      <4> HIDE DEF x, y, n
      <4>2. x < y
        BY <4>1, <1>1
      <4> QED BY <4>2 DEF x, y
    <3> HIDE DEF R
    <3> QED BY <3>1, <2>1, <2>3, <1>1, RowBefore
  <2>5. page[f][q] \in Pages
    BY <2>1, <2>3, <2>4
  <2>6. page[f][q].slot[m] \in Records
    BY <2>1, <2>3, <2>5, PageParts
  <2> QED BY <2>6 DEF RecordAt, q, m
<1> HIDE DEF n
<1>4. \A i \in 1 .. n : RecordAt(f, i - 1) \in Records
  BY <1>1, <1>3
<1>5. \A i \in 0 .. n - 1 : LogOf(f)[i + 1] = RecordAt(f, i)
  <2> SUFFICES ASSUME NEW i \in 0 .. n - 1 PROVE LogOf(f)[i + 1] = RecordAt(f, i)
    OBVIOUS
  <2>1. i + 1 \in 1 .. n /\ i + 1 - 1 = i
    BY <1>1
  <2> QED BY <2>1, <1>2
<1> QED BY <1>1, <1>2, <1>4, <1>5 DEF n

-----------------------------------------------------------------------------
(* RecordFile is RecordLog *)

Logs  == [f \in Files |-> LogOf(f)]
Using == [h \in Handles |-> IF Opening(h) THEN NoFile ELSE opened[h]]

Doubtful(h) == ~Opening(h) /\ \E p \in PF!Pids : <<h, p>> \in suspect
Doubt       == {h \in Handles : Doubtful(h)}

LEMMA LogMappingInit == Init => Log!LogInit
<1> SUFFICES ASSUME Init PROVE Log!LogInit
  OBVIOUS
<1> USE DEF Init, PF!Init, PF!Absent
<1>1. ASSUME NEW f \in Files PROVE LogOf(f) = <<>>
  <2>1. Count(f) = 0
    BY <1>1 DEF Count
  <2> QED BY <2>1 DEF LogOf
<1>2. \A h \in Handles : ~Opening(h)
  BY DEF Opening, Idle
<1>3. [f \in Files |-> LogOf(f)] = [f \in Files |-> <<>>]
  BY <1>1
<1>4. [h \in Handles |-> IF Opening(h) THEN NoFile ELSE opened[h]]
        = [h \in Handles |-> NoFile]
  BY <1>2
<1>5. answer = Log!Answer("start", Log!NoObject, "OK", 0, NoRecord)
  BY DEF Answer, Log!Answer, Log!NoObject, PF!NoHandle
<1>6. {h \in Handles : ~Opening(h) /\ \E p \in PF!Pids : <<h, p>> \in suspect} = {}
  OBVIOUS
<1>7. spoiled = FALSE
  OBVIOUS
<1> QED BY <1>3, <1>4, <1>5, <1>6, <1>7 DEF Log!LogInit

(* Creating a file adds no record to it. *)
LEMMA SameLogs ==
  ASSUME SameFiles
  PROVE  Logs' = Logs
<1>1. ASSUME NEW f \in Files PROVE LogOf(f)' = LogOf(f)
  <2>1. Count(f)' = Count(f)
    BY <1>1 DEF SameFiles, Count
  <2>2. \A i \in Int : RecordAt(f, i)' = RecordAt(f, i)
    BY DEF SameFiles, RecordAt
  <2>3. LogOf(f)' = [i \in 1 .. Count(f)' |-> RecordAt(f, i - 1)']
    BY DEF LogOf
  <2> QED BY <2>1, <2>2, <2>3 DEF LogOf
<1> QED BY <1>1 DEF Logs

LEMMA LogLength ==
  ASSUME RecInv, NEW f \in Files
  PROVE  Logs[f] = LogOf(f) /\ Len(Logs[f]) = Count(f) /\ Count(f) \in Nat
BY LogProp, EndPosition DEF Logs

(* What is in doubt after a step *)
LEMMA SameDoubt ==
  ASSUME UNCHANGED suspect,
         \A g \in Handles : \/ Opening(g)' <=> Opening(g)
                            \/ \A p \in PF!Pids : <<g, p>> \notin suspect
  PROVE  Doubt' = Doubt
<1>1. \A g \in Handles : Doubtful(g)' <=> Doubtful(g)
  BY DEF Doubtful
<1> QED BY <1>1 DEF Doubt

LEMMA LetGoDoubt ==
  ASSUME NEW h \in Handles, suspect' = suspect \ ({h} \X PF!Pids),
         \A g \in Handles \ {h} : Opening(g)' <=> Opening(g)
  PROVE  Doubt' = Doubt \ {h}
<1>1. \A g \in Handles \ {h} : Doubtful(g)' <=> Doubtful(g)
  BY DEF Doubtful
<1>2. ~Doubtful(h)'
  BY DEF Doubtful
<1> QED BY <1>1, <1>2 DEF Doubt

LEMMA MoreDoubt ==
  ASSUME NEW h \in Handles, NEW p \in PF!Pids, suspect' = suspect \cup {<<h, p>>},
         \A g \in Handles : ~Opening(g) /\ ~Opening(g)'
  PROVE  Doubt' = Doubt \cup {h}
<1>1. \A g \in Handles \ {h} : Doubtful(g)' <=> Doubtful(g)
  BY DEF Doubtful
<1>2. Doubtful(h)'
  BY DEF Doubtful
<1> QED BY <1>1, <1>2 DEF Doubt

LEMMA LessDoubt ==
  ASSUME NEW h \in Handles, NEW p, suspect' = suspect \ {<<h, p>>},
         \A g \in Handles : ~Opening(g) /\ ~Opening(g)'
  PROVE  Doubt' = Doubt \/ Doubt' = Doubt \ {h}
<1>1. \A g \in Handles \ {h} : Doubtful(g)' <=> Doubtful(g)
  BY DEF Doubtful
<1>2. Doubtful(h)' => Doubtful(h)
  BY DEF Doubtful
<1>3. CASE Doubtful(h)'
  BY <1>1, <1>2, <1>3 DEF Doubt
<1>4. CASE ~Doubtful(h)'
  BY <1>1, <1>4 DEF Doubt
<1> QED BY <1>3, <1>4

(* The kinds of steps of RecordLog, in terms of the three *)
LEMMA StutterMaps ==
  ASSUME Logs' = Logs, Using' = Using, Doubt' = Doubt, spoiled' = spoiled, answer' = answer
  PROVE  UNCHANGED Log!logVars
BY DEF Logs, Using, Doubt, Doubtful, Log!logVars

LEMMA OpenedMaps ==
  ASSUME NEW h \in Handles, NEW f \in Files, Logs' = Logs, Using[h] = NoFile,
         Using' = [Using EXCEPT ![h] = f], Doubt' = Doubt, ~spoiled, spoiled' = spoiled,
         answer' = Answer("open", h, "OK", Len(Logs[f]), NoRecord)
  PROVE  Log!LogNext
<1>1. Log!Opened(h, f)
  BY DEF Logs, Using, Doubt, Doubtful, Log!Opened, Log!Answer, Answer
<1>2. answer'.op = "open"
  BY DEF Answer
<1> QED BY <1>1, <1>2 DEF Log!LogNext

LEMMA ReleasedMaps ==
  ASSUME NEW h \in Handles, NEW op \in {"close", "destroy"}, Logs' = Logs,
         Using' = [Using EXCEPT ![h] = NoFile], Doubt' = Doubt \ {h}, spoiled' = spoiled,
         answer' = Answer(op, h, "OK", 0, NoRecord)
  PROVE  Log!LogNext
<1>1. Log!Released(h, op)
  BY DEF Logs, Using, Doubt, Doubtful, Log!Released, Log!LetGo, Log!Answer, Answer
<1>2. answer'.op = op
  BY DEF Answer
<1> QED BY <1>1, <1>2 DEF Log!LogNext

LEMMA CloseFailedMaps ==
  ASSUME NEW h \in Handles, Logs' = Logs, Using[h] # NoFile,
         Using' = [Using EXCEPT ![h] = NoFile], Doubt' = Doubt \ {h},
         spoiled' \in {spoiled, TRUE},
         answer' = Answer("close", h, "RC_FILE_CLOSE_FAILED", 0, NoRecord)
  PROVE  Log!LogNext
<1>1. Log!CloseFailed(h)
  BY DEF Logs, Using, Doubt, Doubtful, Log!CloseFailed, Log!LetGo, Log!Answer, Answer
<1>2. answer'.op = "close"
  BY DEF Answer
<1> QED BY <1>1, <1>2 DEF Log!LogNext

LEMMA FailedMaps ==
  ASSUME NEW h \in Handles, NEW op, NEW rc, NEW i, Logs' = Logs, Using' = Using,
         rc # "OK",
         op = "read" /\ rc = "RC_INVALID_RID" /\ Using[h] # NoFile =>
           i \notin 0 .. Len(Logs[Using[h]]) - 1,
         Doubt' = IF rc = "RC_FILE_READ_FAILED" /\ Using[h] # NoFile
                  THEN Doubt \cup {h} ELSE Doubt,
         spoiled' \in IF op = "open" THEN {spoiled, TRUE} ELSE {spoiled},
         answer' = Answer(op, h, rc, i, NoRecord)
  PROVE  Log!LogNext
<1>1. answer'.op = op /\ answer'.rc = rc /\ answer'.at = i
  BY DEF Answer
<1>2. Log!Failed(answer'.op, h, answer'.rc, answer'.at)
  <2>1. CASE rc = "RC_FILE_READ_FAILED" /\ Using[h] # NoFile
    <3>1. Doubt' = Doubt \cup {h}
      BY <2>1
    <3> QED BY <1>1, <2>1, <3>1 DEF Logs, Using, Doubt, Doubtful, Log!Failed, Log!Answer, Answer
  <2>2. CASE ~(rc = "RC_FILE_READ_FAILED" /\ Using[h] # NoFile)
    <3>1. Doubt' = Doubt
      BY <2>2
    <3> QED BY <1>1, <2>2, <3>1 DEF Logs, Using, Doubt, Doubtful, Log!Failed, Log!Answer, Answer
  <2> QED BY <2>1, <2>2
<1> QED BY <1>2 DEF Log!LogNext

LEMMA FoundMaps ==
  ASSUME NEW h \in Handles, NEW i \in Nat, NEW r, Logs' = Logs, Using' = Using,
         Using[h] # NoFile, i \in 0 .. Len(Logs[Using[h]]) - 1,
         r \in IF h \in Doubt THEN Records ELSE {Logs[Using[h]][i + 1]},
         Doubt' = Doubt, spoiled' = spoiled,
         answer' = Answer("read", h, "OK", i, r)
  PROVE  Log!LogNext
<1>1. answer'.at = i /\ answer'.op = "read"
  BY DEF Answer
<1>2. Log!Found(h, i)
  BY DEF Logs, Using, Doubt, Doubtful, Log!Found, Log!Answer, Answer
<1>3. Log!Found(h, answer'.at)
  BY <1>1, <1>2
<1> QED BY <1>1, <1>3 DEF Log!LogNext

LEMMA AppendedMaps ==
  ASSUME NEW h \in Handles, NEW r \in Records, NEW l, Using[h] # NoFile, Using' = Using,
         l \in IF h \in Doubt THEN [1 .. Len(Logs[Using[h]]) -> Records]
                             ELSE {Logs[Using[h]]},
         Logs' = [Logs EXCEPT ![Using[h]] = Append(l, Stored[r])],
         Doubt' = Doubt \/ Doubt' = Doubt \ {h}, spoiled' = spoiled,
         answer' = Answer("append", h, "OK", Len(Logs[Using[h]]), NoRecord)
  PROVE  Log!LogNext
<1>1. Log!Appended(h, r)
  BY DEF Logs, Using, Doubt, Doubtful, Log!Appended, Log!Before, Log!Answer, Answer
<1>2. answer'.op = "append"
  BY DEF Answer
<1> QED BY <1>1, <1>2 DEF Log!LogNext

LEMMA SameUsing ==
  ASSUME UNCHANGED opened, \A h \in Handles : Opening(h)' <=> Opening(h)
  PROVE  Using' = Using
BY DEF Using

(* Between calls an object uses the file it has open. *)
LEMMA UsingOpened ==
  ASSUME TypeOK, NEW h \in Handles, ~Opening(h)
  PROVE  Using[h] = opened[h] /\ Using[h] \in Files \cup {NoFile}
BY DEF Using, TypeOK

LEMMA OpenMapping ==
  ASSUME RecInv, NEW h \in Handles, NEW f \in Files, NEW writes \in BOOLEAN,
         OpenStart(h, f, writes) \/ OpenRefused(h, f, writes)
  PROVE  Log!LogNext \/ UNCHANGED Log!logVars
<1>1. /\ pending = Idle /\ UNCHANGED page
      /\ PF!MayCreate(f) \/ UNCHANGED size
  BY DEF OpenStart, OpenRefused, PF!Open, PF!OpenFails, PF!handles
<1>2. TypeOK /\ opened \in [Handles -> Files \cup {NoFile}] /\ \A g \in Handles : ~Opening(g)
  BY <1>1 DEF RecInv, TypeOK, Opening, Idle
<1>3. SameFiles
  BY <1>1, <1>2, CreateProp
<1>4. Logs' = Logs
  BY <1>3, SameLogs
<1>5. CASE OpenRefused(h, f, writes)
  <2>1. UNCHANGED <<opened, pending, suspect, spoiled>>
    BY <1>5 DEF OpenRefused, PF!OpenFails, PF!handles
  <2>2. Using' = Using /\ Doubt' = Doubt
    BY <2>1, SameUsing, SameDoubt DEF Opening
  <2>3. PICK rc \in {"RC_FILE_OPEN_FAILED", "RC_INVALID_FILE_MODE"} :
          answer' = Answer("open", h, rc, 0, NoRecord)
    BY <1>5 DEF OpenRefused
  <2> QED BY <2>1, <2>2, <2>3, <1>4, FailedMaps
<1>8. ASSUME OpenStart(h, f, writes)
      PROVE  /\ UNCHANGED suspect /\ ~spoiled /\ spoiled' = spoiled
             /\ \A p \in PF!Pids : <<h, p>> \notin suspect
  <2>1. suspect' = suspect /\ spoiled = FALSE /\ spoiled' = FALSE /\ opened[h] = NoFile
    BY <1>8, <1>2 DEF OpenStart, PF!Open, TypeOK
  <2> QED BY <2>1 DEF RecInv, SuspectIsOpen
<1>6. CASE OpenStart(h, f, writes) /\ size'[f] = 0
  <2>1. /\ opened[h] = NoFile /\ opened' = [opened EXCEPT ![h] = f]
        /\ pending' = Idle /\ answer' = Answer("open", h, "OK", 0, NoRecord)
    BY <1>1, <1>6 DEF OpenStart, PF!Open
  <2>2. Using[h] = NoFile
    BY <1>2, <2>1 DEF Using
  <2>3. \A g \in Handles : ~Opening(g)'
    BY <2>1 DEF Opening, Idle
  <2>4. Using' = [Using EXCEPT ![h] = f]
    BY <1>2, <2>1, <2>3 DEF Using
  <2>5. Len(Logs[f]) = 0
    <3>1. Count(f) = 0
      BY <1>3, <1>6 DEF SameFiles, Count
    <3> QED BY <3>1, LogLength
  <2>6. Doubt' = Doubt /\ ~spoiled /\ spoiled' = spoiled
    BY <2>3, <1>2, <1>6, <1>8, SameDoubt
  <2> QED BY <2>1, <2>2, <2>4, <2>5, <2>6, <1>4, OpenedMaps
<1>7. CASE OpenStart(h, f, writes) /\ size'[f] # 0
  <2>1. /\ opened[h] = NoFile /\ opened' = [opened EXCEPT ![h] = f]
        /\ pending' = [op |-> "open", by |-> h] /\ UNCHANGED answer
    BY <1>1, <1>7 DEF OpenStart, PF!Open
  <2>2. \A g \in Handles : Opening(g)' <=> g = h
    BY <2>1 DEF Opening
  <2>3. Using' = Using
    BY <1>2, <2>1, <2>2 DEF Using
  <2>4. Doubt' = Doubt /\ spoiled' = spoiled
    BY <2>2, <1>2, <1>7, <1>8, SameDoubt
  <2> QED BY <2>1, <2>3, <2>4, <1>4, StutterMaps
<1> QED BY <1>5, <1>6, <1>7

LEMMA OpenedMapping ==
  ASSUME RecInv, NEW h \in Handles,
         OpenLastPage(h) \/ OpenLastPageFails(h) \/ OpenGiveUp(h)
  PROVE  Log!LogNext \/ UNCHANGED Log!logVars
<1>1. /\ TypeOK /\ PendingHolds /\ opened \in [Handles -> Files \cup {NoFile}]
      /\ pending.op \in {"open", "giveup"} /\ pending.by = h
      /\ UNCHANGED <<page, size>>
  <2>1. TypeOK /\ PendingHolds /\ opened \in [Handles -> Files \cup {NoFile}]
    BY DEF RecInv, TypeOK
  <2>2. pending.op \in {"open", "giveup"} /\ pending.by = h /\ UNCHANGED <<page, size>>
    <3>1. CASE OpenLastPage(h)
      BY <3>1 DEF OpenLastPage, PF!Read
    <3>2. CASE OpenLastPageFails(h)
      BY <3>2 DEF OpenLastPageFails, PF!ReadFails
    <3>3. CASE OpenGiveUp(h)
      BY <3>3 DEF OpenGiveUp, PF!Close, PF!CloseFails
    <3> QED BY <3>1, <3>2, <3>3
  <2> QED BY <2>1, <2>2
<1>2. \A g \in Handles : Opening(g) <=> g = h
  BY <1>1 DEF Opening
<1>3. Logs' = Logs
  BY <1>1, SameLogs DEF SameFiles
<1>4. CASE OpenLastPage(h)
  <2> DEFINE f == opened[h]
  <2>1. /\ pending.op = "open" /\ UNCHANGED <<opened, suspect, spoiled>> /\ pending' = Idle
        /\ answer' = Answer("open", h, "OK", Position(erid'[h]), NoRecord)
    BY <1>4 DEF OpenLastPage, PF!Read, PF!handles
  <2>2. /\ f \in Files /\ size[f] > 0 /\ erid[h].pid = size[f] - 1
        /\ \A p \in PF!Pids : <<h, p>> \notin suspect
        /\ ~spoiled
    BY <1>1, <2>1 DEF PendingHolds
  <2>3. erid'[h] = EndOf(f)
    <3>1. erid' = [erid EXCEPT ![h] = EndAfter(erid[h].pid, page[f][erid[h].pid])]
      BY <2>2, <1>4 DEF OpenLastPage, PF!Read, RecInv
    <3> QED BY <3>1, <2>2, <1>1 DEF EndOf, TypeOK
  <2>4. Position(erid'[h]) = Len(Logs[f])
    BY <2>2, <2>3, EndPosition, LogLength
  <2>5. \A g \in Handles : ~Opening(g)'
    BY <2>1 DEF Opening, Idle
  <2>6. Using[h] = NoFile /\ Using' = [Using EXCEPT ![h] = f]
    BY <1>1, <1>2, <2>1, <2>5 DEF Using
  <2>7. Doubt' = Doubt
    BY <2>1, <2>2, <2>5, <1>2, SameDoubt
  <2> QED BY <2>1, <2>2, <2>4, <2>6, <2>7, <1>3, OpenedMaps
<1>5. CASE OpenLastPageFails(h)
  <2>1. /\ UNCHANGED <<opened, answer, spoiled>>
        /\ \A g \in Handles : Opening(g)' <=> g = h
        /\ UNCHANGED suspect \/ \E p \in PF!Pids : suspect' = suspect \cup {<<h, p>>}
    BY <1>5 DEF OpenLastPageFails, PF!ReadFails, Opening
  <2>2. Using' = Using
    BY <2>1, <1>2 DEF Using
  <2>3. Doubt' = Doubt
    <3>1. \A g \in Handles : Doubtful(g)' <=> Doubtful(g)
      BY <2>1, <1>2 DEF Doubtful
    <3> QED BY <3>1 DEF Doubt
  <2> QED BY <2>1, <2>2, <2>3, <1>3, StutterMaps
<1>6. CASE OpenGiveUp(h)
  <2>1. /\ opened' = [opened EXCEPT ![h] = NoFile] /\ pending' = Idle
        /\ suspect' = suspect \ ({h} \X PF!Pids) /\ spoiled' \in {spoiled, TRUE}
        /\ pending.op = "giveup"
        /\ answer' = Answer("open", h, pending.rc, 0, NoRecord)
    BY <1>6 DEF OpenGiveUp, PF!Close, PF!CloseFails, PF!LetGo
  <2>2. \A g \in Handles : ~Opening(g)'
    BY <2>1 DEF Opening, Idle
  <2>3. Using' = Using
    BY <1>1, <1>2, <2>1, <2>2 DEF Using
  <2>4. pending.rc # "OK"
    BY <1>1, <2>1 DEF TypeOK, Idle
  <2>5. Doubt' = Doubt
    <3>1. Doubt' = Doubt \ {h}
      BY <2>1, <2>2, <1>2, LetGoDoubt
    <3>2. h \notin Doubt
      BY <1>2 DEF Doubt, Doubtful
    <3> QED BY <3>1, <3>2
  <2>6. Using[h] = NoFile
    BY <1>2 DEF Using
  <2> QED BY <2>1, <2>3, <2>4, <2>5, <2>6, <1>3, FailedMaps
<1> QED BY <1>4, <1>5, <1>6

LEMMA CloseMapping ==
  ASSUME RecInv, NEW h \in Handles, Close(h) \/ Destroy(h)
  PROVE  Log!LogNext
<1>1. /\ opened \in [Handles -> Files \cup {NoFile}]
      /\ pending = Idle /\ pending' = Idle /\ UNCHANGED <<page, size>>
  BY DEF RecInv, TypeOK, Close, Destroy, PF!Close, PF!CloseRefused, PF!CloseFails, PF!Destroy
<1>2. \A g \in Handles : ~Opening(g) /\ ~Opening(g)'
  BY <1>1 DEF Opening, Idle
<1>3. Logs' = Logs
  BY <1>1, SameLogs DEF SameFiles
<1>4. ASSUME PF!LetGo(h)
      PROVE  Using' = [Using EXCEPT ![h] = NoFile] /\ Doubt' = Doubt \ {h}
  <2>1. opened' = [opened EXCEPT ![h] = NoFile] /\ suspect' = suspect \ ({h} \X PF!Pids)
    BY <1>4 DEF PF!LetGo
  <2>2. Using' = [Using EXCEPT ![h] = NoFile]
    BY <1>1, <1>2, <2>1 DEF Using
  <2>3. Doubt' = Doubt \ {h}
    BY <1>2, <2>1, LetGoDoubt
  <2> QED BY <2>2, <2>3
<1>5. CASE PF!Close(h) /\ answer' = Answer("close", h, "OK", 0, NoRecord)
  <2>1. PF!LetGo(h) /\ spoiled' = spoiled
    BY <1>5 DEF PF!Close
  <2> QED BY <2>1, <1>3, <1>4, <1>5, ReleasedMaps
<1>6. CASE PF!CloseRefused(h) /\ answer' = Answer("close", h, "RC_FILE_CLOSE_FAILED", 0, NoRecord)
  <2>1. UNCHANGED <<opened, suspect, spoiled>>
    BY <1>6 DEF PF!CloseRefused, PF!handles
  <2>2. Using' = Using /\ Doubt' = Doubt
    BY <2>1, <1>2, SameUsing, SameDoubt
  <2> QED BY <2>1, <2>2, <1>3, <1>6, FailedMaps
<1>7. CASE PF!CloseFails(h) /\ answer' = Answer("close", h, "RC_FILE_CLOSE_FAILED", 0, NoRecord)
  <2>1. PF!LetGo(h) /\ spoiled' \in {spoiled, TRUE} /\ opened[h] # NoFile
    BY <1>7 DEF PF!CloseFails
  <2>2. Using[h] # NoFile
    BY <2>1, <1>2 DEF Using
  <2> QED BY <2>1, <2>2, <1>3, <1>4, <1>7, CloseFailedMaps
<1>8. CASE Destroy(h)
  <2>1. /\ PF!LetGo(h) /\ spoiled' = spoiled
        /\ answer' = Answer("destroy", h, "OK", 0, NoRecord)
    BY <1>8 DEF Destroy, PF!Destroy
  <2> QED BY <2>1, <1>3, <1>4, ReleasedMaps
<1> QED BY <1>5, <1>6, <1>7, <1>8 DEF Close

LEMMA RestartMapping ==
  ASSUME RecInv, Restart
  PROVE  Log!LogNext
<1>1. /\ opened' = [h \in Handles |-> NoFile] /\ pending' = Idle /\ UNCHANGED <<page, size>>
      /\ suspect' = {} /\ spoiled' = FALSE
      /\ answer' = Answer("start", PF!NoHandle, "OK", 0, NoRecord)
  BY DEF Restart, PF!Restart
<1>2. \A g \in Handles : ~Opening(g)'
  BY <1>1 DEF Opening, Idle
<1>3. Logs' = Logs
  BY <1>1, SameLogs DEF SameFiles
<1>4. Using' = [h \in Handles |-> NoFile]
  BY <1>1, <1>2 DEF Using
<1>5. Doubt' = {}
  BY <1>1 DEF Doubt, Doubtful
<1>6. Log!Restarted
  BY <1>1, <1>3, <1>4, <1>5 DEF Logs, Using, Doubt, Doubtful, Log!Restarted, Log!Answer,
                                Log!NoObject, Answer, PF!NoHandle
<1> QED BY <1>6 DEF Log!LogNext

(* read() refuses the record ids that are not in the file, and no others. *)
LEMMA ReadablePosition ==
  ASSUME RecInv, NEW h \in Handles, pending = Idle, opened[h] # NoFile,
         NEW p \in Int, NEW s \in Int
  PROVE  /\ Readable(h, Rid(p, s)) <=> Position(Rid(p, s)) \in 0 .. Count(opened[h]) - 1
         /\ Readable(h, Rid(p, s)) =>
              /\ p \in Nat /\ s \in Slots
              /\ Position(Rid(p, s)) = p * RECORDS_PER_PAGE + s
<1> DEFINE R == RECORDS_PER_PAGE
           f == opened[h]
           e == EndOf(f)
           r == Rid(p, s)
<1>1. f \in Files /\ erid[h] = e
  BY DEF RecInv, TypeOK, EridsAtEnd, Opening, Idle
<1>2. /\ e.pid \in Nat /\ e.sid \in Slots
      /\ Count(f) = e.pid * R + e.sid /\ Count(f) \in Nat
  BY <1>1, EndPosition
<1>3. R \in Nat /\ Slots = 0 .. R - 1
  BY PerPage DEF Slots
<1>4. r.pid = p /\ r.sid = s
  BY DEF Rid
<1>5. CASE p >= 0 /\ s \in Slots
  <2>1. Position(r) = p * R + s
    BY <1>4, <1>5 DEF Position
  <2>2. p * R + s < e.pid * R + e.sid <=> p < e.pid \/ (p = e.pid /\ s < e.sid)
    <3> HIDE DEF e, R
    <3> QED BY <1>2, <1>3, <1>5, PositionOrder
  <2>3. Readable(h, r) <=> p < e.pid \/ (p = e.pid /\ s < e.sid)
    <3> HIDE DEF e
    <3>1. s \in Int /\ e.sid \in Int /\ e.pid \in Int
      BY <1>2, <1>3
    <3> QED BY <3>1, <1>1, <1>4, <1>5 DEF Readable, AtOrAfter
  <2>4. p * R + s \in Nat
    <3> HIDE DEF R
    <3>1. p * R \in Nat
      BY <1>3, <1>5
    <3> QED BY <3>1, <1>3, <1>5
  <2>5. Position(r) \in 0 .. Count(f) - 1 <=> Position(r) < Count(f)
    <3> DEFINE x == Position(r)
               y == Count(f)
    <3>1. x \in Nat /\ y \in Nat
      BY <2>1, <2>4, <1>2
    <3> HIDE DEF x, y
    <3>2. x \in 0 .. y - 1 <=> x < y
      BY <3>1
    <3> QED BY <3>2 DEF x, y
  <2> HIDE DEF r, e, f, R
  <2>6. Position(r) < Count(f) <=> p < e.pid \/ (p = e.pid /\ s < e.sid)
    BY <2>1, <2>2, <1>2
  <2> QED BY <2>1, <2>3, <2>5, <2>6, <1>5 DEF r, f, R
<1>6. CASE ~(p >= 0 /\ s \in Slots)
  <2>1. Position(r) = -1
    BY <1>4, <1>6 DEF Position
  <2>2. ~Readable(h, r)
    BY <1>4, <1>6 DEF Readable
  <2>3. ~(Position(r) \in 0 .. Count(f) - 1)
    BY <2>1
  <2> QED BY <2>2, <2>3
<1> QED BY <1>5, <1>6

(* An error of read(2), and no other failure, puts an object in doubt. *)
LEMMA ReadFailsDoubt ==
  ASSUME NEW h \in Handles, NEW q, NEW rc, PF!ReadFails(h, q, rc),
         \A g \in Handles : ~Opening(g) /\ ~Opening(g)', Using[h] = opened[h]
  PROVE  Doubt' = IF rc = "RC_FILE_READ_FAILED" /\ Using[h] # NoFile
                  THEN Doubt \cup {h} ELSE Doubt
<1>1. CASE rc = "RC_FILE_READ_FAILED"
  <2>1. opened[h] # NoFile /\ q \in PF!Pids /\ suspect' = suspect \cup {<<h, q>>}
    BY <1>1 DEF PF!ReadFails
  <2>2. Doubt' = Doubt \cup {h}
    BY <2>1, MoreDoubt
  <2> QED BY <2>1, <2>2, <1>1
<1>2. CASE rc # "RC_FILE_READ_FAILED"
  <2>1. UNCHANGED suspect
    BY <1>2 DEF PF!ReadFails
  <2>2. Doubt' = Doubt
    BY <2>1, SameDoubt
  <2> QED BY <2>2, <1>2
<1> QED BY <1>1, <1>2

LEMMA ReadMapping ==
  ASSUME RecInv, NEW h \in Handles, NEW p \in Int, NEW s \in Int,
         ReadRefused(h, Rid(p, s)) \/ ReadOK(h, Rid(p, s)) \/ ReadFails(h, Rid(p, s))
  PROVE  Log!LogNext
<1> DEFINE r == Rid(p, s)
           f == opened[h]
<1>1. /\ TypeOK /\ stale = {} /\ pending = Idle
      /\ UNCHANGED <<page, size, opened, pending, spoiled>>
  BY DEF RecInv, ReadRefused, ReadOK, ReadFails, pfVars, PF!Read, PF!ReadFails, PF!handles
<1>2. \A g \in Handles : ~Opening(g)
  BY <1>1 DEF Opening, Idle
<1>3. Logs' = Logs
  BY <1>1, SameLogs DEF SameFiles
<1>4. Using' = Using
  BY <1>1, SameUsing DEF Opening
<1>5. Using[h] = f /\ f \in Files \cup {NoFile}
  BY <1>1, <1>2, UsingOpened
<1>6. CASE ReadRefused(h, r)
  <2>1. /\ ~Readable(h, r)
        /\ answer' = Answer("read", h, "RC_INVALID_RID", Position(r), NoRecord)
    BY <1>6 DEF ReadRefused
  <2>2. ASSUME Using[h] # NoFile PROVE Position(r) \notin 0 .. Len(Logs[Using[h]]) - 1
    <3>1. f # NoFile /\ f \in Files
      BY <2>2, <1>5
    <3>2. Len(Logs[Using[h]]) = Count(f)
      BY <3>1, <1>5, LogLength
    <3> QED BY <2>1, <3>1, <3>2, <1>1, ReadablePosition
  <2>3. Doubt' = Doubt
    BY <1>1, <1>6, SameDoubt DEF Opening, ReadRefused, pfVars
  <2> HIDE DEF r
  <2> QED BY <2>1, <2>2, <2>3, <1>1, <1>3, <1>4, FailedMaps
<1>7. CASE ReadOK(h, r)
  <2> DEFINE i == Position(r)
  <2>0. r.pid = p /\ r.sid = s
    BY DEF Rid
  <2>1. PICK c \in Pages :
          /\ Readable(h, r) /\ f # NoFile /\ p \in PF!Pids
          /\ answer' = Answer("read", h, "OK", i, c.slot[s])
          /\ <<h, p>> \notin suspect => c = page[f][p]
          /\ UNCHANGED suspect
    BY <2>0, <1>1, <1>7 DEF ReadOK, PF!Read, PF!handles
  <2>2. f \in Files /\ Len(Logs[f]) = Count(f) /\ Logs[f] = LogOf(f) /\ Count(f) \in Nat
    BY <2>1, <1>5, LogLength
  <2>3. i \in 0 .. Count(f) - 1 /\ p \in Nat /\ s \in Slots /\ i = p * RECORDS_PER_PAGE + s
    BY <2>1, <1>1, ReadablePosition
  <2>4. i \div RECORDS_PER_PAGE = p /\ i % RECORDS_PER_PAGE = s
    <3>1. s \in 0 .. RECORDS_PER_PAGE - 1 /\ RECORDS_PER_PAGE \in Nat \ {0}
      BY <2>3, PerPage DEF Slots
    <3> HIDE DEF i, r
    <3> QED BY <3>1, <2>3, DivModIs
  <2> HIDE DEF i
  <2>5. Logs[f][i + 1] = page[f][p].slot[s]
    <3>1. LogOf(f)[i + 1] = RecordAt(f, i)
      BY <2>2, <2>3, LogProp
    <3> QED BY <3>1, <2>2, <2>4 DEF RecordAt
  <2>6. i \in Nat /\ i \in 0 .. Len(Logs[Using[h]]) - 1
    BY <2>2, <2>3, <1>5
  <2>7. c.slot[s] \in IF h \in Doubt THEN Records ELSE {Logs[Using[h]][i + 1]}
    <3>1. CASE h \in Doubt
      BY <3>1, <2>3, PageParts
    <3>2. CASE h \notin Doubt
      <4>1. <<h, p>> \notin suspect
        BY <3>2, <2>1, <1>2 DEF Doubt, Doubtful
      <4> QED BY <4>1, <3>2, <2>1, <2>5, <1>5
    <3> QED BY <3>1, <3>2
  <2>8. Doubt' = Doubt
    BY <2>1, <1>1, SameDoubt DEF Opening
  <2> HIDE DEF r
  <2> QED BY <2>1, <2>6, <2>7, <2>8, <1>1, <1>3, <1>4, <1>5, FoundMaps
<1>8. CASE ReadFails(h, r)
  <2>1. PICK rc \in {"RC_INVALID_PID", "RC_FILE_SEEK_FAILED", "RC_FILE_READ_FAILED"} :
          /\ PF!ReadFails(h, r.pid, rc)
          /\ answer' = Answer("read", h, rc, Position(r), NoRecord)
    BY <1>8 DEF ReadFails
  <2>2. Doubt' = IF rc = "RC_FILE_READ_FAILED" /\ Using[h] # NoFile
                 THEN Doubt \cup {h} ELSE Doubt
    BY <2>1, <1>1, <1>2, <1>5, ReadFailsDoubt DEF Opening
  <2> QED BY <2>1, <2>2, <1>1, <1>3, <1>4, FailedMaps
<1> QED BY <1>6, <1>7, <1>8

(* append() puts its record behind the ones that are there, or as many. *)
LEMMA AppendLogs ==
  ASSUME RecInv, NEW h \in Handles, AppendWrite(h)
  PROVE  /\ opened[h] \in Files /\ pending.rec \in Records
         /\ Position(erid[h]) = Len(Logs[opened[h]])
         /\ \E l \in [1 .. Len(Logs[opened[h]]) -> Records] :
              /\ Logs' = [Logs EXCEPT ![opened[h]] = Append(l, Stored[pending.rec])]
              /\ <<h, erid[h].pid>> \notin suspect => l = Logs[opened[h]]
<1> DEFINE R == RECORDS_PER_PAGE
           f == opened[h]
           p == erid[h].pid
           s == erid[h].sid
           w == WithRecord(pending.page, s, pending.rec)
           x == Stored[pending.rec]
           n == Count(f)
<1>1. /\ f \in Files /\ p \in 0 .. MaxPid /\ s \in Slots
      /\ erid[h] = EndOf(f)
      /\ pending.rec \in Records
      /\ page' = [page EXCEPT ![f] = [page[f] EXCEPT ![p] = w]]
      /\ size' = [size EXCEPT ![f] = p + 1]
      /\ w.count = s + 1
      /\ w.slot[s] = x /\ w \in Pages
      /\ s > 0 /\ <<h, p>> \notin suspect =>
           \A i \in 0 .. s - 1 : w.slot[i] = page[f][p].slot[i]
  BY AppendProp
<1>2. /\ page \in [Files -> [0 .. MaxPid -> Pages]]
      /\ size \in [Files -> -1 .. MaxPid + 1]
      /\ MaxPid \in Nat /\ R \in Nat \ {0} /\ Slots = 0 .. R - 1
  BY Types, RecordFileAssumption DEF RecInv, Slots
<1>3. n = p * R + s /\ n \in Nat /\ Position(erid[h]) = n
  BY <1>1, EndPosition
<1>4. /\ LogOf(f) \in Seq(Records) /\ Len(LogOf(f)) = n /\ x \in Records
      /\ \A i \in 0 .. n - 1 : LogOf(f)[i + 1] = RecordAt(f, i)
  BY <1>1, LogProp, RecordFileAssumption
<1> HIDE DEF w, f, p, s, x, n, R
<1>5. page'[f][p] = w /\ size'[f] = p + 1
      /\ \A q \in 0 .. p - 1 : page'[f][q] = page[f][q]
  <2>1. page[f] \in [0 .. MaxPid -> Pages] /\ page'[f] = [page[f] EXCEPT ![p] = w]
        /\ size'[f] = p + 1
    BY <1>1, <1>2
  <2>2. \A q \in 0 .. p - 1 : q \in 0 .. MaxPid /\ q # p
    BY <1>1, <1>2
  <2> QED BY <2>1, <2>2, <1>1
<1> DEFINE Next1(i) == page'[f][i \div R].slot[i % R]
<1>6. ASSUME NEW g \in Files, g = f
      PROVE  LogOf(g)' = [i \in 1 .. n + 1 |-> Next1(i - 1)]
  <2>1. page'[g][p] = w /\ size'[g] = p + 1
    BY <1>5, <1>6
  <2>2. Count(g)' = n + 1
    <3>1. Count(g)' = (size'[g] - 1) * R + page'[g][size'[g] - 1].count
      BY <1>1, <2>1 DEF Count, R
    <3>2. size'[g] - 1 = p
      BY <1>1, <2>1
    <3>3. Count(g)' = p * R + (s + 1)
      BY <3>1, <3>2, <1>1, <2>1
    <3> DEFINE y == p * R
    <3>4. y \in Int /\ s \in Int
      BY <1>1, <1>2
    <3>5. n = y + s /\ Count(g)' = y + (s + 1)
      BY <3>3, <1>3
    <3> HIDE DEF y
    <3> QED BY <3>4, <3>5
  <2>3. \A i \in Int : RecordAt(g, i)' = Next1(i)
    BY <1>6 DEF RecordAt, R
  <2>4. LogOf(g)' = [i \in 1 .. Count(g)' |-> RecordAt(g, i - 1)']
    BY DEF LogOf
  <2> QED BY <2>2, <2>3, <2>4
<1>7. ASSUME NEW i \in 0 .. n - 1
      PROVE  /\ Next1(i) \in Records
             /\ <<h, p>> \notin suspect => Next1(i) = LogOf(f)[i + 1]
  <2> DEFINE q == i \div R
             m == i % R
  <2>0. i \in Nat
    BY <1>3
  <2>1. q \in Nat /\ m \in 0 .. R - 1 /\ i = q * R + m
    BY <2>0, <1>2, DivMod
  <2> HIDE DEF q, m
  <2>2. q < p \/ (q = p /\ m < s)
    <3>1. q * R + m < p * R + s
      <4> DEFINE y == q * R + m
                 z == p * R + s
      <4>1. i = y /\ n = z
        BY <2>1, <1>3
      <4> HIDE DEF y, z
      <4>2. y < z
        BY <4>1, <1>3
      <4> QED BY <4>2 DEF y, z
    <3>2. p \in Nat /\ s \in 0 .. R - 1 /\ R \in Nat
      BY <1>1, <1>2
    <3> QED BY <3>1, <3>2, <2>1, PositionOrder
  <2>3. /\ page'[f][q].slot[m] \in Records
        /\ <<h, p>> \notin suspect => page'[f][q].slot[m] = page[f][q].slot[m]
    <3>0. m \in Slots
      BY <2>1, <1>2
    <3>1. CASE q < p
      <4>1. q \in 0 .. p - 1 /\ q \in 0 .. MaxPid
        BY <3>1, <2>1, <1>1, <1>2
      <4>2. page'[f][q] = page[f][q] /\ page[f][q] \in Pages
        BY <4>1, <1>1, <1>2, <1>5
      <4> QED BY <4>2, <3>0, PageParts
    <3>2. CASE q = p /\ m < s
      <4>1. m \in 0 .. s - 1 /\ s > 0
        BY <3>2, <2>1, <1>1, <1>2
      <4>2. page'[f][q] = w /\ w.slot[m] \in Records
        BY <3>0, <3>2, <1>1, <1>5, PageParts
      <4> QED BY <4>1, <4>2, <3>2, <1>1
    <3> QED BY <3>1, <3>2, <2>2
  <2> QED BY <2>3, <1>4 DEF RecordAt, q, m, R
<1>8. Next1(n) = x
  <2>1. n \div R = p /\ n % R = s
    <3>1. p \in Nat /\ s \in 0 .. R - 1
      BY <1>1, <1>2
    <3> QED BY <3>1, <1>2, <1>3, DivModIs
  <2> QED BY <2>1, <1>1, <1>5
<1> HIDE DEF Next1
<1> DEFINE t == [i \in 1 .. n |-> Next1(i - 1)]
<1>13. t \in [1 .. n -> Records] /\ t \in Seq(Records) /\ Len(t) = n
  <2>1. \A i \in 1 .. n : Next1(i - 1) \in Records
    BY <1>3, <1>7
  <2> QED BY <2>1, <1>3
<1>14. <<h, p>> \notin suspect => t = LogOf(f)
  <2> SUFFICES ASSUME <<h, p>> \notin suspect PROVE t = LogOf(f)
    OBVIOUS
  <2>1. \A i \in 1 .. n : t[i] = LogOf(f)[i]
    <3> SUFFICES ASSUME NEW i \in 1 .. n PROVE Next1(i - 1) = LogOf(f)[i]
      OBVIOUS
    <3>1. i - 1 \in 0 .. n - 1 /\ i - 1 + 1 = i
      BY <1>3
    <3> QED BY <3>1, <1>7
  <2> HIDE DEF t
  <2> QED BY <2>1, <1>4, <1>13, SeqEqual
<1>9. ASSUME NEW g \in Files, g = f
      PROVE  LogOf(g)' = Append(t, x)
  <2> DEFINE u == Append(t, x)
             v == [i \in 1 .. n + 1 |-> Next1(i - 1)]
  <2>0. \A i \in 1 .. n : t[i] = Next1(i - 1)
    OBVIOUS
  <2> HIDE DEF t
  <2>1. /\ u \in Seq(Records) /\ Len(u) = n + 1
        /\ \A i \in 1 .. n : u[i] = t[i]
        /\ u[n + 1] = x
    BY <1>4, <1>13, AppendProperties
  <2>2. ASSUME NEW i \in 1 .. n + 1 PROVE v[i] = u[i] /\ v[i] \in Records
    <3>1. v[i] = Next1(i - 1)
      OBVIOUS
    <3> HIDE DEF v, u
    <3>2. CASE i = n + 1
      <4>1. i - 1 = n
        BY <3>2, <1>3
      <4> QED BY <4>1, <3>1, <3>2, <2>1, <1>4, <1>8
    <3>3. CASE i # n + 1
      <4>1. i \in 1 .. n /\ i - 1 \in 0 .. n - 1
        BY <3>3, <1>3
      <4> QED BY <4>1, <3>1, <2>0, <2>1, <1>7
    <3> QED BY <3>2, <3>3
  <2>3. v \in Seq(Records) /\ Len(v) = n + 1
    <3>1. \A i \in 1 .. n + 1 : Next1(i - 1) \in Records
      BY <2>2
    <3> QED BY <3>1, <1>3
  <2>4. v = u
    <3> HIDE DEF v, u
    <3> QED BY <2>1, <2>2, <2>3, SeqEqual
  <2> QED BY <2>4, <1>6, <1>9
<1> HIDE DEF t
<1>10. ASSUME NEW g \in Files, g # f PROVE LogOf(g)' = LogOf(g)
  <2>1. page'[g] = page[g] /\ size'[g] = size[g]
    BY <1>10, <1>1, <1>2
  <2>2. Count(g)' = Count(g)
    BY <2>1 DEF Count
  <2>3. \A i \in Int : RecordAt(g, i)' = RecordAt(g, i)
    BY <2>1 DEF RecordAt
  <2>4. LogOf(g)' = [i \in 1 .. Count(g)' |-> RecordAt(g, i - 1)']
    BY DEF LogOf
  <2> QED BY <2>2, <2>3, <2>4 DEF LogOf
<1>11. Logs' = [Logs EXCEPT ![f] = Append(t, x)]
  <2>1. \A g \in Files : LogOf(g)' = IF g = f THEN Append(t, x) ELSE LogOf(g)
    BY <1>9, <1>10
  <2>2. Logs' = [g \in Files |-> LogOf(g)']
    BY DEF Logs
  <2> QED BY <2>1, <2>2 DEF Logs
<1>12. Logs[f] = LogOf(f) /\ Len(Logs[f]) = n /\ Position(erid[h]) = Len(Logs[f])
  BY <1>1, <1>3, <1>4 DEF Logs
<1>15. /\ t \in [1 .. Len(Logs[f]) -> Records]
       /\ <<h, p>> \notin suspect => t = Logs[f]
  BY <1>12, <1>13, <1>14
<1>16. \E l \in [1 .. Len(Logs[f]) -> Records] :
         /\ Logs' = [Logs EXCEPT ![f] = Append(l, x)]
         /\ <<h, p>> \notin suspect => l = Logs[f]
  BY <1>11, <1>15
<1> QED BY <1>1, <1>12, <1>16 DEF f, p, x

LEMMA AppendMapping ==
  ASSUME RecInv, NEW h \in Handles,
         \/ \E r \in Records : AppendStart(h, r)
         \/ AppendReadFails(h) \/ AppendWrite(h) \/ AppendWriteFails(h)
  PROVE  Log!LogNext \/ UNCHANGED Log!logVars
<1>1. /\ UNCHANGED <<opened, spoiled>>
      /\ pending.op \in {"none", "append"} /\ pending'.op \in {"none", "append"}
  BY DEF AppendStart, AppendReadFails, AppendWrite, AppendWriteFails, pfVars, Idle,
         PF!Read, PF!ReadFails, PF!Write, PF!WriteFails, PF!handles
<1>2. \A g \in Handles : ~Opening(g) /\ ~Opening(g)'
  BY <1>1 DEF Opening
<1>3. Using' = Using
  BY <1>1, <1>2, SameUsing
<1>4. Using[h] = opened[h] /\ Using[h] \in Files \cup {NoFile}
  BY <1>2, UsingOpened DEF RecInv
<1>5. CASE \E r \in Records : AppendStart(h, r)
  <2>1. SameFiles /\ UNCHANGED <<suspect, answer>>
    BY <1>5 DEF SameFiles, AppendStart, pfVars, PF!Read, PF!handles
  <2>2. Logs' = Logs /\ Doubt' = Doubt
    BY <2>1, <1>2, SameLogs, SameDoubt
  <2> QED BY <2>1, <2>2, <1>1, <1>3, StutterMaps
<1>6. CASE AppendReadFails(h)
  <2>1. PICK rc \in {"RC_INVALID_PID", "RC_FILE_SEEK_FAILED", "RC_FILE_READ_FAILED"} :
          /\ PF!ReadFails(h, erid[h].pid, rc)
          /\ answer' = Answer("append", h, rc, 0, NoRecord)
    BY <1>6 DEF AppendReadFails
  <2>2. Logs' = Logs
    BY <2>1, SameLogs DEF SameFiles, PF!ReadFails
  <2>3. Doubt' = IF rc = "RC_FILE_READ_FAILED" /\ Using[h] # NoFile
                 THEN Doubt \cup {h} ELSE Doubt
    BY <2>1, <1>2, <1>4, ReadFailsDoubt
  <2> QED BY <2>1, <2>2, <2>3, <1>1, <1>3, FailedMaps
<1>7. CASE AppendWriteFails(h)
  <2>1. PICK rc \in {"RC_INVALID_PID", "RC_FILE_SEEK_FAILED", "RC_FILE_WRITE_FAILED"} :
          /\ PF!WriteFails(h, erid[h].pid, rc)
          /\ answer' = Answer("append", h, rc, 0, NoRecord)
    BY <1>7 DEF AppendWriteFails
  <2>2. SameFiles /\ UNCHANGED suspect
    BY <2>1 DEF SameFiles, PF!WriteFails, PF!handles
  <2>3. Logs' = Logs /\ Doubt' = Doubt
    BY <2>2, <1>2, SameLogs, SameDoubt
  <2> QED BY <2>1, <2>3, <1>1, <1>3, FailedMaps
<1>8. CASE AppendWrite(h)
  <2>1. /\ opened[h] \in Files /\ pending.rec \in Records
        /\ Position(erid[h]) = Len(Logs[opened[h]])
    BY <1>8, AppendLogs
  <2>2. PICK l \in [1 .. Len(Logs[opened[h]]) -> Records] :
          /\ Logs' = [Logs EXCEPT ![opened[h]] = Append(l, Stored[pending.rec])]
          /\ <<h, erid[h].pid>> \notin suspect => l = Logs[opened[h]]
    BY <1>8, AppendLogs
  <2>3. Using[h] # NoFile
    BY <2>1, <1>4, RecordFileAssumption
  <2>4. /\ answer' = Answer("append", h, "OK", Position(erid[h]), NoRecord)
        /\ suspect' = suspect \ {<<h, erid[h].pid>>} /\ erid[h].pid \in PF!Pids
    BY <1>8 DEF AppendWrite, PF!Write
  <2>5. Doubt' = Doubt \/ Doubt' = Doubt \ {h}
    BY <2>4, <1>2, LessDoubt
  <2>6. l \in IF h \in Doubt THEN [1 .. Len(Logs[Using[h]]) -> Records]
                            ELSE {Logs[Using[h]]}
    <3>1. h \notin Doubt => <<h, erid[h].pid>> \notin suspect
      BY <2>4, <1>2 DEF Doubt, Doubtful
    <3> QED BY <3>1, <2>2, <1>4
  <2> QED BY <2>1, <2>2, <2>3, <2>4, <2>5, <2>6, <1>1, <1>3, <1>4, AppendedMaps
<1> QED BY <1>5, <1>6, <1>7, <1>8

LEMMA LogMappingNext == RecInv /\ [Next]_recordVars => [Log!LogNext]_(Log!logVars)
<1> SUFFICES ASSUME RecInv, [Next]_recordVars PROVE Log!LogNext \/ UNCHANGED Log!logVars
  OBVIOUS
<1>1. ASSUME NEW h \in Handles, NEW f \in Files, NEW writes \in BOOLEAN,
             OpenStart(h, f, writes) \/ OpenRefused(h, f, writes)
      PROVE  Log!LogNext \/ UNCHANGED Log!logVars
  BY <1>1, OpenMapping
<1>2. ASSUME NEW h \in Handles, OpenLastPage(h) \/ OpenLastPageFails(h) \/ OpenGiveUp(h)
      PROVE  Log!LogNext \/ UNCHANGED Log!logVars
  BY <1>2, OpenedMapping
<1>3. ASSUME NEW h \in Handles, Close(h) \/ Destroy(h)
      PROVE  Log!LogNext
  BY <1>3, CloseMapping
<1>4. ASSUME NEW h \in Handles, NEW p \in -1 .. MaxPid + 1, NEW s \in -1 .. RECORDS_PER_PAGE,
             ReadRefused(h, Rid(p, s)) \/ ReadOK(h, Rid(p, s)) \/ ReadFails(h, Rid(p, s))
      PROVE  Log!LogNext
  <2>1. p \in Int /\ s \in Int
    OBVIOUS
  <2> QED BY <1>4, <2>1, ReadMapping
<1>5. ASSUME NEW h \in Handles,
             \/ \E r \in Records : AppendStart(h, r)
             \/ AppendReadFails(h) \/ AppendWrite(h) \/ AppendWriteFails(h)
      PROVE  Log!LogNext \/ UNCHANGED Log!logVars
  BY <1>5, AppendMapping
<1>6. CASE Restart
  BY <1>6, RestartMapping
<1>7. CASE UNCHANGED recordVars
  <2>1. Logs' = Logs
    BY <1>7, SameLogs DEF SameFiles, recordVars, pfVars
  <2>2. Using' = Using /\ Doubt' = Doubt
    BY <1>7, SameUsing, SameDoubt DEF Opening, recordVars, pfVars
  <2> QED BY <2>1, <2>2, <1>7, StutterMaps DEF recordVars, pfVars
<1> QED BY <1>1, <1>2, <1>3, <1>4, <1>5, <1>6, <1>7 DEF Next

-----------------------------------------------------------------------------
(* The theorems *)

LEMMA RecInvariant == Spec => []RecInv
BY RecInvInit, RecInvNext, PTL DEF Spec

(* Every variable keeps its type, whatever fails and whenever the process  *)
(* ends; a constructor that failed leaves any record id in erid.           *)
THEOREM TypeCorrect == Spec => []TypeOK
<1>1. RecInv => TypeOK
  BY DEF RecInv
<1> QED BY <1>1, RecInvariant, PTL

(* In every file all pages but the last are full and the last one holds a  *)
(* record, which is what open() relies on: whatever system call fails, and *)
(* also when append() was given another page's bytes after an error of     *)
(* read(2).  The callers keep to what the head of RecordFile says.         *)
THEOREM FilesAreWellFormed == Spec => []WellFormed
<1>1. RecInv => WellFormed
  BY DEF RecInv
<1> QED BY <1>1, RecInvariant, PTL

(* Between calls the endRid() of every open object is the end of its file: *)
(* append() adds, and read() refuses just the records that are not there.  *)
THEOREM EridIsTheEnd == Spec => []EridIsEnd
<1>1. RecInv => EridIsEnd
  <2> SUFFICES ASSUME RecInv, NEW h \in Handles, opened[h] # NoFile, pending = Idle
               PROVE  Position(erid[h]) = Count(opened[h])
    BY DEF EridIsEnd
  <2>1. opened[h] \in Files /\ erid[h] = EndOf(opened[h])
    BY DEF RecInv, TypeOK, EridsAtEnd, Opening, Idle
  <2> QED BY <2>1, EndPosition
<1> QED BY <1>1, RecInvariant, PTL

(* RecordFile is the log of RecordLog: a record that append() accepted     *)
(* stays at its position, through failures of open, seek, read, write and  *)
(* close, reopening, and the end of the process inside any call.  Only an  *)
(* append() through an object that met an error of read(2) may change the  *)
(* records before it, and only what such an object reads may be wrong.     *)
THEOREM RecordFileIsLog == Spec => ImplementsLog
<1>1. Spec => Log!LogInit /\ [][Log!LogNext]_(Log!logVars)
  BY LogMappingInit, LogMappingNext, RecInvariant, PTL DEF Spec
<1> QED BY <1>1 DEF ImplementsLog, Log!LogSpec
=============================================================================
