------------------------------ MODULE RecordFile ------------------------------
(***************************************************************************)
(* RecordFile.cc and RecordFile.h: an append-only file of records on top   *)
(* of PageFile.  Its calls into PageFile are steps of PageStore, what      *)
(* PageFile has been shown to implement; every one of them may fail, and   *)
(* the process may end between two of them.                                *)
(*                                                                         *)
(* Three things the code leaves to its callers are kept to here: an object *)
(* whose close() failed is only destroyed, no file is opened once a failed *)
(* close() has left pages in the cache, and append() is not called on an   *)
(* object whose slot number is negative (a constructor that failed leaves  *)
(* any number there, and append() would write outside its page).           *)
(***************************************************************************)
EXTENDS Integers, Sequences

CONSTANTS Handles,          \* the RecordFile objects of the process
          Files,            \* the names of the files
          NoFile,           \* the file of an object that is not open
          NoContent,        \* the buffer of a PageFile call that returns none
          MaxPid,           \* bound: the largest page id
          Records,          \* (key, value) pairs
          Blank,            \* the pair an all-zero slot reads as
          Stored,           \* writeSlot cuts a value of 100 characters or more
          NoRecord,         \* the record of a call that returns none
          Garbage,          \* the record ids an uninitialized erid may hold
          RECORDS_PER_PAGE  \* 9 in the code

ASSUME RecordFileAssumption ==
  /\ Blank \in Records
  /\ Stored \in [Records -> Records]
  /\ \A r \in Records : Stored[Stored[r]] = Stored[r]
  /\ Garbage \subseteq [pid : Int, sid : Int]
  /\ RECORDS_PER_PAGE \in Nat \ {0, 1}
  /\ MaxPid \in Nat
  /\ NoFile \notin Files

Slots    == 0 .. RECORDS_PER_PAGE - 1
Pages    == [count : 0 .. RECORDS_PER_PAGE, slot : [Slots -> Records]]
ZeroPage == [count |-> 0, slot |-> [s \in Slots |-> Blank]]

VARIABLES page, size, opened, rw, stale, suspect, doomed, spoiled, call, \* pf: see PageStore
          erid,    \* RecordFile::erid of each object
          pending, \* the call that is between two calls of pf
          answer   \* history: the last call and its result

pfVars     == <<page, size, opened, rw, stale, suspect, doomed, spoiled, call>>
recordVars == <<pfVars, erid, pending, answer>>

PF == INSTANCE PageStore WITH Contents <- Pages, Zeros <- ZeroPage

Rid(p, s) == [pid |-> p, sid |-> s]
Idle      == [op |-> "none"]

Answer(op, h, rc, at, r) == [op |-> op, by |-> h, rc |-> rc, at |-> at, rec |-> r]

Init == /\ PF!Init
        /\ erid = [h \in Handles |-> Rid(0, 0)]
        /\ pending = Idle
        /\ answer = Answer("start", PF!NoHandle, "OK", 0, NoRecord)

-----------------------------------------------------------------------------
(* Slips that the runs must notice *)

Increment_NoCarry(r)       == Rid(r.pid, r.sid + 1)
AtOrAfter_Strict(r, e)     == r.pid > e.pid \/ (r.pid = e.pid /\ r.sid > e.sid)
EndAfter_NewPage(p, c)     == Rid(p + 1, 0)
WithRecord_NoCount(c, s, r) == [c EXCEPT !.slot[s] = Stored[r]]

-----------------------------------------------------------------------------
(* Record ids *)

Increment(r) == IF r.sid + 1 >= RECORDS_PER_PAGE THEN Rid(r.pid + 1, 0)
                                             ELSE Rid(r.pid, r.sid + 1)

AtOrAfter(r, e) == r.pid > e.pid \/ (r.pid = e.pid /\ r.sid >= e.sid)

(* The position of a record id in the file, -1 if it is none. *)
Position(r) == IF r.pid >= 0 /\ r.sid \in Slots
               THEN r.pid * RECORDS_PER_PAGE + r.sid ELSE -1

-----------------------------------------------------------------------------
(* open, and the constructor that opens *)

EndAfter(p, c) == IF c.count >= RECORDS_PER_PAGE THEN Rid(p + 1, 0) ELSE Rid(p, c.count)

(* A file that is being written has no other object: SqlEngine.cc has one  *)
(* RecordFile at a time.                                                   *)
Allowed(h, f, writes) ==
  \A g \in Handles \ {h} : opened[g] = f => ~writes /\ g \notin rw

OpenStart(h, f, writes) ==
  /\ pending = Idle
  /\ Allowed(h, f, writes)
  /\ ~spoiled
  /\ PF!Open(h, f, writes)
  /\ IF size'[f] = 0
     THEN /\ erid' = [erid EXCEPT ![h] = Rid(0, 0)]
          /\ answer' = Answer("open", h, "OK", 0, NoRecord)
          /\ UNCHANGED pending
     ELSE /\ erid' = [erid EXCEPT ![h] = Rid(size'[f] - 1, @.sid)]
          /\ pending' = [op |-> "open", by |-> h]
          /\ UNCHANGED answer

(* open() of an object leaves erid alone when pf.open fails; a constructor *)
(* leaves it uninitialized.                                                *)
OpenRefused(h, f, writes) ==
  /\ pending = Idle
  /\ \E rc \in {"RC_FILE_OPEN_FAILED", "RC_INVALID_FILE_MODE"} :
       /\ PF!OpenFails(h, f, writes, rc)
       /\ answer' = Answer("open", h, rc, 0, NoRecord)
  /\ \/ UNCHANGED erid
     \/ opened[h] = NoFile /\ \E r \in Garbage : erid' = [erid EXCEPT ![h] = r]
  /\ UNCHANGED pending

OpenLastPage(h) ==
  /\ pending = [op |-> "open", by |-> h]
  /\ \E c \in Pages : /\ PF!Read(h, erid[h].pid, c)
                      /\ erid' = [erid EXCEPT ![h] = EndAfter(@.pid, c)]
  /\ answer' = Answer("open", h, "OK", Position(erid'[h]), NoRecord)
  /\ pending' = Idle

OpenLastPageFails(h) ==
  /\ pending = [op |-> "open", by |-> h]
  /\ \E rc \in {"RC_FILE_SEEK_FAILED", "RC_FILE_READ_FAILED"} :
       /\ PF!ReadFails(h, erid[h].pid, rc)
       /\ pending' = [op |-> "giveup", by |-> h, rc |-> rc]
  /\ erid' = [erid EXCEPT ![h] = Rid(0, 0)]
  /\ UNCHANGED answer

OpenGiveUp(h) ==
  /\ pending.op = "giveup" /\ pending.by = h
  /\ PF!Close(h) \/ PF!CloseFails(h)
  /\ answer' = Answer("open", h, pending.rc, 0, NoRecord)
  /\ pending' = Idle
  /\ UNCHANGED erid

-----------------------------------------------------------------------------
(* close *)

Close(h) ==
  /\ pending = Idle
  /\ erid' = [erid EXCEPT ![h] = Rid(0, 0)]
  /\ \/ PF!Close(h) /\ answer' = Answer("close", h, "OK", 0, NoRecord)
     \/ /\ PF!CloseRefused(h) \/ PF!CloseFails(h)
        /\ answer' = Answer("close", h, "RC_FILE_CLOSE_FAILED", 0, NoRecord)
  /\ UNCHANGED pending

Destroy(h) ==
  /\ pending = Idle
  /\ erid' = [erid EXCEPT ![h] = Rid(0, 0)]
  /\ PF!Destroy(h)
  /\ answer' = Answer("destroy", h, "OK", 0, NoRecord)
  /\ UNCHANGED pending

-----------------------------------------------------------------------------
(* read *)

Readable(h, r) == /\ r.pid >= 0 /\ r.pid <= erid[h].pid
                  /\ r.sid \in Slots
                  /\ ~AtOrAfter(r, erid[h])

ReadRefused(h, r) ==
  /\ pending = Idle
  /\ ~Readable(h, r)
  /\ answer' = Answer("read", h, "RC_INVALID_RID", Position(r), NoRecord)
  /\ UNCHANGED <<pfVars, erid, pending>>

ReadOK(h, r) ==
  /\ pending = Idle
  /\ Readable(h, r)
  /\ \E c \in Pages : /\ PF!Read(h, r.pid, c)
                      /\ answer' = Answer("read", h, "OK", Position(r), c.slot[r.sid])
  /\ UNCHANGED <<erid, pending>>

ReadFails(h, r) ==
  /\ pending = Idle
  /\ Readable(h, r)
  /\ \E rc \in {"RC_INVALID_PID", "RC_FILE_SEEK_FAILED", "RC_FILE_READ_FAILED"} :
       /\ PF!ReadFails(h, r.pid, rc)
       /\ answer' = Answer("read", h, rc, Position(r), NoRecord)
  /\ UNCHANGED <<erid, pending>>

-----------------------------------------------------------------------------
(* append *)

WithRecord(c, s, r) == [count |-> s + 1, slot |-> [c.slot EXCEPT ![s] = Stored[r]]]

(* The first slot of a page needs no read: the page starts as zeros. *)
AppendStart(h, r) ==
  /\ pending = Idle
  /\ h \notin doomed /\ erid[h].sid >= 0
  /\ IF erid[h].sid > 0
     THEN \E c \in Pages : /\ PF!Read(h, erid[h].pid, c)
                           /\ pending' = [op |-> "append", by |-> h, rec |-> r, page |-> c]
     ELSE /\ pending' = [op |-> "append", by |-> h, rec |-> r, page |-> ZeroPage]
          /\ UNCHANGED pfVars
  /\ UNCHANGED <<erid, answer>>

AppendReadFails(h) ==
  /\ pending = Idle
  /\ erid[h].sid > 0
  /\ \E rc \in {"RC_INVALID_PID", "RC_FILE_SEEK_FAILED", "RC_FILE_READ_FAILED"} :
       /\ PF!ReadFails(h, erid[h].pid, rc)
       /\ answer' = Answer("append", h, rc, 0, NoRecord)
  /\ UNCHANGED <<erid, pending>>

AppendWrite(h) ==
  /\ pending.op = "append" /\ pending.by = h
  /\ PF!Write(h, erid[h].pid, WithRecord(pending.page, erid[h].sid, pending.rec))
  /\ answer' = Answer("append", h, "OK", Position(erid[h]), NoRecord)
  /\ erid' = [erid EXCEPT ![h] = Increment(@)]
  /\ pending' = Idle

AppendWriteFails(h) ==
  /\ pending.op = "append" /\ pending.by = h
  /\ \E rc \in {"RC_INVALID_PID", "RC_FILE_SEEK_FAILED", "RC_FILE_WRITE_FAILED"} :
       /\ PF!WriteFails(h, erid[h].pid, rc)
       /\ answer' = Answer("append", h, rc, 0, NoRecord)
  /\ pending' = Idle
  /\ UNCHANGED erid

-----------------------------------------------------------------------------
(* The process ends, perhaps inside a call. *)
Restart ==
  /\ PF!Restart
  /\ erid' = [h \in Handles |-> Rid(0, 0)]
  /\ pending' = Idle
  /\ answer' = Answer("start", PF!NoHandle, "OK", 0, NoRecord)

Next ==
  \/ \E h \in Handles, f \in Files, writes \in BOOLEAN :
        OpenStart(h, f, writes) \/ OpenRefused(h, f, writes)
  \/ \E h \in Handles : OpenLastPage(h) \/ OpenLastPageFails(h) \/ OpenGiveUp(h)
  \/ \E h \in Handles : Close(h) \/ Destroy(h)
  \/ \E h \in Handles, p \in -1 .. MaxPid + 1, s \in -1 .. RECORDS_PER_PAGE :
        ReadRefused(h, Rid(p, s)) \/ ReadOK(h, Rid(p, s)) \/ ReadFails(h, Rid(p, s))
  \/ \E h \in Handles, r \in Records : AppendStart(h, r)
  \/ \E h \in Handles : AppendReadFails(h) \/ AppendWrite(h) \/ AppendWriteFails(h)
  \/ Restart

Spec == Init /\ [][Next]_recordVars

-----------------------------------------------------------------------------
(* Properties *)

(* Every variable keeps its type; the end of an object whose constructor   *)
(* failed may be any number.                                               *)
TypeOK ==
  /\ page \in [Files -> [PF!Pids -> Pages]]
  /\ size \in [Files -> PF!Absent .. MaxPid + 1]
  /\ opened \in [Handles -> Files \cup {NoFile}]
  /\ rw \in SUBSET Handles
  /\ stale \in SUBSET Handles
  /\ suspect \in SUBSET (Handles \X PF!Pids)
  /\ doomed \in SUBSET Handles
  /\ spoiled \in BOOLEAN
  /\ erid \in [Handles -> [pid : Int, sid : Int]]
  /\ \/ pending = Idle
     \/ pending \in [op : {"open"}, by : Handles]
     \/ pending \in [op : {"giveup"}, by : Handles,
                     rc : {"RC_FILE_SEEK_FAILED", "RC_FILE_READ_FAILED"}]
     \/ pending \in [op : {"append"}, by : Handles, rec : Records, page : Pages]

Count(f) == IF size[f] > 0
            THEN (size[f] - 1) * RECORDS_PER_PAGE + page[f][size[f] - 1].count
            ELSE 0

RecordAt(f, i) == page[f][i \div RECORDS_PER_PAGE].slot[i % RECORDS_PER_PAGE]

LogOf(f) == [i \in 1 .. Count(f) |-> RecordAt(f, i - 1)]

(* Every page but the last one is full, and the last one is not empty.     *)
(* open() finds the end of the file by reading the last page only, so it   *)
(* depends on this, also after errors of read, write and close.            *)
WellFormed ==
  \A f \in Files : \A p \in 0 .. size[f] - 1 :
    IF p < size[f] - 1 THEN page[f][p].count = RECORDS_PER_PAGE ELSE page[f][p].count > 0

(* Between calls, endRid() of an open object is the end of its file, so    *)
(* that the next append adds and does not overwrite.                       *)
EridIsEnd ==
  \A h \in Handles :
    opened[h] # NoFile /\ pending = Idle => Position(erid[h]) = Count(opened[h])

(* RecordFile is the append-only log of RecordLog. *)
Opening(h) == pending.op \in {"open", "giveup"} /\ pending.by = h
Log == INSTANCE RecordLog WITH
  log   <- [f \in Files |-> LogOf(f)],
  using <- [h \in Handles |-> IF Opening(h) THEN NoFile ELSE opened[h]],
  doubt <- {h \in Handles : ~Opening(h) /\ \E p \in PF!Pids : <<h, p>> \in suspect}

ImplementsLog == Log!LogSpec
=============================================================================
