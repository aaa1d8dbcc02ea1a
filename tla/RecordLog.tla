------------------------------ MODULE RecordLog ------------------------------
(***************************************************************************)
(* What RecordFile promises (the comments of RecordFile.h): a file is a    *)
(* log of records.  append() adds one at the end, read() returns the one   *)
(* at a position before the end, and nothing is ever changed or removed,   *)
(* not by a failed call and not by a process that ends half way.           *)
(*                                                                         *)
(* The promise has two limits.  An object that met an error of read(2) is  *)
(* in doubt until it is closed: a record read through it may be any, and   *)
(* an append() through it may change the records before.  A close() that   *)
(* failed may have spoiled the process: nothing is promised of a file      *)
(* opened after it, so no file is.                                         *)
(***************************************************************************)
EXTENDS Integers, Sequences

CONSTANTS Handles,   \* the RecordFile objects of the process
          Files,     \* the names of the files
          NoFile,    \* the file of an object that is not open
          Records,   \* the (key, value) pairs a client appends
          Stored,    \* what is kept of each record: long values are cut
          NoRecord   \* the record of a call that returns none

VARIABLES log,     \* the records of each file, oldest first
          using,   \* the file each object has open, or NoFile
          doubt,   \* the objects through which a page could not be read
          spoiled, \* whether a close() that failed has left pages cached
          answer   \* the last call and its result

logVars == <<log, using, doubt, spoiled, answer>>

NoObject == "none"

Answer(op, h, rc, at, r) == [op |-> op, by |-> h, rc |-> rc, at |-> at, rec |-> r]

LogInit == /\ log = [f \in Files |-> <<>>]
           /\ using = [h \in Handles |-> NoFile]
           /\ doubt = {}
           /\ spoiled = FALSE
           /\ answer = Answer("start", NoObject, "OK", 0, NoRecord)

Opened(h, f) == /\ using[h] = NoFile /\ ~spoiled
                /\ using' = [using EXCEPT ![h] = f]
                /\ answer' = Answer("open", h, "OK", Len(log[f]), NoRecord)
                /\ UNCHANGED <<log, doubt, spoiled>>

LetGo(h) == /\ using' = [using EXCEPT ![h] = NoFile]
            /\ doubt' = doubt \ {h}
            /\ UNCHANGED log

(* close(), or the end of the object's life *)
Released(h, op) == /\ op \in {"close", "destroy"}
                   /\ LetGo(h)
                   /\ answer' = Answer(op, h, "OK", 0, NoRecord)
                   /\ UNCHANGED spoiled

(* close() of an open object that returns an error *)
CloseFailed(h) == /\ using[h] # NoFile
                  /\ LetGo(h)
                  /\ answer' = Answer("close", h, "RC_FILE_CLOSE_FAILED", 0, NoRecord)
                  /\ spoiled' \in {spoiled, TRUE}

(* What append() finds of the records before: themselves, or any. *)
Before(h, l) == IF h \in doubt THEN [1 .. Len(l) -> Records] ELSE {l}

Appended(h, r) ==
  /\ using[h] # NoFile
  /\ \E l \in Before(h, log[using[h]]) :
        log' = [log EXCEPT ![using[h]] = Append(l, Stored[r])]
  /\ doubt' \in {doubt, doubt \ {h}}
  /\ answer' = Answer("append", h, "OK", Len(log[using[h]]), NoRecord)
  /\ UNCHANGED <<using, spoiled>>

(* Position i counts from 0, as record ids do. *)
Found(h, i) ==
  /\ using[h] # NoFile
  /\ i \in 0 .. Len(log[using[h]]) - 1
  /\ \E r \in IF h \in doubt THEN Records ELSE {log[using[h]][i + 1]} :
        answer' = Answer("read", h, "OK", i, r)
  /\ UNCHANGED <<log, using, doubt, spoiled>>

(* A failed call changes no record; RC_INVALID_RID says there is none.  An *)
(* open() that fails may have failed to close what it had opened.          *)
Failed(op, h, rc, i) ==
  /\ rc # "OK"
  /\ op = "read" /\ rc = "RC_INVALID_RID" /\ using[h] # NoFile =>
       i \notin 0 .. Len(log[using[h]]) - 1
  /\ answer' = Answer(op, h, rc, i, NoRecord)
  /\ doubt' = IF rc = "RC_FILE_READ_FAILED" /\ using[h] # NoFile THEN doubt \cup {h} ELSE doubt
  /\ spoiled' \in IF op = "open" THEN {spoiled, TRUE} ELSE {spoiled}
  /\ UNCHANGED <<log, using>>

Restarted == /\ using' = [h \in Handles |-> NoFile]
             /\ doubt' = {}
             /\ spoiled' = FALSE
             /\ answer' = Answer("start", NoObject, "OK", 0, NoRecord)
             /\ UNCHANGED log

(* The operation of the answer tells the steps apart at little cost. *)
LogNext ==
  \/ \E h \in Handles :
       \/ answer'.op = "open" /\ \E f \in Files : Opened(h, f)
       \/ answer'.op = "close" /\ (Released(h, "close") \/ CloseFailed(h))
       \/ answer'.op = "destroy" /\ Released(h, "destroy")
       \/ answer'.op = "append" /\ \E r \in Records : Appended(h, r)
       \/ answer'.op = "read" /\ Found(h, answer'.at)
       \/ Failed(answer'.op, h, answer'.rc, answer'.at)
  \/ Restarted

LogSpec == LogInit /\ [][LogNext]_logVars
=============================================================================
