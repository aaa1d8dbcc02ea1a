------------------------------ MODULE PageStore ------------------------------
(***************************************************************************)
(* What PageFile promises to its clients (the comments of PageFile.h): a   *)
(* handle opened on a file reads the pages that file holds and writes them *)
(* in place.  Caching, file descriptors and clocks are not visible here.   *)
(*                                                                         *)
(* Any call may fail, and a failed call changes no page.  Three things     *)
(* take away the promise of what a read returns:                           *)
(*   - a handle whose file was written through another handle since it was *)
(*     opened is stale;                                                    *)
(*   - a page that could not be read is suspect, for that handle, until it *)
(*     is written or the handle closed: the next read of it may return     *)
(*     other bytes and no error;                                           *)
(*   - a handle that failed to close is doomed, and good for nothing but   *)
(*     to be given up; it may have spoiled what is opened after it.        *)
(***************************************************************************)
EXTENDS Integers

CONSTANTS Handles,   \* the PageFile objects of the process
          Files,     \* the names of the files
          NoFile,    \* the file of a handle that is not open
          Contents,  \* what a page can hold
          Zeros,     \* the page of a hole that was never written
          NoContent, \* the buffer of a call that returns none
          MaxPid     \* bound: the largest page id a client passes

Pids     == 0 .. MaxPid
NoHandle == "none"
Absent   == -1

VARIABLES page,    \* page[f][p]: the content of page p of file f
          size,    \* number of pages of each file, Absent before creation
          opened,  \* the file each handle has open, or NoFile
          rw,      \* the handles opened for writing
          stale,   \* the handles whose file was written through another one
          suspect, \* <<h, p>> if h may read other bytes for page p
          doomed,  \* the handles that failed to close
          spoiled, \* whether a handle that is opened may find all pages suspect
          call     \* the last call and its result

vars == <<page, size, opened, rw, stale, suspect, doomed, spoiled, call>>

Call(op, h, p, rc, c) == [op |-> op, by |-> h, pid |-> p, rc |-> rc, buffer |-> c]

Init == /\ page = [f \in Files |-> [p \in Pids |-> Zeros]]
        /\ size = [f \in Files |-> Absent]
        /\ opened = [h \in Handles |-> NoFile]
        /\ rw = {}
        /\ stale = {}
        /\ suspect = {}
        /\ doomed = {}
        /\ spoiled = FALSE
        /\ call = Call("start", NoHandle, 0, "OK", NoContent)

handles == <<opened, rw, stale, suspect, doomed, spoiled>>

MayCreate(f) == size' \in {size} \cup (IF size[f] = Absent
                                       THEN {[size EXCEPT ![f] = 0]} ELSE {})

Open(h, f, writes) ==
  /\ call' = Call("open", h, 0, "OK", NoContent)
  /\ opened[h] = NoFile /\ h \notin doomed
  /\ IF writes THEN MayCreate(f) ELSE UNCHANGED size
  /\ size'[f] # Absent
  /\ opened' = [opened EXCEPT ![h] = f]
  /\ rw' = IF writes THEN rw \cup {h} ELSE rw \ {h}
  /\ stale' = stale \ {h}
  /\ \E K \in IF spoiled THEN SUBSET Pids ELSE {{}} : suspect' = suspect \cup ({h} \X K)
  /\ spoiled' \in {spoiled, FALSE}
  /\ UNCHANGED <<page, doomed>>

OpenFails(h, f, writes, rc) ==
  /\ call' = Call("open", h, 0, rc, NoContent)
  /\ h \notin doomed
  /\ rc \in {"RC_FILE_OPEN_FAILED", "RC_INVALID_FILE_MODE"}
  /\ IF writes THEN MayCreate(f) ELSE UNCHANGED size
  /\ UNCHANGED <<page, handles>>

(* The handle is no longer open on anything. *)
LetGo(h) == /\ opened' = [opened EXCEPT ![h] = NoFile]
            /\ rw' = rw \ {h}
            /\ stale' = stale \ {h}
            /\ suspect' = suspect \ ({h} \X Pids)

Close(h) ==
  /\ call' = Call("close", h, 0, "OK", NoContent)
  /\ opened[h] # NoFile
  /\ LetGo(h)
  /\ UNCHANGED <<page, size, doomed, spoiled>>

CloseRefused(h) ==
  /\ call' = Call("close", h, 0, "RC_FILE_CLOSE_FAILED", NoContent)
  /\ opened[h] = NoFile /\ h \notin doomed
  /\ UNCHANGED <<page, size, handles>>

CloseFails(h) ==
  /\ call' = Call("close", h, 0, "RC_FILE_CLOSE_FAILED", NoContent)
  /\ opened[h] # NoFile
  /\ LetGo(h)
  /\ doomed' = doomed \cup {h}
  /\ spoiled' \in {spoiled, TRUE}
  /\ UNCHANGED <<page, size>>

Destroy(h) ==
  /\ call' = Call("destroy", h, 0, "OK", NoContent)
  /\ LetGo(h)
  /\ doomed' = doomed \ {h}
  /\ UNCHANGED <<page, size, spoiled>>

Read(h, p, c) ==
  /\ call' = Call("read", h, p, "OK", c)
  /\ opened[h] # NoFile
  /\ p \in Pids /\ p < size[opened[h]]
  /\ h \notin stale /\ <<h, p>> \notin suspect => c = page[opened[h]][p]
  /\ UNCHANGED <<page, size, handles>>

(* INVALID_PID is a statement about the file: the page does not exist. *)
ReadFails(h, p, rc) ==
  /\ call' = Call("read", h, p, rc, NoContent)
  /\ h \notin doomed
  /\ \/ /\ rc = "RC_INVALID_PID"
        /\ opened[h] # NoFile /\ h \notin stale => p \notin 0 .. size[opened[h]] - 1
        /\ UNCHANGED suspect
     \/ rc = "RC_FILE_SEEK_FAILED" /\ UNCHANGED suspect
     \/ /\ rc = "RC_FILE_READ_FAILED"
        /\ opened[h] # NoFile /\ p \in Pids
        /\ suspect' = suspect \cup {<<h, p>>}
  /\ UNCHANGED <<page, size, opened, rw, stale, doomed, spoiled>>

(* Writing at or past the end extends the file: endPid() becomes p + 1. *)
Write(h, p, c) ==
  /\ call' = Call("write", h, p, "OK", NoContent)
  /\ opened[h] # NoFile
  /\ h \in rw
  /\ p \in Pids
  /\ page' = [page EXCEPT ![opened[h]][p] = c]
  /\ size' = [size EXCEPT ![opened[h]] = IF p >= @ THEN p + 1 ELSE @]
  /\ stale' = stale \cup {g \in Handles \ {h} : opened[g] = opened[h]}
  /\ suspect' = suspect \ {<<h, p>>}
  /\ UNCHANGED <<opened, rw, doomed, spoiled>>

WriteFails(h, p, rc) ==
  /\ call' = Call("write", h, p, rc, NoContent)
  /\ h \notin doomed
  /\ rc \in {"RC_INVALID_PID", "RC_FILE_SEEK_FAILED", "RC_FILE_WRITE_FAILED"}
  /\ UNCHANGED <<page, size, handles>>

(* The process ends, with or without closing, and a new one starts. *)
Restart ==
  /\ call' = Call("start", NoHandle, 0, "OK", NoContent)
  /\ opened' = [h \in Handles |-> NoFile]
  /\ rw' = {}
  /\ stale' = {}
  /\ suspect' = {}
  /\ doomed' = {}
  /\ spoiled' = FALSE
  /\ UNCHANGED <<page, size>>

(* The operation of the call tells the steps apart at little cost. *)
Next ==
  \/ \E h \in Handles :
       \/ /\ call'.op = "open"
          /\ \E f \in Files, writes \in BOOLEAN :
               Open(h, f, writes) \/ OpenFails(h, f, writes, call'.rc)
       \/ call'.op = "close" /\ (Close(h) \/ CloseRefused(h) \/ CloseFails(h))
       \/ Destroy(h)
       \/ /\ call'.op = "read"
          /\ \/ \E p \in Pids, c \in Contents : Read(h, p, c)
             \/ \E p \in -1 .. MaxPid : ReadFails(h, p, call'.rc)
       \/ /\ call'.op = "write"
          /\ \/ \E p \in Pids, c \in Contents : Write(h, p, c)
             \/ \E p \in -1 .. MaxPid : WriteFails(h, p, call'.rc)
  \/ Restart

Spec == Init /\ [][Next]_vars
=============================================================================
