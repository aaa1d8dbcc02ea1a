------------------------------ MODULE BTLeafNode ------------------------------
(***************************************************************************)
(* BTLeafNode of BTreeNode.cc: a B+ tree leaf in a page-sized buffer.      *)
(*                                                                         *)
(* The buffer is MAX_KEY slots of (key, record id) and, in its last four   *)
(* bytes, the page id of the next leaf.  Nothing says how many slots are   *)
(* in use: every method scans for a slot whose record id has pid -1, which *)
(* is what a buffer filled with -1 reads as, and so do its keys.           *)
(*                                                                         *)
(* BTreeIndex.cc, which would call this class, is a set of stubs.  The     *)
(* methods are therefore called in any order, within what BTreeNode.h asks *)
(* of its callers; nodes are saved the way main.cc's test does, to pages   *)
(* up to endPid() of one PageFile.  After an error of read(2) PageFile may *)
(* give the bytes of another page for that one, until it is written: no    *)
(* node is read from it before.                                            *)
(***************************************************************************)
EXTENDS Integers, Sequences

CONSTANTS Nodes,      \* the BTLeafNode objects
          Keys,       \* the keys a caller inserts or searches for
          Rids,       \* the record ids a caller inserts
          NoRid,      \* a record id whose pid is -1
          MAX_KEY,    \* slots of a leaf, 85 in the code
          IndexFiles, \* the files a PageFile may be opened on
          NoFile,     \* the file of a PageFile that is not open
          NoContent,  \* the buffer of a PageFile call that returns none
          MaxPid      \* bound: the largest page id

ASSUME LeafAssumption ==
  /\ Keys \subseteq Int
  /\ NoRid \notin Rids
  /\ MAX_KEY \in Nat /\ MAX_KEY % 2 = 1
  /\ MaxPid \in Nat

Pids    == 0 .. MaxPid
Slots   == 0 .. MAX_KEY - 1
Entries == [key : Keys, rid : Rids]
Blank   == [key |-> -1, rid |-> NoRid]
Leaves  == [slot : [Slots -> Entries \cup {Blank}], next : Pids \cup {-1}]

(* The first i that a scan stops at *)
Least(S) == CHOOSE i \in S : \A j \in S : i <= j

(* getKeyCount *)
KeyCount(b) == Least({i \in Slots : b.slot[i].rid = NoRid} \cup {MAX_KEY})

-----------------------------------------------------------------------------
(* Slips that the runs must notice *)

EmptyLeaf_Zeroed == [slot |-> [i \in Slots |-> [key |-> 0, rid |-> NoRid]], next |-> 0]
InsertPoint_IgnoreEnd(b, k) == Least({i \in Slots : k < b.slot[i].key} \cup {MAX_KEY})
InsertPoint_AtEnd(b, k)     == KeyCount(b)
Half_Short                  == MAX_KEY \div 2
KeyAt_Before(b, i)          == IF i > 0 THEN b.slot[i - 1].key ELSE b.slot[0].key
Advances_PastEqual(b, k, i) == i \in Slots /\ k >= b.slot[i].key /\ b.slot[i].rid # NoRid

-----------------------------------------------------------------------------
(* memset(buffer, -1, PAGE_SIZE) *)
EmptyLeaf == [slot |-> [i \in Slots |-> Blank], next |-> -1]

VARIABLES page, size, opened, rw, stale, suspect, doomed, spoiled, call, \* pf: see PageStore
          node,  \* the buffer of each object
          rc     \* the value the last call returned

pfVars   == <<page, size, opened, rw, stale, suspect, doomed, spoiled, call>>
leafVars == <<pfVars, node, rc>>

(* No page is read that was not written: what a hole holds does not matter. *)
pf == "pf"
PF == INSTANCE PageStore WITH Handles <- {pf}, Files <- IndexFiles,
                              Contents <- Leaves, Zeros <- EmptyLeaf

Init == /\ PF!Init
        /\ node = [n \in Nodes |-> EmptyLeaf]
        /\ rc = "OK"

-----------------------------------------------------------------------------
(* The scans *)

(* The first slot whose key is larger, or the end. *)
InsertPoint(b, k) ==
  Least({i \in Slots : k < b.slot[i].key \/ b.slot[i].rid = NoRid} \cup {MAX_KEY})

(* What the four bytes behind slot i - 1 hold: past the last slot they are *)
(* the page id of the next leaf.                                           *)
KeyAt(b, i) == IF i < MAX_KEY THEN b.slot[i].key ELSE b.next

Half == (MAX_KEY + 1) \div 2

-----------------------------------------------------------------------------
(* insert *)

(* The slots with e moved in, one more than the leaf has: insertAndSplit() *)
(* works on a copy of that size, insert() never fills the last one.        *)
WithEntry(b, e) ==
  LET at == InsertPoint(b, e.key)
      n  == KeyCount(b)
  IN [i \in 0 .. MAX_KEY |-> IF i = at THEN e
                             ELSE IF at < i /\ i <= n THEN b.slot[i - 1]
                             ELSE IF i \in Slots THEN b.slot[i] ELSE Blank]

Inserted(b, e) == [b EXCEPT !.slot = [i \in Slots |-> WithEntry(b, e)[i]]]

Insert(n, e) ==
  /\ KeyCount(node[n]) < MAX_KEY
  /\ node' = [node EXCEPT ![n] = Inserted(@, e)]
  /\ rc' = "OK"
  /\ UNCHANGED pfVars

InsertRefused(n) ==
  /\ KeyCount(node[n]) >= MAX_KEY
  /\ rc' = "RC_NODE_FULL"
  /\ UNCHANGED <<pfVars, node>>

-----------------------------------------------------------------------------
(* insertAndSplit *)

(* The node forgets its next leaf, for the caller to set; the sibling      *)
(* gets it.  siblingKey is an output parameter.                            *)
Split(b, e, s) ==
  LET all == WithEntry(b, e)
  IN [node |-> [slot |-> [i \in Slots |-> IF i < Half THEN all[i] ELSE Blank],
                next |-> -1],
      sibling |-> [slot |-> [i \in Slots |-> IF i < Half THEN all[Half + i] ELSE s.slot[i]],
                   next |-> b.next],
      siblingKey |-> all[Half].key]

InsertAndSplit(n, e, m) ==
  /\ KeyCount(node[n]) >= MAX_KEY
  /\ KeyCount(node[m]) = 0
  /\ LET s == Split(node[n], e, node[m])
     IN node' = [node EXCEPT ![n] = s.node, ![m] = s.sibling]
  /\ rc' = "OK"
  /\ UNCHANGED pfVars

InsertAndSplitRefused(n, m) ==
  /\ \/ KeyCount(node[n]) < MAX_KEY /\ rc' = "RC_INVALID_FILE_MODE"
     \/ /\ KeyCount(node[n]) >= MAX_KEY
        /\ KeyCount(node[m]) # 0
        /\ rc' = "RC_INVALID_FILE_FORMAT"
  /\ UNCHANGED <<pfVars, node>>

-----------------------------------------------------------------------------
(* locate, readEntry, getNextNodePtr: they change nothing *)

(* The loop advances from slot i to i + 1, and only then compares for      *)
(* equality.                                                               *)
Advances(b, k, i) == i \in Slots /\ k > b.slot[i].key /\ b.slot[i].rid # NoRid

Locate(b, k) ==
  LET hit(j) == j > 0 /\ k = KeyAt(b, j)
      i == Least({j \in 0 .. MAX_KEY : hit(j) \/ ~Advances(b, k, j)})
  IN IF hit(i) THEN [rc |-> "OK", eid |-> i]
     ELSE [rc |-> "RC_NO_SUCH_RECORD", eid |-> IF i = 0 THEN 0 ELSE i - 1]

ReadEntry(b, eid) ==
  IF eid \in 0 .. KeyCount(b) - 1 THEN [rc |-> "OK", entry |-> b.slot[eid]]
                                  ELSE [rc |-> "RC_NO_SUCH_RECORD", entry |-> Blank]

RC_INVALID_PID == -1007
NextNodePtr(b) == IF b.next = -1 THEN RC_INVALID_PID ELSE b.next

-----------------------------------------------------------------------------
(* setNextNodePtr, the constructor *)

SetNextNodePtr(n, p) ==
  /\ IF p < 0 THEN rc' = "RC_INVALID_PID" /\ UNCHANGED node
              ELSE rc' = "OK" /\ node' = [node EXCEPT ![n].next = p]
  /\ UNCHANGED pfVars

Construct(n) == /\ node' = [node EXCEPT ![n] = EmptyLeaf]
                /\ rc' = "OK"
                /\ UNCHANGED pfVars

-----------------------------------------------------------------------------
(* read, write *)

(* PageFile::read fills the buffer last of all: if it fails, the node is   *)
(* what it was.  A page that could not be read is not read again.          *)
Read(n, p) ==
  /\ opened[pf] # NoFile /\ <<pf, p>> \notin suspect
  /\ \/ \E b \in {page[opened[pf]][p]} :
          PF!Read(pf, p, b) /\ node' = [node EXCEPT ![n] = b] /\ rc' = "OK"
     \/ \E r \in {"RC_INVALID_PID", "RC_FILE_SEEK_FAILED", "RC_FILE_READ_FAILED"} :
          PF!ReadFails(pf, p, r) /\ rc' = r /\ UNCHANGED node

Write(n, p) ==
  /\ opened[pf] # NoFile /\ p <= size[opened[pf]]
  /\ \/ PF!Write(pf, p, node[n]) /\ rc' = "OK"
     \/ \E r \in {"RC_INVALID_PID", "RC_FILE_SEEK_FAILED", "RC_FILE_WRITE_FAILED"} :
          PF!WriteFails(pf, p, r) /\ rc' = r
  /\ UNCHANGED node

(* The caller opens the PageFile first.  The process may end at any time. *)
OpenIndex(f) == PF!Open(pf, f, TRUE) /\ UNCHANGED <<node, rc>>

Restart == /\ PF!Restart
           /\ node' = [n \in Nodes |-> EmptyLeaf]
           /\ rc' = "OK"

Next ==
  \/ \E n \in Nodes, e \in Entries : Insert(n, e)
  \/ \E n, m \in Nodes, e \in Entries : InsertAndSplit(n, e, m)
  \/ \E n \in Nodes : InsertRefused(n) \/ Construct(n)
  \/ \E n, m \in Nodes : InsertAndSplitRefused(n, m)
  \/ \E n \in Nodes, p \in -1 .. MaxPid : SetNextNodePtr(n, p)
  \/ \E n \in Nodes, p \in Pids : Read(n, p) \/ Write(n, p)
  \/ \E f \in IndexFiles : OpenIndex(f)
  \/ Restart

Spec == Init /\ [][Next]_leafVars

-----------------------------------------------------------------------------
(* Properties *)

EntriesOf(b) == [i \in 1 .. KeyCount(b) |-> b.slot[i - 1]]
Sorted(s)    == \A i, j \in 1 .. Len(s) : i < j => s[i].key <= s[j].key

(* s with e somewhere in it *)
Spliced(s, e, t) ==
  \E i \in 0 .. Len(s) : t = SubSeq(s, 1, i) \o <<e>> \o SubSeq(s, i + 1, Len(s))

Rcs == {"OK", "RC_NODE_FULL", "RC_INVALID_FILE_MODE", "RC_INVALID_FILE_FORMAT",
        "RC_INVALID_PID", "RC_FILE_SEEK_FAILED", "RC_FILE_READ_FAILED",
        "RC_FILE_WRITE_FAILED"}

TypeOK == /\ page \in [IndexFiles -> [Pids -> Leaves]]
          /\ size \in [IndexFiles -> PF!Absent .. MaxPid + 1]
          /\ opened \in [{pf} -> IndexFiles \cup {NoFile}]
          /\ node \in [Nodes -> Leaves]
          /\ rc \in Rcs

(* The scans are right only if the used slots come first, in key order,    *)
(* and every other slot still reads as -1: in memory, and in every page    *)
(* that can be read back, also when the process ended between two writes.  *)
InOrder(b) == /\ Sorted(EntriesOf(b))
              /\ \A i \in Slots : i >= KeyCount(b) => b.slot[i] = Blank

NodesInOrder == /\ \A n \in Nodes : InOrder(node[n])
                /\ \A f \in IndexFiles : \A p \in 0 .. size[f] - 1 : InOrder(page[f][p])

(* insert() on a leaf with room adds the pair, loses and changes no other  *)
(* one, keeps the keys sorted, and leaves the link to the next leaf.       *)
InsertAdds ==
  \A n \in Nodes, e \in Entries :
    KeyCount(node[n]) < MAX_KEY =>
      LET b == Inserted(node[n], e)
      IN /\ Spliced(EntriesOf(node[n]), e, EntriesOf(b))
         /\ Sorted(EntriesOf(b))
         /\ b.next = node[n].next

(* insertAndSplit() leaves every pair in one of the two leaves, the new    *)
(* one included, half and half, in order across both; siblingKey separates *)
(* them, and the sibling continues where the leaf used to.                 *)
SplitHalves ==
  \A n, m \in Nodes, e \in Entries :
    KeyCount(node[n]) = MAX_KEY /\ KeyCount(node[m]) = 0 =>
      LET s   == Split(node[n], e, node[m])
          all == EntriesOf(s.node) \o EntriesOf(s.sibling)
      IN /\ Spliced(EntriesOf(node[n]), e, all)
         /\ Sorted(all)
         /\ KeyCount(s.node) = KeyCount(s.sibling)
         /\ s.siblingKey = s.sibling.slot[0].key
         /\ s.sibling.next = node[n].next

(* A forward scan that starts at the entry locate() returns meets every    *)
(* entry whose key is searchKey or larger, whatever locate() returned.     *)
LocateSkipsNothing ==
  \A n \in Nodes, k \in Keys : LET eid == Locate(node[n], k).eid
                               IN \A i \in Slots : i < eid => node[n].slot[i].key < k

(* BTreeNode.h:45: "If searchKey exists in the node, set eid to the index  *)
(* entry with searchKey and return 0."                                     *)
LocateFinds ==
  \A n \in Nodes, k \in Keys :
    (\E i \in 0 .. KeyCount(node[n]) - 1 : node[n].slot[i].key = k)
      => Locate(node[n], k).rc = "OK"

(* But for the first key of a leaf, locate() finds the first entry with    *)
(* searchKey.  What it finds is an entry with searchKey, or lies just      *)
(* behind the last one, where it meets -1 in a free slot or, in a full     *)
(* leaf, the page id of the next leaf.                                     *)
LocateFindsOthers ==
  \A n \in Nodes, k \in Keys :
    LET b  == node[n]
        l  == Locate(b, k)
        at == {i \in 0 .. KeyCount(b) - 1 : b.slot[i].key = k}
    IN /\ at # {} /\ 0 \notin at => l = [rc |-> "OK", eid |-> Least(at)]
       /\ l.rc = "OK" => \/ l.eid \in at
                         \/ /\ l.eid = KeyCount(b)
                            /\ k = IF KeyCount(b) < MAX_KEY THEN -1 ELSE b.next
=============================================================================
