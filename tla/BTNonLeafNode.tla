----------------------------- MODULE BTNonLeafNode -----------------------------
(***************************************************************************)
(* BTNonLeafNode of BTreeNode.cc: an inner node of the B+ tree.            *)
(*                                                                         *)
(* The buffer holds one page id and up to MAX_KEY pairs (key, page id);    *)
(* the child left of the first key is the first page id, the child right   *)
(* of a key is the one beside it.  As in a leaf, the pairs in use end at   *)
(* the first page id of -1.  20 bytes of the page are never used, so a     *)
(* scan of a full node still ends.                                         *)
(*                                                                         *)
(* BTreeIndex.cc, which would call this class, is a set of stubs: the      *)
(* methods are called in any order, within what BTreeNode.h asks of its    *)
(* callers.  Pages are those of one PageFile, up to endPid(); after an     *)
(* error of read(2) PageFile may give the bytes of another page for that   *)
(* one, until it is written: no node is read from it before.               *)
(***************************************************************************)
EXTENDS Integers, Sequences

CONSTANTS Nodes,      \* the BTNonLeafNode objects
          Pairs,      \* the keys that separate children, with the child to the right
          MAX_KEY,    \* pairs of a node, 125 in the code
          IndexFiles, \* the files a PageFile may be opened on
          NoFile,     \* the file of a PageFile that is not open
          NoContent,  \* the buffer of a PageFile call that returns none
          MaxPid      \* bound: the largest page id of an inner node

ASSUME NonLeafAssumption == /\ Pairs \subseteq [key : Int, pid : Nat]
                            /\ MAX_KEY \in Nat \ {0}
                            /\ MaxPid \in Nat

NIL      == -1
Slots    == 0 .. MAX_KEY - 1
Keys     == {e.key : e \in Pairs}
Children == {e.pid : e \in Pairs}
Blank    == [key |-> -1, pid |-> NIL]
Inner    == [first : Children \cup {NIL}, slot : [Slots -> Pairs \cup {Blank}]]

(* A slip that the run must notice: memset(buffer, 0, PAGE_SIZE) *)
EmptyNode_Zeroed == [first |-> 0, slot |-> [i \in Slots |-> [key |-> 0, pid |-> 0]]]

(* memset(buffer, -1, PAGE_SIZE) *)
EmptyNode == [first |-> NIL, slot |-> [i \in Slots |-> Blank]]

VARIABLES page, size, opened, rw, stale, suspect, doomed, spoiled, call, \* pf: see PageStore
          node,  \* the buffer of each object
          rc     \* the value the last call returned

pfVars == <<page, size, opened, rw, stale, suspect, doomed, spoiled, call>>
vars   == <<pfVars, node, rc>>

(* No page is read that was not written: what a hole holds does not matter. *)
pf == "pf"
PF == INSTANCE PageStore WITH Handles <- {pf}, Files <- IndexFiles,
                              Contents <- Inner, Zeros <- EmptyNode

Init == /\ PF!Init
        /\ node = [n \in Nodes |-> EmptyNode]
        /\ rc = "OK"

-----------------------------------------------------------------------------
(* The scans *)

(* The first i that a scan stops at *)
Least(S) == CHOOSE i \in S : \A j \in S : i <= j

(* getKeyCount *)
KeyCount(b) == Least({i \in Slots : b.slot[i].pid = NIL} \cup {MAX_KEY})

-----------------------------------------------------------------------------
(* Slips that the runs must notice *)

ScanEnd_AtEnd(b, k) == KeyCount(b)
ScanEnd_Before(b, k) ==
  Least({i \in Slots : k <= b.slot[i].key \/ b.slot[i].pid = NIL} \cup {MAX_KEY})
SiblingOf_KeepsMid(all, s) ==
  LET half == (MAX_KEY + 1) \div 2
  IN [first |-> all[half - 1].pid,
      slot |-> [i \in Slots |-> IF i < MAX_KEY - half THEN all[half + i] ELSE s.slot[i]]]

-----------------------------------------------------------------------------
(* The first pair whose key is larger, or the end. *)
ScanEnd(b, k) ==
  Least({i \in Slots : k < b.slot[i].key \/ b.slot[i].pid = NIL} \cup {MAX_KEY})

(* locateChildPtr *)
ChildPtr(b, k) == IF ScanEnd(b, k) = 0 THEN b.first ELSE b.slot[ScanEnd(b, k) - 1].pid

Half == (MAX_KEY + 1) \div 2

-----------------------------------------------------------------------------
(* initializeRoot, the constructor *)

Root(p, e) == [first |-> p, slot |-> [EmptyNode.slot EXCEPT ![0] = e]]

InitializeRoot(n, p, e) == /\ node' = [node EXCEPT ![n] = Root(p, e)]
                           /\ rc' = "OK"
                           /\ UNCHANGED pfVars

Construct(n) == /\ node' = [node EXCEPT ![n] = EmptyNode]
                /\ rc' = "OK"
                /\ UNCHANGED pfVars

-----------------------------------------------------------------------------
(* insert *)

(* The pairs with e moved in, one more than the node has. *)
WithPair(b, e) ==
  LET at == ScanEnd(b, e.key)
      n  == KeyCount(b)
  IN [i \in 0 .. MAX_KEY |-> IF i = at THEN e
                             ELSE IF at < i /\ i <= n THEN b.slot[i - 1]
                             ELSE IF i \in Slots THEN b.slot[i] ELSE Blank]

Inserted(b, e) == [b EXCEPT !.slot = [i \in Slots |-> WithPair(b, e)[i]]]

Insert(n, e) ==
  /\ KeyCount(node[n]) < MAX_KEY
  /\ node' = [node EXCEPT ![n] = Inserted(@, e)]
  /\ rc' = "OK"
  /\ UNCHANGED pfVars

InsertRefused(n) ==
  /\ KeyCount(node[n]) >= MAX_KEY
  /\ rc' = "RC_NODE_FULL"
  /\ UNCHANGED <<pfVars, node>>

-----------------------------------------------------------------------------
(* insertAndSplit *)

NodeOf(b, all) == [first |-> b.first,
                   slot |-> [i \in Slots |-> IF i < Half THEN all[i] ELSE Blank]]

(* The pair in the middle goes up: its page id becomes the first child of  *)
(* the sibling, its key is the output parameter midKey.                    *)
SiblingOf(all, s) ==
  [first |-> all[Half].pid,
   slot |-> [i \in Slots |-> IF i < MAX_KEY - Half THEN all[Half + 1 + i] ELSE s.slot[i]]]

Split(b, e, s) == LET all == WithPair(b, e)
                  IN [node |-> NodeOf(b, all), sibling |-> SiblingOf(all, s),
                      midKey |-> all[Half].key]

InsertAndSplit(n, e, m) ==
  /\ KeyCount(node[n]) >= MAX_KEY
  /\ KeyCount(node[m]) = 0
  /\ LET s == Split(node[n], e, node[m])
     IN node' = [node EXCEPT ![n] = s.node, ![m] = s.sibling]
  /\ rc' = "OK"
  /\ UNCHANGED pfVars

InsertAndSplitRefused(n, m) ==
  /\ \/ KeyCount(node[n]) < MAX_KEY /\ rc' = "RC_INVALID_FILE_MODE"
     \/ /\ KeyCount(node[n]) >= MAX_KEY
        /\ KeyCount(node[m]) # 0
        /\ rc' = "RC_INVALID_FILE_FORMAT"
  /\ UNCHANGED <<pfVars, node>>

-----------------------------------------------------------------------------
(* read, write *)

(* PageFile::read fills the buffer last of all: if it fails, the node is   *)
(* what it was.  A page that could not be read is not read again.          *)
Read(n, p) ==
  /\ opened[pf] # NoFile /\ <<pf, p>> \notin suspect
  /\ \/ \E b \in {page[opened[pf]][p]} :
          PF!Read(pf, p, b) /\ node' = [node EXCEPT ![n] = b] /\ rc' = "OK"
     \/ \E r \in {"RC_INVALID_PID", "RC_FILE_SEEK_FAILED", "RC_FILE_READ_FAILED"} :
          PF!ReadFails(pf, p, r) /\ rc' = r /\ UNCHANGED node

Write(n, p) ==
  /\ opened[pf] # NoFile /\ p <= size[opened[pf]]
  /\ \/ PF!Write(pf, p, node[n]) /\ rc' = "OK"
     \/ \E r \in {"RC_INVALID_PID", "RC_FILE_SEEK_FAILED", "RC_FILE_WRITE_FAILED"} :
          PF!WriteFails(pf, p, r) /\ rc' = r
  /\ UNCHANGED node

(* The caller opens the PageFile first.  The process may end at any time. *)
OpenIndex(f) == PF!Open(pf, f, TRUE) /\ UNCHANGED <<node, rc>>

Restart == /\ PF!Restart
           /\ node' = [n \in Nodes |-> EmptyNode]
           /\ rc' = "OK"

Next ==
  \/ \E n \in Nodes : Construct(n) \/ InsertRefused(n)
  \/ \E n \in Nodes, p \in Children, e \in Pairs : InitializeRoot(n, p, e)
  \/ \E n \in Nodes, e \in Pairs : Insert(n, e)
  \/ \E n, m \in Nodes, e \in Pairs : InsertAndSplit(n, e, m)
  \/ \E n, m \in Nodes : InsertAndSplitRefused(n, m)
  \/ \E n \in Nodes, p \in PF!Pids : Read(n, p) \/ Write(n, p)
  \/ \E f \in IndexFiles : OpenIndex(f)
  \/ Restart

Spec == Init /\ [][Next]_vars

-----------------------------------------------------------------------------
(* Properties *)

Rcs == {"OK", "RC_NODE_FULL", "RC_INVALID_FILE_MODE", "RC_INVALID_FILE_FORMAT",
        "RC_INVALID_PID", "RC_FILE_SEEK_FAILED", "RC_FILE_READ_FAILED",
        "RC_FILE_WRITE_FAILED"}

TypeOK == /\ page \in [IndexFiles -> [PF!Pids -> Inner]]
          /\ size \in [IndexFiles -> PF!Absent .. MaxPid + 1]
          /\ opened \in [{pf} -> IndexFiles \cup {NoFile}]
          /\ node \in [Nodes -> Inner]
          /\ rc \in Rcs

(* The pairs in use come first, in key order, and the rest reads as -1:    *)
(* what the scans rely on, in memory and in every page that can be read    *)
(* back.                                                                   *)
InOrder(b) == /\ \A i, j \in 0 .. KeyCount(b) - 1 : i < j => b.slot[i].key <= b.slot[j].key
              /\ \A i \in Slots : i >= KeyCount(b) => b.slot[i] = Blank

NodesInOrder == /\ \A n \in Nodes : InOrder(node[n])
                /\ \A f \in IndexFiles : \A p \in 0 .. size[f] - 1 : InOrder(page[f][p])

(* insert() after the split of a child: searches from the new key up to    *)
(* the next one lead to the new child, all others where they led before.   *)
InsertRoutes ==
  \A n \in Nodes, e \in Pairs, k \in Keys :
    KeyCount(node[n]) < MAX_KEY =>
      ChildPtr(Inserted(node[n], e), k) =
        IF e.key <= k /\ \A i \in 0 .. KeyCount(node[n]) - 1 :
                           ~(e.key < node[n].slot[i].key /\ node[n].slot[i].key <= k)
        THEN e.pid ELSE ChildPtr(node[n], k)

(* insertAndSplit() changes no search: with midKey in the parent between   *)
(* node and sibling, every search key leads to the child it would lead to  *)
(* in one node with room for the pair.                                     *)
ChildAmong(b, all, k) ==
  LET at == Least({i \in 0 .. MAX_KEY : k < all[i].key} \cup {MAX_KEY + 1})
  IN IF at = 0 THEN b.first ELSE all[at - 1].pid
SplitRoutes ==
  \A n, m \in Nodes, e \in Pairs, k \in Keys :
    KeyCount(node[n]) = MAX_KEY /\ KeyCount(node[m]) = 0 =>
      LET s == Split(node[n], e, node[m])
      IN IF k < s.midKey
         THEN ChildPtr(s.node, k) = ChildAmong(node[n], WithPair(node[n], e), k)
         ELSE ChildPtr(s.sibling, k) = ChildAmong(node[n], WithPair(node[n], e), k)
=============================================================================
