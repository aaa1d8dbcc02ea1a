-------------------------- MODULE BTLeafNodeProofs ---------------------------
(***************************************************************************)
(* Proofs about BTLeafNode, for leaves of any odd capacity, any keys and   *)
(* any record ids: the order every scan relies on, in memory and on every  *)
(* page; that insert() and insertAndSplit() add the entry and lose none;   *)
(* and what locate() can be relied on for.                                 *)
(***************************************************************************)
EXTENDS BTLeafNode, SequenceTheorems, FiniteSetTheorems, WellFoundedInduction, TLAPS

(* A set of naturals that is not empty has a least element. *)
LEMMA LeastElementExists ==
  ASSUME NEW S \in SUBSET Nat, S # {}
  PROVE  \E i \in S : \A j \in S : i <= j
<1> DEFINE R == {ss \in Nat \X Nat : ss[1] < ss[2]}
<1>1. IsWellFoundedOn(R, Nat)
  BY NatLessThanWellFounded DEF OpToRel
<1>2. PICK i \in S : \A j \in S : <<j, i>> \notin R
  <2> HIDE DEF R
  <2> QED BY <1>1, WFMin
<1>3. \A j \in S : ~(j < i)
  BY <1>2
<1> QED BY <1>3

-----------------------------------------------------------------------------
(* The scans *)

LEMMA LeastIs ==
  ASSUME NEW S \in SUBSET Nat, NEW x \in S, \A j \in S : x <= j
  PROVE  Least(S) = x
<1>1. \A y \in S : (\A j \in S : y <= j) => y = x
  OBVIOUS
<1> QED BY <1>1 DEF Least

LEMMA LeastProp ==
  ASSUME NEW S \in SUBSET Nat, S # {}
  PROVE  /\ Least(S) \in S
         /\ \A j \in S : Least(S) <= j
         /\ \A j \in Nat : j < Least(S) => j \notin S
<1>1. Least(S) \in S /\ \A j \in S : Least(S) <= j
  BY LeastElementExists DEF Least
<1>2. Least(S) \in Nat
  BY <1>1
<1>3. ASSUME NEW j \in Nat, j < Least(S), j \in S PROVE FALSE
  BY <1>1, <1>2, <1>3
<1> QED BY <1>1, <1>2, <1>3

(* A slot holds an entry or nothing, and the record id tells which. *)
LEMMA SlotType ==
  ASSUME NEW b \in Leaves, NEW i \in Slots
  PROVE  /\ b.slot[i] \in Entries \cup {Blank}
         /\ b.slot[i].key \in Int
         /\ b.slot[i].rid # NoRid <=> b.slot[i] \in Entries
         /\ b.slot[i].rid = NoRid <=> b.slot[i] = Blank
<1>1. b.slot[i] \in Entries \cup {Blank}
  BY DEF Leaves
<1>2. CASE b.slot[i] \in Entries
  <2>1. b.slot[i].key \in Int /\ b.slot[i].rid # NoRid
    BY <1>2, LeafAssumption DEF Entries
  <2>2. Blank.rid = NoRid
    BY DEF Blank
  <2> QED BY <2>1, <2>2, <1>2
<1>3. CASE b.slot[i] = Blank
  BY <1>3, LeafAssumption DEF Blank, Entries
<1> QED BY <1>1, <1>2, <1>3

(* getKeyCount() stops at the first slot without a record id ... *)
LEMMA KeyCountProp ==
  ASSUME NEW b \in Leaves
  PROVE  /\ KeyCount(b) \in 0 .. MAX_KEY
         /\ \A i \in Slots : i < KeyCount(b) => b.slot[i].rid # NoRid
         /\ KeyCount(b) < MAX_KEY => b.slot[KeyCount(b)].rid = NoRid
<1> DEFINE S == {i \in Slots : b.slot[i].rid = NoRid} \cup {MAX_KEY}
<1>1. S \in SUBSET Nat /\ S # {} /\ MAX_KEY \in S /\ MAX_KEY \in Nat
  BY LeafAssumption DEF Slots
<1>2. /\ Least(S) \in S /\ Least(S) \in Nat
      /\ \A j \in S : Least(S) <= j
      /\ \A j \in Nat : j < Least(S) => j \notin S
  BY <1>1, LeastProp
<1>3. KeyCount(b) = Least(S)
  BY DEF KeyCount
<1> HIDE DEF S
<1>4. \A i \in Slots : i < Least(S) => i \notin S
  BY <1>1, <1>2 DEF Slots
<1> QED BY <1>1, <1>2, <1>3, <1>4 DEF S, Slots

(* ... and nothing else does. *)
LEMMA KeyCountIs ==
  ASSUME NEW b \in Leaves, NEW c \in 0 .. MAX_KEY,
         \A i \in Slots : i < c => b.slot[i].rid # NoRid,
         c < MAX_KEY => b.slot[c].rid = NoRid
  PROVE  KeyCount(b) = c
<1> DEFINE S == {i \in Slots : b.slot[i].rid = NoRid} \cup {MAX_KEY}
<1>1. S \in SUBSET Nat
  BY LeafAssumption DEF Slots
<1>2. c \in S
  BY LeafAssumption DEF Slots
<1>3. \A j \in S : c <= j
  BY LeafAssumption DEF Slots
<1>4. Least(S) = c
  <2> HIDE DEF S
  <2> QED BY <1>1, <1>2, <1>3, LeastIs
<1> QED BY <1>4 DEF KeyCount

(* The scan of insert() passes the entries in use whose key is not larger  *)
(* ...                                                                     *)
LEMMA InsertPointProp ==
  ASSUME NEW b \in Leaves, NEW k \in Int
  PROVE  /\ InsertPoint(b, k) \in 0 .. KeyCount(b)
         /\ \A i \in Slots : i < InsertPoint(b, k) => b.slot[i].key <= k
         /\ InsertPoint(b, k) < KeyCount(b) => k < b.slot[InsertPoint(b, k)].key
<1> DEFINE S == {i \in Slots : k < b.slot[i].key \/ b.slot[i].rid = NoRid} \cup {MAX_KEY}
<1>1. S \in SUBSET Nat /\ S # {} /\ MAX_KEY \in S /\ MAX_KEY \in Nat
  BY LeafAssumption DEF Slots
<1>2. /\ Least(S) \in S /\ Least(S) \in Nat
      /\ \A j \in S : Least(S) <= j
      /\ \A j \in Nat : j < Least(S) => j \notin S
  BY <1>1, LeastProp
<1>3. InsertPoint(b, k) = Least(S)
  BY DEF InsertPoint
<1>4. KeyCount(b) \in S /\ KeyCount(b) \in 0 .. MAX_KEY
  BY KeyCountProp, <1>1 DEF Slots
<1> HIDE DEF S
<1>5. Least(S) \in 0 .. KeyCount(b)
  BY <1>1, <1>2, <1>4
<1>6. ASSUME NEW i \in Slots, i < Least(S) PROVE b.slot[i].key <= k
  <2>1. i \notin S
    BY <1>1, <1>2, <1>6 DEF Slots
  <2> QED BY <2>1, SlotType DEF S
<1>7. ASSUME Least(S) < KeyCount(b) PROVE k < b.slot[Least(S)].key
  <2>1. Least(S) \in Slots
    BY <1>1, <1>4, <1>5, <1>7 DEF Slots
  <2>2. b.slot[Least(S)].rid # NoRid
    BY <2>1, <1>7, KeyCountProp
  <2> QED BY <2>1, <2>2, <1>1, <1>2, <1>4, <1>7 DEF S
<1> QED BY <1>3, <1>5, <1>6, <1>7

(* ... and nothing else. *)
LEMMA InsertPointIs ==
  ASSUME NEW b \in Leaves, NEW k \in Int, NEW c \in 0 .. MAX_KEY,
         \A i \in Slots : i < c => b.slot[i].rid # NoRid /\ b.slot[i].key <= k,
         c < MAX_KEY => k < b.slot[c].key \/ b.slot[c].rid = NoRid
  PROVE  InsertPoint(b, k) = c
<1> DEFINE S == {i \in Slots : k < b.slot[i].key \/ b.slot[i].rid = NoRid} \cup {MAX_KEY}
<1>1. S \in SUBSET Nat
  BY LeafAssumption DEF Slots
<1>2. c \in S
  BY LeafAssumption DEF Slots
<1>3. ASSUME NEW j \in S PROVE c <= j
  BY SlotType, LeafAssumption DEF Slots
<1>4. Least(S) = c
  <2> HIDE DEF S
  <2> QED BY <1>1, <1>2, <1>3, LeastIs
<1> QED BY <1>4 DEF InsertPoint

-----------------------------------------------------------------------------
(* insert(), insertAndSplit() move the entries behind the new one up *)

(* InOrder, slot by slot *)
LEMMA InOrderSlots ==
  ASSUME NEW b \in Leaves
  PROVE  InOrder(b) <=>
           /\ \A i, j \in 0 .. KeyCount(b) - 1 : i < j => b.slot[i].key <= b.slot[j].key
           /\ \A i \in Slots : i >= KeyCount(b) => b.slot[i] = Blank
<1> DEFINE n == KeyCount(b)
           s == EntriesOf(b)
<1>1. n \in Nat
  BY KeyCountProp
<1>2. s = [i \in 1 .. n |-> b.slot[i - 1]]
  BY DEF EntriesOf
<1> HIDE DEF n, s
<1>3. Len(s) = n
  BY <1>1, <1>2
<1>4. ASSUME Sorted(s), NEW i \in 0 .. n - 1, NEW j \in 0 .. n - 1, i < j
      PROVE  b.slot[i].key <= b.slot[j].key
  <2>1. i + 1 \in 1 .. Len(s) /\ j + 1 \in 1 .. Len(s) /\ i + 1 < j + 1
    BY <1>1, <1>3, <1>4
  <2>2. s[i + 1].key <= s[j + 1].key
    BY <2>1, <1>4 DEF Sorted
  <2>3. s[i + 1] = b.slot[i] /\ s[j + 1] = b.slot[j]
    BY <1>1, <1>2, <2>1, <1>3
  <2> QED BY <2>2, <2>3
<1>5. ASSUME \A i, j \in 0 .. n - 1 : i < j => b.slot[i].key <= b.slot[j].key
      PROVE  Sorted(s)
  <2> SUFFICES ASSUME NEW i \in 1 .. n, NEW j \in 1 .. n, i < j
               PROVE  s[i].key <= s[j].key
    BY <1>3 DEF Sorted
  <2>1. i - 1 \in 0 .. n - 1 /\ j - 1 \in 0 .. n - 1 /\ i - 1 < j - 1
    BY <1>1
  <2>2. b.slot[i - 1].key <= b.slot[j - 1].key
    BY <2>1, <1>5
  <2>3. s[i] = b.slot[i - 1] /\ s[j] = b.slot[j - 1]
    BY <1>2
  <2> QED BY <2>2, <2>3
<1> QED BY <1>4, <1>5 DEF InOrder, n, s

(* What WithEntry holds, slot by slot, for a node in order *)
LEMMA WithEntryProp ==
  ASSUME NEW b \in Leaves, InOrder(b), NEW e \in Entries
  PROVE  LET all == WithEntry(b, e)
             at  == InsertPoint(b, e.key)
             n   == KeyCount(b)
         IN /\ at \in 0 .. n /\ n \in 0 .. MAX_KEY
            /\ \A i \in 0 .. at - 1 : all[i] = b.slot[i]
            /\ all[at] = e
            /\ \A i \in at + 1 .. n : all[i] = b.slot[i - 1]
            /\ \A i \in n + 1 .. MAX_KEY : all[i] = Blank
<1> DEFINE all == WithEntry(b, e)
           at  == InsertPoint(b, e.key)
           n   == KeyCount(b)
<1>0. e.key \in Int /\ MAX_KEY \in Nat
  BY LeafAssumption DEF Entries
<1>1. at \in 0 .. n /\ n \in 0 .. MAX_KEY
  BY <1>0, InsertPointProp, KeyCountProp
<1>2. all = [i \in 0 .. MAX_KEY |-> IF i = at THEN e
                                   ELSE IF at < i /\ i <= n THEN b.slot[i - 1]
                                   ELSE IF i \in Slots THEN b.slot[i] ELSE Blank]
  BY DEF WithEntry
<1>3. \A i \in Slots : i >= n => b.slot[i] = Blank
  BY DEF InOrder
<1> HIDE DEF all, at, n
<1>4. \A i \in 0 .. at - 1 : all[i] = b.slot[i]
  BY <1>0, <1>1, <1>2 DEF Slots
<1>5. all[at] = e
  BY <1>0, <1>1, <1>2
<1>6. \A i \in at + 1 .. n : all[i] = b.slot[i - 1]
  BY <1>0, <1>1, <1>2
<1>7. \A i \in n + 1 .. MAX_KEY : all[i] = Blank
  BY <1>0, <1>1, <1>2, <1>3 DEF Slots
<1> QED BY <1>1, <1>4, <1>5, <1>6, <1>7 DEF all, at, n

(* They are the leaf's entries and the new one, in order, nothing behind. *)
LEMMA WithEntryOrder ==
  ASSUME NEW b \in Leaves, InOrder(b), NEW e \in Entries
  PROVE  /\ \A i \in 0 .. KeyCount(b) : WithEntry(b, e)[i] \in Entries
         /\ \A i \in KeyCount(b) + 1 .. MAX_KEY : WithEntry(b, e)[i] = Blank
         /\ \A i, j \in 0 .. KeyCount(b) :
              i < j => WithEntry(b, e)[i].key <= WithEntry(b, e)[j].key
<1> DEFINE all == WithEntry(b, e)
           at  == InsertPoint(b, e.key)
           n   == KeyCount(b)
<1>0. e.key \in Int /\ MAX_KEY \in Nat
  BY LeafAssumption DEF Entries
<1>1. /\ at \in 0 .. n /\ n \in 0 .. MAX_KEY
      /\ \A i \in 0 .. at - 1 : all[i] = b.slot[i]
      /\ all[at] = e
      /\ \A i \in at + 1 .. n : all[i] = b.slot[i - 1]
      /\ \A i \in n + 1 .. MAX_KEY : all[i] = Blank
  BY WithEntryProp
<1>2. \A i \in 0 .. n - 1 : i \in Slots /\ b.slot[i] \in Entries /\ b.slot[i].key \in Int
  BY <1>0, <1>1, KeyCountProp, SlotType DEF Slots
<1>3. \A i, j \in 0 .. n - 1 : i < j => b.slot[i].key <= b.slot[j].key
  BY InOrderSlots
<1>4. \A i \in 0 .. at - 1 : b.slot[i].key <= e.key
  BY <1>0, <1>1, <1>2, InsertPointProp
<1>5. \A i \in at .. n - 1 : e.key <= b.slot[i].key
  <2> SUFFICES ASSUME NEW i \in at .. n - 1 PROVE e.key <= b.slot[i].key
    OBVIOUS
  <2>1. at < n /\ at \in 0 .. n - 1 /\ i \in 0 .. n - 1 /\ at <= i
    BY <1>1
  <2>2. e.key < b.slot[at].key
    BY <1>0, <2>1, InsertPointProp
  <2>3. b.slot[at].key <= b.slot[i].key
    <3>1. CASE at = i
      BY <3>1, <2>1, <1>2
    <3>2. CASE at < i
      BY <3>2, <2>1, <1>3
    <3> QED BY <3>1, <3>2, <2>1
  <2> QED BY <2>1, <2>2, <2>3, <1>0, <1>2
<1> HIDE DEF all, at, n
<1>6. \A i \in 0 .. n : all[i] \in Entries
  BY <1>1, <1>2
<1>7. ASSUME NEW i \in 0 .. n, NEW j \in 0 .. n, i < j
      PROVE  all[i].key <= all[j].key
  <2>1. CASE j < at
    BY <2>1, <1>1, <1>3, <1>7
  <2>2. CASE j = at
    BY <2>2, <1>1, <1>4, <1>7
  <2>3. CASE i < at /\ at < j
    <3>1. all[i] = b.slot[i] /\ all[j] = b.slot[j - 1]
      BY <2>3, <1>1
    <3>2. b.slot[i].key <= e.key /\ e.key <= b.slot[j - 1].key
      BY <2>3, <1>1, <1>4, <1>5
    <3>3. b.slot[i].key \in Int /\ b.slot[j - 1].key \in Int
      BY <2>3, <1>1, <1>2
    <3> QED BY <3>1, <3>2, <3>3, <1>0
  <2>4. CASE i = at
    BY <2>4, <1>1, <1>5, <1>7
  <2>5. CASE at < i
    <3>1. all[i] = b.slot[i - 1] /\ all[j] = b.slot[j - 1]
      BY <2>5, <1>1, <1>7
    <3> QED BY <3>1, <2>5, <1>1, <1>3, <1>7
  <2> QED BY <2>1, <2>2, <2>3, <2>4, <2>5, <1>1
<1> QED BY <1>1, <1>6, <1>7 DEF all, n

(* ... and as sequences: the leaf's entries with e somewhere in between. *)
LEMMA WithEntrySplices ==
  ASSUME NEW b \in Leaves, InOrder(b), NEW e \in Entries
  PROVE  Spliced(EntriesOf(b), e, [i \in 1 .. KeyCount(b) + 1 |-> WithEntry(b, e)[i - 1]])
<1> DEFINE all == WithEntry(b, e)
           at  == InsertPoint(b, e.key)
           n   == KeyCount(b)
           s   == EntriesOf(b)
           t   == [i \in 1 .. n + 1 |-> all[i - 1]]
           l   == SubSeq(s, 1, at)
           r   == SubSeq(s, at + 1, n)
           v   == l \o <<e>>
           u   == v \o r
<1>1. /\ at \in 0 .. n /\ n \in Nat
      /\ \A i \in 0 .. at - 1 : all[i] = b.slot[i]
      /\ all[at] = e
      /\ \A i \in at + 1 .. n : all[i] = b.slot[i - 1]
  BY WithEntryProp, KeyCountProp
<1>2. s = [i \in 1 .. n |-> b.slot[i - 1]]
  BY DEF EntriesOf
<1>3. \A i \in 1 .. n : b.slot[i - 1] \in Entries
  BY <1>1, KeyCountProp, SlotType, LeafAssumption DEF Slots
<1>4. \A i \in 0 .. n : all[i] \in Entries
  BY WithEntryOrder
<1> HIDE DEF all, at, n, s
<1>5. s \in Seq(Entries) /\ Len(s) = n
  BY <1>1, <1>2, <1>3
<1>6. t \in Seq(Entries) /\ Len(t) = n + 1
  <2>1. \A i \in 1 .. n + 1 : all[i - 1] \in Entries
    BY <1>1, <1>4
  <2> QED BY <1>1, <2>1
<1>7. /\ l \in Seq(Entries) /\ Len(l) = at
      /\ \A i \in 1 .. at : l[i] = s[i]
  BY <1>1, <1>5, SubSeqProperties
<1>8. /\ r \in Seq(Entries) /\ Len(r) = n - at
      /\ \A i \in 1 .. n - at : r[i] = s[at + i]
  BY <1>1, <1>5, SubSeqProperties
<1>9. <<e>> \in Seq(Entries) /\ Len(<<e>>) = 1 /\ <<e>>[1] = e
  OBVIOUS
<1> HIDE DEF l, r
<1>10. /\ v \in Seq(Entries) /\ Len(v) = at + 1
       /\ \A i \in 1 .. at : v[i] = l[i]
       /\ v[at + 1] = e
  BY <1>1, <1>7, <1>9, ConcatProperties
<1> HIDE DEF v
<1>11. /\ u \in Seq(Entries) /\ Len(u) = n + 1
       /\ \A i \in 1 .. at + 1 : u[i] = v[i]
       /\ \A i \in at + 2 .. n + 1 : u[i] = r[i - at - 1]
  BY <1>1, <1>8, <1>10, ConcatProperties
<1> HIDE DEF u
<1>12. ASSUME NEW i \in 1 .. n + 1 PROVE u[i] = t[i]
  <2>1. t[i] = all[i - 1]
    OBVIOUS
  <2> HIDE DEF t
  <2>2. CASE i <= at
    <3>1. i \in 1 .. at /\ i \in 1 .. n /\ i - 1 \in 0 .. at - 1 /\ i \in 1 .. at + 1
      BY <1>1, <2>2
    <3>2. u[i] = s[i]
      BY <3>1, <1>7, <1>10, <1>11
    <3>3. s[i] = b.slot[i - 1] /\ all[i - 1] = b.slot[i - 1]
      BY <3>1, <1>1, <1>2
    <3> QED BY <3>2, <3>3, <2>1
  <2>3. CASE i = at + 1
    <3>1. u[i] = e
      BY <2>3, <1>1, <1>10, <1>11
    <3>2. i - 1 = at
      BY <2>3, <1>1
    <3> QED BY <3>1, <3>2, <2>1, <1>1
  <2>4. CASE at + 1 < i
    <3>1. /\ i \in at + 2 .. n + 1 /\ i - at - 1 \in 1 .. n - at
          /\ at + (i - at - 1) = i - 1 /\ i - 1 \in 1 .. n /\ i - 1 \in at + 1 .. n
      BY <1>1, <2>4
    <3>2. u[i] = r[i - at - 1]
      BY <3>1, <1>11
    <3>3. r[i - at - 1] = s[i - 1]
      BY <3>1, <1>8
    <3>4. s[i - 1] = b.slot[i - 1 - 1]
      BY <3>1, <1>2
    <3>5. all[i - 1] = b.slot[i - 1 - 1]
      BY <3>1, <1>1
    <3> QED BY <3>2, <3>3, <3>4, <3>5, <2>1
  <2> QED BY <2>2, <2>3, <2>4, <1>1
<1>13. u = t
  <2> HIDE DEF t
  <2> QED BY <1>6, <1>11, <1>12, SeqEqual
<1>14. /\ at \in 0 .. Len(s)
       /\ t = SubSeq(s, 1, at) \o <<e>> \o SubSeq(s, at + 1, Len(s))
  BY <1>1, <1>5, <1>13 DEF u, v, l, r
<1> QED BY <1>14 DEF Spliced, all, n, s

(* insert() on a leaf with room keeps the order and adds one entry. *)
LEMMA InsertedOrder ==
  ASSUME NEW b \in Leaves, InOrder(b), NEW e \in Entries, KeyCount(b) < MAX_KEY
  PROVE  /\ Inserted(b, e) \in Leaves
         /\ KeyCount(Inserted(b, e)) = KeyCount(b) + 1
         /\ InOrder(Inserted(b, e))
         /\ Inserted(b, e).next = b.next
         /\ Spliced(EntriesOf(b), e, EntriesOf(Inserted(b, e)))
<1> DEFINE all == WithEntry(b, e)
           c   == Inserted(b, e)
           n   == KeyCount(b)
<1>1. /\ \A i \in 0 .. n : all[i] \in Entries
      /\ \A i \in n + 1 .. MAX_KEY : all[i] = Blank
      /\ \A i, j \in 0 .. n : i < j => all[i].key <= all[j].key
  BY WithEntryOrder
<1>2. n \in Nat /\ n < MAX_KEY /\ MAX_KEY \in Nat
  BY KeyCountProp, LeafAssumption
<1>3. /\ c.slot = [i \in Slots |-> all[i]]
      /\ c.next = b.next
  BY DEF Inserted, Leaves
<1>4. c \in Leaves
  <2>1. \A i \in Slots : all[i] \in Entries \cup {Blank}
    BY <1>1, <1>2 DEF Slots
  <2>2. c = [slot |-> [i \in Slots |-> all[i]], next |-> b.next]
    BY DEF Inserted, Leaves
  <2> QED BY <2>1, <2>2 DEF Leaves
<1> HIDE DEF all, c
<1>5. \A i \in Slots : /\ i < n + 1 => c.slot[i] \in Entries
                       /\ i >= n + 1 => c.slot[i] = Blank
  <2> HIDE DEF n
  <2> QED BY <1>1, <1>2, <1>3 DEF Slots
<1>6. KeyCount(c) = n + 1
  <2>1. n + 1 \in 0 .. MAX_KEY
    BY <1>2
  <2>2. \A i \in Slots : i < n + 1 => c.slot[i].rid # NoRid
    BY <1>4, <1>5, SlotType
  <2>3. n + 1 < MAX_KEY => c.slot[n + 1].rid = NoRid
    BY <1>2, <1>5, LeafAssumption DEF Slots, Blank
  <2> HIDE DEF n
  <2> QED BY <1>4, <2>1, <2>2, <2>3, KeyCountIs
<1>7. \A i \in 0 .. n : c.slot[i] = all[i]
  <2> HIDE DEF n
  <2> QED BY <1>2, <1>3 DEF Slots
<1>8. InOrder(c)
  <2> HIDE DEF n
  <2>1. \A i, j \in 0 .. n : i < j => c.slot[i].key <= c.slot[j].key
    BY <1>1, <1>7
  <2>2. KeyCount(c) - 1 = n
    BY <1>2, <1>6
  <2> QED BY <1>4, <1>5, <1>6, <2>1, <2>2, InOrderSlots
<1>9. EntriesOf(c) = [i \in 1 .. n + 1 |-> all[i - 1]]
  <2> HIDE DEF n
  <2>1. \A i \in 1 .. n + 1 : c.slot[i - 1] = all[i - 1]
    BY <1>2, <1>7
  <2> QED BY <1>6, <2>1 DEF EntriesOf
<1>10. Spliced(EntriesOf(b), e, EntriesOf(c))
  BY <1>9, WithEntrySplices DEF all, n
<1> QED BY <1>3, <1>4, <1>6, <1>8, <1>10 DEF c, n

-----------------------------------------------------------------------------
(* insertAndSplit() *)

LEMMA HalfProp == /\ MAX_KEY \in Nat /\ MAX_KEY > 0
                  /\ Half \in Nat /\ 0 < Half /\ Half <= MAX_KEY
                  /\ Half + Half = MAX_KEY + 1
BY LeafAssumption DEF Half

(* What a full leaf splits into: the first half of the entries stays, the  *)
(* second goes to the sibling, and nothing follows either.                 *)
LEMMA SplitProp ==
  ASSUME NEW b \in Leaves, InOrder(b), KeyCount(b) = MAX_KEY, NEW e \in Entries,
         NEW m \in Leaves, InOrder(m), KeyCount(m) = 0
  PROVE  LET all == WithEntry(b, e)
             s   == Split(b, e, m)
         IN /\ \A i \in 0 .. MAX_KEY : all[i] \in Entries
            /\ \A i, j \in 0 .. MAX_KEY : i < j => all[i].key <= all[j].key
            /\ \A i \in 0 .. Half - 1 : s.node.slot[i] = all[i]
            /\ \A i \in Slots : i >= Half => s.node.slot[i] = Blank
            /\ \A i \in 0 .. Half - 1 : s.sibling.slot[i] = all[Half + i]
            /\ \A i \in Slots : i >= Half => s.sibling.slot[i] = Blank
            /\ s.siblingKey = all[Half].key
            /\ s.sibling.next = b.next
            /\ s.node \in Leaves /\ s.sibling \in Leaves
<1> DEFINE all == WithEntry(b, e)
           s   == Split(b, e, m)
           nd  == s.node
           sb  == s.sibling
<1>1. /\ \A i \in 0 .. MAX_KEY : all[i] \in Entries
      /\ \A i, j \in 0 .. MAX_KEY : i < j => all[i].key <= all[j].key
  BY WithEntryOrder
<1>2. \A i \in Slots : m.slot[i] = Blank
  BY LeafAssumption DEF InOrder, Slots
<1>3. /\ s.siblingKey = all[Half].key
      /\ nd = [slot |-> [i \in Slots |-> IF i < Half THEN all[i] ELSE Blank], next |-> -1]
      /\ sb = [slot |-> [i \in Slots |-> IF i < Half THEN all[Half + i] ELSE Blank],
               next |-> b.next]
  BY <1>2 DEF Split
<1> HIDE DEF all, s, nd, sb
<1>4. /\ \A i \in 0 .. Half - 1 : nd.slot[i] = all[i]
      /\ \A i \in Slots : i >= Half => nd.slot[i] = Blank
  BY <1>3, HalfProp DEF Slots
<1>5. /\ \A i \in 0 .. Half - 1 : sb.slot[i] = all[Half + i]
      /\ \A i \in Slots : i >= Half => sb.slot[i] = Blank
      /\ sb.next = b.next
  BY <1>3, HalfProp DEF Slots
<1>6. nd \in Leaves
  <2>1. \A i \in Slots : (IF i < Half THEN all[i] ELSE Blank) \in Entries \cup {Blank}
    BY <1>1, HalfProp DEF Slots
  <2> QED BY <1>3, <2>1 DEF Leaves
<1>7. sb \in Leaves
  <2>1. \A i \in Slots : (IF i < Half THEN all[Half + i] ELSE Blank)
                           \in Entries \cup {Blank}
    <3> SUFFICES ASSUME NEW i \in Slots, i < Half
                 PROVE  all[Half + i] \in Entries
      OBVIOUS
    <3>1. Half + i \in 0 .. MAX_KEY
      BY HalfProp DEF Slots
    <3> QED BY <3>1, <1>1
  <2>2. b.next \in Pids \cup {-1}
    BY DEF Leaves
  <2> QED BY <1>3, <2>1, <2>2 DEF Leaves
<1> QED BY <1>1, <1>3, <1>4, <1>5, <1>6, <1>7 DEF all, s, nd, sb

(* Both halves are in order, and equally long. *)
LEMMA SplitOrder ==
  ASSUME NEW b \in Leaves, InOrder(b), KeyCount(b) = MAX_KEY, NEW e \in Entries,
         NEW m \in Leaves, InOrder(m), KeyCount(m) = 0
  PROVE  /\ KeyCount(Split(b, e, m).node) = Half
         /\ KeyCount(Split(b, e, m).sibling) = Half
         /\ InOrder(Split(b, e, m).node) /\ InOrder(Split(b, e, m).sibling)
<1> DEFINE all == WithEntry(b, e)
           nd  == Split(b, e, m).node
           sb  == Split(b, e, m).sibling
<1>1. /\ \A i \in 0 .. MAX_KEY : all[i] \in Entries
      /\ \A i, j \in 0 .. MAX_KEY : i < j => all[i].key <= all[j].key
      /\ \A i \in 0 .. Half - 1 : nd.slot[i] = all[i]
      /\ \A i \in Slots : i >= Half => nd.slot[i] = Blank
      /\ \A i \in 0 .. Half - 1 : sb.slot[i] = all[Half + i]
      /\ \A i \in Slots : i >= Half => sb.slot[i] = Blank
      /\ nd \in Leaves /\ sb \in Leaves
  BY SplitProp
<1> HIDE DEF all, nd, sb
<1>2. Half \in 0 .. MAX_KEY
  BY HalfProp
<1>3. KeyCount(nd) = Half
  <2>1. ASSUME NEW i \in Slots, i < Half PROVE nd.slot[i].rid # NoRid
    <3>1. i \in 0 .. Half - 1 /\ i \in 0 .. MAX_KEY
      BY <2>1, HalfProp DEF Slots
    <3>2. nd.slot[i] \in Entries
      BY <3>1, <1>1
    <3> QED BY <3>2, <1>1, SlotType
  <2>2. Half < MAX_KEY => nd.slot[Half].rid = NoRid
    BY <1>1, HalfProp DEF Slots, Blank
  <2> QED BY <1>1, <1>2, <2>1, <2>2, KeyCountIs
<1>4. KeyCount(sb) = Half
  <2>1. ASSUME NEW i \in Slots, i < Half PROVE sb.slot[i].rid # NoRid
    <3>1. i \in 0 .. Half - 1 /\ Half + i \in 0 .. MAX_KEY
      BY <2>1, HalfProp DEF Slots
    <3>2. sb.slot[i] \in Entries
      BY <3>1, <1>1
    <3> QED BY <3>2, <1>1, SlotType
  <2>2. Half < MAX_KEY => sb.slot[Half].rid = NoRid
    BY <1>1, HalfProp DEF Slots, Blank
  <2> QED BY <1>1, <1>2, <2>1, <2>2, KeyCountIs
<1>5. InOrder(nd)
  <2>1. ASSUME NEW i \in 0 .. Half - 1, NEW j \in 0 .. Half - 1, i < j
        PROVE  nd.slot[i].key <= nd.slot[j].key
    <3>1. i \in 0 .. MAX_KEY /\ j \in 0 .. MAX_KEY
      BY HalfProp
    <3> QED BY <3>1, <2>1, <1>1
  <2> QED BY <2>1, <1>1, <1>3, InOrderSlots
<1>6. InOrder(sb)
  <2>1. ASSUME NEW i \in 0 .. Half - 1, NEW j \in 0 .. Half - 1, i < j
        PROVE  sb.slot[i].key <= sb.slot[j].key
    <3>1. /\ Half + i \in 0 .. MAX_KEY /\ Half + j \in 0 .. MAX_KEY
          /\ Half + i < Half + j
      BY <2>1, HalfProp
    <3>2. all[Half + i].key <= all[Half + j].key
      BY <3>1, <1>1
    <3> QED BY <3>2, <1>1
  <2> QED BY <2>1, <1>1, <1>4, InOrderSlots
<1> QED BY <1>3, <1>4, <1>5, <1>6 DEF nd, sb

(* One behind the other, they are the full leaf's entries and the new one. *)
LEMMA SplitJoins ==
  ASSUME NEW b \in Leaves, InOrder(b), KeyCount(b) = MAX_KEY, NEW e \in Entries,
         NEW m \in Leaves, InOrder(m), KeyCount(m) = 0
  PROVE  EntriesOf(Split(b, e, m).node) \o EntriesOf(Split(b, e, m).sibling)
           = [i \in 1 .. MAX_KEY + 1 |-> WithEntry(b, e)[i - 1]]
<1> DEFINE all == WithEntry(b, e)
           nd  == Split(b, e, m).node
           sb  == Split(b, e, m).sibling
           l   == EntriesOf(nd)
           r   == EntriesOf(sb)
           t   == [i \in 1 .. MAX_KEY + 1 |-> all[i - 1]]
           u   == l \o r
<1>1. /\ \A i \in 0 .. MAX_KEY : all[i] \in Entries
      /\ \A i \in 0 .. Half - 1 : nd.slot[i] = all[i]
      /\ \A i \in 0 .. Half - 1 : sb.slot[i] = all[Half + i]
  BY SplitProp
<1>2. KeyCount(nd) = Half /\ KeyCount(sb) = Half
  BY SplitOrder
<1> HIDE DEF all, nd, sb
<1>3. l = [i \in 1 .. Half |-> nd.slot[i - 1]] /\ r = [i \in 1 .. Half |-> sb.slot[i - 1]]
  BY <1>2 DEF EntriesOf
<1> HIDE DEF l, r
<1>4. \A i \in 1 .. Half : l[i] = all[i - 1] /\ r[i] = all[Half + i - 1]
  <2> SUFFICES ASSUME NEW i \in 1 .. Half PROVE l[i] = all[i - 1] /\ r[i] = all[Half + i - 1]
    OBVIOUS
  <2>1. i - 1 \in 0 .. Half - 1 /\ Half + (i - 1) = Half + i - 1
    BY HalfProp
  <2>2. nd.slot[i - 1] = all[i - 1] /\ sb.slot[i - 1] = all[Half + (i - 1)]
    BY <2>1, <1>1
  <2> QED BY <2>1, <2>2, <1>3
<1>5. \A i \in 1 .. Half : all[i - 1] \in Entries /\ all[Half + i - 1] \in Entries
  <2> SUFFICES ASSUME NEW i \in 1 .. Half
               PROVE  all[i - 1] \in Entries /\ all[Half + i - 1] \in Entries
    OBVIOUS
  <2>1. i - 1 \in 0 .. MAX_KEY /\ Half + i - 1 \in 0 .. MAX_KEY
    BY HalfProp
  <2> QED BY <2>1, <1>1
<1>6. l \in Seq(Entries) /\ Len(l) = Half
  <2>1. \A i \in 1 .. Half : nd.slot[i - 1] \in Entries
    BY <1>3, <1>4, <1>5
  <2> QED BY <1>3, <2>1, HalfProp
<1>7. r \in Seq(Entries) /\ Len(r) = Half
  <2>1. \A i \in 1 .. Half : sb.slot[i - 1] \in Entries
    BY <1>3, <1>4, <1>5
  <2> QED BY <1>3, <2>1, HalfProp
<1>8. t \in Seq(Entries) /\ Len(t) = MAX_KEY + 1
  <2>1. \A i \in 1 .. MAX_KEY + 1 : all[i - 1] \in Entries
    BY <1>1, HalfProp
  <2> QED BY <2>1, HalfProp
<1>9. /\ u \in Seq(Entries) /\ Len(u) = MAX_KEY + 1
      /\ \A i \in 1 .. Half : u[i] = l[i]
      /\ \A i \in Half + 1 .. MAX_KEY + 1 : u[i] = r[i - Half]
  BY <1>6, <1>7, HalfProp, ConcatProperties
<1> HIDE DEF u
<1>10. ASSUME NEW i \in 1 .. MAX_KEY + 1 PROVE u[i] = t[i]
  <2>1. t[i] = all[i - 1]
    OBVIOUS
  <2> HIDE DEF t
  <2>2. CASE i <= Half
    <3>1. i \in 1 .. Half
      BY <2>2, HalfProp
    <3> QED BY <3>1, <2>1, <1>4, <1>9
  <2>3. CASE i > Half
    <3>1. i \in Half + 1 .. MAX_KEY + 1 /\ i - Half \in 1 .. Half /\ Half + (i - Half) - 1 = i - 1
      BY <2>3, HalfProp
    <3>2. r[i - Half] = all[Half + (i - Half) - 1]
      BY <3>1, <1>4
    <3> QED BY <3>1, <3>2, <2>1, <1>9
  <2> QED BY <2>2, <2>3, HalfProp
<1>11. u = t
  <2> HIDE DEF t
  <2> QED BY <1>8, <1>9, <1>10, SeqEqual
<1> QED BY <1>11 DEF u, l, r, nd, sb, all

(* SplitHalves for one full leaf, one empty sibling and one new entry *)
LEMMA SplitHalvesOne ==
  ASSUME NEW b \in Leaves, InOrder(b), KeyCount(b) = MAX_KEY, NEW e \in Entries,
         NEW m \in Leaves, InOrder(m), KeyCount(m) = 0
  PROVE  LET s   == Split(b, e, m)
             all == EntriesOf(s.node) \o EntriesOf(s.sibling)
         IN /\ Spliced(EntriesOf(b), e, all)
            /\ Sorted(all)
            /\ KeyCount(s.node) = KeyCount(s.sibling)
            /\ s.siblingKey = s.sibling.slot[0].key
            /\ s.sibling.next = b.next
<1> DEFINE s == Split(b, e, m)
           a == WithEntry(b, e)
           t == [i \in 1 .. MAX_KEY + 1 |-> a[i - 1]]
<1>1. EntriesOf(s.node) \o EntriesOf(s.sibling) = t
  BY SplitJoins
<1>2. Spliced(EntriesOf(b), e, t)
  BY WithEntrySplices
<1>3. KeyCount(s.node) = KeyCount(s.sibling)
  BY SplitOrder
<1>4. /\ \A i, j \in 0 .. MAX_KEY : i < j => a[i].key <= a[j].key
      /\ \A i \in 0 .. Half - 1 : s.sibling.slot[i] = a[Half + i]
      /\ s.siblingKey = a[Half].key
      /\ s.sibling.next = b.next
  BY SplitProp
<1> HIDE DEF s, a
<1>5. s.siblingKey = s.sibling.slot[0].key
  <2>1. 0 \in 0 .. Half - 1 /\ Half + 0 = Half
    BY HalfProp
  <2>2. s.sibling.slot[0] = a[Half + 0]
    BY <2>1, <1>4
  <2> QED BY <2>1, <2>2, <1>4
<1>6. Sorted(t)
  <2>1. Len(t) = MAX_KEY + 1
    BY HalfProp
  <2>2. ASSUME NEW i \in 1 .. MAX_KEY + 1, NEW j \in 1 .. MAX_KEY + 1, i < j
        PROVE  t[i].key <= t[j].key
    <3>1. i - 1 \in 0 .. MAX_KEY /\ j - 1 \in 0 .. MAX_KEY /\ i - 1 < j - 1
      BY <2>2, HalfProp
    <3>2. a[i - 1].key <= a[j - 1].key
      BY <3>1, <1>4
    <3>3. t[i] = a[i - 1] /\ t[j] = a[j - 1]
      OBVIOUS
    <3> QED BY <3>2, <3>3
  <2> HIDE DEF t
  <2> QED BY <2>1, <2>2 DEF Sorted
<1> HIDE DEF t
<1> QED BY <1>1, <1>2, <1>3, <1>4, <1>5, <1>6 DEF s

-----------------------------------------------------------------------------
(* locate() *)

(* The slots locate() stops at; it passes the others. *)
StopsAt(b, k) == {j \in 0 .. MAX_KEY : (j > 0 /\ k = KeyAt(b, j)) \/ ~Advances(b, k, j)}

LEMMA LocateProp ==
  ASSUME NEW b \in Leaves, NEW k \in Int
  PROVE  LET i == Least(StopsAt(b, k))
         IN /\ i \in 0 .. MAX_KEY
            /\ \A j \in 0 .. i - 1 : Advances(b, k, j) /\ j \in Slots /\ b.slot[j].key < k
            /\ Locate(b, k) = IF i > 0 /\ k = KeyAt(b, i)
                              THEN [rc |-> "OK", eid |-> i]
                              ELSE [rc |-> "RC_NO_SUCH_RECORD", eid |-> IF i = 0 THEN 0 ELSE i - 1]
<1> DEFINE S == StopsAt(b, k)
           i == Least(S)
<1>1. MAX_KEY \in Nat /\ MAX_KEY \notin Slots
  BY LeafAssumption DEF Slots
<1>2. S \in SUBSET Nat /\ S # {} /\ S \subseteq 0 .. MAX_KEY
  BY <1>1 DEF StopsAt, Advances
<1>3. Locate(b, k) = IF i > 0 /\ k = KeyAt(b, i)
                     THEN [rc |-> "OK", eid |-> i]
                     ELSE [rc |-> "RC_NO_SUCH_RECORD", eid |-> IF i = 0 THEN 0 ELSE i - 1]
  BY DEF Locate, StopsAt
<1>4. \A j \in 0 .. MAX_KEY : j \notin S => Advances(b, k, j)
  BY DEF StopsAt
<1> HIDE DEF S
<1>5. i \in S /\ \A j \in Nat : j < i => j \notin S
  BY <1>2, LeastProp
<1>6. i \in 0 .. MAX_KEY
  BY <1>2, <1>5
<1>7. ASSUME NEW j \in 0 .. i - 1
      PROVE  Advances(b, k, j) /\ j \in Slots /\ b.slot[j].key < k
  <2>1. j \in Nat /\ j < i /\ j \in 0 .. MAX_KEY
    BY <1>1, <1>6
  <2>2. Advances(b, k, j)
    BY <2>1, <1>4, <1>5
  <2>3. j \in Slots /\ b.slot[j].key \in Int
    BY <2>2, SlotType DEF Advances
  <2> QED BY <2>2, <2>3 DEF Advances
<1> QED BY <1>3, <1>6, <1>7 DEF S

(* The entry locate() returns is not behind one it should have met. *)
LEMMA LocatePasses ==
  ASSUME NEW b \in Leaves, NEW k \in Int, NEW j \in Slots, j < Locate(b, k).eid
  PROVE  b.slot[j].key < k
<1> DEFINE i == Least(StopsAt(b, k))
<1>1. /\ i \in 0 .. MAX_KEY
      /\ \A h \in 0 .. i - 1 : b.slot[h].key < k
      /\ Locate(b, k) = IF i > 0 /\ k = KeyAt(b, i)
                        THEN [rc |-> "OK", eid |-> i]
                        ELSE [rc |-> "RC_NO_SUCH_RECORD", eid |-> IF i = 0 THEN 0 ELSE i - 1]
  BY LocateProp
<1> HIDE DEF i
<1>2. Locate(b, k).eid \in {i, 0, i - 1}
  BY <1>1
<1>3. j \in Nat /\ j < i
  BY <1>1, <1>2, LeafAssumption DEF Slots
<1>4. j \in 0 .. i - 1
  BY <1>1, <1>3
<1> QED BY <1>1, <1>4

(* A key that is there, but not first, is found where it is first. *)
LEMMA LocateFirst ==
  ASSUME NEW b \in Leaves, InOrder(b), NEW k \in Int,
         NEW f \in 0 .. KeyCount(b) - 1, f > 0, b.slot[f].key = k,
         \A j \in 0 .. f - 1 : b.slot[j].key # k
  PROVE  Locate(b, k) = [rc |-> "OK", eid |-> f]
<1> DEFINE S == StopsAt(b, k)
           n == KeyCount(b)
<1>1. n \in 0 .. MAX_KEY /\ MAX_KEY \in Nat /\ f \in 0 .. n - 1
  BY KeyCountProp, LeafAssumption
<1>2. \A i, j \in 0 .. n - 1 : i < j => b.slot[i].key <= b.slot[j].key
  BY InOrderSlots
<1>3. \A j \in 0 .. n - 1 : j \in Slots /\ b.slot[j].rid # NoRid /\ b.slot[j].key \in Int
  BY <1>1, KeyCountProp, SlotType DEF Slots
<1> HIDE DEF n
<1>4. f \in S
  <2>1. KeyAt(b, f) = k /\ f \in 0 .. MAX_KEY
    BY <1>1 DEF KeyAt
  <2> QED BY <2>1 DEF StopsAt
<1>5. ASSUME NEW j \in 0 .. f - 1 PROVE j \notin S
  <2>1. j \in 0 .. n - 1 /\ j < f /\ j < MAX_KEY
    BY <1>1
  <2>2. b.slot[j].key <= b.slot[f].key
    BY <2>1, <1>1, <1>2
  <2>3. b.slot[j].key # k /\ b.slot[j].key \in Int
    BY <2>1, <1>3
  <2>4. b.slot[j].key < k
    BY <2>2, <2>3
  <2>5. Advances(b, k, j)
    BY <2>1, <2>3, <2>4, <1>3 DEF Advances
  <2>6. k # KeyAt(b, j)
    BY <2>1, <2>3 DEF KeyAt
  <2> QED BY <2>5, <2>6 DEF StopsAt
<1>6. Least(S) = f
  <2>1. S \in SUBSET Nat
    BY <1>1 DEF StopsAt
  <2> HIDE DEF S
  <2>2. ASSUME NEW j \in S PROVE f <= j
    <3> SUFFICES ASSUME j < f PROVE FALSE
      BY <2>1
    <3>1. j \in 0 .. f - 1
      BY <2>1
    <3> QED BY <3>1, <1>5
  <2> QED BY <2>1, <2>2, <1>4, LeastIs
<1>7. KeyAt(b, f) = k
  BY <1>1 DEF KeyAt, n
<1> QED BY <1>6, <1>7, LocateProp

(* What it finds is an entry, or what lies just behind the last one. *)
LEMMA LocateFound ==
  ASSUME NEW b \in Leaves, InOrder(b), NEW k \in Int, Locate(b, k).rc = "OK"
  PROVE  LET l == Locate(b, k)
         IN \/ l.eid \in 0 .. KeyCount(b) - 1 /\ b.slot[l.eid].key = k
            \/ /\ l.eid = KeyCount(b)
               /\ k = IF KeyCount(b) < MAX_KEY THEN -1 ELSE b.next
<1> DEFINE i == Least(StopsAt(b, k))
           n == KeyCount(b)
<1>1. /\ i \in 0 .. MAX_KEY
      /\ \A j \in 0 .. i - 1 : Advances(b, k, j)
      /\ Locate(b, k) = IF i > 0 /\ k = KeyAt(b, i)
                        THEN [rc |-> "OK", eid |-> i]
                        ELSE [rc |-> "RC_NO_SUCH_RECORD", eid |-> IF i = 0 THEN 0 ELSE i - 1]
  BY LocateProp
<1>2. n \in 0 .. MAX_KEY /\ MAX_KEY \in Nat
  BY KeyCountProp, LeafAssumption
<1>3. \A j \in Slots : j >= n => b.slot[j] = Blank
  BY InOrderSlots
<1> HIDE DEF i, n
<1>4. i > 0 /\ k = KeyAt(b, i)
  BY <1>1
<1>5. Locate(b, k).eid = i
  BY <1>1, <1>4
<1>6. i <= n
  <2> SUFFICES ASSUME n < i PROVE FALSE
    BY <1>1, <1>2
  <2>1. n \in 0 .. i - 1 /\ n \in Slots
    BY <1>1, <1>2 DEF Slots
  <2>2. b.slot[n].rid # NoRid
    BY <1>1, <2>1 DEF Advances
  <2>3. b.slot[n] = Blank
    BY <1>2, <1>3, <2>1
  <2> QED BY <2>2, <2>3 DEF Blank
<1>7. CASE i < n
  <2>1. i \in 0 .. n - 1 /\ i < MAX_KEY
    BY <1>1, <1>2, <1>7
  <2>2. k = b.slot[i].key
    BY <1>4, <2>1 DEF KeyAt
  <2> QED BY <1>5, <2>1, <2>2 DEF n
<1>8. CASE i = n /\ n < MAX_KEY
  <2>1. n \in Slots /\ b.slot[n] = Blank
    BY <1>2, <1>3, <1>8 DEF Slots
  <2>2. k = -1
    BY <1>4, <1>8, <2>1 DEF KeyAt, Blank
  <2> QED BY <1>5, <1>8, <2>2 DEF n
<1>9. CASE i = n /\ n = MAX_KEY
  <2>1. k = b.next
    BY <1>2, <1>4, <1>9 DEF KeyAt
  <2>2. ~(n < MAX_KEY)
    BY <1>2, <1>9
  <2> QED BY <1>5, <1>9, <2>1, <2>2 DEF n
<1> QED BY <1>1, <1>2, <1>6, <1>7, <1>8, <1>9

-----------------------------------------------------------------------------
(* The invariant *)

LEMMA EmptyLeafProp == EmptyLeaf \in Leaves /\ KeyCount(EmptyLeaf) = 0 /\ InOrder(EmptyLeaf)
<1>1. EmptyLeaf \in Leaves
  BY DEF EmptyLeaf, Leaves
<1>2. KeyCount(EmptyLeaf) = 0
  <2>1. EmptyLeaf.slot[0].rid = NoRid
    BY HalfProp DEF EmptyLeaf, Blank, Slots
  <2> QED BY <1>1, <2>1, HalfProp, KeyCountIs DEF Slots
<1>3. \A i \in Slots : EmptyLeaf.slot[i] = Blank
  BY DEF EmptyLeaf
<1>4. \A i, j \in 0 .. 0 - 1 : EmptyLeaf.slot[i].key <= EmptyLeaf.slot[j].key
  OBVIOUS
<1> QED BY <1>1, <1>2, <1>3, <1>4, InOrderSlots

(* The link to the next leaf has no part in the order. *)
LEMMA LinkedProp ==
  ASSUME NEW b \in Leaves, InOrder(b), NEW p \in Pids
  PROVE  [b EXCEPT !.next = p] \in Leaves /\ InOrder([b EXCEPT !.next = p])
<1> DEFINE c == [b EXCEPT !.next = p]
<1>1. c.slot = b.slot
  BY DEF Leaves
<1>2. c \in Leaves
  BY DEF Leaves
<1>3. KeyCount(c) = KeyCount(b)
  BY <1>1 DEF KeyCount
<1> HIDE DEF c
<1>4. InOrder(c)
  BY <1>1, <1>3 DEF InOrder, EntriesOf
<1> QED BY <1>2, <1>4 DEF c

(* The order of a leaf is what makes its scans right, and saving leaves    *)
(* needs it of the pages as well: together they are inductive.             *)
NodeInv == TypeOK /\ NodesInOrder

LEMMA NodeInvInit == Init => NodeInv
<1> SUFFICES ASSUME Init PROVE NodeInv
  OBVIOUS
<1> USE EmptyLeafProp
<1>1. TypeOK
  <2>1. page \in [IndexFiles -> [Pids -> Leaves]]
    BY DEF Init, PF!Init, PF!Pids, Pids
  <2>2. size \in [IndexFiles -> PF!Absent .. MaxPid + 1]
    BY LeafAssumption DEF Init, PF!Init, PF!Absent
  <2> QED BY <2>1, <2>2 DEF Init, TypeOK, Rcs, PF!Init
<1>2. NodesInOrder
  BY DEF Init, NodesInOrder, PF!Init, PF!Absent
<1> QED BY <1>1, <1>2 DEF NodeInv

(* NodesInOrder of the next state, from its leaves and its pages *)
LEMMA OrderNext ==
  ASSUME \A n \in Nodes : InOrder(node'[n]),
         \A f \in IndexFiles : \A p \in 0 .. size'[f] - 1 : InOrder(page'[f][p])
  PROVE  NodesInOrder'
BY DEF NodesInOrder, InOrder, Sorted, EntriesOf, KeyCount, Least

(* A step that saves no page and leaves every leaf in order keeps it all. *)
LEMMA NodeStep ==
  ASSUME NodeInv, UNCHANGED pfVars, rc' \in Rcs, node' \in [Nodes -> Leaves],
         \A n \in Nodes : node'[n] = node[n] \/ InOrder(node'[n])
  PROVE  NodeInv'
<1>1. TypeOK'
  BY DEF NodeInv, TypeOK, pfVars
<1>2. \A n \in Nodes : InOrder(node'[n])
  BY DEF NodeInv, NodesInOrder
<1>3. \A f \in IndexFiles : \A p \in 0 .. size'[f] - 1 : InOrder(page'[f][p])
  BY DEF NodeInv, NodesInOrder, pfVars
<1>4. NodesInOrder'
  BY <1>2, <1>3, OrderNext
<1> QED BY <1>1, <1>4 DEF NodeInv

LEMMA InsertStep ==
  ASSUME NodeInv, NEW n \in Nodes, NEW e \in Entries, Insert(n, e)
  PROVE  NodeInv'
<1>1. node \in [Nodes -> Leaves] /\ node[n] \in Leaves /\ InOrder(node[n])
  BY DEF NodeInv, TypeOK, NodesInOrder
<1>2. Inserted(node[n], e) \in Leaves /\ InOrder(Inserted(node[n], e))
  BY <1>1, InsertedOrder DEF Insert
<1>3. node' = [node EXCEPT ![n] = Inserted(node[n], e)]
  BY DEF Insert
<1>4. \A h \in Nodes : node'[h] = node[h] \/ InOrder(node'[h])
  BY <1>1, <1>2, <1>3
<1>5. node' \in [Nodes -> Leaves]
  BY <1>1, <1>2, <1>3
<1> QED BY <1>4, <1>5, NodeStep DEF Insert, Rcs

LEMMA SplitStep ==
  ASSUME NodeInv, NEW n \in Nodes, NEW m \in Nodes, NEW e \in Entries,
         InsertAndSplit(n, e, m)
  PROVE  NodeInv'
<1> DEFINE s == Split(node[n], e, node[m])
<1>1. /\ node \in [Nodes -> Leaves]
      /\ node[n] \in Leaves /\ InOrder(node[n])
      /\ node[m] \in Leaves /\ InOrder(node[m])
  BY DEF NodeInv, TypeOK, NodesInOrder
<1>2. KeyCount(node[n]) = MAX_KEY /\ KeyCount(node[m]) = 0
  BY <1>1, KeyCountProp, LeafAssumption DEF InsertAndSplit
<1>3. s.node \in Leaves /\ s.sibling \in Leaves
  BY <1>1, <1>2, SplitProp
<1>4. InOrder(s.node) /\ InOrder(s.sibling)
  BY <1>1, <1>2, SplitOrder
<1>5. node' = [node EXCEPT ![n] = s.node, ![m] = s.sibling]
  BY DEF InsertAndSplit
<1> HIDE DEF s
<1>6. \A h \in Nodes : node'[h] = node[h] \/ InOrder(node'[h])
  BY <1>1, <1>4, <1>5
<1>7. node' \in [Nodes -> Leaves]
  BY <1>1, <1>3, <1>5
<1> QED BY <1>6, <1>7, NodeStep DEF InsertAndSplit, Rcs

LEMMA LinkStep ==
  ASSUME NodeInv, NEW n \in Nodes, NEW p \in -1 .. MaxPid, SetNextNodePtr(n, p)
  PROVE  NodeInv'
<1>1. node \in [Nodes -> Leaves] /\ node[n] \in Leaves /\ InOrder(node[n])
  BY DEF NodeInv, TypeOK, NodesInOrder
<1>2. CASE p < 0
  BY <1>1, <1>2, NodeStep DEF SetNextNodePtr, Rcs
<1>3. CASE ~(p < 0)
  <2>1. p \in Pids
    BY <1>3, LeafAssumption DEF Pids
  <2>2. node' = [node EXCEPT ![n] = [node[n] EXCEPT !.next = p]]
    BY <1>3 DEF SetNextNodePtr
  <2>3. [node[n] EXCEPT !.next = p] \in Leaves /\ InOrder([node[n] EXCEPT !.next = p])
    BY <1>1, <2>1, LinkedProp
  <2>4. \A h \in Nodes : node'[h] = node[h] \/ InOrder(node'[h])
    BY <1>1, <2>2, <2>3
  <2>5. node' \in [Nodes -> Leaves]
    BY <1>1, <2>2, <2>3
  <2> QED BY <1>3, <2>4, <2>5, NodeStep DEF SetNextNodePtr, Rcs
<1> QED BY <1>2, <1>3

LEMMA ReadStep ==
  ASSUME NodeInv, NEW n \in Nodes, NEW p \in Pids, Read(n, p)
  PROVE  NodeInv'
<1> DEFINE f == opened[pf]
<1>1. /\ node \in [Nodes -> Leaves] /\ f \in IndexFiles
      /\ page[f][p] \in Leaves
  BY DEF NodeInv, TypeOK, Read
<1>2. CASE PF!Read(pf, p, page[f][p]) /\ node' = [node EXCEPT ![n] = page[f][p]] /\ rc' = "OK"
  <2>1. p < size[f] /\ p \in Nat /\ size[f] \in Int
    BY <1>1, <1>2, LeafAssumption DEF PF!Read, Pids, PF!Absent, NodeInv, TypeOK
  <2>2. InOrder(page[f][p])
    BY <2>1, <1>1 DEF NodeInv, NodesInOrder
  <2>3. NodesInOrder'
    <3>1. \A h \in Nodes : InOrder(node'[h])
      BY <1>1, <1>2, <2>2 DEF NodeInv, NodesInOrder
    <3>2. \A g \in IndexFiles : \A q \in 0 .. size'[g] - 1 : InOrder(page'[g][q])
      BY <1>2 DEF NodeInv, NodesInOrder, PF!Read
    <3> QED BY <3>1, <3>2, OrderNext
  <2>4. TypeOK'
    BY <1>1, <1>2 DEF NodeInv, TypeOK, Rcs, PF!Read, PF!handles
  <2> QED BY <2>3, <2>4 DEF NodeInv
<1>3. ASSUME NEW r \in {"RC_INVALID_PID", "RC_FILE_SEEK_FAILED", "RC_FILE_READ_FAILED"},
             PF!ReadFails(pf, p, r), rc' = r, UNCHANGED node
      PROVE  NodeInv'
  <2>1. NodesInOrder'
    BY <1>3 DEF NodeInv, NodesInOrder, PF!ReadFails
  <2>2. TypeOK'
    BY <1>3 DEF NodeInv, TypeOK, Rcs, PF!ReadFails
  <2> QED BY <2>1, <2>2 DEF NodeInv
<1> QED BY <1>2, <1>3 DEF Read

LEMMA WriteStep ==
  ASSUME NodeInv, NEW n \in Nodes, NEW p \in Pids, Write(n, p)
  PROVE  NodeInv'
<1> DEFINE f == opened[pf]
<1>1. /\ node \in [Nodes -> Leaves] /\ node[n] \in Leaves /\ InOrder(node[n])
      /\ f \in IndexFiles /\ UNCHANGED node
      /\ p <= size[f] /\ p \in 0 .. MaxPid /\ size \in [IndexFiles -> -1 .. MaxPid + 1]
      /\ page \in [IndexFiles -> [0 .. MaxPid -> Leaves]]
  BY DEF NodeInv, TypeOK, NodesInOrder, Write, Pids, PF!Absent
<1>2. CASE PF!Write(pf, p, node[n]) /\ rc' = "OK"
  <2>1. /\ page' = [page EXCEPT ![f] = [page[f] EXCEPT ![p] = node[n]]]
        /\ size' = [size EXCEPT ![f] = IF p >= size[f] THEN p + 1 ELSE size[f]]
        /\ UNCHANGED opened
    BY <1>2 DEF PF!Write
  <2>2. TypeOK'
    <3>1. page' \in [IndexFiles -> [0 .. MaxPid -> Leaves]]
      BY <1>1, <2>1
    <3>2. size' \in [IndexFiles -> -1 .. MaxPid + 1]
      <4>1. (IF p >= size[f] THEN p + 1 ELSE size[f]) \in -1 .. MaxPid + 1
        BY <1>1, LeafAssumption
      <4> QED BY <4>1, <1>1, <2>1
    <3> QED BY <3>1, <3>2, <1>1, <1>2, <2>1 DEF NodeInv, TypeOK, Rcs, Pids, PF!Absent
  <2>3. NodesInOrder'
    <3>1. ASSUME NEW g \in IndexFiles, NEW q \in 0 .. size'[g] - 1
          PROVE  InOrder(page'[g][q])
      <4>1. CASE g = f /\ q = p
        BY <4>1, <1>1, <2>1
      <4>2. CASE ~(g = f /\ q = p)
        <5>1. page'[g][q] = page[g][q]
          BY <4>2, <1>1, <2>1
        <5>2. q \in 0 .. size[g] - 1
          BY <4>2, <1>1, <2>1
        <5> QED BY <5>1, <5>2 DEF NodeInv, NodesInOrder
      <4> QED BY <4>1, <4>2
    <3>2. \A h \in Nodes : InOrder(node'[h])
      BY <1>1 DEF NodeInv, NodesInOrder
    <3> QED BY <3>1, <3>2, OrderNext
  <2> QED BY <2>2, <2>3 DEF NodeInv
<1>3. ASSUME NEW r \in {"RC_INVALID_PID", "RC_FILE_SEEK_FAILED", "RC_FILE_WRITE_FAILED"},
             PF!WriteFails(pf, p, r), rc' = r
      PROVE  NodeInv'
  <2>1. NodesInOrder'
    BY <1>1, <1>3 DEF NodeInv, NodesInOrder, PF!WriteFails
  <2>2. TypeOK'
    BY <1>1, <1>3 DEF NodeInv, TypeOK, Rcs, PF!WriteFails, PF!handles
  <2> QED BY <2>1, <2>2 DEF NodeInv
<1> QED BY <1>2, <1>3 DEF Write

LEMMA NodeInvNext == NodeInv /\ [Next]_leafVars => NodeInv'
<1> SUFFICES ASSUME NodeInv, [Next]_leafVars PROVE NodeInv'
  OBVIOUS
<1>1. node \in [Nodes -> Leaves]
  BY DEF NodeInv, TypeOK
<1>2. ASSUME NEW n \in Nodes, Construct(n) PROVE NodeInv'
  <2>1. \A h \in Nodes : node'[h] = node[h] \/ InOrder(node'[h])
    BY <1>1, <1>2, EmptyLeafProp DEF Construct
  <2>2. node' \in [Nodes -> Leaves]
    BY <1>1, <1>2, EmptyLeafProp DEF Construct
  <2> QED BY <2>1, <2>2, <1>2, NodeStep DEF Construct, Rcs
<1>3. ASSUME NEW n \in Nodes, InsertRefused(n) PROVE NodeInv'
  BY <1>1, <1>3, NodeStep DEF InsertRefused, Rcs
<1>4. ASSUME NEW n \in Nodes, NEW p \in -1 .. MaxPid, SetNextNodePtr(n, p) PROVE NodeInv'
  BY <1>4, LinkStep
<1>5. ASSUME NEW n \in Nodes, NEW e \in Entries, Insert(n, e) PROVE NodeInv'
  BY <1>5, InsertStep
<1>6. ASSUME NEW n \in Nodes, NEW m \in Nodes, NEW e \in Entries, InsertAndSplit(n, e, m)
      PROVE  NodeInv'
  BY <1>6, SplitStep
<1>7. ASSUME NEW n \in Nodes, NEW m \in Nodes, InsertAndSplitRefused(n, m) PROVE NodeInv'
  BY <1>1, <1>7, NodeStep DEF InsertAndSplitRefused, Rcs
<1>8. ASSUME NEW n \in Nodes, NEW p \in Pids, Read(n, p) PROVE NodeInv'
  BY <1>8, ReadStep
<1>9. ASSUME NEW n \in Nodes, NEW p \in Pids, Write(n, p) PROVE NodeInv'
  BY <1>9, WriteStep
<1>10. ASSUME NEW f \in IndexFiles, OpenIndex(f) PROVE NodeInv'
  <2>1. size' = size \/ (size[f] = -1 /\ size' = [size EXCEPT ![f] = 0])
    BY <1>10 DEF OpenIndex, PF!Open, PF!MayCreate, PF!Absent
  <2>2. /\ size \in [IndexFiles -> -1 .. MaxPid + 1]
        /\ UNCHANGED <<page, node, rc>> /\ opened' = [opened EXCEPT ![pf] = f]
    BY <1>10 DEF OpenIndex, PF!Open, PF!Absent, NodeInv, TypeOK
  <2>3. TypeOK'
    <3>1. size' \in [IndexFiles -> -1 .. MaxPid + 1]
      BY <2>1, <2>2, LeafAssumption
    <3> QED BY <3>1, <2>2 DEF NodeInv, TypeOK, PF!Absent
  <2>4. NodesInOrder'
    <3>1. ASSUME NEW g \in IndexFiles, NEW q \in 0 .. size'[g] - 1
          PROVE  InOrder(page'[g][q])
      <4>1. q \in 0 .. size[g] - 1
        BY <2>1, <2>2
      <4> QED BY <4>1, <2>2 DEF NodeInv, NodesInOrder
    <3>2. \A h \in Nodes : InOrder(node'[h])
      BY <2>2 DEF NodeInv, NodesInOrder
    <3> QED BY <3>1, <3>2, OrderNext
  <2> QED BY <2>3, <2>4 DEF NodeInv
<1>11. CASE Restart
  <2>1. UNCHANGED <<page, size>> /\ opened' = [h \in {pf} |-> NoFile]
        /\ node' = [n \in Nodes |-> EmptyLeaf] /\ rc' = "OK"
    BY <1>11 DEF Restart, PF!Restart
  <2>2. TypeOK'
    BY <2>1, EmptyLeafProp DEF NodeInv, TypeOK, Rcs
  <2>3. NodesInOrder'
    <3>1. \A h \in Nodes : InOrder(node'[h])
      BY <2>1, EmptyLeafProp
    <3>2. \A g \in IndexFiles : \A q \in 0 .. size'[g] - 1 : InOrder(page'[g][q])
      BY <2>1 DEF NodeInv, NodesInOrder
    <3> QED BY <3>1, <3>2, OrderNext
  <2> QED BY <2>2, <2>3 DEF NodeInv
<1>12. CASE UNCHANGED leafVars
  BY <1>12, <1>1, NodeStep DEF leafVars, NodeInv, TypeOK
<1> QED
  BY <1>2, <1>3, <1>4, <1>5, <1>6, <1>7, <1>8, <1>9, <1>10, <1>11, <1>12 DEF Next

-----------------------------------------------------------------------------
(* The theorems *)

LEMMA NodeInvariant == Spec => []NodeInv
BY NodeInvInit, NodeInvNext, PTL DEF Spec

(* Leaves, pages and return codes have their types, whatever fails and     *)
(* whenever the process ends.                                              *)
THEOREM TypeCorrect == Spec => []TypeOK
<1>1. NodeInv => TypeOK
  BY DEF NodeInv
<1> QED BY <1>1, NodeInvariant, PTL

(* What every scan relies on: in every leaf, and in every page that can be *)
(* read back, the entries in use come first and in key order, and nothing  *)
(* is left behind them.                                                    *)
THEOREM OrderIsKept == Spec => []NodesInOrder
<1>1. NodeInv => NodesInOrder
  BY DEF NodeInv
<1> QED BY <1>1, NodeInvariant, PTL

(* insert() on a leaf with room adds the entry, keeps every other and the  *)
(* order of all, and leaves the link to the next leaf.                     *)
THEOREM InsertAddsOne == Spec => []InsertAdds
<1>1. NodeInv => InsertAdds
  <2> SUFFICES ASSUME NodeInv, NEW n \in Nodes, NEW e \in Entries,
                      KeyCount(node[n]) < MAX_KEY
               PROVE  LET b == Inserted(node[n], e)
                      IN /\ Spliced(EntriesOf(node[n]), e, EntriesOf(b))
                         /\ Sorted(EntriesOf(b))
                         /\ b.next = node[n].next
    BY DEF InsertAdds
  <2>1. node[n] \in Leaves /\ InOrder(node[n])
    BY DEF NodeInv, TypeOK, NodesInOrder
  <2>2. /\ InOrder(Inserted(node[n], e))
        /\ Inserted(node[n], e).next = node[n].next
        /\ Spliced(EntriesOf(node[n]), e, EntriesOf(Inserted(node[n], e)))
    BY <2>1, InsertedOrder
  <2> QED BY <2>2 DEF InOrder
<1> QED BY <1>1, NodeInvariant, PTL

(* insertAndSplit() on a full leaf: every entry and the new one is in one  *)
(* of the two leaves, in order across both, which are equally long;        *)
(* siblingKey separates them and the chain of leaves goes on.              *)
THEOREM SplitLosesNothing == Spec => []SplitHalves
<1>1. NodeInv => SplitHalves
  <2> SUFFICES ASSUME NodeInv, NEW n \in Nodes, NEW m \in Nodes, NEW e \in Entries,
                      KeyCount(node[n]) = MAX_KEY, KeyCount(node[m]) = 0
               PROVE  LET s   == Split(node[n], e, node[m])
                          all == EntriesOf(s.node) \o EntriesOf(s.sibling)
                      IN /\ Spliced(EntriesOf(node[n]), e, all)
                         /\ Sorted(all)
                         /\ KeyCount(s.node) = KeyCount(s.sibling)
                         /\ s.siblingKey = s.sibling.slot[0].key
                         /\ s.sibling.next = node[n].next
    BY DEF SplitHalves
  <2>1. /\ node[n] \in Leaves /\ InOrder(node[n])
        /\ node[m] \in Leaves /\ InOrder(node[m])
    BY DEF NodeInv, TypeOK, NodesInOrder
  <2> QED BY <2>1, SplitHalvesOne
<1> QED BY <1>1, NodeInvariant, PTL

(* Whatever locate() returns, no entry with searchKey or a larger key is   *)
(* before it: a forward scan from there misses none.                       *)
THEOREM LocateIsNeverTooFar == Spec => []LocateSkipsNothing
<1>1. NodeInv => LocateSkipsNothing
  <2> SUFFICES ASSUME NodeInv, NEW n \in Nodes, NEW k \in Keys, NEW i \in Slots,
                      i < Locate(node[n], k).eid
               PROVE  node[n].slot[i].key < k
    BY DEF LocateSkipsNothing
  <2>1. node[n] \in Leaves /\ k \in Int
    BY LeafAssumption DEF NodeInv, TypeOK
  <2> QED BY <2>1, LocatePasses
<1> QED BY <1>1, NodeInvariant, PTL

(* locate() finds the first entry with a key that is not the leaf's first, *)
(* and finds no key that is not there, but -1 and the next leaf's page id, *)
(* each just behind the last entry.                                        *)
THEOREM LocateIsRightForOthers == Spec => []LocateFindsOthers
<1>1. NodeInv => LocateFindsOthers
  <2> SUFFICES ASSUME NodeInv, NEW n \in Nodes, NEW k \in Keys
               PROVE  LET b  == node[n]
                          l  == Locate(b, k)
                          at == {i \in 0 .. KeyCount(b) - 1 : b.slot[i].key = k}
                      IN /\ at # {} /\ 0 \notin at => l = [rc |-> "OK", eid |-> Least(at)]
                         /\ l.rc = "OK" =>
                              \/ l.eid \in at
                              \/ /\ l.eid = KeyCount(b)
                                 /\ k = IF KeyCount(b) < MAX_KEY THEN -1 ELSE b.next
    BY DEF LocateFindsOthers
  <2> DEFINE b  == node[n]
             at == {i \in 0 .. KeyCount(b) - 1 : b.slot[i].key = k}
             f  == Least(at)
  <2>1. b \in Leaves /\ InOrder(b) /\ k \in Int
    BY LeafAssumption DEF NodeInv, TypeOK, NodesInOrder
  <2>2. ASSUME at # {}, 0 \notin at
        PROVE  Locate(b, k) = [rc |-> "OK", eid |-> f]
    <3>1. at \in SUBSET Nat /\ KeyCount(b) \in Nat
      BY <2>1, KeyCountProp
    <3>2. f \in at /\ \A j \in Nat : j < f => j \notin at
      <4> HIDE DEF at
      <4> QED BY <2>2, <3>1, LeastProp
    <3>3. f \in 0 .. KeyCount(b) - 1 /\ b.slot[f].key = k
      BY <3>2
    <3>4. f # 0
      BY <2>2, <3>2
    <3>5. \A j \in 0 .. f - 1 : b.slot[j].key # k
      <4> SUFFICES ASSUME NEW j \in 0 .. f - 1 PROVE j \notin at /\ j \in 0 .. KeyCount(b) - 1
        OBVIOUS
      <4> HIDE DEF at, f
      <4>1. j \in Nat /\ j < f /\ j \in 0 .. KeyCount(b) - 1
        BY <3>1, <3>3
      <4> QED BY <4>1, <3>2
    <3> HIDE DEF at, f, b
    <3>6. f > 0
      BY <3>1, <3>3, <3>4
    <3> QED BY <2>1, <3>3, <3>5, <3>6, LocateFirst
  <2>3. ASSUME Locate(b, k).rc = "OK"
        PROVE  \/ Locate(b, k).eid \in at
               \/ /\ Locate(b, k).eid = KeyCount(b)
                  /\ k = IF KeyCount(b) < MAX_KEY THEN -1 ELSE b.next
    BY <2>1, <2>3, LocateFound
  <2> QED BY <2>2, <2>3
<1> QED BY <1>1, NodeInvariant, PTL
=============================================================================
