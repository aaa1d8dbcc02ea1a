------------------------ MODULE BTNonLeafNodeProofs -------------------------
(***************************************************************************)
(* Proofs about BTNonLeafNode, for nodes of any capacity, any keys and any *)
(* children: the order every scan relies on, in memory and on every page,  *)
(* and that insert() and insertAndSplit() route searches as a B+ tree      *)
(* needs.                                                                  *)
(***************************************************************************)
EXTENDS BTNonLeafNode, FiniteSetTheorems, WellFoundedInduction, TLAPS

(* A set of naturals that is not empty has a least element. *)
LEMMA LeastElementExists ==
  ASSUME NEW S \in SUBSET Nat, S # {}
  PROVE  \E i \in S : \A j \in S : i <= j
<1> DEFINE R == {ss \in Nat \X Nat : ss[1] < ss[2]}
<1>1. IsWellFoundedOn(R, Nat)
  BY NatLessThanWellFounded DEF OpToRel
<1>2. PICK i \in S : \A j \in S : <<j, i>> \notin R
  <2> HIDE DEF R
  <2> QED BY <1>1, WFMin
<1>3. \A j \in S : ~(j < i)
  BY <1>2
<1> QED BY <1>3

-----------------------------------------------------------------------------
(* The scans *)

LEMMA LeastIs ==
  ASSUME NEW S \in SUBSET Nat, NEW x \in S, \A j \in S : x <= j
  PROVE  Least(S) = x
<1>1. \A y \in S : (\A j \in S : y <= j) => y = x
  OBVIOUS
<1> QED BY <1>1 DEF Least

LEMMA LeastProp ==
  ASSUME NEW S \in SUBSET Nat, S # {}
  PROVE  /\ Least(S) \in S
         /\ \A j \in S : Least(S) <= j
         /\ \A j \in Nat : j < Least(S) => j \notin S
<1>1. Least(S) \in S /\ \A j \in S : Least(S) <= j
  BY LeastElementExists DEF Least
<1>2. Least(S) \in Nat
  BY <1>1
<1>3. ASSUME NEW j \in Nat, j < Least(S), j \in S PROVE FALSE
  BY <1>1, <1>2, <1>3
<1> QED BY <1>1, <1>2, <1>3

(* A slot holds a pair or nothing, and the page id tells which. *)
LEMMA SlotType ==
  ASSUME NEW b \in Inner, NEW i \in Slots
  PROVE  /\ b.slot[i] \in Pairs \cup {Blank}
         /\ b.slot[i].key \in Int /\ b.slot[i].pid \in Int
         /\ b.slot[i].pid # NIL <=> b.slot[i] \in Pairs
         /\ b.slot[i].pid = NIL <=> b.slot[i] = Blank
<1>1. b.slot[i] \in Pairs \cup {Blank}
  BY DEF Inner
<1>2. CASE b.slot[i] \in Pairs
  BY <1>2, NonLeafAssumption DEF Blank, NIL
<1>3. CASE b.slot[i] = Blank
  BY <1>3, NonLeafAssumption DEF Blank, NIL
<1> QED BY <1>1, <1>2, <1>3

(* getKeyCount() stops at the first slot without a page id ... *)
LEMMA KeyCountProp ==
  ASSUME NEW b \in Inner
  PROVE  /\ KeyCount(b) \in 0 .. MAX_KEY
         /\ \A i \in Slots : i < KeyCount(b) => b.slot[i].pid # NIL
         /\ KeyCount(b) < MAX_KEY => b.slot[KeyCount(b)].pid = NIL
<1> DEFINE S == {i \in Slots : b.slot[i].pid = NIL} \cup {MAX_KEY}
<1>1. S \in SUBSET Nat /\ S # {} /\ MAX_KEY \in S /\ MAX_KEY \in Nat
  BY NonLeafAssumption DEF Slots
<1>2. /\ Least(S) \in S /\ Least(S) \in Nat
      /\ \A j \in S : Least(S) <= j
      /\ \A j \in Nat : j < Least(S) => j \notin S
  BY <1>1, LeastProp
<1>3. KeyCount(b) = Least(S)
  BY DEF KeyCount
<1> HIDE DEF S
<1>4. \A i \in Slots : i < Least(S) => i \notin S
  BY <1>1, <1>2 DEF Slots
<1> QED BY <1>1, <1>2, <1>3, <1>4 DEF S, Slots

(* ... and nothing else does. *)
LEMMA KeyCountIs ==
  ASSUME NEW b \in Inner, NEW c \in 0 .. MAX_KEY,
         \A i \in Slots : i < c => b.slot[i].pid # NIL,
         c < MAX_KEY => b.slot[c].pid = NIL
  PROVE  KeyCount(b) = c
<1> DEFINE S == {i \in Slots : b.slot[i].pid = NIL} \cup {MAX_KEY}
<1>1. S \in SUBSET Nat
  BY NonLeafAssumption DEF Slots
<1>2. c \in S
  BY NonLeafAssumption DEF Slots
<1>3. \A j \in S : c <= j
  BY NonLeafAssumption DEF Slots
<1>4. Least(S) = c
  <2> HIDE DEF S
  <2> QED BY <1>1, <1>2, <1>3, LeastIs
<1> QED BY <1>4 DEF KeyCount

(* The scan of insert() and locateChildPtr() passes the pairs in use whose *)
(* key is not larger ...                                                   *)
LEMMA ScanEndProp ==
  ASSUME NEW b \in Inner, NEW k \in Int
  PROVE  /\ ScanEnd(b, k) \in 0 .. KeyCount(b)
         /\ \A i \in Slots : i < ScanEnd(b, k) => b.slot[i].key <= k
         /\ ScanEnd(b, k) < KeyCount(b) => k < b.slot[ScanEnd(b, k)].key
<1> DEFINE S == {i \in Slots : k < b.slot[i].key \/ b.slot[i].pid = NIL} \cup {MAX_KEY}
<1>1. S \in SUBSET Nat /\ S # {} /\ MAX_KEY \in S /\ MAX_KEY \in Nat
  BY NonLeafAssumption DEF Slots
<1>2. /\ Least(S) \in S /\ Least(S) \in Nat
      /\ \A j \in S : Least(S) <= j
      /\ \A j \in Nat : j < Least(S) => j \notin S
  BY <1>1, LeastProp
<1>3. ScanEnd(b, k) = Least(S)
  BY DEF ScanEnd
<1>4. KeyCount(b) \in S /\ KeyCount(b) \in 0 .. MAX_KEY
  BY KeyCountProp, <1>1 DEF Slots
<1> HIDE DEF S
<1>5. Least(S) \in 0 .. KeyCount(b)
  BY <1>1, <1>2, <1>4
<1>6. ASSUME NEW i \in Slots, i < Least(S) PROVE b.slot[i].key <= k
  <2>1. i \notin S
    BY <1>1, <1>2, <1>6 DEF Slots
  <2> QED BY <2>1, SlotType DEF S
<1>7. ASSUME Least(S) < KeyCount(b) PROVE k < b.slot[Least(S)].key
  <2>1. Least(S) \in Slots
    BY <1>1, <1>4, <1>5, <1>7 DEF Slots
  <2>2. b.slot[Least(S)].pid # NIL
    BY <2>1, <1>7, KeyCountProp
  <2> QED BY <2>1, <2>2, <1>1, <1>2, <1>4, <1>7 DEF S
<1> QED BY <1>3, <1>5, <1>6, <1>7

(* ... and nothing else. *)
LEMMA ScanEndIs ==
  ASSUME NEW b \in Inner, NEW k \in Int, NEW c \in 0 .. MAX_KEY,
         \A i \in Slots : i < c => b.slot[i].pid # NIL /\ b.slot[i].key <= k,
         c < MAX_KEY => k < b.slot[c].key \/ b.slot[c].pid = NIL
  PROVE  ScanEnd(b, k) = c
<1> DEFINE S == {i \in Slots : k < b.slot[i].key \/ b.slot[i].pid = NIL} \cup {MAX_KEY}
<1>1. S \in SUBSET Nat
  BY NonLeafAssumption DEF Slots
<1>2. c \in S
  BY NonLeafAssumption DEF Slots
<1>3. ASSUME NEW j \in S PROVE c <= j
  BY SlotType, NonLeafAssumption DEF Slots
<1>4. Least(S) = c
  <2> HIDE DEF S
  <2> QED BY <1>1, <1>2, <1>3, LeastIs
<1> QED BY <1>4 DEF ScanEnd

-----------------------------------------------------------------------------
(* insert() and insertAndSplit() move the pairs behind the new one up *)

(* What WithPair holds, slot by slot, for a node in order *)
LEMMA WithPairProp ==
  ASSUME NEW b \in Inner, InOrder(b), NEW e \in Pairs
  PROVE  LET all == WithPair(b, e)
             at  == ScanEnd(b, e.key)
             n   == KeyCount(b)
         IN /\ at \in 0 .. n /\ n \in 0 .. MAX_KEY
            /\ \A i \in 0 .. at - 1 : all[i] = b.slot[i]
            /\ all[at] = e
            /\ \A i \in at + 1 .. n : all[i] = b.slot[i - 1]
            /\ \A i \in n + 1 .. MAX_KEY : all[i] = Blank
<1> DEFINE all == WithPair(b, e)
           at  == ScanEnd(b, e.key)
           n   == KeyCount(b)
<1>0. e.key \in Int /\ MAX_KEY \in Nat
  BY NonLeafAssumption
<1>1. at \in 0 .. n /\ n \in 0 .. MAX_KEY
  BY <1>0, ScanEndProp, KeyCountProp
<1>2. all = [i \in 0 .. MAX_KEY |-> IF i = at THEN e
                                   ELSE IF at < i /\ i <= n THEN b.slot[i - 1]
                                   ELSE IF i \in Slots THEN b.slot[i] ELSE Blank]
  BY DEF WithPair
<1>3. \A i \in Slots : i >= n => b.slot[i] = Blank
  BY DEF InOrder
<1> HIDE DEF all, at, n
<1>4. \A i \in 0 .. at - 1 : all[i] = b.slot[i]
  BY <1>0, <1>1, <1>2 DEF Slots
<1>5. all[at] = e
  BY <1>0, <1>1, <1>2
<1>6. \A i \in at + 1 .. n : all[i] = b.slot[i - 1]
  BY <1>0, <1>1, <1>2
<1>7. \A i \in n + 1 .. MAX_KEY : all[i] = Blank
  BY <1>0, <1>1, <1>2, <1>3 DEF Slots
<1> QED BY <1>1, <1>4, <1>5, <1>6, <1>7 DEF all, at, n

(* They are the node's pairs and the new one, in order, nothing behind. *)
LEMMA WithPairOrder ==
  ASSUME NEW b \in Inner, InOrder(b), NEW e \in Pairs
  PROVE  /\ \A i \in 0 .. KeyCount(b) : WithPair(b, e)[i] \in Pairs
         /\ \A i \in KeyCount(b) + 1 .. MAX_KEY : WithPair(b, e)[i] = Blank
         /\ \A i, j \in 0 .. KeyCount(b) :
              i < j => WithPair(b, e)[i].key <= WithPair(b, e)[j].key
<1> DEFINE all == WithPair(b, e)
           at  == ScanEnd(b, e.key)
           n   == KeyCount(b)
<1>0. e.key \in Int /\ MAX_KEY \in Nat
  BY NonLeafAssumption
<1>1. /\ at \in 0 .. n /\ n \in 0 .. MAX_KEY
      /\ \A i \in 0 .. at - 1 : all[i] = b.slot[i]
      /\ all[at] = e
      /\ \A i \in at + 1 .. n : all[i] = b.slot[i - 1]
      /\ \A i \in n + 1 .. MAX_KEY : all[i] = Blank
  BY WithPairProp
<1>2. \A i \in 0 .. n - 1 : i \in Slots /\ b.slot[i] \in Pairs /\ b.slot[i].key \in Int
  BY <1>0, <1>1, KeyCountProp, SlotType DEF Slots
<1>3. \A i, j \in 0 .. n - 1 : i < j => b.slot[i].key <= b.slot[j].key
  BY DEF InOrder
<1>4. \A i \in 0 .. at - 1 : b.slot[i].key <= e.key
  BY <1>0, <1>1, <1>2, ScanEndProp
<1>5. \A i \in at .. n - 1 : e.key <= b.slot[i].key
  <2> SUFFICES ASSUME NEW i \in at .. n - 1 PROVE e.key <= b.slot[i].key
    OBVIOUS
  <2>1. at < n /\ at \in 0 .. n - 1 /\ i \in 0 .. n - 1 /\ at <= i
    BY <1>1
  <2>2. e.key < b.slot[at].key
    BY <1>0, <2>1, ScanEndProp
  <2>3. b.slot[at].key <= b.slot[i].key
    <3>1. CASE at = i
      BY <3>1, <2>1, <1>2
    <3>2. CASE at < i
      BY <3>2, <2>1, <1>3
    <3> QED BY <3>1, <3>2, <2>1
  <2> QED BY <2>1, <2>2, <2>3, <1>0, <1>2
<1> HIDE DEF all, at, n
<1>6. \A i \in 0 .. n : all[i] \in Pairs
  BY <1>1, <1>2
<1>7. ASSUME NEW i \in 0 .. n, NEW j \in 0 .. n, i < j
      PROVE  all[i].key <= all[j].key
  <2>1. CASE j < at
    BY <2>1, <1>1, <1>3, <1>7
  <2>2. CASE j = at
    BY <2>2, <1>1, <1>4, <1>7
  <2>3. CASE i < at /\ at < j
    <3>1. all[i] = b.slot[i] /\ all[j] = b.slot[j - 1]
      BY <2>3, <1>1
    <3>2. b.slot[i].key <= e.key /\ e.key <= b.slot[j - 1].key
      BY <2>3, <1>1, <1>4, <1>5
    <3>3. b.slot[i].key \in Int /\ b.slot[j - 1].key \in Int
      BY <2>3, <1>1, <1>2
    <3> QED BY <3>1, <3>2, <3>3, <1>0
  <2>4. CASE i = at
    BY <2>4, <1>1, <1>5, <1>7
  <2>5. CASE at < i
    <3>1. all[i] = b.slot[i - 1] /\ all[j] = b.slot[j - 1]
      BY <2>5, <1>1, <1>7
    <3> QED BY <3>1, <2>5, <1>1, <1>3, <1>7
  <2> QED BY <2>1, <2>2, <2>3, <2>4, <2>5, <1>1
<1> QED BY <1>1, <1>6, <1>7 DEF all, n

(* insert() on a node with room keeps the order and adds one pair. *)
LEMMA InsertedOrder ==
  ASSUME NEW b \in Inner, InOrder(b), NEW e \in Pairs, KeyCount(b) < MAX_KEY
  PROVE  /\ Inserted(b, e) \in Inner
         /\ KeyCount(Inserted(b, e)) = KeyCount(b) + 1
         /\ InOrder(Inserted(b, e))
<1> DEFINE all == WithPair(b, e)
           c   == Inserted(b, e)
           n   == KeyCount(b)
<1>1. /\ \A i \in 0 .. n : all[i] \in Pairs
      /\ \A i \in n + 1 .. MAX_KEY : all[i] = Blank
      /\ \A i, j \in 0 .. n : i < j => all[i].key <= all[j].key
  BY WithPairOrder
<1>2. n \in Nat /\ n < MAX_KEY /\ MAX_KEY \in Nat
  BY KeyCountProp, NonLeafAssumption
<1>3. /\ c.slot = [i \in Slots |-> all[i]]
      /\ c.first = b.first
  BY DEF Inserted, Inner
<1>4. c \in Inner
  <2>1. \A i \in Slots : all[i] \in Pairs \cup {Blank}
    BY <1>1, <1>2 DEF Slots
  <2>2. c = [first |-> b.first, slot |-> [i \in Slots |-> all[i]]]
    BY DEF Inserted, Inner
  <2> QED BY <2>1, <2>2 DEF Inner
<1> HIDE DEF all, c
<1>5. \A i \in Slots : /\ i < n + 1 => c.slot[i] \in Pairs
                       /\ i >= n + 1 => c.slot[i] = Blank
  <2> HIDE DEF n
  <2> QED BY <1>1, <1>2, <1>3 DEF Slots
<1>6. KeyCount(c) = n + 1
  <2>1. n + 1 \in 0 .. MAX_KEY
    BY <1>2
  <2>2. \A i \in Slots : i < n + 1 => c.slot[i].pid # NIL
    BY <1>4, <1>5, SlotType
  <2>3. n + 1 < MAX_KEY => c.slot[n + 1].pid = NIL
    BY <1>2, <1>5, NonLeafAssumption DEF Slots, Blank
  <2> HIDE DEF n
  <2> QED BY <1>4, <2>1, <2>2, <2>3, KeyCountIs
<1>7. InOrder(c)
  <2>1. \A i \in 0 .. n : c.slot[i] = all[i]
    <3> HIDE DEF n
    <3> QED BY <1>2, <1>3 DEF Slots
  <2> HIDE DEF n
  <2> QED BY <1>1, <1>2, <1>3, <1>5, <1>6, <2>1 DEF InOrder
<1> QED BY <1>4, <1>6, <1>7 DEF c, n

(* A pair found behind the scan of k has a larger key. *)
LEMMA BehindScan ==
  ASSUME NEW b \in Inner, InOrder(b), NEW k \in Int, NEW i \in 0 .. KeyCount(b) - 1
  PROVE  /\ b.slot[i].key \in Int
         /\ i < ScanEnd(b, k) => b.slot[i].key <= k
         /\ ScanEnd(b, k) <= i => k < b.slot[i].key
<1> DEFINE s == ScanEnd(b, k)
           n == KeyCount(b)
<1>1. /\ s \in 0 .. n /\ n \in 0 .. MAX_KEY /\ MAX_KEY \in Nat
      /\ \A j \in Slots : j < s => b.slot[j].key <= k
      /\ s < n => k < b.slot[s].key
  BY KeyCountProp, ScanEndProp, NonLeafAssumption
<1>2. \A j \in 0 .. n - 1 : j \in Slots /\ b.slot[j].key \in Int
  BY <1>1, SlotType DEF Slots
<1>3. \A j, h \in 0 .. n - 1 : j < h => b.slot[j].key <= b.slot[h].key
  BY DEF InOrder
<1>4. CASE i < s
  BY <1>1, <1>2, <1>4
<1>5. CASE i = s
  BY <1>1, <1>2, <1>5
<1>6. CASE s < i
  <2>1. s \in 0 .. n - 1 /\ i \in 0 .. n - 1
    BY <1>1, <1>6
  <2>2. b.slot[s].key <= b.slot[i].key /\ k < b.slot[s].key
    BY <2>1, <1>1, <1>3, <1>6
  <2> QED BY <2>1, <2>2, <1>1, <1>2, <1>6
<1> QED BY <1>1, <1>4, <1>5, <1>6

(* The scan of k among the pairs with the new one: one further if the new  *)
(* pair is passed.                                                         *)
LEMMA ScanWithPair ==
  ASSUME NEW b \in Inner, InOrder(b), NEW e \in Pairs, NEW k \in Int
  PROVE  LET all == WithPair(b, e)
             s   == ScanEnd(b, k)
             t   == IF e.key <= k THEN s + 1 ELSE s
         IN /\ e.key <= k => ScanEnd(b, e.key) <= s
            /\ ~(e.key <= k) => s <= ScanEnd(b, e.key)
            /\ t \in 0 .. KeyCount(b) + 1
            /\ \A i \in 0 .. t - 1 : all[i].key <= k
            /\ t <= KeyCount(b) => k < all[t].key
<1> DEFINE all == WithPair(b, e)
           at  == ScanEnd(b, e.key)
           n   == KeyCount(b)
           s   == ScanEnd(b, k)
           t   == IF e.key <= k THEN s + 1 ELSE s
<1>0. e.key \in Int /\ MAX_KEY \in Nat
  BY NonLeafAssumption
<1>1. /\ at \in 0 .. n /\ n \in 0 .. MAX_KEY
      /\ \A i \in 0 .. at - 1 : all[i] = b.slot[i]
      /\ all[at] = e
      /\ \A i \in at + 1 .. n : all[i] = b.slot[i - 1]
  BY WithPairProp
<1>2. s \in 0 .. n /\ n \in Nat
  BY <1>1, ScanEndProp
<1>3. /\ \A i \in 0 .. s - 1 : b.slot[i].key <= k
      /\ \A i \in s .. n - 1 : k < b.slot[i].key
  BY <1>2, BehindScan
<1>3a. /\ \A i \in 0 .. at - 1 : b.slot[i].key <= e.key
      /\ \A i \in at .. n - 1 : e.key < b.slot[i].key
  BY <1>0, <1>1, BehindScan
<1>3b. \A i \in 0 .. n - 1 : b.slot[i].key \in Int
  BY BehindScan
<1> HIDE DEF all, at, n, s
<1>4. e.key <= k => at <= s
  <2> SUFFICES ASSUME e.key <= k, s < at PROVE FALSE
    BY <1>1, <1>2
  <2>1. s \in 0 .. n - 1
    BY <1>1, <1>2
  <2>2. k < b.slot[s].key
    BY <2>1, <1>3
  <2>3. b.slot[s].key <= e.key
    <3>1. s \in 0 .. at - 1
      BY <2>1, <1>1
    <3> QED BY <3>1, <1>3a
  <2>4. b.slot[s].key \in Int
    BY <2>1, <1>3b
  <2> QED BY <2>2, <2>3, <2>4, <1>0
<1>5. ~(e.key <= k) => s <= at
  <2> SUFFICES ASSUME k < e.key, at < s PROVE FALSE
    BY <1>0, <1>1, <1>2
  <2>1. at \in 0 .. n - 1
    BY <1>1, <1>2
  <2>2. e.key < b.slot[at].key
    BY <2>1, <1>3a
  <2>3. b.slot[at].key <= k
    <3>1. at \in 0 .. s - 1
      BY <2>1, <1>2
    <3> QED BY <3>1, <1>3
  <2>4. b.slot[at].key \in Int
    BY <2>1, <1>3b
  <2> QED BY <2>2, <2>3, <2>4, <1>0
<1>6. CASE e.key <= k
  <2>1. t = s + 1
    BY <1>6
  <2>2. ASSUME NEW i \in 0 .. s PROVE all[i].key <= k
    <3>1. CASE i < at
      <4>1. i \in 0 .. s - 1
        BY <3>1, <1>1, <1>2, <1>4, <1>6
      <4>2. b.slot[i].key <= k
        BY <4>1, <1>3
      <4>3. all[i] = b.slot[i]
        BY <3>1, <1>1
      <4> QED BY <4>2, <4>3
    <3>2. CASE i = at
      BY <3>2, <1>1, <1>6
    <3>3. CASE at < i
      <4>1. i - 1 \in 0 .. s - 1 /\ i \in at + 1 .. n
        BY <3>3, <1>1, <1>2
      <4>2. b.slot[i - 1].key <= k
        BY <4>1, <1>3
      <4>3. all[i] = b.slot[i - 1]
        BY <4>1, <1>1
      <4> QED BY <4>2, <4>3
    <3> QED BY <3>1, <3>2, <3>3, <1>1
  <2>3. ASSUME s + 1 <= n PROVE k < all[s + 1].key
    <3>1. all[s + 1] = b.slot[s] /\ s \in 0 .. n - 1
      BY <2>3, <1>1, <1>2, <1>4, <1>6
    <3>2. k < b.slot[s].key
      <4>1. s \in 0 .. n - 1
        BY <3>1
      <4> QED BY <4>1, <1>3
    <3> QED BY <3>1, <3>2
  <2> QED BY <2>1, <2>2, <2>3, <1>1, <1>2, <1>4, <1>6 DEF all, at, n, s
<1>7. CASE ~(e.key <= k)
  <2>1. t = s
    BY <1>7
  <2>2. ASSUME NEW i \in 0 .. s - 1 PROVE all[i].key <= k
    <3>2. b.slot[i].key <= k
      BY <1>3
    <3>3. all[i] = b.slot[i]
      BY <1>1, <1>2, <1>5, <1>7
    <3> QED BY <3>2, <3>3
  <2>3. ASSUME s <= n PROVE k < all[s].key
    <3>1. CASE s = at
      BY <3>1, <1>0, <1>1, <1>7
    <3>2. CASE s < at
      <4>1. s \in 0 .. n - 1
        BY <3>2, <1>1, <1>2
      <4>2. k < b.slot[s].key
        BY <4>1, <1>3
      <4>3. all[s] = b.slot[s]
        BY <3>2, <1>1, <1>2
      <4> QED BY <4>2, <4>3
    <3> QED BY <3>1, <3>2, <1>1, <1>2, <1>5, <1>7
  <2> QED BY <2>1, <2>2, <2>3, <1>1, <1>2, <1>5, <1>7 DEF all, at, n, s
<1> QED BY <1>6, <1>7

(* InsertRoutes for one node, one new pair and one search key *)
LEMMA InsertedRoutes ==
  ASSUME NEW b \in Inner, InOrder(b), KeyCount(b) < MAX_KEY,
         NEW e \in Pairs, NEW k \in Int
  PROVE  ChildPtr(Inserted(b, e), k) =
           IF e.key <= k /\ \A i \in 0 .. KeyCount(b) - 1 :
                              ~(e.key < b.slot[i].key /\ b.slot[i].key <= k)
           THEN e.pid ELSE ChildPtr(b, k)
<1> DEFINE all == WithPair(b, e)
           at  == ScanEnd(b, e.key)
           n   == KeyCount(b)
           s   == ScanEnd(b, k)
           t   == IF e.key <= k THEN s + 1 ELSE s
           c   == Inserted(b, e)
           New == e.key <= k /\ \A i \in 0 .. n - 1 :
                                  ~(e.key < b.slot[i].key /\ b.slot[i].key <= k)
<1>0. e.key \in Int /\ MAX_KEY \in Nat /\ n \in Nat /\ n < MAX_KEY
  BY NonLeafAssumption, KeyCountProp
<1>1. /\ at \in 0 .. n /\ s \in 0 .. n
      /\ \A i \in 0 .. at - 1 : all[i] = b.slot[i]
      /\ all[at] = e
      /\ \A i \in at + 1 .. n : all[i] = b.slot[i - 1]
  BY WithPairProp, ScanEndProp
<1>2. /\ e.key <= k => at <= s
      /\ ~(e.key <= k) => s <= at
      /\ t \in 0 .. n + 1
      /\ \A i \in 0 .. t - 1 : all[i].key <= k
      /\ t <= n => k < all[t].key
  BY ScanWithPair
<1>3. /\ \A i \in 0 .. n : all[i] \in Pairs
      /\ \A i \in n + 1 .. MAX_KEY : all[i] = Blank
  BY WithPairOrder
<1>4. c \in Inner
  BY InsertedOrder
<1>5. c.first = b.first /\ \A i \in Slots : c.slot[i] = all[i]
  BY DEF Inserted, Inner
<1>6. /\ \A i \in 0 .. at - 1 : b.slot[i].key <= e.key
      /\ \A i \in at .. n - 1 : e.key < b.slot[i].key
  BY <1>0, <1>1, BehindScan
<1>7. /\ \A i \in 0 .. s - 1 : b.slot[i].key <= k
      /\ \A i \in s .. n - 1 : k < b.slot[i].key
  BY <1>0, <1>1, BehindScan
<1>8. \A i \in 0 .. n - 1 : b.slot[i].key \in Int
  BY BehindScan
<1> HIDE DEF all, at, n, s, t, c
<1>9. ScanEnd(c, k) = t
  <2>1. t \in 0 .. MAX_KEY
    BY <1>0, <1>2
  <2>2. ASSUME NEW i \in Slots, i < t
        PROVE  c.slot[i].pid # NIL /\ c.slot[i].key <= k
    <3>1. i \in 0 .. n /\ i \in 0 .. t - 1
      BY <1>0, <1>2, <2>2 DEF Slots
    <3>2. all[i] \in Pairs /\ all[i].key <= k /\ c.slot[i] = all[i]
      BY <3>1, <1>2, <1>3, <1>5
    <3> QED BY <3>2, <1>4, SlotType
  <2>3. ASSUME t < MAX_KEY PROVE k < c.slot[t].key \/ c.slot[t].pid = NIL
    <3>1. t \in Slots /\ c.slot[t] = all[t]
      BY <1>0, <1>2, <1>5, <2>3 DEF Slots
    <3>2. CASE t <= n
      BY <3>1, <3>2, <1>2
    <3>3. CASE t = n + 1
      BY <3>1, <3>3, <1>0, <1>3 DEF Blank
    <3> QED BY <3>2, <3>3, <1>0, <1>2
  <2> QED BY <2>1, <2>2, <2>3, <1>4, ScanEndIs
<1>10. ChildPtr(c, k) = IF t = 0 THEN b.first ELSE all[t - 1].pid
  <2>1. t # 0 => t - 1 \in Slots
    BY <1>0, <1>2 DEF Slots
  <2> QED BY <2>1, <1>5, <1>9 DEF ChildPtr
<1>11. ChildPtr(b, k) = IF s = 0 THEN b.first ELSE b.slot[s - 1].pid
  BY DEF ChildPtr, s
<1>12. CASE e.key <= k /\ at = s
  <2>1. ASSUME NEW i \in 0 .. n - 1, e.key < b.slot[i].key, b.slot[i].key <= k PROVE FALSE
    <3>1. b.slot[i].key \in Int
      BY <1>8
    <3>2. CASE i < at
      <4>1. b.slot[i].key <= e.key
        BY <3>2, <1>1, <1>6
      <4> QED BY <4>1, <3>1, <2>1, <1>0
    <3>3. CASE at <= i
      <4>1. k < b.slot[i].key
        BY <3>3, <1>1, <1>7, <1>12
      <4> QED BY <4>1, <3>1, <2>1
    <3> QED BY <3>2, <3>3, <1>1
  <2>2. New
    BY <2>1, <1>12
  <2>3. t = s + 1 /\ t - 1 = at /\ t # 0
    BY <1>1, <1>12 DEF t
  <2>4. ChildPtr(c, k) = e.pid
    BY <2>3, <1>1, <1>10
  <2> QED BY <2>2, <2>4 DEF c, n
<1>13. CASE e.key <= k /\ at # s
  <2>1. at < s /\ at \in 0 .. s - 1 /\ at \in at .. n - 1 /\ at \in 0 .. n - 1
    BY <1>0, <1>1, <1>2, <1>13
  <2>2. b.slot[at].key <= k
    BY <2>1, <1>7
  <2>3. e.key < b.slot[at].key
    BY <2>1, <1>6
  <2>4. ~New
    BY <2>1, <2>2, <2>3
  <2>5. t = s + 1 /\ t - 1 = s /\ t # 0 /\ s # 0 /\ s \in at + 1 .. n
    BY <2>1, <1>0, <1>1, <1>13 DEF t
  <2>6. ChildPtr(c, k) = ChildPtr(b, k)
    BY <2>5, <1>1, <1>10, <1>11
  <2> QED BY <2>4, <2>6 DEF c, n
<1>14. CASE ~(e.key <= k)
  <2>1. ~New
    BY <1>14
  <2>2. t = s /\ (s # 0 => s - 1 \in 0 .. at - 1)
    BY <1>0, <1>1, <1>2, <1>14 DEF t
  <2>3. ChildPtr(c, k) = ChildPtr(b, k)
    BY <2>2, <1>1, <1>10, <1>11
  <2> QED BY <2>1, <2>3 DEF c, n
<1> QED BY <1>12, <1>13, <1>14

-----------------------------------------------------------------------------
(* insertAndSplit() *)

LEMMA HalfProp == /\ MAX_KEY \in Nat /\ MAX_KEY > 0
                  /\ Half \in Nat /\ 0 < Half /\ Half <= MAX_KEY
BY NonLeafAssumption DEF Half

(* What a full node splits into: the pairs before the middle one stay, the *)
(* ones after it go to the sibling, and nothing follows either.            *)
LEMMA SplitProp ==
  ASSUME NEW b \in Inner, InOrder(b), KeyCount(b) = MAX_KEY, NEW e \in Pairs,
         NEW m \in Inner, InOrder(m), KeyCount(m) = 0
  PROVE  LET all == WithPair(b, e)
             s   == Split(b, e, m)
         IN /\ \A i \in 0 .. MAX_KEY : all[i] \in Pairs
            /\ \A i, j \in 0 .. MAX_KEY : i < j => all[i].key <= all[j].key
            /\ s.node.first = b.first /\ s.sibling.first = all[Half].pid
            /\ s.midKey = all[Half].key
            /\ \A i \in 0 .. Half - 1 : s.node.slot[i] = all[i]
            /\ \A i \in Slots : i >= Half => s.node.slot[i] = Blank
            /\ \A i \in 0 .. MAX_KEY - Half - 1 : s.sibling.slot[i] = all[Half + 1 + i]
            /\ \A i \in Slots : i >= MAX_KEY - Half => s.sibling.slot[i] = Blank
            /\ s.node \in Inner /\ s.sibling \in Inner
<1> DEFINE all == WithPair(b, e)
           nd  == NodeOf(b, all)
           sb  == SiblingOf(all, m)
<1>1. /\ \A i \in 0 .. MAX_KEY : all[i] \in Pairs
      /\ \A i, j \in 0 .. MAX_KEY : i < j => all[i].key <= all[j].key
  BY WithPairOrder
<1>2. \A i \in Slots : m.slot[i] = Blank
  BY NonLeafAssumption DEF InOrder, Slots
<1> HIDE DEF all
<1>3. /\ nd = [first |-> b.first,
               slot |-> [i \in Slots |-> IF i < Half THEN all[i] ELSE Blank]]
      /\ sb = [first |-> all[Half].pid,
               slot |-> [i \in Slots |-> IF i < MAX_KEY - Half THEN all[Half + 1 + i]
                                                              ELSE Blank]]
  BY <1>2 DEF NodeOf, SiblingOf
<1> HIDE DEF nd, sb
<1>4. /\ nd.first = b.first /\ sb.first = all[Half].pid
      /\ \A i \in 0 .. Half - 1 : nd.slot[i] = all[i]
      /\ \A i \in Slots : i >= Half => nd.slot[i] = Blank
  BY <1>3, HalfProp DEF Slots
<1>5. /\ \A i \in 0 .. MAX_KEY - Half - 1 : sb.slot[i] = all[Half + 1 + i]
      /\ \A i \in Slots : i >= MAX_KEY - Half => sb.slot[i] = Blank
  BY <1>3, HalfProp DEF Slots
<1>6. nd \in Inner
  <2>1. \A i \in Slots : (IF i < Half THEN all[i] ELSE Blank) \in Pairs \cup {Blank}
    BY <1>1, HalfProp DEF Slots
  <2>2. b.first \in Children \cup {NIL}
    BY DEF Inner
  <2> QED BY <1>3, <2>1, <2>2 DEF Inner
<1>7. sb \in Inner
  <2>1. \A i \in Slots : (IF i < MAX_KEY - Half THEN all[Half + 1 + i] ELSE Blank)
                           \in Pairs \cup {Blank}
    <3> SUFFICES ASSUME NEW i \in Slots, i < MAX_KEY - Half
                 PROVE  all[Half + 1 + i] \in Pairs
      OBVIOUS
    <3>1. Half + 1 + i \in 0 .. MAX_KEY
      BY HalfProp DEF Slots
    <3> QED BY <3>1, <1>1
  <2>2. all[Half].pid \in Children \cup {NIL}
    <3>1. all[Half] \in Pairs
      BY <1>1, HalfProp
    <3> QED BY <3>1 DEF Children
  <2> QED BY <1>3, <2>1, <2>2 DEF Inner
<1> QED BY <1>1, <1>4, <1>5, <1>6, <1>7 DEF Split, all, nd, sb

(* Both halves are in order. *)
LEMMA SplitOrder ==
  ASSUME NEW b \in Inner, InOrder(b), KeyCount(b) = MAX_KEY, NEW e \in Pairs,
         NEW m \in Inner, InOrder(m), KeyCount(m) = 0
  PROVE  /\ KeyCount(Split(b, e, m).node) = Half
         /\ KeyCount(Split(b, e, m).sibling) = MAX_KEY - Half
         /\ InOrder(Split(b, e, m).node) /\ InOrder(Split(b, e, m).sibling)
<1> DEFINE all == WithPair(b, e)
           nd  == Split(b, e, m).node
           sb  == Split(b, e, m).sibling
<1>1. /\ \A i \in 0 .. MAX_KEY : all[i] \in Pairs
      /\ \A i, j \in 0 .. MAX_KEY : i < j => all[i].key <= all[j].key
      /\ nd.first = b.first /\ sb.first = all[Half].pid
      /\ \A i \in 0 .. Half - 1 : nd.slot[i] = all[i]
      /\ \A i \in Slots : i >= Half => nd.slot[i] = Blank
      /\ \A i \in 0 .. MAX_KEY - Half - 1 : sb.slot[i] = all[Half + 1 + i]
      /\ \A i \in Slots : i >= MAX_KEY - Half => sb.slot[i] = Blank
      /\ nd \in Inner /\ sb \in Inner
  BY SplitProp
<1> HIDE DEF all, nd, sb
<1>4. KeyCount(nd) = Half
  <2>1. Half \in 0 .. MAX_KEY
    BY HalfProp
  <2>2. ASSUME NEW i \in Slots, i < Half PROVE nd.slot[i].pid # NIL
    <3>1. i \in 0 .. Half - 1 /\ i \in 0 .. MAX_KEY
      BY <2>2, HalfProp DEF Slots
    <3>2. nd.slot[i] \in Pairs
      BY <3>1, <1>1
    <3> QED BY <3>2, <1>1, SlotType
  <2>3. Half < MAX_KEY => nd.slot[Half].pid = NIL
    BY <1>1, HalfProp DEF Slots, Blank
  <2> QED BY <1>1, <2>1, <2>2, <2>3, KeyCountIs
<1>5. KeyCount(sb) = MAX_KEY - Half
  <2>1. MAX_KEY - Half \in 0 .. MAX_KEY
    BY HalfProp
  <2>2. ASSUME NEW i \in Slots, i < MAX_KEY - Half PROVE sb.slot[i].pid # NIL
    <3>1. i \in 0 .. MAX_KEY - Half - 1 /\ Half + 1 + i \in 0 .. MAX_KEY
      BY <2>2, HalfProp DEF Slots
    <3>2. sb.slot[i] \in Pairs
      BY <3>1, <1>1
    <3> QED BY <3>2, <1>1, SlotType
  <2>3. sb.slot[MAX_KEY - Half].pid = NIL
    <3>1. MAX_KEY - Half \in Slots
      BY HalfProp DEF Slots
    <3> QED BY <3>1, <1>1, HalfProp DEF Blank
  <2> QED BY <1>1, <2>1, <2>2, <2>3, KeyCountIs
<1>6. InOrder(nd)
  <2>1. ASSUME NEW i \in 0 .. Half - 1, NEW j \in 0 .. Half - 1, i < j
        PROVE  nd.slot[i].key <= nd.slot[j].key
    <3>1. i \in 0 .. MAX_KEY /\ j \in 0 .. MAX_KEY
      BY HalfProp
    <3> QED BY <3>1, <2>1, <1>1
  <2> QED BY <2>1, <1>1, <1>4 DEF InOrder
<1>7. InOrder(sb)
  <2>1. ASSUME NEW i \in 0 .. MAX_KEY - Half - 1, NEW j \in 0 .. MAX_KEY - Half - 1, i < j
        PROVE  sb.slot[i].key <= sb.slot[j].key
    <3>1. /\ Half + 1 + i \in 0 .. MAX_KEY /\ Half + 1 + j \in 0 .. MAX_KEY
          /\ Half + 1 + i < Half + 1 + j
      BY <2>1, HalfProp
    <3>2. all[Half + 1 + i].key <= all[Half + 1 + j].key
      BY <3>1, <1>1
    <3> QED BY <3>2, <1>1
  <2> QED BY <2>1, <1>1, <1>5 DEF InOrder
<1> QED BY <1>4, <1>5, <1>6, <1>7 DEF nd, sb

(* SplitRoutes for one full node, one new pair and one search key *)
LEMMA SplitNodeRoutes ==
  ASSUME NEW b \in Inner, InOrder(b), KeyCount(b) = MAX_KEY, NEW e \in Pairs,
         NEW m \in Inner, InOrder(m), KeyCount(m) = 0, NEW k \in Int
  PROVE  LET s == Split(b, e, m)
         IN IF k < s.midKey
            THEN ChildPtr(s.node, k) = ChildAmong(b, WithPair(b, e), k)
            ELSE ChildPtr(s.sibling, k) = ChildAmong(b, WithPair(b, e), k)
<1> DEFINE all == WithPair(b, e)
           nd  == Split(b, e, m).node
           sb  == Split(b, e, m).sibling
           mid == Split(b, e, m).midKey
           t   == IF e.key <= k THEN ScanEnd(b, k) + 1 ELSE ScanEnd(b, k)
           S   == {i \in 0 .. MAX_KEY : k < all[i].key} \cup {MAX_KEY + 1}
<1>1. /\ \A i \in 0 .. MAX_KEY : all[i] \in Pairs
      /\ \A i, j \in 0 .. MAX_KEY : i < j => all[i].key <= all[j].key
      /\ nd.first = b.first /\ sb.first = all[Half].pid
      /\ mid = all[Half].key
      /\ \A i \in 0 .. Half - 1 : nd.slot[i] = all[i]
      /\ \A i \in Slots : i >= Half => nd.slot[i] = Blank
      /\ \A i \in 0 .. MAX_KEY - Half - 1 : sb.slot[i] = all[Half + 1 + i]
      /\ \A i \in Slots : i >= MAX_KEY - Half => sb.slot[i] = Blank
      /\ nd \in Inner /\ sb \in Inner
  BY SplitProp
<1>2. /\ t \in 0 .. MAX_KEY + 1
      /\ \A i \in 0 .. t - 1 : all[i].key <= k
      /\ t <= MAX_KEY => k < all[t].key
  BY ScanWithPair
<1>3. ChildAmong(b, all, k) = IF Least(S) = 0 THEN b.first ELSE all[Least(S) - 1].pid
  BY DEF ChildAmong
<1> HIDE DEF all, nd, sb, mid, t
<1>4. \A i \in 0 .. MAX_KEY : all[i].key \in Int /\ all[i].pid # NIL
  BY <1>1, NonLeafAssumption DEF NIL
<1>5. Least(S) = t
  <2>1. t \in S
    BY <1>2, HalfProp
  <2>2. ASSUME NEW j \in S, j < t PROVE FALSE
    <3>1. j \in 0 .. MAX_KEY /\ k < all[j].key
      BY <2>2, <1>2, HalfProp
    <3>2. j \in 0 .. t - 1
      BY <2>2, <3>1, <1>2, HalfProp
    <3>3. all[j].key <= k
      BY <3>2, <1>2
    <3>4. all[j].key \in Int
      BY <3>1, <1>4
    <3> QED BY <3>1, <3>3, <3>4
  <2>3. S \in SUBSET Nat
    BY HalfProp
  <2>4. \A j \in S : t <= j
    BY <2>1, <2>2, <2>3
  <2> HIDE DEF S
  <2> QED BY <2>1, <2>3, <2>4, LeastIs
<1>6. ChildAmong(b, all, k) = IF t = 0 THEN b.first ELSE all[t - 1].pid
  BY <1>3, <1>5
<1>7. CASE k < mid
  <2>1. t <= Half
    <3> SUFFICES ASSUME Half < t PROVE FALSE
      BY <1>2, HalfProp
    <3>1. Half \in 0 .. t - 1 /\ Half \in 0 .. MAX_KEY
      BY <1>2, HalfProp
    <3>2. all[Half].key <= k /\ k < all[Half].key
      BY <3>1, <1>1, <1>2, <1>7
    <3>3. all[Half].key \in Int
      BY <3>1, <1>4
    <3> QED BY <3>2, <3>3
  <2>2. ScanEnd(nd, k) = t
    <3>1. t \in 0 .. MAX_KEY
      BY <2>1, <1>2, HalfProp
    <3>2. ASSUME NEW i \in Slots, i < t
          PROVE  nd.slot[i].pid # NIL /\ nd.slot[i].key <= k
      <4>1. i \in 0 .. Half - 1 /\ i \in 0 .. t - 1 /\ i \in 0 .. MAX_KEY
        BY <2>1, <3>1, <3>2, HalfProp DEF Slots
      <4>2. nd.slot[i] = all[i]
        BY <4>1, <1>1
      <4>3. all[i].key <= k
        BY <4>1, <1>2
      <4>4. all[i].pid # NIL
        BY <4>1, <1>4
      <4> QED BY <4>2, <4>3, <4>4
    <3>3. ASSUME t < MAX_KEY PROVE k < nd.slot[t].key \/ nd.slot[t].pid = NIL
      <4>1. CASE t = Half
        <5>1. Half \in Slots
          BY <4>1, <3>3, HalfProp DEF Slots
        <5> QED BY <5>1, <4>1, <1>1, HalfProp DEF Blank
      <4>2. CASE t < Half
        <5>1. nd.slot[t] = all[t]
          BY <4>2, <1>1, <3>1, HalfProp
        <5>2. k < all[t].key
          BY <3>1, <1>2
        <5> QED BY <5>1, <5>2
      <4> QED BY <4>1, <4>2, <2>1, <1>2, HalfProp
    <3> QED BY <3>1, <3>2, <3>3, <1>1, ScanEndIs
  <2>3. t # 0 => nd.slot[t - 1] = all[t - 1]
    <3>1. t # 0 => t - 1 \in 0 .. Half - 1
      BY <2>1, <1>2, HalfProp
    <3> QED BY <3>1, <1>1
  <2>4. ChildPtr(nd, k) = ChildAmong(b, all, k)
    BY <2>2, <2>3, <1>1, <1>6 DEF ChildPtr
  <2> QED BY <2>4, <1>7 DEF nd, mid, all
<1>8. CASE ~(k < mid)
  <2> DEFINE u == t - Half - 1
  <2>1. Half < t
    <3> SUFFICES ASSUME t <= Half PROVE FALSE
      BY <1>2, HalfProp
    <3>1. t \in 0 .. MAX_KEY /\ Half \in 0 .. MAX_KEY
      BY <1>2, HalfProp
    <3>2. k < all[t].key
      BY <3>1, <1>2
    <3>3. t = Half \/ all[t].key <= all[Half].key
      BY <3>1, <1>1
    <3>4. all[t].key \in Int /\ all[Half].key \in Int
      BY <3>1, <1>4
    <3> QED BY <3>2, <3>3, <3>4, <1>1, <1>8
  <2>2. u \in 0 .. MAX_KEY - Half /\ u \in 0 .. MAX_KEY
    BY <2>1, <1>2, HalfProp
  <2>3. t = Half + 1 + u
    BY <2>1, <1>2, HalfProp
  <2> HIDE DEF u
  <2>4. ScanEnd(sb, k) = u
    <3>2. ASSUME NEW i \in Slots, i < u
          PROVE  sb.slot[i].pid # NIL /\ sb.slot[i].key <= k
      <4>1. /\ i \in 0 .. MAX_KEY - Half - 1 /\ Half + 1 + i \in 0 .. t - 1
            /\ Half + 1 + i \in 0 .. MAX_KEY
        BY <2>2, <2>3, <3>2, HalfProp DEF Slots
      <4>2. sb.slot[i] = all[Half + 1 + i]
        BY <4>1, <1>1
      <4>3. all[Half + 1 + i].key <= k
        BY <4>1, <1>2
      <4>4. all[Half + 1 + i].pid # NIL
        BY <4>1, <1>4
      <4> QED BY <4>2, <4>3, <4>4
    <3>3. ASSUME u < MAX_KEY PROVE k < sb.slot[u].key \/ sb.slot[u].pid = NIL
      <4>1. CASE u = MAX_KEY - Half
        <5>1. u \in Slots /\ u >= MAX_KEY - Half
          BY <4>1, <2>2, <3>3, HalfProp DEF Slots
        <5> QED BY <5>1, <1>1 DEF Blank
      <4>2. CASE u < MAX_KEY - Half
        <5>1. u \in 0 .. MAX_KEY - Half - 1 /\ t <= MAX_KEY
          BY <4>2, <2>2, <2>3, HalfProp
        <5>2. sb.slot[u] = all[t]
          BY <5>1, <2>3, <1>1
        <5>3. k < all[t].key
          BY <5>1, <1>2
        <5> QED BY <5>2, <5>3
      <4> QED BY <4>1, <4>2, <2>2, HalfProp
    <3> QED BY <2>2, <3>2, <3>3, <1>1, ScanEndIs
  <2>5. CASE u = 0
    <3>1. t - 1 = Half /\ t # 0
      BY <2>3, <2>5, HalfProp
    <3>2. ChildPtr(sb, k) = ChildAmong(b, all, k)
      BY <3>1, <2>4, <2>5, <1>1, <1>6 DEF ChildPtr
    <3> QED BY <3>2, <1>8 DEF sb, mid, all
  <2>6. CASE u # 0
    <3>1. u - 1 \in 0 .. MAX_KEY - Half - 1 /\ t - 1 = Half + 1 + (u - 1) /\ t # 0
      BY <2>2, <2>3, <2>6, HalfProp
    <3>2. sb.slot[u - 1] = all[t - 1]
      BY <3>1, <1>1
    <3>3. ChildPtr(sb, k) = ChildAmong(b, all, k)
      BY <3>1, <3>2, <2>4, <2>6, <1>6 DEF ChildPtr
    <3> QED BY <3>3, <1>8 DEF sb, mid, all
  <2> QED BY <2>5, <2>6
<1> QED BY <1>7, <1>8

-----------------------------------------------------------------------------
(* The nodes and the pages they are saved on *)

LEMMA EmptyNodeProp == EmptyNode \in Inner /\ KeyCount(EmptyNode) = 0 /\ InOrder(EmptyNode)
<1>1. EmptyNode \in Inner
  BY DEF EmptyNode, Inner
<1>2. KeyCount(EmptyNode) = 0
  <2>1. EmptyNode.slot[0].pid = NIL
    BY NonLeafAssumption DEF EmptyNode, Blank, Slots
  <2> QED BY <1>1, <2>1, NonLeafAssumption, KeyCountIs DEF Slots
<1>3. \A i \in Slots : EmptyNode.slot[i] = Blank
  BY DEF EmptyNode
<1> QED BY <1>1, <1>2, <1>3 DEF InOrder

LEMMA RootProp ==
  ASSUME NEW p \in Children, NEW e \in Pairs
  PROVE  Root(p, e) \in Inner /\ InOrder(Root(p, e))
<1> DEFINE r == Root(p, e)
<1>1. r = [first |-> p, slot |-> [i \in Slots |-> IF i = 0 THEN e ELSE Blank]]
  BY DEF Root, EmptyNode
<1> HIDE DEF r
<1>2. r \in Inner
  BY <1>1 DEF Inner
<1>3. KeyCount(r) = 1
  <2>1. 1 \in 0 .. MAX_KEY /\ MAX_KEY \in Nat
    BY NonLeafAssumption
  <2>2. \A i \in Slots : i < 1 => r.slot[i].pid # NIL
    <3>1. r.slot[0] = e /\ e.pid # NIL
      BY <1>1, <2>1, NonLeafAssumption DEF Slots, NIL
    <3> QED BY <3>1 DEF Slots
  <2>3. 1 < MAX_KEY => r.slot[1].pid = NIL
    BY <1>1, <2>1 DEF Slots, Blank
  <2> QED BY <1>2, <2>1, <2>2, <2>3, KeyCountIs
<1>4. \A i \in Slots : i >= 1 => r.slot[i] = Blank
  BY <1>1 DEF Slots
<1>5. InOrder(r)
  BY <1>1, <1>3, <1>4 DEF InOrder
<1> QED BY <1>2, <1>5 DEF r

(* The order of a node is what makes its scans right, and saving nodes     *)
(* needs it of the pages as well: together they are inductive.             *)
NodeInv == TypeOK /\ NodesInOrder

LEMMA NodeInvInit == Init => NodeInv
<1> SUFFICES ASSUME Init PROVE NodeInv
  OBVIOUS
<1> USE EmptyNodeProp
<1>1. TypeOK
  <2>1. page \in [IndexFiles -> [PF!Pids -> Inner]]
    BY DEF Init, PF!Init
  <2>2. size \in [IndexFiles -> PF!Absent .. MaxPid + 1]
    BY NonLeafAssumption DEF Init, PF!Init, PF!Absent
  <2> QED BY <2>1, <2>2 DEF Init, TypeOK, Rcs, PF!Init
<1>2. NodesInOrder
  BY DEF Init, NodesInOrder, PF!Init, PF!Absent
<1> QED BY <1>1, <1>2 DEF NodeInv

(* A step that saves no page and leaves every node in order keeps it all. *)
LEMMA NodeStep ==
  ASSUME NodeInv, UNCHANGED pfVars, rc' \in Rcs, node' \in [Nodes -> Inner],
         \A n \in Nodes : node'[n] = node[n] \/ InOrder(node'[n])
  PROVE  NodeInv'
<1>1. TypeOK'
  BY DEF NodeInv, TypeOK, pfVars
<1>2. \A n \in Nodes : InOrder(node'[n])
  BY DEF NodeInv, NodesInOrder
<1>3. \A f \in IndexFiles : \A p \in 0 .. size'[f] - 1 : InOrder(page'[f][p])
  BY DEF NodeInv, NodesInOrder, pfVars
<1>4. NodesInOrder'
  BY <1>2, <1>3 DEF NodesInOrder, InOrder, KeyCount, Least
<1> QED BY <1>1, <1>4 DEF NodeInv

LEMMA InsertStep ==
  ASSUME NodeInv, NEW n \in Nodes, NEW e \in Pairs, Insert(n, e)
  PROVE  NodeInv'
<1>1. node \in [Nodes -> Inner] /\ node[n] \in Inner /\ InOrder(node[n])
  BY DEF NodeInv, TypeOK, NodesInOrder
<1>2. Inserted(node[n], e) \in Inner /\ InOrder(Inserted(node[n], e))
  BY <1>1, InsertedOrder DEF Insert
<1>3. node' = [node EXCEPT ![n] = Inserted(node[n], e)]
  BY DEF Insert
<1>4. \A h \in Nodes : node'[h] = node[h] \/ InOrder(node'[h])
  BY <1>1, <1>2, <1>3
<1>5. node' \in [Nodes -> Inner]
  BY <1>1, <1>2, <1>3
<1> QED BY <1>4, <1>5, NodeStep DEF Insert, Rcs

LEMMA SplitStep ==
  ASSUME NodeInv, NEW n \in Nodes, NEW m \in Nodes, NEW e \in Pairs,
         InsertAndSplit(n, e, m)
  PROVE  NodeInv'
<1> DEFINE s == Split(node[n], e, node[m])
<1>1. /\ node \in [Nodes -> Inner]
      /\ node[n] \in Inner /\ InOrder(node[n])
      /\ node[m] \in Inner /\ InOrder(node[m])
  BY DEF NodeInv, TypeOK, NodesInOrder
<1>2. KeyCount(node[n]) = MAX_KEY /\ KeyCount(node[m]) = 0
  BY <1>1, KeyCountProp, NonLeafAssumption DEF InsertAndSplit
<1>3. s.node \in Inner /\ s.sibling \in Inner
  BY <1>1, <1>2, SplitProp
<1>4. InOrder(s.node) /\ InOrder(s.sibling)
  BY <1>1, <1>2, SplitOrder
<1>5. node' = [node EXCEPT ![n] = s.node, ![m] = s.sibling]
  BY DEF InsertAndSplit
<1> HIDE DEF s
<1>6. \A h \in Nodes : node'[h] = node[h] \/ InOrder(node'[h])
  BY <1>1, <1>4, <1>5
<1>7. node' \in [Nodes -> Inner]
  BY <1>1, <1>3, <1>5
<1> QED BY <1>6, <1>7, NodeStep DEF InsertAndSplit, Rcs

LEMMA ReadStep ==
  ASSUME NodeInv, NEW n \in Nodes, NEW p \in PF!Pids, Read(n, p)
  PROVE  NodeInv'
<1> DEFINE f == opened[pf]
<1>1. /\ node \in [Nodes -> Inner] /\ f \in IndexFiles
      /\ page[f][p] \in Inner
  BY DEF NodeInv, TypeOK, Read
<1>2. CASE PF!Read(pf, p, page[f][p]) /\ node' = [node EXCEPT ![n] = page[f][p]] /\ rc' = "OK"
  <2>1. p < size[f] /\ p \in Nat /\ size[f] \in Int
    BY <1>1, <1>2, NonLeafAssumption DEF PF!Read, PF!Pids, PF!Absent, NodeInv, TypeOK
  <2>2. InOrder(page[f][p])
    BY <2>1, <1>1 DEF NodeInv, NodesInOrder
  <2>3. NodesInOrder'
    <3>1. \A h \in Nodes : InOrder(node'[h])
      BY <1>1, <1>2, <2>2 DEF NodeInv, NodesInOrder
    <3>2. \A g \in IndexFiles : \A q \in 0 .. size'[g] - 1 : InOrder(page'[g][q])
      BY <1>2 DEF NodeInv, NodesInOrder, PF!Read
    <3> QED BY <3>1, <3>2 DEF NodesInOrder, InOrder, KeyCount, Least
  <2>4. TypeOK'
    BY <1>1, <1>2 DEF NodeInv, TypeOK, Rcs, PF!Read, PF!handles
  <2> QED BY <2>3, <2>4 DEF NodeInv
<1>3. ASSUME NEW r \in {"RC_INVALID_PID", "RC_FILE_SEEK_FAILED", "RC_FILE_READ_FAILED"},
             PF!ReadFails(pf, p, r), rc' = r, UNCHANGED node
      PROVE  NodeInv'
  <2>1. NodesInOrder'
    BY <1>3 DEF NodeInv, NodesInOrder, PF!ReadFails
  <2>2. TypeOK'
    BY <1>3 DEF NodeInv, TypeOK, Rcs, PF!ReadFails
  <2> QED BY <2>1, <2>2 DEF NodeInv
<1> QED BY <1>2, <1>3 DEF Read

LEMMA WriteStep ==
  ASSUME NodeInv, NEW n \in Nodes, NEW p \in PF!Pids, Write(n, p)
  PROVE  NodeInv'
<1> DEFINE f == opened[pf]
<1>1. /\ node \in [Nodes -> Inner] /\ node[n] \in Inner /\ InOrder(node[n])
      /\ f \in IndexFiles /\ UNCHANGED node
      /\ p <= size[f] /\ p \in 0 .. MaxPid /\ size \in [IndexFiles -> -1 .. MaxPid + 1]
      /\ page \in [IndexFiles -> [0 .. MaxPid -> Inner]]
  BY DEF NodeInv, TypeOK, NodesInOrder, Write, PF!Pids, PF!Absent
<1>2. CASE PF!Write(pf, p, node[n]) /\ rc' = "OK"
  <2>1. /\ page' = [page EXCEPT ![f] = [page[f] EXCEPT ![p] = node[n]]]
        /\ size' = [size EXCEPT ![f] = IF p >= size[f] THEN p + 1 ELSE size[f]]
        /\ UNCHANGED opened
    BY <1>2 DEF PF!Write
  <2>2. TypeOK'
    <3>1. page' \in [IndexFiles -> [0 .. MaxPid -> Inner]]
      BY <1>1, <2>1
    <3>2. size' \in [IndexFiles -> -1 .. MaxPid + 1]
      <4>1. (IF p >= size[f] THEN p + 1 ELSE size[f]) \in -1 .. MaxPid + 1
        BY <1>1, NonLeafAssumption
      <4> QED BY <4>1, <1>1, <2>1
    <3> QED BY <3>1, <3>2, <1>1, <1>2, <2>1 DEF NodeInv, TypeOK, Rcs, PF!Pids, PF!Absent
  <2>3. NodesInOrder'
    <3>1. ASSUME NEW g \in IndexFiles, NEW q \in 0 .. size'[g] - 1
          PROVE  InOrder(page'[g][q])
      <4>1. CASE g = f /\ q = p
        BY <4>1, <1>1, <2>1
      <4>2. CASE ~(g = f /\ q = p)
        <5>1. page'[g][q] = page[g][q]
          BY <4>2, <1>1, <2>1
        <5>2. q \in 0 .. size[g] - 1
          BY <4>2, <1>1, <2>1
        <5> QED BY <5>1, <5>2 DEF NodeInv, NodesInOrder
      <4> QED BY <4>1, <4>2
    <3>2. \A h \in Nodes : InOrder(node'[h])
      BY <1>1 DEF NodeInv, NodesInOrder
    <3> QED BY <3>1, <3>2 DEF NodesInOrder, InOrder, KeyCount, Least
  <2> QED BY <2>2, <2>3 DEF NodeInv
<1>3. ASSUME NEW r \in {"RC_INVALID_PID", "RC_FILE_SEEK_FAILED", "RC_FILE_WRITE_FAILED"},
             PF!WriteFails(pf, p, r), rc' = r
      PROVE  NodeInv'
  <2>1. NodesInOrder'
    BY <1>1, <1>3 DEF NodeInv, NodesInOrder, PF!WriteFails
  <2>2. TypeOK'
    BY <1>1, <1>3 DEF NodeInv, TypeOK, Rcs, PF!WriteFails, PF!handles
  <2> QED BY <2>1, <2>2 DEF NodeInv
<1> QED BY <1>2, <1>3 DEF Write

LEMMA NodeInvNext == NodeInv /\ [Next]_vars => NodeInv'
<1> SUFFICES ASSUME NodeInv, [Next]_vars PROVE NodeInv'
  OBVIOUS
<1>1. node \in [Nodes -> Inner]
  BY DEF NodeInv, TypeOK
<1>2. ASSUME NEW n \in Nodes, Construct(n) PROVE NodeInv'
  <2>1. \A h \in Nodes : node'[h] = node[h] \/ InOrder(node'[h])
    BY <1>1, <1>2, EmptyNodeProp DEF Construct
  <2>2. node' \in [Nodes -> Inner]
    BY <1>1, <1>2, EmptyNodeProp DEF Construct
  <2> QED BY <2>1, <2>2, <1>2, NodeStep DEF Construct, Rcs
<1>3. ASSUME NEW n \in Nodes, InsertRefused(n) PROVE NodeInv'
  BY <1>1, <1>3, NodeStep DEF InsertRefused, Rcs
<1>4. ASSUME NEW n \in Nodes, NEW p \in Children, NEW e \in Pairs, InitializeRoot(n, p, e)
      PROVE  NodeInv'
  <2>1. Root(p, e) \in Inner /\ InOrder(Root(p, e))
    BY RootProp
  <2>2. \A h \in Nodes : node'[h] = node[h] \/ InOrder(node'[h])
    BY <1>1, <1>4, <2>1 DEF InitializeRoot
  <2>3. node' \in [Nodes -> Inner]
    BY <1>1, <1>4, <2>1 DEF InitializeRoot
  <2> QED BY <2>2, <2>3, <1>4, NodeStep DEF InitializeRoot, Rcs
<1>5. ASSUME NEW n \in Nodes, NEW e \in Pairs, Insert(n, e) PROVE NodeInv'
  BY <1>5, InsertStep
<1>6. ASSUME NEW n \in Nodes, NEW m \in Nodes, NEW e \in Pairs, InsertAndSplit(n, e, m)
      PROVE  NodeInv'
  BY <1>6, SplitStep
<1>7. ASSUME NEW n \in Nodes, NEW m \in Nodes, InsertAndSplitRefused(n, m) PROVE NodeInv'
  BY <1>1, <1>7, NodeStep DEF InsertAndSplitRefused, Rcs
<1>8. ASSUME NEW n \in Nodes, NEW p \in PF!Pids, Read(n, p) PROVE NodeInv'
  BY <1>8, ReadStep
<1>9. ASSUME NEW n \in Nodes, NEW p \in PF!Pids, Write(n, p) PROVE NodeInv'
  BY <1>9, WriteStep
<1>10. ASSUME NEW f \in IndexFiles, OpenIndex(f) PROVE NodeInv'
  <2>1. size' = size \/ (size[f] = -1 /\ size' = [size EXCEPT ![f] = 0])
    BY <1>10 DEF OpenIndex, PF!Open, PF!MayCreate, PF!Absent
  <2>2. /\ size \in [IndexFiles -> -1 .. MaxPid + 1]
        /\ UNCHANGED <<page, node, rc>> /\ opened' = [opened EXCEPT ![pf] = f]
    BY <1>10 DEF OpenIndex, PF!Open, PF!Absent, NodeInv, TypeOK
  <2>3. TypeOK'
    <3>1. size' \in [IndexFiles -> -1 .. MaxPid + 1]
      BY <2>1, <2>2, NonLeafAssumption
    <3> QED BY <3>1, <2>2 DEF NodeInv, TypeOK, PF!Absent
  <2>4. NodesInOrder'
    <3>1. ASSUME NEW g \in IndexFiles, NEW q \in 0 .. size'[g] - 1
          PROVE  InOrder(page'[g][q])
      <4>1. q \in 0 .. size[g] - 1
        BY <2>1, <2>2
      <4> QED BY <4>1, <2>2 DEF NodeInv, NodesInOrder
    <3>2. \A h \in Nodes : InOrder(node'[h])
      BY <2>2 DEF NodeInv, NodesInOrder
    <3> QED BY <3>1, <3>2 DEF NodesInOrder, InOrder, KeyCount, Least
  <2> QED BY <2>3, <2>4 DEF NodeInv
<1>11. CASE Restart
  <2>1. UNCHANGED <<page, size>> /\ opened' = [h \in {pf} |-> NoFile]
        /\ node' = [n \in Nodes |-> EmptyNode] /\ rc' = "OK"
    BY <1>11 DEF Restart, PF!Restart
  <2>2. TypeOK'
    BY <2>1, EmptyNodeProp DEF NodeInv, TypeOK, Rcs
  <2>3. NodesInOrder'
    <3>1. \A h \in Nodes : InOrder(node'[h])
      BY <2>1, EmptyNodeProp
    <3>2. \A g \in IndexFiles : \A q \in 0 .. size'[g] - 1 : InOrder(page'[g][q])
      BY <2>1 DEF NodeInv, NodesInOrder
    <3> QED BY <3>1, <3>2 DEF NodesInOrder, InOrder, KeyCount, Least
  <2> QED BY <2>2, <2>3 DEF NodeInv
<1>12. CASE UNCHANGED vars
  BY <1>12, <1>1, NodeStep DEF vars, NodeInv, TypeOK
<1> QED
  BY <1>2, <1>3, <1>4, <1>5, <1>6, <1>7, <1>8, <1>9, <1>10, <1>11, <1>12 DEF Next

-----------------------------------------------------------------------------
(* The theorems *)

LEMMA NodeInvariant == Spec => []NodeInv
BY NodeInvInit, NodeInvNext, PTL DEF Spec

(* Nodes, pages and return codes have their types, whatever fails and      *)
(* whenever the process ends.                                              *)
THEOREM TypeCorrect == Spec => []TypeOK
<1>1. NodeInv => TypeOK
  BY DEF NodeInv
<1> QED BY <1>1, NodeInvariant, PTL

(* What every scan relies on: in every node, and in every page that can be *)
(* read back, the pairs in use come first and in key order, and nothing is *)
(* left behind them.                                                       *)
THEOREM OrderIsKept == Spec => []NodesInOrder
<1>1. NodeInv => NodesInOrder
  BY DEF NodeInv
<1> QED BY <1>1, NodeInvariant, PTL

LEMMA KeysAreInts == Keys \subseteq Int
BY NonLeafAssumption DEF Keys

(* insert() sends searches from the new key up to the next one to the new  *)
(* child, and changes no other.                                            *)
THEOREM InsertedPairRoutes == Spec => []InsertRoutes
<1>1. NodeInv => InsertRoutes
  <2> SUFFICES ASSUME NodeInv, NEW n \in Nodes, NEW e \in Pairs, NEW k \in Keys,
                      KeyCount(node[n]) < MAX_KEY
               PROVE  ChildPtr(Inserted(node[n], e), k) =
                        IF e.key <= k /\ \A i \in 0 .. KeyCount(node[n]) - 1 :
                             ~(e.key < node[n].slot[i].key /\ node[n].slot[i].key <= k)
                        THEN e.pid ELSE ChildPtr(node[n], k)
    BY DEF InsertRoutes
  <2>1. node[n] \in Inner /\ InOrder(node[n])
    BY DEF NodeInv, TypeOK, NodesInOrder
  <2>2. k \in Int
    BY KeysAreInts
  <2> QED BY <2>1, <2>2, InsertedRoutes
<1> QED BY <1>1, NodeInvariant, PTL

(* insertAndSplit(): with midKey between the two nodes every search leads  *)
(* to the child it would lead to in one node with room for the pair.       *)
THEOREM SplitKeepsRoutes == Spec => []SplitRoutes
<1>1. NodeInv => SplitRoutes
  <2> SUFFICES ASSUME NodeInv, NEW n \in Nodes, NEW m \in Nodes, NEW e \in Pairs,
                      NEW k \in Keys, KeyCount(node[n]) = MAX_KEY, KeyCount(node[m]) = 0
               PROVE  LET s == Split(node[n], e, node[m])
                      IN IF k < s.midKey
                         THEN ChildPtr(s.node, k) =
                                ChildAmong(node[n], WithPair(node[n], e), k)
                         ELSE ChildPtr(s.sibling, k) =
                                ChildAmong(node[n], WithPair(node[n], e), k)
    BY DEF SplitRoutes
  <2>1. /\ node[n] \in Inner /\ InOrder(node[n])
        /\ node[m] \in Inner /\ InOrder(node[m])
    BY DEF NodeInv, TypeOK, NodesInOrder
  <2>2. k \in Int
    BY KeysAreInts
  <2> QED BY <2>1, <2>2, SplitNodeRoutes
<1> QED BY <1>1, NodeInvariant, PTL
=============================================================================
