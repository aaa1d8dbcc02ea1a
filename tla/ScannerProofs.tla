----------------------------- MODULE ScannerProofs -----------------------------
(***************************************************************************)
(* Proofs about Scanner, for any text, however it is cut up by reads, and  *)
(* any size of the buffer: the pointers stay in the buffer, no character   *)
(* is lost or comes twice, each token begins where the last one ended and  *)
(* is the longest match there, and nothing is read that need not be.       *)
(***************************************************************************)
EXTENDS Scanner, SequenceTheorems, FiniteSetTheorems, WellFoundedInduction, TLAPS

(* A set of naturals that is not empty has a least element. *)
LEMMA LeastElementExists ==
  ASSUME NEW S \in SUBSET Nat, S # {}
  PROVE  \E i \in S : \A j \in S : i <= j
<1> DEFINE R == {ss \in Nat \X Nat : ss[1] < ss[2]}
<1>1. IsWellFoundedOn(R, Nat)
  BY NatLessThanWellFounded DEF OpToRel
<1>2. PICK i \in S : \A j \in S : <<j, i>> \notin R
  <2> HIDE DEF R
  <2> QED BY <1>1, WFMin
<1>3. \A j \in S : ~(j < i)
  BY <1>2
<1> QED BY <1>3

-----------------------------------------------------------------------------
(* What the proofs need to know of the tables, row by row *)

States  == 1 .. JamState
Classes == 0 .. 53
EobState == 3   \* the state that a NUL leads to

LEMMA TableTypes ==
  /\ yy_accept \in [0 .. 112 -> 0 .. 27]
  /\ yy_base \in [0 .. 114 -> 0 .. 145]
  /\ yy_def \in [0 .. 114 -> {0, 1, 112, 113, 114}]
  /\ yy_meta \in [Classes -> 0 .. 2]
<1>1. yy_accept \in [0 .. 112 -> 0 .. 27]
  BY SMTT(60) DEF yy_accept, From0
<1>2. yy_base \in [0 .. 114 -> 0 .. 145]
  <2>1. \A s \in 0 .. 29 : yy_base[s] \in 0 .. 145
    BY SMTT(60) DEF yy_base, From0
  <2>2. \A s \in 30 .. 59 : yy_base[s] \in 0 .. 145
    BY SMTT(60) DEF yy_base, From0
  <2>3. \A s \in 60 .. 89 : yy_base[s] \in 0 .. 145
    BY SMTT(60) DEF yy_base, From0
  <2>4. \A s \in 90 .. 114 : yy_base[s] \in 0 .. 145
    BY SMTT(60) DEF yy_base, From0
  <2>5. yy_base = [s \in 0 .. 114 |-> yy_base[s]]
    BY SMTT(60) DEF yy_base, From0
  <2>6. \A s \in 0 .. 114 : yy_base[s] \in 0 .. 145
    BY <2>1, <2>2, <2>3, <2>4
  <2> QED BY <2>5, <2>6
<1>3. yy_def \in [0 .. 114 -> {0, 1, 112, 113, 114}]
  BY SMTT(60) DEF yy_def, From0
<1>4. yy_meta \in [Classes -> 0 .. 2]
  BY SMTT(60) DEF yy_meta, From0, Classes
<1> QED BY <1>1, <1>2, <1>3, <1>4

LEMMA NextRange == \A i \in 1 .. 198 : yy_nxt[i] \in States
BY SMTT(60) DEF yy_nxt, From0, States, JamState

LEMMA AcceptRows ==
  /\ yy_accept[1] = 0 /\ yy_accept[JamState] = 0
  /\ \A s \in 0 .. 112 : yy_accept[s] = YY_END_OF_BUFFER <=> s = EobState
<1>1. yy_accept[1] = 0 /\ yy_accept[112] = 0
  BY SMTT(60) DEF yy_accept, From0
<1>2. \A s \in 0 .. 112 : yy_accept[s] = 27 <=> s = 3
  BY SMTT(60) DEF yy_accept, From0
<1> QED BY <1>1, <1>2 DEF JamState, EobState, YY_END_OF_BUFFER

LEMMA BaseRows ==
  /\ yy_base[1] = 0 /\ yy_base[3] = 144
  /\ yy_base[112] = 145 /\ yy_base[113] = 59 /\ yy_base[114] = 60
BY SMTT(60) DEF yy_base, From0

LEMMA DefaultRows ==
  /\ yy_def[1] = 112 /\ yy_def[3] = 112 /\ yy_def[113] = 112 /\ yy_def[114] = 112
  /\ \A s \in 2 .. 111 : yy_def[s] \in {1, 112, 113, 114}
<1>1. yy_def[1] = 112 /\ yy_def[3] = 112 /\ yy_def[113] = 112 /\ yy_def[114] = 112
  BY SMTT(60) DEF yy_def, From0
<1>2. \A s \in 2 .. 111 : yy_def[s] \in {1, 112, 113, 114}
  BY SMTT(60) DEF yy_def, From0
<1> QED BY <1>1, <1>2

LEMMA MetaRows == yy_meta[0] = 0 /\ \A c \in 1 .. 53 : yy_meta[c] # 0
<1>1. yy_meta[0] = 0
  BY SMTT(60) DEF yy_meta, From0
<1>2. \A c \in 1 .. 53 : yy_meta[c] # 0
  BY SMTT(60) DEF yy_meta, From0
<1> QED BY <1>1, <1>2

LEMMA JamRow ==
  /\ \A i \in 145 .. 198 : yy_chk[i] = 112
  /\ \A i \in 146 .. 198 : yy_nxt[i] = 112
  /\ yy_chk[144] = 3 /\ yy_nxt[144] = 112
  /\ \A i \in 0 .. 198 : yy_nxt[i] = 3 <=> i = 145
<1>1. \A i \in 145 .. 198 : yy_chk[i] = 112
  BY SMTT(60) DEF yy_chk, From0
<1>2. \A i \in 146 .. 198 : yy_nxt[i] = 112
  BY SMTT(60) DEF yy_nxt, From0
<1>3. yy_chk[144] = 3
  BY SMTT(60) DEF yy_chk, From0
<1>4. yy_nxt[144] = 112
  BY SMTT(60) DEF yy_nxt, From0
<1>5. \A i \in 0 .. 198 : yy_nxt[i] = 3 <=> i = 145
  BY SMTT(60) DEF yy_nxt, From0
<1> QED BY <1>1, <1>2, <1>3, <1>4, <1>5

(* Every character that begins a token is one, if nothing better is found. *)
LEMMA FirstRow ==
  /\ yy_chk[0] = 0 /\ \A c \in 1 .. 53 : yy_chk[c] = 1
  /\ yy_nxt[1] = 4
  /\ \A c \in 1 .. 53 : yy_accept[yy_nxt[c]] # 0
<1>1. yy_chk[0] = 0
  BY SMTT(60) DEF yy_chk, From0
<1>2. \A c \in 1 .. 53 : yy_chk[c] = 1
  BY SMTT(60) DEF yy_chk, From0
<1>3. yy_nxt[1] = 4
  BY SMTT(60) DEF yy_nxt, From0
<1>4. \A c \in 1 .. 53 : yy_nxt[c] \in 4 .. 37
  BY SMTT(60) DEF yy_nxt, From0
<1>5. \A s \in 4 .. 37 : yy_accept[s] # 0
  BY SMTT(60) DEF yy_accept, From0
<1> QED BY <1>1, <1>2, <1>3, <1>4, <1>5

(* No row but that of state 3 and the default's has an entry for NUL. *)
LEMMA NulColumn == \A s \in 1 .. 114 \ {3, 112} : yy_chk[yy_base[s]] # s
<1>1. \A s \in 1 .. 16 : s # 3 => yy_chk[yy_base[s]] # s
  BY SMTT(60) DEF yy_base, yy_chk, From0
<1>2. \A s \in 17 .. 32 : yy_chk[yy_base[s]] # s
  BY SMTT(60) DEF yy_base, yy_chk, From0
<1>3. \A s \in 33 .. 48 : yy_chk[yy_base[s]] # s
  BY SMTT(60) DEF yy_base, yy_chk, From0
<1>4. \A s \in 49 .. 64 : yy_chk[yy_base[s]] # s
  BY SMTT(60) DEF yy_base, yy_chk, From0
<1>5. \A s \in 65 .. 80 : yy_chk[yy_base[s]] # s
  BY SMTT(60) DEF yy_base, yy_chk, From0
<1>6. \A s \in 81 .. 96 : yy_chk[yy_base[s]] # s
  BY SMTT(60) DEF yy_base, yy_chk, From0
<1>7. \A s \in 97 .. 111 : yy_chk[yy_base[s]] # s
  BY SMTT(60) DEF yy_base, yy_chk, From0
<1>8. \A s \in 113 .. 114 : yy_chk[yy_base[s]] # s
  BY SMTT(60) DEF yy_base, yy_chk, From0
<1> QED BY <1>1, <1>2, <1>3, <1>4, <1>5, <1>6, <1>7, <1>8

LEMMA ClassRows ==
  /\ yy_ec \in [0 .. 255 -> Classes]
  /\ \A c \in 0 .. 255 : yy_ec[c] = 0 <=> c = NUL
<1>1. \A c \in 1 .. 255 : yy_ec[c] \in 1 .. 53
  <2>1. \A c \in 1 .. 47 : yy_ec[c] \in 1 .. 53
    BY SMTT(60) DEF yy_ec
  <2>2. \A c \in 48 .. 64 : yy_ec[c] \in 1 .. 53
    BY SMTT(60) DEF yy_ec
  <2>3. \A c \in 65 .. 90 : yy_ec[c] \in 1 .. 53
    BY SMTT(60) DEF yy_ec
  <2>4. \A c \in 91 .. 96 : yy_ec[c] \in 1 .. 53
    BY SMTT(60) DEF yy_ec
  <2>5. \A c \in 97 .. 122 : yy_ec[c] \in 1 .. 53
    BY SMTT(60) DEF yy_ec
  <2>6. \A c \in 123 .. 255 : yy_ec[c] \in 1 .. 53
    BY SMTT(60) DEF yy_ec
  <2> QED BY <2>1, <2>2, <2>3, <2>4, <2>5, <2>6, SMTT(40)
<1>2. yy_ec[0] = 0
  BY SMTT(60) DEF yy_ec
<1>3. yy_ec = [c \in 0 .. 255 |-> yy_ec[c]]
  BY DEF yy_ec
<1> QED BY <1>1, <1>2, <1>3, SMTT(40) DEF Classes, NUL

-----------------------------------------------------------------------------
(* NextState, whose recursion is at most three rows deep: the state's own, *)
(* that of its template or of state 1, the default's                       *)

HasEntry(s, c) == yy_chk[yy_base[s] + c] = s
Entry(s, c)    == yy_nxt[yy_base[s] + c]
Unfolded(s, c) ==
  LET u == yy_def[s]
      d == ClassIn(u, c)
  IN IF HasEntry(s, c) THEN Entry(s, c)
     ELSE IF HasEntry(u, d) THEN Entry(u, d) ELSE Entry(112, d)

LEMMA ClassStays ==
  ASSUME NEW s \in 0 .. 114, NEW c \in Classes
  PROVE  /\ ClassIn(s, c) \in Classes
         /\ ClassIn(s, c) = 0 <=> c = 0
         /\ s <= 112 => ClassIn(s, c) = c
BY TableTypes, MetaRows DEF ClassIn, Template, Classes

LEMMA DefaultHasAll == \A c \in Classes : HasEntry(112, c)
BY SMTT(30), BaseRows, JamRow DEF HasEntry, Classes

LEMMA UnfoldedFollows ==
  ASSUME NEW s \in 0 .. 114, NEW c \in Classes
  PROVE  /\ yy_def[s] \in 0 .. 114 /\ ClassIn(yy_def[s], c) \in Classes
         /\ Unfolded(s, c) = IF HasEntry(s, c) THEN Entry(s, c)
                             ELSE Unfolded(yy_def[s], ClassIn(yy_def[s], c))
<1> DEFINE u == yy_def[s]
           d == ClassIn(u, c)
<1>1. u \in {0, 1, 112, 113, 114} /\ d \in Classes
  BY TableTypes, ClassStays
<1>2. CASE HasEntry(s, c)
  BY <1>1, <1>2 DEF Unfolded
<1>3. CASE ~HasEntry(s, c) /\ HasEntry(u, d)
  BY <1>1, <1>3 DEF Unfolded
<1>4. CASE ~HasEntry(s, c) /\ ~HasEntry(u, d)
  <2>1. Unfolded(s, c) = Entry(112, d)
    BY <1>4 DEF Unfolded
  <2>2. CASE u \in {1, 113, 114}
    <3>1. yy_def[u] = 112 /\ ClassIn(112, d) = d
      BY <1>1, <2>2, DefaultRows, ClassStays
    <3> QED BY <1>1, <1>4, <2>1, <3>1, DefaultHasAll DEF Unfolded
  <2>3. CASE u = 112
    BY <1>1, <1>4, <2>3, DefaultHasAll
  <2>4. CASE u = 0
    <3>1. s \in {0, 112}
      BY <2>4, DefaultRows
    <3>2. s = 0
      BY <1>4, <3>1, DefaultHasAll
    <3>3. d = c
      BY <2>4, ClassStays
    <3> QED BY <1>1, <1>4, <2>1, <2>4, <3>2, <3>3 DEF Unfolded
  <2> QED BY <1>1, <2>2, <2>3, <2>4
<1> QED BY <1>1, <1>2, <1>3, <1>4

Follows(F) ==
  \A t \in 0 .. 114, d \in Classes :
    F[<<t, d>>] = IF HasEntry(t, d) THEN Entry(t, d)
                  ELSE F[<<yy_def[t], ClassIn(yy_def[t], d)>>]

LEMMA ThreeRows ==
  ASSUME NEW Follow, NEW s \in States, NEW c \in Classes, Follows(Follow)
  PROVE  Follow[<<s, c>>] = Unfolded(s, c)
<1>1. s \in 0 .. 114
  BY DEF States, JamState
<1>2. PICK u : u = yy_def[s]
  OBVIOUS
<1>3. PICK d : d = ClassIn(u, c)
  OBVIOUS
<1>4. u \in {0, 1, 112, 113, 114} /\ d \in Classes /\ (u = 0 => s = 112)
  <2>1. u \in {0, 1, 112, 113, 114}
    BY <1>1, <1>2, TableTypes
  <2>2. d \in Classes
    BY <1>3, <2>1, ClassStays
  <2>3. u = 0 => s = 112
    <3>1. s = 1 \/ s = 112 \/ s \in 2 .. 111
      BY DEF States, JamState
    <3>2. s = 1 => u = 112
      BY <1>2, DefaultRows
    <3>3. s \in 2 .. 111 => u # 0
      BY <1>2, DefaultRows
    <3> QED BY <3>1, <3>2, <3>3
  <2> QED BY <2>1, <2>2, <2>3
<1>5. Unfolded(s, c) = IF HasEntry(s, c) THEN Entry(s, c)
                       ELSE IF HasEntry(u, d) THEN Entry(u, d) ELSE Entry(112, d)
  BY <1>2, <1>3 DEF Unfolded
<1>6. Follow[<<s, c>>] = IF HasEntry(s, c) THEN Entry(s, c) ELSE Follow[<<u, d>>]
  BY <1>1, <1>2, <1>3 DEF Follows
<1>7. Follow[<<112, d>>] = Entry(112, d)
  <2>1. 112 \in 0 .. 114 /\ d \in Classes
    BY <1>4
  <2>2. Follow[<<112, d>>] = IF HasEntry(112, d) THEN Entry(112, d)
                             ELSE Follow[<<yy_def[112], ClassIn(yy_def[112], d)>>]
    BY <2>1 DEF Follows
  <2> QED BY <2>1, <2>2, DefaultHasAll
<1>8. ASSUME ~HasEntry(s, c)
      PROVE  Follow[<<u, d>>] = IF HasEntry(u, d) THEN Entry(u, d) ELSE Entry(112, d)
  <2>1. u # 0
    BY <1>4, <1>8, DefaultHasAll
  <2>2. CASE u = 112
    BY <1>4, <1>7, <2>2, DefaultHasAll
  <2>3. CASE u \in {1, 113, 114}
    <3>1. yy_def[u] = 112 /\ ClassIn(112, d) = d
      BY <1>4, <2>3, DefaultRows, ClassStays
    <3>2. Follow[<<u, d>>] = IF HasEntry(u, d) THEN Entry(u, d)
                             ELSE Follow[<<yy_def[u], ClassIn(yy_def[u], d)>>]
      <4>1. u \in 0 .. 114 /\ d \in Classes
        BY <1>4, <2>3
      <4> QED BY <4>1 DEF Follows
    <3> QED BY <1>7, <3>1, <3>2
  <2> QED BY <1>4, <2>1, <2>2, <2>3
<1> QED BY <1>5, <1>6, <1>8

LEMMA NextStateIs ==
  ASSUME NEW s \in States, NEW c \in Classes
  PROVE  NextState(s, c) = Unfolded(s, c)
<1> DEFINE Keys == (0 .. 114) \X Classes
           Body(F, k) == IF HasEntry(k[1], k[2]) THEN Entry(k[1], k[2])
                         ELSE F[<<yy_def[k[1]], ClassIn(yy_def[k[1]], k[2])>>]
           Follow == CHOOSE F : F = [k \in Keys |-> Body(F, k)]
           W == [k \in Keys |-> Unfolded(k[1], k[2])]
<1>1. DOMAIN yy_base = 0 .. 114 /\ DOMAIN yy_meta = Classes
  BY TableTypes
<1>2. W = [k \in Keys |-> Body(W, k)]
  <2>1. ASSUME NEW k \in Keys PROVE Unfolded(k[1], k[2]) = Body(W, k)
    <3>1. k[1] \in 0 .. 114 /\ k[2] \in Classes
      OBVIOUS
    <3>2. <<yy_def[k[1]], ClassIn(yy_def[k[1]], k[2])>> \in Keys
      BY <3>1, UnfoldedFollows
    <3>3. W[<<yy_def[k[1]], ClassIn(yy_def[k[1]], k[2])>>]
            = Unfolded(yy_def[k[1]], ClassIn(yy_def[k[1]], k[2]))
      BY <3>2
    <3> QED BY <3>1, <3>3, UnfoldedFollows
  <2> HIDE DEF Body
  <2> QED BY <2>1, SMTT(40)
<1>3. Follow = [k \in Keys |-> Body(Follow, k)]
  <2> HIDE DEF W, Body, Keys
  <2> QED BY <1>2
<1>4. NextState(s, c) = Follow[<<s, c>>]
  BY <1>1 DEF NextState, HasEntry, Entry
<1> HIDE DEF Follow
<1>5. Follows(Follow)
  BY <1>3 DEF Follows
<1> HIDE DEF Keys, Body, W
<1> QED BY <1>4, <1>5, ThreeRows

(* What the automaton does with the NUL that ends a buffer, with the one   *)
(* behind it, and with the first character of a token; nothing else leads  *)
(* to the state in which the end of the buffer is noticed.                 *)
LEMMA EntryIs ==
  ASSUME NEW s \in 1 .. 114, NEW c \in Classes, HasEntry(s, c)
  PROVE  /\ Entry(s, c) \in States
         /\ Entry(s, c) = EobState <=> s = 112 /\ c = 0
         /\ s = EobState => Entry(s, c) = JamState
         /\ c = 0 => s \in {EobState, 112}
<1>1. s \in 1 .. 114 /\ c \in 0 .. 53 /\ yy_base[s] \in 0 .. 145
  BY TableTypes DEF Classes
<1>2. PICK i : i = yy_base[s] + c /\ i \in 0 .. 198 /\ yy_chk[i] = s /\ Entry(s, c) = yy_nxt[i]
  BY <1>1 DEF HasEntry, Entry
<1>3. i # 0
  BY <1>1, <1>2, FirstRow
<1>4. yy_nxt[i] \in States
  BY <1>2, <1>3, NextRange
<1>5. i = 145 <=> s = 112 /\ c = 0
  BY <1>1, <1>2, JamRow, BaseRows
<1>6. c = 0 => s \in {3, 112}
  BY <1>1, <1>2, NulColumn
<1>7. s = 3 => i = 144
  BY <1>1, <1>2, JamRow, BaseRows
<1> QED BY <1>2, <1>4, <1>5, <1>6, <1>7, JamRow DEF EobState, JamState

LEMMA Transitions ==
  ASSUME NEW s \in States, NEW c \in Classes
  PROVE  /\ NextState(s, c) \in States
         /\ NextState(s, c) = EobState <=> s # EobState /\ c = 0
         /\ s = EobState => NextState(s, c) = JamState
<1>0. s \in 1 .. 112
  BY DEF States, JamState
<1>1. PICK u : u = yy_def[s]
  OBVIOUS
<1>2. PICK d : d = ClassIn(u, c)
  OBVIOUS
<1>3. NextState(s, c) = IF HasEntry(s, c) THEN Entry(s, c)
                       ELSE IF HasEntry(u, d) THEN Entry(u, d) ELSE Entry(112, d)
  BY <1>1, <1>2, NextStateIs DEF Unfolded
<1>4. u \in 0 .. 114 /\ d \in Classes /\ (d = 0 <=> c = 0)
  <2>1. u \in {0, 1, 112, 113, 114}
    BY <1>0, <1>1, TableTypes
  <2> QED BY <1>2, <2>1, ClassStays
<1>5. CASE HasEntry(s, c)
  BY <1>0, <1>3, <1>5, EntryIs, JamRow, BaseRows DEF EobState, JamState
<1>6. CASE ~HasEntry(s, c)
  <2>1. HasEntry(112, d) /\ s # 112
    BY <1>4, <1>6, DefaultHasAll
  <2>2. u \in {1, 112, 113, 114}
    BY <1>0, <1>1, <2>1, DefaultRows
  <2>3. CASE s = EobState
    <3>1. u = 112 /\ d = c
      BY <1>1, <1>2, <2>3, DefaultRows, ClassStays DEF EobState
    <3>2. c # 0
      BY <1>6, <2>3, BaseRows, JamRow DEF HasEntry, EobState
    <3>3. Entry(112, c) = 112
      BY <3>2, BaseRows, JamRow DEF Entry, Classes
    <3> QED BY <1>3, <1>6, <2>3, <3>1, <3>2, <3>3 DEF EobState, JamState, States
  <2>4. CASE s # EobState
    <3>1. NextState(s, c) = IF HasEntry(u, d) THEN Entry(u, d) ELSE Entry(112, d)
      BY <1>3, <1>6
    <3>2. HasEntry(u, d) => /\ Entry(u, d) \in States
                            /\ Entry(u, d) = EobState <=> c = 0
      BY <1>4, <2>2, EntryIs DEF EobState
    <3>3. Entry(112, d) \in States /\ (Entry(112, d) = EobState <=> c = 0)
      BY <1>4, <2>1, EntryIs
    <3> QED BY <2>4, <3>1, <3>2, <3>3
  <2> QED BY <2>3, <2>4
<1> QED BY <1>5, <1>6

LEMMA FirstTransition ==
  ASSUME NEW c \in Classes
  PROVE  yy_accept[NextState(1, c)] # 0
<1>1. 1 \in States /\ 1 # EobState
  BY DEF States, JamState, EobState
<1>2. CASE c = 0
  <2>1. NextState(1, c) = EobState
    BY <1>1, <1>2, Transitions
  <2> QED BY <2>1, AcceptRows DEF EobState, YY_END_OF_BUFFER
<1>3. CASE c # 0
  <2>1. HasEntry(1, c) /\ Entry(1, c) = yy_nxt[c]
    BY <1>3, BaseRows, FirstRow DEF HasEntry, Entry, Classes
  <2>2. NextState(1, c) = yy_nxt[c]
    BY <1>1, <2>1, NextStateIs DEF Unfolded
  <2> QED BY <1>3, <2>2, FirstRow DEF Classes
<1> QED BY <1>2, <1>3

LEMMA JamIsPlain == yy_accept[JamState] = 0 /\ Jams(JamState) /\ ~Jams(EobState)
BY AcceptRows, BaseRows DEF Jams, JamBase, JamState, EobState

-----------------------------------------------------------------------------
(* The invariant *)

(* The buffer, without the NUL that ends the current token, and the place  *)
(* in it up to which text has become tokens                                *)
Mem  == IF pc = "start" THEN Restored ELSE yy_ch_buf
Here == IF pc \in {"start", "eof"} THEN yy_c_buf_p ELSE yy_bp

(* It ends in two NULs, and what is left of it is the text that follows    *)
(* the last token.                                                         *)
Continues ==
  /\ Mem[yy_n_chars + 1] = NUL /\ Mem[yy_n_chars + 2] = NUL
  /\ token.to \in Nat /\ PlaceOf(Here) = token.to
  /\ \A i \in Here + 1 .. yy_n_chars : Mem[i] = text[pos - yy_n_chars + i]

(* State s accepts what lies before place p: some text, or a NUL behind    *)
(* it, which may be the first of those that end the buffer.                *)
Accepts(s, p) ==
  /\ yy_accept[s] # 0
  /\ p \in yy_bp + 1 .. yy_n_chars + 1
  /\ IF s = EobState THEN At(p - 1) = NUL ELSE p <= yy_n_chars

(* Where the automaton stands *)
Scanned ==
  /\ yy_cp >= yy_bp /\ yy_current_state \in States
  /\ yy_cp = yy_bp => yy_current_state = 1
  /\ yy_cp > yy_bp /\ yy_accept[yy_current_state] = 0
       => Accepts(yy_last_accepting_state, yy_last_accepting_cpos)

(* The first NUL behind the text leads to EobState, the second out of it.  *)
Matching ==
  /\ Scanned
  /\ yy_cp <= yy_n_chars + 1
  /\ yy_cp = yy_n_chars + 1 => yy_current_state = EobState
  /\ yy_current_state = EobState => yy_cp > yy_bp /\ At(yy_cp - 1) = NUL

Finding ==
  /\ Scanned
  /\ yy_cp > yy_bp /\ yy_current_state # EobState
  /\ yy_accept[yy_current_state] # 0 => yy_cp <= yy_n_chars

(* A NUL is known to be at yy_c_buf_p, unless reading goes on there.       *)
GoingOver ==
  /\ Scanned
  /\ yy_cp <= yy_c_buf_p /\ yy_current_state # EobState
  /\ then \in {"match", "find", "nul"}
  /\ then = "find" => yy_c_buf_p > yy_bp
  /\ then = "nul" => yy_c_buf_p < yy_n_chars

ScanInv ==
  /\ TypeOK /\ yy_buf_size > 0
  /\ Continues
  /\ pc = "match" => Matching
  /\ pc = "find" => Finding
  /\ pc = "again" => GoingOver
  /\ pc = "nul" => GoingOver /\ then = "nul" /\ yy_cp = yy_c_buf_p

-----------------------------------------------------------------------------
(* Facts of one state *)

LEMMA AcceptDomain == DOMAIN yy_accept = 0 .. 112 /\ States \subseteq DOMAIN yy_accept
<1>1. DOMAIN yy_accept = 0 .. 112
  BY TableTypes
<1> QED BY <1>1 DEF States, JamState

LEMMA Numbers ==
  ASSUME TypeOK
  PROVE  /\ yy_n_chars \in Nat /\ yy_bp \in Nat /\ yy_cp \in Nat /\ pos \in Nat
         /\ yy_c_buf_p \in 0 .. yy_n_chars /\ yytext_ptr \in 0 .. yy_n_chars
         /\ yy_buf_size \in Nat /\ yy_n_chars <= yy_buf_size
         /\ yy_ch_buf \in Seq(0 .. 255) /\ Len(yy_ch_buf) = yy_n_chars + 2
         /\ text \in Seq(0 .. 255) /\ pos <= Len(text) /\ Len(text) \in Nat
         /\ yy_last_accepting_cpos \in Nat
BY DEF TypeOK

LEMMA Chars ==
  ASSUME TypeOK, NEW p \in 0 .. yy_n_chars + 1
  PROVE  At(p) \in 0 .. 255 /\ At(p) = yy_ch_buf[p + 1]
<1>1. p + 1 \in 1 .. Len(yy_ch_buf)
  BY Numbers
<1>2. yy_ch_buf[p + 1] \in 0 .. 255
  BY <1>1, Numbers, ElementOfSeq
<1> QED BY <1>2 DEF At

LEMMA EndsInNuls ==
  ASSUME TypeOK, Continues, pc # "start"
  PROVE  At(yy_n_chars) = NUL /\ At(yy_n_chars + 1) = NUL
<1>1. Mem = yy_ch_buf
  BY DEF Mem
<1>2. (yy_n_chars + 1) + 1 = yy_n_chars + 2
  BY Numbers
<1> QED BY <1>1, <1>2 DEF Continues, At

LEMMA ContinuesStays ==
  ASSUME Continues, Mem' = Mem, Here' = Here, UNCHANGED <<yy_n_chars, pos, text, token>>
  PROVE  Continues'
BY DEF Continues, PlaceOf

(* A step of a loop takes the automaton on. *)
LEMMA TakeScans ==
  ASSUME TypeOK, Scanned, NEW c \in Classes, Take(c), UNCHANGED <<yy_bp, yy_ch_buf, yy_n_chars>>,
         yy_cp <= yy_n_chars + 1,
         yy_current_state # EobState => yy_cp <= yy_n_chars,
         yy_current_state = EobState => yy_cp > yy_bp /\ At(yy_cp - 1) = NUL
  PROVE  /\ Scanned'
         /\ yy_cp' = yy_cp + 1
         /\ yy_current_state' = NextState(yy_current_state, c)
         /\ yy_last_accepting_state' \in DOMAIN yy_accept /\ yy_last_accepting_cpos' \in Nat
<1>1. /\ yy_cp' = yy_cp + 1
      /\ yy_current_state' = NextState(yy_current_state, c)
      /\ IF yy_accept[yy_current_state] # 0
         THEN yy_last_accepting_state' = yy_current_state /\ yy_last_accepting_cpos' = yy_cp
         ELSE UNCHANGED <<yy_last_accepting_state, yy_last_accepting_cpos>>
  BY DEF Take
<1>2. /\ yy_cp \in Nat /\ yy_bp \in Nat /\ yy_n_chars \in Nat
      /\ yy_cp >= yy_bp /\ yy_current_state \in States
      /\ yy_last_accepting_state \in DOMAIN yy_accept /\ yy_last_accepting_cpos \in Nat
  BY Numbers DEF Scanned, TypeOK
<1>3. yy_current_state' \in States
  BY <1>1, <1>2, Transitions
<1>4. yy_last_accepting_state' \in DOMAIN yy_accept /\ yy_last_accepting_cpos' \in Nat
  BY <1>1, <1>2, AcceptDomain
<1>5. ASSUME yy_accept[yy_current_state'] = 0
      PROVE  Accepts(yy_last_accepting_state, yy_last_accepting_cpos)'
  <2>1. yy_cp > yy_bp
    <3>1. yy_cp = yy_bp => yy_current_state = 1
      BY DEF Scanned
    <3> QED BY <1>1, <1>2, <1>5, <3>1, FirstTransition
  <2>2. CASE yy_accept[yy_current_state] # 0
    BY <1>1, <1>2, <2>1, <2>2 DEF Accepts, At
  <2>3. CASE yy_accept[yy_current_state] = 0
    <3>1. Accepts(yy_last_accepting_state, yy_last_accepting_cpos)
      BY <2>1, <2>3 DEF Scanned
    <3> QED BY <1>1, <2>3, <3>1 DEF Accepts, At
  <2> QED BY <2>2, <2>3
<1>6. yy_cp' >= yy_bp' /\ yy_cp' # yy_bp'
  BY <1>1, <1>2
<1>7. Scanned'
  BY <1>3, <1>5, <1>6 DEF Scanned
<1> QED BY <1>1, <1>4, <1>7

(* A new scan from the beginning of a token *)
LEMMA FreshScan ==
  ASSUME yy_cp' = yy_bp', yy_bp' \in Nat, yy_current_state' = 1
  PROVE  Scanned' /\ yy_current_state' # EobState /\ yy_current_state' \in DOMAIN yy_accept
<1>1. 1 \in States /\ 1 # EobState
  BY DEF States, JamState, EobState
<1>2. Scanned'
  BY <1>1 DEF Scanned
<1> QED BY <1>1, <1>2, AcceptDomain

(* What has been found lies behind yytext and, unless it is the end of the *)
(* buffer, in the text.                                                    *)
LEMMA WhatIsFound ==
  ASSUME ScanInv, Found
  PROVE  /\ End \in yy_bp + 1 .. yy_n_chars + 1
         /\ Act \in Rules => End <= yy_n_chars
         /\ Act = YY_END_OF_BUFFER => At(End - 1) = NUL
<1>1. Finding /\ TypeOK
  BY DEF ScanInv, Found
<1>2. yy_n_chars \in Nat /\ yy_bp \in Nat /\ yy_cp \in Nat /\ yy_cp > yy_bp
  BY <1>1, Numbers DEF Finding
<1>3. CASE yy_accept[yy_current_state] # 0
  <2>1. End = yy_cp /\ Act = yy_accept[yy_current_state]
    BY <1>3 DEF End, Act, BacksUp
  <2>2. Act # YY_END_OF_BUFFER
    <3>1. yy_current_state \in 0 .. 112 /\ yy_current_state # EobState
      BY <1>1 DEF Finding, Scanned, States, JamState
    <3> QED BY <2>1, <3>1, AcceptRows
  <2> QED BY <1>1, <1>2, <1>3, <2>1, <2>2 DEF Finding
<1>4. CASE yy_accept[yy_current_state] = 0
  <2>1. End = yy_last_accepting_cpos /\ Act = yy_accept[yy_last_accepting_state]
    BY <1>4 DEF End, Act, BacksUp
  <2>2. Accepts(yy_last_accepting_state, yy_last_accepting_cpos)
    BY <1>1, <1>2, <1>4 DEF Finding, Scanned
  <2>3. Act = YY_END_OF_BUFFER <=> yy_last_accepting_state = EobState
    <3>1. yy_last_accepting_state \in 0 .. 112
      BY <1>1, AcceptDomain DEF TypeOK
    <3> QED BY <2>1, <3>1, AcceptRows
  <2>4. YY_END_OF_BUFFER \notin Rules
    BY DEF YY_END_OF_BUFFER, Rules
  <2> QED BY <2>1, <2>2, <2>3, <2>4 DEF Accepts
<1> QED BY <1>3, <1>4

-----------------------------------------------------------------------------
(* The steps *)

LEMMA StartKeeps == ASSUME ScanInv, Start PROVE ScanInv'
<1>1. /\ pc = "start" /\ pc' = "match" /\ yy_ch_buf' = Restored
      /\ yy_cp' = yy_c_buf_p /\ yy_bp' = yy_c_buf_p /\ yy_current_state' = 1
      /\ UNCHANGED <<input, pos, yy_buf_size, yy_buffer_status, yy_n_chars, yy_c_buf_p, yytext_ptr,
                     yy_hold_char, yy_last_accepting_state, yy_last_accepting_cpos, then, token>>
  BY DEF Start
<1>2. TypeOK /\ Continues /\ yy_buf_size > 0
  BY DEF ScanInv
<1>3. Restored \in Seq(0 .. 255) /\ Len(Restored) = yy_n_chars + 2
  <2>1. yy_c_buf_p + 1 \in 1 .. Len(yy_ch_buf) /\ yy_hold_char \in 0 .. 255
    BY <1>2, Numbers DEF TypeOK
  <2> QED BY <1>2, <2>1, Numbers, ExceptSeq DEF Restored
<1>4. Scanned' /\ yy_current_state' # EobState /\ yy_current_state' \in DOMAIN yy_accept
  BY <1>1, <1>2, Numbers, FreshScan
<1>5. TypeOK'
  BY <1>1, <1>2, <1>3, <1>4 DEF TypeOK, input
<1>6. Continues'
  <2>1. Mem' = Mem /\ Here' = Here
    BY <1>1 DEF Mem, Here
  <2> QED BY <1>1, <1>2, <2>1, ContinuesStays DEF input
<1>7. Matching'
  BY <1>1, <1>2, <1>4, Numbers DEF Matching
<1> QED BY <1>1, <1>2, <1>5, <1>6, <1>7 DEF ScanInv

LEMMA MatchKeeps == ASSUME ScanInv, Match PROVE ScanInv'
<1> DEFINE c == yy_ec[At(yy_cp)]
           s == yy_current_state
<1>1. /\ pc = "match" /\ Take(c)
      /\ pc' = IF Jams(yy_current_state') THEN "find" ELSE "match"
      /\ UNCHANGED <<input, buffer, yy_c_buf_p, yytext_ptr, yy_hold_char, yy_bp, then, token>>
  BY DEF Match
<1>2. TypeOK /\ Continues /\ Matching /\ yy_buf_size > 0
  BY <1>1 DEF ScanInv
<1>3. UNCHANGED <<yy_ch_buf, yy_n_chars, pos, yy_buf_size, text>>
  BY <1>1 DEF buffer, input
<1>4. c \in Classes /\ (c = 0 <=> At(yy_cp) = NUL)
  <2>1. yy_cp \in 0 .. yy_n_chars + 1
    BY <1>2, Numbers DEF Matching
  <2>2. At(yy_cp) \in 0 .. 255
    BY <1>2, <2>1, Chars
  <2> QED BY <2>2, ClassRows
<1>5. /\ yy_cp \in Nat /\ yy_bp \in Nat /\ yy_n_chars \in Nat
      /\ s \in States /\ yy_cp >= yy_bp /\ yy_bp <= yy_n_chars /\ yy_cp <= yy_n_chars + 1
      /\ yy_cp = yy_n_chars + 1 => s = EobState
      /\ s = EobState => yy_cp > yy_bp /\ At(yy_cp - 1) = NUL
  <2>1. yy_bp <= yy_n_chars
    BY <1>1, <1>2 DEF TypeOK
  <2> QED BY <1>2, <2>1, Numbers DEF Matching, Scanned
<1>6. /\ Scanned' /\ yy_cp' = yy_cp + 1 /\ yy_current_state' = NextState(s, c)
      /\ yy_last_accepting_state' \in DOMAIN yy_accept /\ yy_last_accepting_cpos' \in Nat
  <2> HIDE DEF c
  <2> QED BY <1>1, <1>2, <1>3, <1>4, <1>5, TakeScans DEF Matching
<1>7. /\ yy_current_state' \in States
      /\ yy_current_state' = EobState <=> s # EobState /\ c = 0
      /\ s = EobState => yy_current_state' = JamState
  <2> HIDE DEF c
  <2> QED BY <1>4, <1>5, <1>6, Transitions
<1>8. At(yy_n_chars) = NUL
  BY <1>1, <1>2, EndsInNuls
<1>10. ASSUME pc' = "match" PROVE Matching'
  <2>1. ~Jams(yy_current_state')
    BY <1>1, <1>10
  <2>2. s # EobState
    BY <1>7, <2>1, JamIsPlain
  <2>3. yy_cp' <= yy_n_chars' + 1 /\ yy_cp' > yy_bp'
    BY <1>1, <1>3, <1>5, <1>6, <2>2
  <2>4. yy_cp' = yy_n_chars' + 1 => yy_current_state' = EobState
    <3>1. SUFFICES ASSUME yy_cp = yy_n_chars PROVE yy_current_state' = EobState
      BY <1>3, <1>5, <1>6
    <3> QED BY <1>4, <1>7, <1>8, <2>2, <3>1
  <2>5. yy_current_state' = EobState => At(yy_cp - 1)' = NUL
    <3>1. At(yy_cp - 1)' = At(yy_cp)
      BY <1>3, <1>5, <1>6 DEF At
    <3> QED BY <1>4, <1>7, <3>1
  <2> QED BY <1>6, <2>3, <2>4, <2>5 DEF Matching
<1>11. ASSUME pc' = "find" PROVE Finding'
  <2>1. Jams(yy_current_state')
    BY <1>1, <1>11
  <2>2. yy_current_state' # EobState
    BY <2>1, JamIsPlain
  <2>3. yy_accept[yy_current_state'] # 0 => yy_cp' <= yy_n_chars'
    <3>1. SUFFICES ASSUME yy_accept[yy_current_state'] # 0, yy_cp >= yy_n_chars PROVE FALSE
      BY <1>3, <1>5, <1>6
    <3>2. s # EobState
      BY <1>7, <3>1, JamIsPlain
    <3>3. yy_cp = yy_n_chars
      BY <1>5, <3>1, <3>2
    <3> QED BY <1>4, <1>7, <1>8, <2>2, <3>2, <3>3
  <2> QED BY <1>1, <1>5, <1>6, <2>2, <2>3 DEF Finding
<1>12. TypeOK'
  <2>1. pc' \in {"find", "match"} /\ yy_cp' <= yy_n_chars' + 2
    BY <1>1, <1>3, <1>5, <1>6
  <2>2. pc' = "match" => yy_cp' < yy_n_chars' + 2
    BY <1>3, <1>5, <1>6, <1>10 DEF Matching
  <2>3. yy_cp' \in Nat /\ yy_current_state' \in DOMAIN yy_accept
    BY <1>5, <1>6, <1>7, AcceptDomain
  <2> QED BY <1>1, <1>2, <1>5, <1>6, <2>1, <2>2, <2>3 DEF TypeOK, input, buffer
<1>13. Continues'
  <2>1. Mem' = Mem /\ Here' = Here
    BY <1>1, <1>3 DEF Mem, Here
  <2> QED BY <1>1, <1>2, <1>3, <2>1, ContinuesStays
<1>14. pc' \in {"find", "match"}
  BY <1>1
<1> QED BY <1>2, <1>3, <1>10, <1>11, <1>12, <1>13, <1>14 DEF ScanInv

LEMMA AgainKeeps == ASSUME ScanInv, Again PROVE ScanInv'
<1> DEFINE c == ClassAgain(At(yy_cp))
           s == yy_current_state
<1>1. /\ pc = "again"
      /\ IF yy_cp < yy_c_buf_p THEN Take(c) /\ UNCHANGED pc ELSE pc' = then /\ UNCHANGED match
      /\ UNCHANGED <<input, buffer, yy_c_buf_p, yytext_ptr, yy_hold_char, yy_bp, then, token>>
  BY DEF Again
<1>2. TypeOK /\ Continues /\ GoingOver /\ yy_buf_size > 0
  BY <1>1 DEF ScanInv
<1>3. UNCHANGED <<yy_ch_buf, yy_n_chars, pos, yy_buf_size, text>>
  BY <1>1 DEF buffer, input
<1>4. /\ yy_cp \in Nat /\ yy_bp \in Nat /\ yy_n_chars \in Nat
      /\ yy_c_buf_p \in 0 .. yy_n_chars /\ yy_cp <= yy_c_buf_p /\ yy_cp >= yy_bp
      /\ s \in States /\ s # EobState
      /\ then \in {"match", "find", "nul"}
  BY <1>2, Numbers DEF GoingOver, Scanned
<1>5. CASE yy_cp < yy_c_buf_p
  <2>1. c \in Classes /\ c # 0
    <3>1. yy_cp \in 0 .. yy_n_chars + 1
      BY <1>4, <1>5
    <3>2. At(yy_cp) \in 0 .. 255
      BY <1>2, <3>1, Chars
    <3>3. PICK a : a = At(yy_cp)
      OBVIOUS
    <3>4. a \in 0 .. 255 /\ (a # NUL => yy_ec[a] \in Classes /\ yy_ec[a] # 0)
      BY <3>2, <3>3, ClassRows
    <3>5. c = IF a = NUL THEN 1 ELSE yy_ec[a]
      BY <3>3 DEF ClassAgain
    <3> QED BY <3>4, <3>5 DEF Classes
  <2>2. /\ Scanned' /\ yy_cp' = yy_cp + 1 /\ yy_current_state' = NextState(s, c)
        /\ yy_last_accepting_state' \in DOMAIN yy_accept /\ yy_last_accepting_cpos' \in Nat
    <3> HIDE DEF c
    <3> QED BY <1>1, <1>2, <1>3, <1>4, <1>5, <2>1, TakeScans DEF GoingOver
  <2>3. yy_current_state' \in States /\ yy_current_state' # EobState
    <3> HIDE DEF c
    <3> QED BY <1>4, <2>1, <2>2, Transitions
  <2>4. GoingOver'
    BY <1>1, <1>2, <1>3, <1>4, <1>5, <2>2, <2>3 DEF GoingOver
  <2>5. pc' = "again" /\ yy_cp' \in Nat /\ yy_cp' <= yy_n_chars + 2
        /\ yy_current_state' \in DOMAIN yy_accept
    BY <1>1, <1>4, <1>5, <2>2, <2>3, AcceptDomain
  <2>6. TypeOK'
    BY <1>1, <1>2, <1>3, <2>2, <2>5 DEF TypeOK, input, buffer
  <2>7. Continues'
    <3>1. Mem' = Mem /\ Here' = Here
      BY <1>1, <1>3, <2>5 DEF Mem, Here
    <3> QED BY <1>1, <1>2, <1>3, <3>1, ContinuesStays
  <2> QED BY <1>2, <1>3, <2>4, <2>5, <2>6, <2>7 DEF ScanInv
<1>6. CASE ~(yy_cp < yy_c_buf_p)
  <2>1. /\ pc' = then /\ UNCHANGED <<yy_cp, yy_current_state, yy_last_accepting_state,
                                      yy_last_accepting_cpos>>
        /\ yy_cp = yy_c_buf_p
    BY <1>1, <1>4, <1>6 DEF match
  <2>2. Scanned'
    BY <1>1, <1>2, <1>3, <2>1 DEF GoingOver, Scanned, Accepts, At
  <2>3. pc' = "match" => Matching'
    BY <1>1, <1>3, <1>4, <2>1, <2>2 DEF Matching
  <2>4. pc' = "find" => Finding'
    BY <1>1, <1>2, <1>3, <1>4, <2>1, <2>2 DEF Finding, GoingOver
  <2>5. pc' = "nul" => GoingOver' /\ then' = "nul" /\ yy_cp' = yy_c_buf_p'
    BY <1>1, <1>2, <1>3, <1>4, <2>1, <2>2 DEF GoingOver
  <2>6. TypeOK'
    BY <1>1, <1>2, <1>3, <1>4, <2>1 DEF TypeOK, input, buffer
  <2>7. Continues'
    <3>1. Mem' = Mem /\ Here' = Here
      BY <1>1, <1>3, <1>4, <2>1 DEF Mem, Here
    <3> QED BY <1>1, <1>2, <1>3, <3>1, ContinuesStays
  <2> QED BY <1>2, <1>3, <1>4, <2>1, <2>3, <2>4, <2>5, <2>6, <2>7 DEF ScanInv
<1> QED BY <1>5, <1>6

LEMMA DeliverKeeps ==
  ASSUME ScanInv, Deliver
  PROVE  ScanInv' /\ token'.from = token.to /\ token'.to > token'.from
<1>1. /\ pc = "find" /\ Act \in Rules
      /\ yytext_ptr' = yy_bp /\ yy_c_buf_p' = End
      /\ yy_hold_char' = At(End) /\ yy_ch_buf' = [yy_ch_buf EXCEPT ![End + 1] = NUL]
      /\ token' = [sym |-> Symbol(Act), from |-> PlaceOf(yy_bp), to |-> PlaceOf(End)]
      /\ pc' = "start"
      /\ UNCHANGED <<input, pos, yy_buf_size, yy_buffer_status, yy_n_chars, match, yy_bp, then>>
  BY DEF Deliver, Found
<1>2. TypeOK /\ Continues /\ yy_buf_size > 0
  BY DEF ScanInv
<1>3. End \in yy_bp + 1 .. yy_n_chars
  <2>1. yy_bp \in Nat /\ yy_n_chars \in Nat
    BY <1>2, Numbers
  <2> QED BY <1>1, <2>1, WhatIsFound DEF Found
<1>4. yy_bp \in Nat /\ yy_n_chars \in Nat /\ pos \in Nat /\ yy_bp <= yy_n_chars
  BY <1>2, <1>3, Numbers
<1>5. PICK e : e = End
  OBVIOUS
<1>6. e \in yy_bp + 1 .. yy_n_chars /\ e \in Nat
  BY <1>3, <1>4, <1>5
<1>7. At(e) \in 0 .. 255 /\ At(e) = yy_ch_buf[e + 1]
  BY <1>2, <1>4, <1>6, Chars
<1>8. /\ yy_ch_buf' \in Seq(0 .. 255) /\ Len(yy_ch_buf') = yy_n_chars + 2
      /\ yy_ch_buf' = [yy_ch_buf EXCEPT ![e + 1] = NUL]
  <2>1. e + 1 \in 1 .. Len(yy_ch_buf) /\ NUL \in 0 .. 255
    BY <1>2, <1>4, <1>6, Numbers DEF NUL
  <2> QED BY <1>1, <1>2, <1>5, <2>1, Numbers, ExceptSeq
<1>9. Mem' = Mem
  <2>1. Mem = yy_ch_buf /\ Mem' = [yy_ch_buf' EXCEPT ![e + 1] = At(e)]
    BY <1>1, <1>5 DEF Mem, Restored
  <2>2. yy_ch_buf = [i \in 1 .. yy_n_chars + 2 |-> yy_ch_buf[i]]
    BY <1>2, Numbers, LenProperties
  <2> QED BY <1>7, <1>8, <2>1, <2>2
<1>10. PlaceOf(yy_bp) = token.to /\ token.to \in Nat
  BY <1>1, <1>2 DEF Continues, Here
<1>11. PlaceOf(e) \in Nat /\ PlaceOf(e) > PlaceOf(yy_bp)
  BY <1>4, <1>6, <1>10 DEF PlaceOf
<1>12. Here' = e /\ Here = yy_bp /\ token'.to = PlaceOf(e) /\ token'.from = PlaceOf(yy_bp)
  BY <1>1, <1>5 DEF Here
<1>13. Continues'
  <2>1. PlaceOf(Here)' = PlaceOf(e)
    BY <1>1, <1>12 DEF PlaceOf
  <2>2. \A i \in e + 1 .. yy_n_chars : Mem[i] = text[pos - yy_n_chars + i]
    BY <1>2, <1>4, <1>6, <1>12 DEF Continues
  <2> QED BY <1>1, <1>2, <1>9, <1>11, <1>12, <2>1, <2>2 DEF Continues, input
<1>14. TypeOK'
  <2>1. yy_hold_char' \in 0 .. 255 /\ yytext_ptr' \in 0 .. yy_n_chars
        /\ yy_c_buf_p' \in 0 .. yy_n_chars
    BY <1>1, <1>4, <1>5, <1>6, <1>7
  <2> QED BY <1>1, <1>2, <1>8, <2>1 DEF TypeOK, input, match
<1> QED BY <1>1, <1>2, <1>10, <1>11, <1>12, <1>13, <1>14 DEF ScanInv

(* What the three refills and the scan of a NUL start from *)
LEMMA AtTheEnd ==
  ASSUME ScanInv, AtEnd
  PROVE  /\ End \in yy_bp + 1 .. yy_n_chars + 1
         /\ At(End - 1) = NUL /\ At(End) \in 0 .. 255
         /\ yy_bp \in 0 .. yy_n_chars
         /\ ~Real => End = yy_n_chars + 1
<1>1. Found /\ Act = YY_END_OF_BUFFER /\ TypeOK
  BY DEF ScanInv, AtEnd
<1>2. /\ yy_bp \in Nat /\ yy_n_chars \in Nat
      /\ End \in yy_bp + 1 .. yy_n_chars + 1 /\ At(End - 1) = NUL
  BY <1>1, WhatIsFound, Numbers
<1>3. PICK e : e = End
  OBVIOUS
<1>4. At(e) \in 0 .. 255
  BY <1>1, <1>2, <1>3, Chars
<1> QED BY <1>2, <1>3, <1>4 DEF Real

LEMMA NulInTextKeeps == ASSUME ScanInv, NulInText PROVE ScanInv'
<1>1. /\ pc = "find" /\ AtEnd /\ Real
      /\ yy_buffer_status' = Normal
      /\ yytext_ptr' = yy_bp /\ yy_c_buf_p' = End - 1 /\ yy_hold_char' = At(End)
      /\ GoOver("nul")
      /\ UNCHANGED <<input, pos, yy_buf_size, yy_ch_buf, yy_n_chars, token>>
  BY DEF NulInText, AtEnd, Found
<1>2. TypeOK /\ Continues /\ yy_buf_size > 0
  BY DEF ScanInv
<1>3. /\ pc' = "again" /\ then' = "nul" /\ yy_cp' = yy_bp /\ yy_bp' = yy_bp
      /\ yy_current_state' = 1
      /\ UNCHANGED <<yy_last_accepting_state, yy_last_accepting_cpos>>
  BY <1>1 DEF GoOver
<1>4. End \in yy_bp + 1 .. yy_n_chars /\ At(End) \in 0 .. 255 /\ yy_bp \in 0 .. yy_n_chars
      /\ yy_n_chars \in Nat
  BY <1>1, <1>2, AtTheEnd, Numbers DEF Real
<1>5. Scanned' /\ yy_current_state' # EobState /\ yy_current_state' \in DOMAIN yy_accept
  BY <1>3, <1>4, FreshScan
<1>6. GoingOver'
  BY <1>1, <1>3, <1>4, <1>5 DEF GoingOver
<1>7. TypeOK'
  BY <1>1, <1>2, <1>3, <1>4, <1>5 DEF TypeOK, input, Normal
<1>8. Continues'
  <2>1. Mem' = Mem /\ Here' = Here
    BY <1>1, <1>3 DEF Mem, Here
  <2> QED BY <1>1, <1>2, <2>1, ContinuesStays DEF input
<1> QED BY <1>1, <1>2, <1>3, <1>6, <1>7, <1>8 DEF ScanInv

LEMMA TryNulKeeps == ASSUME ScanInv, TryNul PROVE ScanInv'
<1> DEFINE s == yy_current_state
           next == NextState(yy_current_state, 1)
<1>1. /\ pc = "nul"
      /\ IF next # JamState
         THEN Take(1) /\ yy_c_buf_p' = yy_cp + 1 /\ pc' = "match"
         ELSE /\ pc' = "find" /\ UNCHANGED <<yy_cp, yy_current_state, yy_c_buf_p>>
              /\ IF yy_accept[yy_current_state] # 0
                 THEN yy_last_accepting_state' = yy_current_state /\ yy_last_accepting_cpos' = yy_cp
                 ELSE UNCHANGED <<yy_last_accepting_state, yy_last_accepting_cpos>>
      /\ UNCHANGED <<input, buffer, yytext_ptr, yy_hold_char, yy_bp, then, token>>
  BY DEF TryNul
<1>2. TypeOK /\ Continues /\ GoingOver /\ then = "nul" /\ yy_cp = yy_c_buf_p /\ yy_buf_size > 0
  BY <1>1 DEF ScanInv
<1>3. UNCHANGED <<yy_ch_buf, yy_n_chars, pos, yy_buf_size, text>>
  BY <1>1 DEF buffer, input
<1>4. /\ yy_cp \in Nat /\ yy_bp \in Nat /\ yy_n_chars \in Nat
      /\ yy_cp < yy_n_chars /\ yy_cp >= yy_bp /\ s \in States /\ s # EobState
      /\ yy_cp = yy_bp => s = 1
  BY <1>2, Numbers DEF GoingOver, Scanned
<1>5. 1 \in Classes /\ next \in States /\ next # EobState
  <2>1. 1 \in Classes
    BY DEF Classes
  <2> QED BY <1>4, <2>1, Transitions
<1>6. CASE next # JamState
  <2>1. /\ Scanned' /\ yy_cp' = yy_cp + 1 /\ yy_current_state' = next
        /\ yy_last_accepting_state' \in DOMAIN yy_accept /\ yy_last_accepting_cpos' \in Nat
    BY <1>1, <1>2, <1>3, <1>4, <1>5, <1>6, TakeScans DEF GoingOver
  <2>2. pc' = "match" /\ yy_c_buf_p' \in 0 .. yy_n_chars /\ yy_cp' \in Nat
        /\ yy_cp' <= yy_n_chars /\ yy_current_state' \in DOMAIN yy_accept
    BY <1>1, <1>4, <1>5, <1>6, <2>1, AcceptDomain
  <2>3. Matching'
    BY <1>3, <1>4, <1>5, <2>1, <2>2 DEF Matching
  <2>4. TypeOK'
    BY <1>1, <1>2, <1>3, <2>1, <2>2 DEF TypeOK, input, buffer
  <2>5. Continues'
    <3>1. Mem' = Mem /\ Here' = Here
      BY <1>1, <1>3, <2>2 DEF Mem, Here
    <3> QED BY <1>1, <1>2, <1>3, <3>1, ContinuesStays
  <2> QED BY <1>2, <1>3, <2>2, <2>3, <2>4, <2>5 DEF ScanInv
<1>7. CASE next = JamState
  <2>1. /\ pc' = "find" /\ UNCHANGED <<yy_cp, yy_current_state, yy_c_buf_p>>
        /\ IF yy_accept[s] # 0
           THEN yy_last_accepting_state' = s /\ yy_last_accepting_cpos' = yy_cp
           ELSE UNCHANGED <<yy_last_accepting_state, yy_last_accepting_cpos>>
    BY <1>1, <1>7
  <2>2. yy_cp > yy_bp
    <3>1. yy_accept[NextState(1, 1)] # 0
      BY <1>5, FirstTransition
    <3>2. s # 1
      BY <1>7, <3>1, JamIsPlain
    <3> QED BY <1>4, <3>2
  <2>3. Scanned'
    <3>1. yy_accept[s] = 0 => Accepts(yy_last_accepting_state, yy_last_accepting_cpos)
      BY <1>2, <2>2 DEF GoingOver, Scanned
    <3>2. yy_accept[s] = 0 => Accepts(yy_last_accepting_state, yy_last_accepting_cpos)'
      BY <1>1, <1>3, <2>1, <3>1 DEF Accepts, At
    <3> QED BY <1>1, <1>4, <2>1, <2>2, <3>2 DEF Scanned
  <2>4. Finding'
    BY <1>1, <1>3, <1>4, <2>1, <2>2, <2>3 DEF Finding
  <2>5. yy_last_accepting_state' \in DOMAIN yy_accept /\ yy_last_accepting_cpos' \in Nat
    BY <1>2, <1>4, <2>1, AcceptDomain, ZenonT(60) DEF TypeOK
  <2>6. TypeOK'
    BY <1>1, <1>2, <1>3, <1>4, <2>1, <2>5 DEF TypeOK, input, buffer
  <2>7. Continues'
    <3>1. Mem' = Mem /\ Here' = Here
      BY <1>1, <1>3, <2>1 DEF Mem, Here
    <3> QED BY <1>1, <1>2, <1>3, <3>1, ContinuesStays
  <2> QED BY <1>2, <1>3, <2>1, <2>4, <2>6, <2>7 DEF ScanInv
<1> QED BY <1>6, <1>7

LEMMA GrowKeeps == ASSUME ScanInv, Grow PROVE ScanInv'
<1>1. /\ pc = "find" /\ yy_buf_size' = 2 * yy_buf_size
      /\ UNCHANGED <<input, pos, yy_buffer_status, yy_ch_buf, yy_n_chars, yy_c_buf_p, yytext_ptr,
                     yy_hold_char, match, yy_bp, pc, then, token>>
  BY DEF Grow, Reading, Fills, AtEnd, Found
<1>2. TypeOK /\ Continues /\ Finding /\ yy_buf_size > 0
  BY <1>1 DEF ScanInv
<1>3. yy_buf_size' \in Nat /\ yy_buf_size' > 0 /\ yy_n_chars \in 0 .. yy_buf_size'
  BY <1>1, <1>2, Numbers
<1>4. TypeOK'
  BY <1>1, <1>2, <1>3 DEF TypeOK, input, match
<1>5. Continues'
  <2>1. Mem' = Mem /\ Here' = Here
    BY <1>1 DEF Mem, Here, Restored
  <2> QED BY <1>1, <1>2, <2>1, ContinuesStays DEF input
<1>6. Finding'
  BY <1>1, <1>2 DEF Finding, Scanned, Accepts, At, match
<1> QED BY <1>1, <1>3, <1>4, <1>5, <1>6 DEF ScanInv

LEMMA ReadFailsKeeps == ASSUME ScanInv, ReadFails PROVE ScanInv'
<1>1. /\ pc = "find" /\ pc' = "dead"
      /\ UNCHANGED <<input, buffer, yy_c_buf_p, yytext_ptr, yy_hold_char, match, yy_bp, then, token>>
  BY DEF ReadFails, Reading, Fills, AtEnd, Found
<1>2. TypeOK /\ Continues /\ yy_buf_size > 0
  BY DEF ScanInv
<1>3. TypeOK'
  BY <1>1, <1>2 DEF TypeOK, input, match, buffer
<1>4. Continues'
  <2>1. Mem' = Mem /\ Here' = Here
    BY <1>1 DEF Mem, Here, buffer
  <2> QED BY <1>1, <1>2, <2>1, ContinuesStays DEF input, buffer
<1> QED BY <1>1, <1>2, <1>3, <1>4 DEF ScanInv, buffer

-----------------------------------------------------------------------------
(* Refills *)

LEMMA MinIs ==
  ASSUME NEW S \in SUBSET Nat, S # {}
  PROVE  Min(S) \in S /\ \A i \in S : Min(S) <= i
<1>1. \E i \in S : \A j \in S : i <= j
  BY LeastElementExists
<1> QED BY <1>1 DEF Min

(* A read gives the text that follows, no more than was asked for. *)
LEMMA ReadToIs ==
  ASSUME TypeOK, NEW n \in Nat
  PROVE  /\ ReadTo(n) \in Seq(0 .. 255) /\ Len(ReadTo(n)) <= n
         /\ pos + Len(ReadTo(n)) <= Len(text)
         /\ \A i \in 1 .. Len(ReadTo(n)) : ReadTo(n)[i] = text[pos + i]
<1> DEFINE ends == {i \in 1 .. Len(Unread) : yy_is_interactive /\ Unread[i] = LF}
           S == {n, Len(Unread)} \cup ends
<1>1. /\ Unread \in Seq(0 .. 255) /\ Len(Unread) = Len(text) - pos /\ Len(Unread) \in Nat
      /\ \A i \in 1 .. Len(Unread) : Unread[i] = text[pos + i]
  <2>1. /\ text \in Seq(0 .. 255) /\ pos \in 0 .. Len(text) /\ Len(text) \in Nat
    BY Numbers
  <2>2. \A i \in pos + 1 .. Len(text) : text[i] \in 0 .. 255
    BY <2>1, ElementOfSeq
  <2>3. /\ Unread \in Seq(0 .. 255)
        /\ Len(Unread) = IF pos + 1 <= Len(text) THEN Len(text) - (pos + 1) + 1 ELSE 0
        /\ \A i \in 1 .. Len(text) - (pos + 1) + 1 : Unread[i] = text[pos + 1 + i - 1]
    BY <2>1, <2>2, SubSeqProperties DEF Unread
  <2> QED BY <2>1, <2>3
<1>2. PICK m : m = Min(S)
  OBVIOUS
<1>3. m \in Nat /\ m <= n /\ m <= Len(Unread)
  <2>1. S \in SUBSET Nat /\ S # {} /\ n \in S /\ Len(Unread) \in S
    BY <1>1
  <2> HIDE DEF S
  <2> QED BY <1>2, <2>1, MinIs
<1>4. ReadTo(n) = SubSeq(Unread, 1, m)
  BY <1>2 DEF ReadTo
<1>5. /\ ReadTo(n) \in Seq(0 .. 255) /\ Len(ReadTo(n)) = m
      /\ \A i \in 1 .. m : ReadTo(n)[i] = Unread[i]
  <2>1. \A i \in 1 .. m : Unread[i] \in 0 .. 255
    BY <1>1, <1>3, ElementOfSeq
  <2>2. /\ SubSeq(Unread, 1, m) \in Seq(0 .. 255)
        /\ Len(SubSeq(Unread, 1, m)) = IF 1 <= m THEN m - 1 + 1 ELSE 0
        /\ \A i \in 1 .. m - 1 + 1 : SubSeq(Unread, 1, m)[i] = Unread[1 + i - 1]
    BY <1>3, <2>1, SubSeqProperties
  <2> QED BY <1>3, <1>4, <2>2
<1> QED BY <1>1, <1>3, <1>5, Numbers, SMTT(40)

(* What a refill keeps is the text between the last token and what has     *)
(* been read, and with what it reads there is room for it.                 *)
LEMMA RefillFrom ==
  ASSUME ScanInv, HasRoom
  PROVE  /\ End = yy_n_chars + 1 /\ At(End) \in 0 .. 255 /\ yy_bp \in 0 .. yy_n_chars
         /\ Kept \in Seq(0 .. 255) /\ Len(Kept) = yy_n_chars - yy_bp
         /\ \A i \in 1 .. Len(Kept) : Kept[i] = text[token.to + i]
         /\ NextRead \in Seq(0 .. 255) /\ Len(Kept) + Len(NextRead) <= yy_buf_size
         /\ pos + Len(NextRead) <= Len(text)
         /\ \A i \in 1 .. Len(NextRead) : NextRead[i] = text[pos + i]
         /\ pos = token.to + Len(Kept) /\ token.to \in Nat
<1>1. TypeOK /\ Continues /\ pc = "find" /\ AtEnd /\ ~Real
  BY DEF HasRoom, Fills, AtEnd, Found, ScanInv
<1>2. /\ End = yy_n_chars + 1 /\ At(End) \in 0 .. 255 /\ yy_bp \in 0 .. yy_n_chars
      /\ yy_n_chars \in Nat /\ pos \in Nat
  BY <1>1, AtTheEnd, Numbers
<1>3. Mem = yy_ch_buf /\ Here = yy_bp
  BY <1>1 DEF Mem, Here
<1>4. token.to = pos - yy_n_chars + yy_bp /\ token.to \in Nat
  BY <1>1, <1>3 DEF Continues, PlaceOf
<1>5. /\ Kept \in Seq(0 .. 255) /\ Len(Kept) = yy_n_chars - yy_bp
      /\ \A i \in 1 .. Len(Kept) : Kept[i] = yy_ch_buf[yy_bp + i]
  <2>1. Kept = SubSeq(yy_ch_buf, yy_bp + 1, yy_n_chars)
    BY <1>2 DEF Kept, Slice
  <2>2. ASSUME NEW i \in yy_bp + 1 .. yy_n_chars PROVE yy_ch_buf[i] \in 0 .. 255
    <3>1. i \in 1 .. Len(yy_ch_buf) /\ yy_ch_buf \in Seq(0 .. 255)
      BY <1>1, <1>2, Numbers
    <3> QED BY <3>1, ElementOfSeq
  <2>3. /\ Kept \in Seq(0 .. 255)
        /\ Len(Kept) = IF yy_bp + 1 <= yy_n_chars THEN yy_n_chars - (yy_bp + 1) + 1 ELSE 0
        /\ \A i \in 1 .. yy_n_chars - (yy_bp + 1) + 1 : Kept[i] = yy_ch_buf[yy_bp + 1 + i - 1]
    BY <1>2, <2>1, <2>2, SubSeqProperties
  <2> QED BY <1>2, <2>3
<1>6. \A i \in 1 .. Len(Kept) : Kept[i] = text[token.to + i]
  <2> TAKE i \in 1 .. Len(Kept)
  <2>1. yy_bp + i \in yy_bp + 1 .. yy_n_chars /\ i \in Nat
    BY <1>2, <1>5
  <2>2. yy_ch_buf[yy_bp + i] = text[pos - yy_n_chars + (yy_bp + i)]
    BY <1>1, <1>3, <2>1 DEF Continues
  <2>3. pos - yy_n_chars + (yy_bp + i) = token.to + i
    BY <1>2, <1>4, <2>1
  <2> QED BY <1>5, <2>2, <2>3
<1>7. /\ NextRead \in Seq(0 .. 255) /\ Len(Kept) + Len(NextRead) <= yy_buf_size
      /\ pos + Len(NextRead) <= Len(text)
      /\ \A i \in 1 .. Len(NextRead) : NextRead[i] = text[pos + i]
  <2>1. CASE ~Reading
    <3>1. NextRead = <<>>
      BY <2>1 DEF NextRead
    <3>2. <<>> \in Seq(0 .. 255) /\ Len(<<>>) = 0
      OBVIOUS
    <3> QED BY <1>1, <1>2, <1>5, <3>1, <3>2, Numbers
  <2>2. CASE Reading
    <3>1. Room = yy_buf_size - Len(Kept) - 1 /\ Room > 0 /\ Room \in Nat
      BY <1>1, <1>2, <1>5, <2>2, Numbers DEF HasRoom, Room
    <3>2. PICK n : n = Min({Room, YY_READ_BUF_SIZE})
      OBVIOUS
    <3>3. n \in Nat /\ n <= Room
      <4>1. {Room, YY_READ_BUF_SIZE} \in SUBSET Nat /\ {Room, YY_READ_BUF_SIZE} # {}
        BY <3>1, ScannerAssumption
      <4> QED BY <3>2, <4>1, MinIs
    <3>4. NextRead = ReadTo(n)
      BY <2>2, <3>2 DEF NextRead
    <3>5. /\ ReadTo(n) \in Seq(0 .. 255) /\ Len(ReadTo(n)) <= n
          /\ pos + Len(ReadTo(n)) <= Len(text)
          /\ \A i \in 1 .. Len(ReadTo(n)) : ReadTo(n)[i] = text[pos + i]
      BY <1>1, <3>3, ReadToIs
    <3>6. Len(ReadTo(n)) \in Nat /\ Len(Kept) \in Nat /\ yy_buf_size \in Nat
      BY <1>1, <1>5, <3>5, LenProperties, Numbers
    <3> QED BY <3>1, <3>3, <3>4, <3>5, <3>6
  <2> QED BY <2>1, <2>2
<1>8. pos = token.to + Len(Kept)
  BY <1>2, <1>4, <1>5
<1> QED BY <1>2, <1>4, <1>5, <1>6, <1>7, <1>8

LEMMA BufferedIs ==
  ASSUME NEW seq \in Seq(0 .. 255)
  PROVE  /\ Buffered(seq) \in Seq(0 .. 255) /\ Len(Buffered(seq)) = Len(seq) + 2
         /\ Len(seq) \in Nat
         /\ \A i \in 1 .. Len(seq) : Buffered(seq)[i] = seq[i]
         /\ Buffered(seq)[Len(seq) + 1] = NUL /\ Buffered(seq)[Len(seq) + 2] = NUL
<1>1. <<NUL, NUL>> \in Seq(0 .. 255) /\ Len(<<NUL, NUL>>) = 2
  BY DEF NUL
<1>2. Len(seq) \in Nat
  BY LenProperties
<1>3. /\ Buffered(seq) \in Seq(0 .. 255) /\ Len(Buffered(seq)) = Len(seq) + 2
      /\ \A i \in 1 .. Len(seq) + 2 :
           Buffered(seq)[i] = IF i <= Len(seq) THEN seq[i] ELSE <<NUL, NUL>>[i - Len(seq)]
  BY <1>1, ConcatProperties DEF Buffered
<1> QED BY <1>2, <1>3

LEMMA NothingBuffered ==
  /\ Buffered(<<>>) \in Seq(0 .. 255) /\ Len(Buffered(<<>>)) = 2
  /\ Buffered(<<>>)[1] = NUL /\ Buffered(<<>>)[2] = NUL
<1>1. <<>> \in Seq(0 .. 255) /\ Len(<<>>) = 0
  BY EmptySeq
<1>2. /\ Buffered(<<>>) \in Seq(0 .. 255) /\ Len(Buffered(<<>>)) = Len(<<>>) + 2
      /\ Buffered(<<>>)[Len(<<>>) + 1] = NUL /\ Buffered(<<>>)[Len(<<>>) + 2] = NUL
  BY <1>1, BufferedIs
<1> QED BY <1>1, <1>2

LEMMA Shifted ==
  ASSUME NEW to \in Nat, NEW k \in Nat, NEW i \in Nat
  PROVE  (to + k) + (i - k) = to + i
OBVIOUS

LEMMA FromTheFront ==
  ASSUME NEW n \in Nat
  PROVE  0 \in 0 .. n /\ 0 <= n /\ 0 <= n + 2
OBVIOUS

(* A buffer that holds what has been kept and what has been read continues *)
(* the text.                                                               *)
LEMMA RefillContinues ==
  ASSUME ScanInv, HasRoom, Holds(Kept \o NextRead), pos' = pos + Len(NextRead),
         UNCHANGED <<text, token>>, pc' # "start", Here' = 0
  PROVE  /\ Continues'
         /\ yy_ch_buf' \in Seq(0 .. 255) /\ Len(yy_ch_buf') = yy_n_chars' + 2
         /\ yy_n_chars' \in 0 .. yy_buf_size /\ yy_n_chars' = Len(Kept) + Len(NextRead)
         /\ Len(Kept) \in 0 .. yy_n_chars' /\ pos' \in 0 .. Len(text)
<1>1. /\ Kept \in Seq(0 .. 255) /\ Len(Kept) \in Nat
      /\ NextRead \in Seq(0 .. 255) /\ Len(NextRead) \in Nat
      /\ Len(Kept) + Len(NextRead) <= yy_buf_size
      /\ pos + Len(NextRead) <= Len(text)
      /\ pos = token.to + Len(Kept) /\ token.to \in Nat
  BY RefillFrom, LenProperties
<1>2. yy_buf_size \in Nat /\ pos \in Nat /\ Len(text) \in Nat
  BY Numbers DEF ScanInv
<1>3. PICK k : k = Len(Kept) /\ k \in Nat
  BY <1>1
<1>4. PICK r : r = Len(NextRead) /\ r \in Nat
  BY <1>1
<1>5. PICK all : all = Kept \o NextRead
  OBVIOUS
<1>6. /\ all \in Seq(0 .. 255) /\ Len(all) = k + r
      /\ \A i \in 1 .. k + r : all[i] = IF i <= k THEN Kept[i] ELSE NextRead[i - k]
  BY <1>1, <1>3, <1>4, <1>5, ConcatProperties
<1>7. yy_ch_buf' = Buffered(all) /\ yy_n_chars' = k + r
  BY <1>5, <1>6 DEF Holds
<1>8. /\ yy_ch_buf' \in Seq(0 .. 255) /\ Len(yy_ch_buf') = k + r + 2
      /\ \A i \in 1 .. k + r : yy_ch_buf'[i] = all[i]
      /\ yy_ch_buf'[k + r + 1] = NUL /\ yy_ch_buf'[k + r + 2] = NUL
  BY <1>6, <1>7, BufferedIs
<1>9. \A i \in 1 .. k + r : yy_ch_buf'[i] = text[token.to + i]
  <2> TAKE i \in 1 .. k + r
  <2>1. CASE i <= k
    BY <1>3, <1>6, <1>8, <2>1, RefillFrom, SMTT(40)
  <2>2. CASE i > k
    <3>1. i - k \in 1 .. r /\ i \in Nat
      BY <1>3, <1>4, <2>2
    <3>2. NextRead[i - k] = text[pos + (i - k)]
      BY <1>4, <3>1, RefillFrom
    <3>3. PICK to : to = token.to /\ to \in Nat /\ pos = to + k
      BY <1>1, <1>3
    <3>4. pos + (i - k) = to + i
      <4>1. (to + k) + (i - k) = to + i
        BY <1>3, <3>1, <3>3, Shifted
      <4> QED BY <3>3, <4>1
    <3>5. ~ (i <= k)
      BY <1>3, <2>2, <3>1
    <3>6. all[i] = NextRead[i - k]
      BY <1>6, <3>5
    <3> QED BY <1>8, <3>2, <3>3, <3>4, <3>6
  <2>3. i \in Int /\ k \in Int
    BY <1>3, <1>4
  <2> QED BY <2>1, <2>2, <2>3
<1>10. Mem' = yy_ch_buf'
  BY DEF Mem
<1>11. pos' - yy_n_chars' = token.to
  BY <1>1, <1>3, <1>4, <1>7, SMTT(40)
<1>12. PlaceOf(Here)' = token.to
  BY <1>1, <1>11 DEF PlaceOf
<1>13. Continues'
  <2>1. token' = token /\ text' = text /\ Here' = 0
    OBVIOUS
  <2>2. Mem'[yy_n_chars' + 1] = NUL /\ Mem'[yy_n_chars' + 2] = NUL
    BY <1>7, <1>8, <1>10
  <2>3. ASSUME NEW i \in Here' + 1 .. yy_n_chars'
        PROVE  Mem'[i] = text'[pos' - yy_n_chars' + i]
    <3>1. i \in 1 .. k + r
      BY <1>7, <2>1, <2>3
    <3> QED BY <1>9, <1>10, <1>11, <2>1, <3>1
  <2>4. PlaceOf(Here)' = token'.to /\ token'.to \in Nat
    BY <1>1, <1>12, <2>1
  <2> QED BY <2>2, <2>3, <2>4 DEF Continues
<1> QED BY <1>1, <1>2, <1>3, <1>4, <1>7, <1>8, <1>13, SMTT(40)

LEMMA FillMoreKeeps == ASSUME ScanInv, FillMore PROVE ScanInv'
<1>1. /\ HasRoom /\ Holds(Kept \o NextRead) /\ pos' = pos + Len(NextRead)
      /\ yytext_ptr' = 0 /\ yy_buffer_status' = Normal
      /\ yy_c_buf_p' = Len(Kept) /\ yy_hold_char' = At(End)
      /\ GoOver("match")
      /\ UNCHANGED <<input, yy_buf_size, token>>
  BY DEF FillMore, Holds
<1>2. /\ pc' = "again" /\ then' = "match" /\ yy_cp' = 0 /\ yy_bp' = 0
      /\ yy_current_state' = 1
      /\ UNCHANGED <<yy_last_accepting_state, yy_last_accepting_cpos>>
  BY <1>1 DEF GoOver
<1>3. TypeOK /\ yy_buf_size > 0
  BY DEF ScanInv
<1>4. Here' = 0
  BY <1>2 DEF Here
<1>5. /\ Continues'
      /\ yy_ch_buf' \in Seq(0 .. 255) /\ Len(yy_ch_buf') = yy_n_chars' + 2
      /\ yy_n_chars' \in 0 .. yy_buf_size
      /\ Len(Kept) \in 0 .. yy_n_chars' /\ pos' \in 0 .. Len(text)
  BY <1>1, <1>2, <1>4, RefillContinues DEF input
<1>6. Scanned' /\ yy_current_state' # EobState /\ yy_current_state' \in DOMAIN yy_accept
  BY <1>2, FreshScan
<1>7. At(End) \in 0 .. 255
  BY <1>1, RefillFrom
<1>8. TypeOK'
  <2>1. yytext_ptr' \in 0 .. yy_n_chars' /\ yy_c_buf_p' \in 0 .. yy_n_chars'
        /\ yy_bp' <= yy_n_chars' /\ yy_cp' <= yy_n_chars' + 2
    <3>1. yy_n_chars' \in Nat
      BY <1>5, Numbers DEF ScanInv
    <3>2. 0 \in 0 .. yy_n_chars' /\ 0 <= yy_n_chars' /\ 0 <= yy_n_chars' + 2
      BY <3>1, FromTheFront
    <3>3. yytext_ptr' = 0 /\ yy_bp' = 0 /\ yy_cp' = 0 /\ yy_c_buf_p' = Len(Kept)
      BY <1>1, <1>2
    <3> QED BY <1>5, <3>2, <3>3
  <2>2. yy_buffer_status' \in {"NEW", "NORMAL", "EOF_PENDING"}
    BY <1>1, <1>3 DEF TypeOK, Normal
  <2> QED BY <1>1, <1>2, <1>3, <1>5, <1>6, <1>7, <2>1, <2>2 DEF TypeOK, input
<1>9. GoingOver'
  BY <1>1, <1>2, <1>5, <1>6 DEF GoingOver
<1> QED BY <1>1, <1>2, <1>3, <1>5, <1>8, <1>9 DEF ScanInv

LEMMA FillLastKeeps == ASSUME ScanInv, FillLast PROVE ScanInv'
<1>1. /\ HasRoom /\ NextRead = <<>> /\ Kept # <<>> /\ Holds(Kept) /\ pos' = pos
      /\ yytext_ptr' = 0 /\ yy_buffer_status' = "EOF_PENDING"
      /\ yy_c_buf_p' = Len(Kept) /\ yy_hold_char' = At(End)
      /\ GoOver("find")
      /\ UNCHANGED <<input, yy_buf_size, token>>
  BY DEF FillLast, Holds, AfterLastMatch
<1>2. /\ pc' = "again" /\ then' = "find" /\ yy_cp' = 0 /\ yy_bp' = 0
      /\ yy_current_state' = 1
      /\ UNCHANGED <<yy_last_accepting_state, yy_last_accepting_cpos>>
  BY <1>1 DEF GoOver
<1>3. TypeOK /\ yy_buf_size > 0 /\ pos \in Nat
  BY Numbers DEF ScanInv
<1>4. Kept \in Seq(0 .. 255)
  BY <1>1, RefillFrom
<1>5. Kept \o NextRead = Kept /\ Len(NextRead) = 0 /\ Len(Kept) > 0
  BY <1>1, <1>4, ConcatEmptySeq, EmptySeq
<1>6. Here' = 0
  BY <1>2 DEF Here
<1>7. /\ Continues'
      /\ yy_ch_buf' \in Seq(0 .. 255) /\ Len(yy_ch_buf') = yy_n_chars' + 2
      /\ yy_n_chars' \in 0 .. yy_buf_size
      /\ Len(Kept) \in 0 .. yy_n_chars' /\ pos' \in 0 .. Len(text)
  BY <1>1, <1>2, <1>3, <1>5, <1>6, RefillContinues DEF input
<1>8. Scanned' /\ yy_current_state' # EobState /\ yy_current_state' \in DOMAIN yy_accept
  BY <1>2, FreshScan
<1>9. At(End) \in 0 .. 255
  BY <1>1, RefillFrom
<1>10. TypeOK'
  <2>1. yytext_ptr' \in 0 .. yy_n_chars' /\ yy_c_buf_p' \in 0 .. yy_n_chars'
        /\ yy_bp' <= yy_n_chars' /\ yy_cp' <= yy_n_chars' + 2
    <3>1. yy_n_chars' \in Nat
      BY <1>7, Numbers DEF ScanInv
    <3>2. 0 \in 0 .. yy_n_chars' /\ 0 <= yy_n_chars' /\ 0 <= yy_n_chars' + 2
      BY <3>1, FromTheFront
    <3>3. yytext_ptr' = 0 /\ yy_bp' = 0 /\ yy_cp' = 0 /\ yy_c_buf_p' = Len(Kept)
      BY <1>1, <1>2
    <3> QED BY <1>7, <3>2, <3>3
  <2> QED BY <1>1, <1>2, <1>3, <1>7, <1>8, <1>9, <2>1 DEF TypeOK, input
<1>11. GoingOver'
  BY <1>1, <1>2, <1>5, <1>7, <1>8 DEF GoingOver
<1> QED BY <1>1, <1>2, <1>3, <1>7, <1>10, <1>11 DEF ScanInv

LEMMA FillEndKeeps ==
  ASSUME ScanInv, FillEnd
  PROVE  ScanInv' /\ token'.sym = "$end" /\ token'.from = token.to
<1>1. /\ HasRoom /\ NextRead = <<>> /\ Kept = <<>> /\ Holds(<<>>) /\ pos' = pos
      /\ yytext_ptr' = 0 /\ yy_buffer_status' = "NEW"
      /\ yy_c_buf_p' = 0 /\ yy_hold_char' = NUL /\ pc' = "eof"
      /\ token' = [sym |-> "$end", from |-> PlaceOf(yy_bp), to |-> PlaceOf(yy_bp)]
      /\ UNCHANGED <<input, yy_buf_size, match, yy_bp, then>>
  BY DEF FillEnd, Holds
<1>2. TypeOK /\ Continues /\ yy_buf_size > 0 /\ pos \in Nat /\ yy_buf_size \in Nat
  BY Numbers DEF ScanInv
<1>3. pc = "find"
  BY <1>1 DEF HasRoom, Fills, AtEnd, Found
<1>4. PlaceOf(yy_bp) = token.to /\ token.to \in Nat
  BY <1>2, <1>3 DEF Continues, Here
<1>5. pos = token.to
  BY <1>1, <1>2, RefillFrom
<1>6. <<>> \in Seq(0 .. 255) /\ Len(<<>>) = 0
  OBVIOUS
<1>7. yy_ch_buf' = Buffered(<<>>) /\ yy_n_chars' = 0
  BY <1>1, <1>6 DEF Holds
<1>8. /\ yy_ch_buf' \in Seq(0 .. 255) /\ Len(yy_ch_buf') = 2
      /\ yy_ch_buf'[1] = NUL /\ yy_ch_buf'[2] = NUL
  BY <1>7, NothingBuffered
<1>9. Continues'
  <2>1. Mem' = yy_ch_buf' /\ Here' = 0
    BY <1>1 DEF Mem, Here
  <2>2. token'.to = pos /\ PlaceOf(Here)' = pos
    BY <1>1, <1>2, <1>4, <1>5, <1>7, <2>1 DEF PlaceOf
  <2> QED BY <1>2, <1>7, <1>8, <2>1, <2>2 DEF Continues
<1>10. TypeOK'
  BY <1>1, <1>2, <1>7, <1>8 DEF TypeOK, input, match, NUL
<1> QED BY <1>1, <1>2, <1>4, <1>9, <1>10 DEF ScanInv

-----------------------------------------------------------------------------
(* The theorems *)

LEMMA InitInv == ASSUME Init PROVE ScanInv
<1>1. /\ text \in Seq(0 .. 255) /\ pos = 0 /\ yy_buf_size \in Nat /\ yy_buf_size > 0
      /\ Len(text) \in Nat
  <2>1. text \in Seq(0 .. 255) /\ pos = 0 /\ yy_buf_size \in Nat \ {0}
    BY ScannerAssumption DEF Init
  <2> QED BY <2>1, LenProperties
<1>2. <<>> \in Seq(0 .. 255) /\ Len(<<>>) = 0
  OBVIOUS
<1>3. /\ yy_ch_buf \in Seq(0 .. 255) /\ Len(yy_ch_buf) = 2
      /\ yy_ch_buf[1] = NUL /\ yy_ch_buf[2] = NUL
  BY NothingBuffered DEF Init
<1>4. 1 \in DOMAIN yy_accept /\ 0 \in DOMAIN yy_accept
  BY AcceptDomain
<1>5. TypeOK
  BY <1>1, <1>3, <1>4 DEF Init, TypeOK, NUL
<1>6. Continues
  <2>1. pc = "start" /\ yy_c_buf_p = 0 /\ yy_hold_char = NUL /\ yy_n_chars = 0 /\ token.to = 0
    BY DEF Init, NoToken
  <2>2. Mem = [yy_ch_buf EXCEPT ![1] = NUL] /\ Here = 0
    BY <2>1 DEF Mem, Here, Restored
  <2>3. Mem[1] = NUL /\ Mem[2] = NUL
    BY <1>3, <2>2
  <2>4. PlaceOf(Here) = 0
    BY <1>1, <2>1, <2>2 DEF PlaceOf
  <2> QED BY <2>1, <2>2, <2>3, <2>4 DEF Continues
<1>7. pc = "start"
  BY DEF Init
<1> QED BY <1>1, <1>5, <1>6, <1>7 DEF ScanInv

LEMMA StepInv == ASSUME ScanInv, [Next]_vars PROVE ScanInv'
<1>1. CASE Start
  BY <1>1, StartKeeps
<1>2. CASE Match
  BY <1>2, MatchKeeps
<1>3. CASE Again
  BY <1>3, AgainKeeps
<1>4. CASE Deliver
  BY <1>4, DeliverKeeps
<1>5. CASE NulInText
  BY <1>5, NulInTextKeeps
<1>6. CASE TryNul
  BY <1>6, TryNulKeeps
<1>7. CASE Grow
  BY <1>7, GrowKeeps
<1>8. CASE FillMore
  BY <1>8, FillMoreKeeps
<1>9. CASE FillLast
  BY <1>9, FillLastKeeps
<1>10. CASE FillEnd
  BY <1>10, FillEndKeeps
<1>11. CASE ReadFails
  BY <1>11, ReadFailsKeeps
<1>12. CASE UNCHANGED vars
  <2>1. UNCHANGED <<input, buffer, match, yy_c_buf_p, yytext_ptr, yy_hold_char, yy_bp, pc, then, token>>
    BY <1>12 DEF vars
  <2> QED BY <2>1 DEF ScanInv, TypeOK, Continues, Mem, Here, Restored, PlaceOf, Matching, Finding,
                      GoingOver, Scanned, Accepts, At, input, buffer, match
<1> QED BY <1>1, <1>2, <1>3, <1>4, <1>5, <1>6, <1>7, <1>8, <1>9, <1>10, <1>11, <1>12
        DEF Next, Steps

(* ScanInv is invariant, whatever is typed and however reads cut it up. *)
THEOREM ScannerInvariant == Spec => []ScanInv
BY InitInv, StepInv, PTL DEF Spec

(* No pointer leaves the buffer, whatever the text, the size of the buffer *)
(* and the reads are.                                                      *)
THEOREM TypeCorrect == Spec => []TypeOK
<1>1. ScanInv => TypeOK
  BY DEF ScanInv
<1> QED BY <1>1, ScannerInvariant, PTL

LEMMA ContinuedText == ASSUME ScanInv PROVE NothingIsLost
<1>1. TypeOK /\ Continues
  BY DEF ScanInv
<1>2. PICK mem : mem = Mem
  OBVIOUS
<1>3. PICK here : here = Here
  OBVIOUS
<1>4. yy_n_chars \in Nat /\ pos \in Nat /\ pos <= Len(text) /\ Len(text) \in Nat
      /\ text \in Seq(0 .. 255) /\ here \in Nat
  BY <1>1, <1>3, Numbers DEF Here
<1>5. here <= yy_n_chars
  <2>1. pc \notin {"start", "eof"} => yy_bp <= yy_n_chars
    BY <1>1 DEF TypeOK
  <2> QED BY <1>1, <1>3, <2>1, Numbers DEF Here
<1>6. /\ PlaceOf(here) = token.to /\ token.to \in Nat
      /\ PlaceOf(here) = pos - yy_n_chars + here
      /\ \A i \in here + 1 .. yy_n_chars : mem[i] = text[pos - yy_n_chars + i]
  BY <1>1, <1>2, <1>3 DEF Continues, PlaceOf
<1>7. PICK at : at = token.to
  OBVIOUS
<1>8. at \in Nat /\ at = pos - yy_n_chars + here
  BY <1>6, <1>7
<1>9. /\ SubSeq(text, at + 1, pos) \in Seq(0 .. 255)
      /\ Len(SubSeq(text, at + 1, pos)) = IF at + 1 <= pos THEN pos - (at + 1) + 1 ELSE 0
      /\ \A i \in 1 .. pos - (at + 1) + 1 : SubSeq(text, at + 1, pos)[i] = text[at + 1 + i - 1]
  <2>1. ASSUME NEW i \in at + 1 .. pos PROVE text[i] \in 0 .. 255
    <3>1. i \in 1 .. Len(text)
      BY <1>4, <1>8
    <3> QED BY <1>4, <3>1, ElementOfSeq
  <2>2. at + 1 \in Int /\ pos \in Int
    BY <1>4, <1>8
  <2> QED BY <2>1, <2>2, SubSeqProperties
<1>10. /\ SubSeq(mem, here + 1, yy_n_chars) \in Seq(0 .. 255)
       /\ Len(SubSeq(mem, here + 1, yy_n_chars))
            = IF here + 1 <= yy_n_chars THEN yy_n_chars - (here + 1) + 1 ELSE 0
       /\ \A i \in 1 .. yy_n_chars - (here + 1) + 1 :
            SubSeq(mem, here + 1, yy_n_chars)[i] = mem[here + 1 + i - 1]
  <2>1. \A i \in here + 1 .. yy_n_chars : mem[i] \in 0 .. 255
    <3> TAKE i \in here + 1 .. yy_n_chars
    <3>1. pos - yy_n_chars + i \in 1 .. Len(text)
      BY <1>4, <1>8
    <3>2. text[pos - yy_n_chars + i] \in 0 .. 255
      BY <1>4, <3>1, ElementOfSeq
    <3> QED BY <1>6, <3>2
  <2>2. PICK from : from = here + 1 /\ from \in Int
    BY <1>4
  <2>3. yy_n_chars \in Int
    BY <1>4
  <2>4. \A i \in from .. yy_n_chars : mem[i] \in 0 .. 255
    BY <2>1, <2>2
  <2>5. /\ SubSeq(mem, from, yy_n_chars) \in Seq(0 .. 255)
        /\ Len(SubSeq(mem, from, yy_n_chars))
             = IF from <= yy_n_chars THEN yy_n_chars - from + 1 ELSE 0
        /\ \A i \in 1 .. yy_n_chars - from + 1 :
             SubSeq(mem, from, yy_n_chars)[i] = mem[from + i - 1]
    BY <2>2, <2>3, <2>4, SubSeqProperties
  <2> QED BY <2>2, <2>5
<1>11. Len(SubSeq(mem, here + 1, yy_n_chars)) = Len(SubSeq(text, at + 1, pos))
  BY <1>4, <1>5, <1>8, <1>9, <1>10
<1>12. ASSUME NEW i \in 1 .. Len(SubSeq(mem, here + 1, yy_n_chars))
       PROVE  SubSeq(mem, here + 1, yy_n_chars)[i] = SubSeq(text, at + 1, pos)[i]
  <2>1. i \in Nat /\ here + i \in here + 1 .. yy_n_chars
        /\ i \in 1 .. yy_n_chars - (here + 1) + 1 /\ i \in 1 .. pos - (at + 1) + 1
    BY <1>4, <1>5, <1>8, <1>10
  <2>2. SubSeq(mem, here + 1, yy_n_chars)[i] = mem[here + i]
    BY <1>4, <1>10, <2>1
  <2>3. SubSeq(text, at + 1, pos)[i] = text[at + i]
    BY <1>8, <1>9, <2>1
  <2>4. mem[here + i] = text[at + i]
    BY <1>4, <1>6, <1>8, <2>1
  <2> QED BY <2>2, <2>3, <2>4
<1>13. SubSeq(mem, here + 1, yy_n_chars) = SubSeq(text, at + 1, pos)
  BY <1>9, <1>10, <1>11, <1>12, SeqEqual
<1>14. /\ mem = IF pc = "start" THEN Restored ELSE yy_ch_buf
       /\ here = IF pc \in {"start", "eof"} THEN yy_c_buf_p ELSE yy_bp
  BY <1>2, <1>3 DEF Mem, Here
<1> QED BY <1>6, <1>7, <1>13, <1>14 DEF NothingIsLost

(* Nothing is lost and nothing comes twice between the file and the        *)
(* parser, whatever is moved, read and grown in the buffer (lex.sql.c,     *)
(* yy_get_next_buffer).                                                    *)
THEOREM NoCharacterIsLost == Spec => []NothingIsLost
<1>1. ScanInv => NothingIsLost
  BY ContinuedText
<1> QED BY <1>1, ScannerInvariant, PTL

(* Each token begins where the last one ended and takes a character at     *)
(* least, up to the end: the tokens of sqllex() are the text, cut up, and  *)
(* it cannot go on for ever without coming further.                        *)
TokensTile ==
  [][token' # token => /\ token'.from = token.to
                       /\ token'.sym = "$end" \/ token'.to > token'.from]_vars

LEMMA TokenStep ==
  ASSUME ScanInv, [Next]_vars, token' # token
  PROVE  token'.from = token.to /\ (token'.sym = "$end" \/ token'.to > token'.from)
<1>1. CASE Deliver
  BY <1>1, DeliverKeeps
<1>2. CASE FillEnd
  BY <1>2, FillEndKeeps
<1>3. CASE Start \/ Match \/ Again
  BY <1>3 DEF Start, Match, Again
<1>4. CASE NulInText \/ TryNul \/ Grow
  BY <1>4 DEF NulInText, TryNul, Grow
<1>5. CASE FillMore \/ FillLast \/ ReadFails
  BY <1>5 DEF FillMore, FillLast, ReadFails
<1>6. CASE UNCHANGED vars
  BY <1>6 DEF vars
<1> QED BY <1>1, <1>2, <1>3, <1>4, <1>5, <1>6 DEF Next, Steps

THEOREM TokensFollow == Spec => TokensTile
<1>1. ScanInv /\ [Next]_vars =>
        [token' # token => /\ token'.from = token.to
                           /\ token'.sym = "$end" \/ token'.to > token'.from]_vars
  BY TokenStep
<1> QED BY <1>1, ScannerInvariant, PTL DEF Spec, TokensTile

-----------------------------------------------------------------------------
(* What the states mean: what may have been read when the automaton is in  *)
(* one.  The first n characters of u have been.                            *)

NameChars == Letters \cup Digits \cup {Minus, 95}
Char      == 0 .. 255

(* The words of rules 1 to 11, and the states that they lead through *)
Spell(k) == IF k <= 11 THEN Keyword[k] ELSE InLower(Keyword[k - 11])
Chain ==
  <<<<26, 55, 75, 93, 102, 107>>, <<21, 50, 71, 89>>, <<27, 56, 76, 94, 103>>, <<23, 52, 73, 91>>,
    <<27, 57, 77, 95>>, <<22, 51, 72, 90, 101>>, <<25, 54, 74, 92>>, <<20, 49, 70, 88>>,
    <<19, 48, 69, 87, 100, 106, 109, 111>>, <<17, 47, 68>>, <<24, 53>>,
    <<36, 65, 84, 98, 105, 107>>, <<31, 61, 80, 89>>, <<37, 66, 85, 99, 103>>, <<33, 63, 82, 91>>,
    <<37, 67, 86, 95>>, <<32, 62, 81, 97, 101>>, <<35, 64, 83, 92>>, <<30, 60, 79, 88>>,
    <<29, 59, 78, 96, 104, 108, 110, 111>>, <<28, 58, 68>>, <<34, 53>>>>
Length == <<6, 4, 5, 4, 4, 5, 4, 4, 8, 3, 2, 6, 4, 5, 4, 4, 5, 4, 4, 8, 3, 2>>

Begins(u, n, k) == n <= Length[k] /\ \A i \in 1 .. n : u[i] = Spell(k)[i]

BlankIn(u, n)   == \A i \in 1 .. n : u[i] \in {Space, TAB}
IntegerIn(u, n) == /\ u[1] \in Digits \cup {Minus} /\ \A i \in 2 .. n : u[i] \in Digits
                   /\ n >= 2 \/ u[1] # Minus
OpenIn(u, n)    == u[1] = Quote /\ \A i \in 2 .. n : u[i] # Quote
StringIn(u, n)  == n >= 2 /\ u[n] = Quote /\ OpenIn(u, n - 1)
NameIn(u, n)    == u[1] \in Letters /\ \A i \in 1 .. n : u[i] \in NameChars

(* One character, and two of them *)
One(u, n, a)    == n = 1 /\ u[1] = a
Two(u, n, a, b) == n = 2 /\ u[1] = a /\ u[2] = b

(* Rule r matches them. *)
RuleIn(r, u, n) ==
  CASE r \in 1 .. 11 -> \E k \in {r, r + 11} : n = Length[k] /\ Begins(u, n, k)
    [] r = 12 -> One(u, n, 61)
    [] r = 13 -> Two(u, n, 60, 62)
    [] r = 14 -> One(u, n, 62)
    [] r = 15 -> One(u, n, 60)
    [] r = 16 -> Two(u, n, 62, 61)
    [] r = 17 -> Two(u, n, 60, 61)
    [] r = 18 -> IntegerIn(u, n)
    [] r = 19 -> StringIn(u, n)
    [] r = 20 -> NameIn(u, n)
    [] r = 21 -> One(u, n, 44)
    [] r = 22 -> One(u, n, 42)
    [] r = 23 -> One(u, n, LF) \/ Two(u, n, CR, LF)
    [] r = 24 -> One(u, n, 59)
    [] r = 25 -> BlankIn(u, n)
    [] r = 26 -> n = 1

(* They may be the beginning of a longer match. *)
GrowsIn(u, n) ==
  \/ \E k \in 1 .. 22 : n < Length[k] /\ Begins(u, n, k)
  \/ n = 1 /\ u[1] \in {60, 62, CR, Minus}
  \/ IntegerIn(u, n) \/ OpenIn(u, n) \/ NameIn(u, n) \/ BlankIn(u, n)

(* The characters that begin nothing longer, and no word *)
Plain == Char \ (Letters \cup Digits \cup {Space,
  TAB, LF, CR, Quote, 42, 44, Minus, 59, 60, 61, 62})

Spelled(s, u, n) == \E k \in 1 .. 22 : Begins(u, n, k) /\ Chain[k][n] = s

Means(s, u, n) ==
  IF s = 1 THEN n = 0
  ELSE n >= 1 /\
    CASE s = 4 -> n = 1 /\ u[1] \in Plain
      [] s \in {5, 38} -> BlankIn(u, n)
      [] s = 6 -> One(u, n, LF)
      [] s = 7 -> One(u, n, CR)
      [] s = 8 -> One(u, n, Quote)
      [] s = 40 -> n >= 2 /\ OpenIn(u, n)
      [] s = 9 -> One(u, n, 42)
      [] s = 10 -> One(u, n, 44)
      [] s = 11 -> One(u, n, Minus)
      [] s \in {12, 42} -> IntegerIn(u, n)
      [] s = 13 -> One(u, n, 59)
      [] s = 14 -> One(u, n, 60)
      [] s = 15 -> One(u, n, 61)
      [] s = 16 -> One(u, n, 62)
      [] s \in {18, 46} -> NameIn(u, n) /\ \A k \in 1 .. 22 : ~Begins(u, n, k)
      [] s = 39 -> Two(u, n, CR, LF)
      [] s = 41 -> StringIn(u, n)
      [] s = 43 -> Two(u, n, 60, 61)
      [] s = 44 -> Two(u, n, 60, 62)
      [] s = 45 -> Two(u, n, 62, 61)
      [] OTHER -> Spelled(s, u, n)

-----------------------------------------------------------------------------
(* What the tables say of the words' letters *)

(* The classes of the letters *)
Column ==
  <<<<30, 20, 24, 20, 18, 31>>, <<21, 29, 27, 25>>, <<33, 22, 20, 29, 20>>,
    <<24, 27, 16, 19>>, <<33, 23, 31, 22>>, <<23, 26, 19, 20, 34>>, <<28, 32, 23, 31>>,
    <<20, 34, 23, 31>>, <<18, 27, 32, 26, 31, 6, 8, 7>>, <<16, 26, 19>>, <<27, 29>>,
    <<49, 39, 43, 39, 37, 50>>, <<40, 48, 46, 44>>, <<52, 41, 39, 48, 39>>,
    <<43, 46, 36, 38>>, <<52, 42, 50, 41>>, <<42, 45, 38, 39, 53>>, <<47, 51, 42, 50>>,
    <<39, 53, 42, 50>>, <<37, 46, 51, 45, 50, 6, 8, 7>>, <<36, 45, 38>>, <<46, 48>>>>

(* What the words begin with *)
Initial ==
  <<83, 70, 87, 76, 87, 73,
    81, 69, 67, 65, 79, 115, 102, 119, 108, 119, 105, 113, 101, 99, 97, 111>>

LEMMA Lengths ==
  /\ \A k \in 1 .. 22 : Length[k] \in 2 .. 8
  /\ \A k \in 1 .. 22 : Length[k] > 6 <=> k \in {9, 20}
  /\ Length[9] = 8 /\ Length[20] = 8
BY DEF Length

LEMMA OneOfTheKeys ==
  \A k \in 1 .. 22 : \/ k = 1 \/ k = 2 \/ k = 3 \/ k = 4 \/ k = 5 \/ k = 6 \/ k = 7 \/ k = 8
                     \/ k = 9 \/ k = 10 \/ k = 11 \/ k = 12 \/ k = 13 \/ k = 14 \/ k = 15
                     \/ k = 16 \/ k = 17 \/ k = 18 \/ k = 19 \/ k = 20 \/ k = 21 \/ k = 22
OBVIOUS

(* The words are sequences of characters.                                  *)
IsSpelled(k) ==
  /\ Len(Spell(k)) = Length[k] /\ DOMAIN Spell(k) = 1 .. Length[k]
  /\ Spell(k) = [i \in 1 .. Length[k] |-> Spell(k)[i]]
  /\ \A i \in 1 .. Length[k] : Spell(k)[i] \in Char

(* They consist of letters, but for two parentheses and a star, and no two *)
(* of them begin with the same two letters.                                *)
IsLettered(k) ==
  /\ \A i \in 1 .. Length[k] :
       IF i <= 5 \/ k \notin {9, 20} THEN Spell(k)[i] \in Letters
       ELSE Spell(k)[i] = <<40, 42, 41>>[i - 5]
  /\ Spell(k)[1] = Initial[k]
  /\ k \in {3, 14} => Spell(k)[2] \in {72, 104}
  /\ k \in {5, 16} => Spell(k)[2] \in {73, 105}

(* Each of these has a class of its own.                                   *)
IsClassed(k) ==
  /\ \A i \in 1 .. Length[k] : Column[k][i] \in 6 .. 53
  /\ \A i \in 1 .. Length[k], x \in Char : yy_ec[x] = Column[k][i] <=> x = Spell(k)[i]

(* The states of a word lead from one to the next and nowhere else, except *)
(* for the defaults, and but for the two words that begin with w.          *)
IsChained(k) ==
  /\ yy_nxt[Column[k][1]] = Chain[k][1]
  /\ \A i \in 1 .. Length[k] - 1 : Entry(Chain[k][i], Column[k][i + 1]) = Chain[k][i + 1]
  /\ \A i \in 1 .. Length[k], c \in 1 .. 53 :
       HasEntry(Chain[k][i], c) <=>
         IF i = 1 /\ k \in {3, 5} THEN c \in {22, 23}
         ELSE IF i = 1 /\ k \in {14, 16} THEN c \in {41, 42}
         ELSE i < Length[k] /\ c = Column[k][i + 1]

IsAccepted(k) ==
  \A i \in 1 .. Length[k] :
    /\ Chain[k][i] \in (17 .. 111) \ ({18} \cup 38 .. 46)
    /\ yy_def[Chain[k][i]] = IF i > 5 /\ k \in {9, 20} THEN 112 ELSE 114
    /\ yy_accept[Chain[k][i]] = IF i = Length[k] THEN IF k > 11 THEN k - 11 ELSE k
                                ELSE IF i > 5 THEN 0 ELSE 20
    /\ Jams(Chain[k][i]) <=> i = 8

LEMMA Row_SELECT ==
  /\ IsSpelled(1) /\ IsLettered(1) /\ IsClassed(1)
  /\ IsChained(1) /\ IsAccepted(1)
<1>1. Length[1] = 6 /\ Chain[1] = <<26, 55, 75, 93, 102, 107>>
  BY DEF Length, Chain
<1>2. Column[1] = <<30, 20, 24, 20, 18, 31>>
  BY DEF Column
<1>3. Spell(1) = <<83, 69, 76, 69, 67, 84>>
  BY DEF Spell, Keyword, InLower
<1>4. IsSpelled(1)
  BY <1>1, <1>3 DEF IsSpelled, Char
<1>5. IsLettered(1)
  BY <1>1, <1>3 DEF IsLettered, Letters, Initial
<1>6. IsClassed(1)
  <2>1. \A i \in 1 .. 6, x \in 0 .. 255 : yy_ec[x] = <<30, 20, 24, 20, 18, 31>>[i]
          <=> x = <<83, 69, 76, 69, 67, 84>>[i]
    BY SMTT(60) DEF yy_ec
  <2>2. \A i \in 1 .. 6 : <<30, 20, 24, 20, 18, 31>>[i] \in 6 .. 53
    OBVIOUS
  <2>3. \A i \in 1 .. 6 : Column[1][i] \in 6 .. 53
    BY <1>2, <2>2
  <2>4. \A i \in 1 .. 6, x \in 0 .. 255 : yy_ec[x] = Column[1][i] <=> x = Spell(1)[i]
    BY <1>2, <1>3, <2>1
  <2> QED BY <1>1, <2>3, <2>4 DEF IsClassed, Char
<1>7. IsChained(1)
  <2>1. \A i \in 1 .. 5 : Entry(<<26, 55, 75, 93, 102, 107>>[i], <<30, 20, 24, 20, 18, 31>>[i + 1])
                       = <<26, 55, 75, 93, 102, 107>>[i + 1]
    <3>1. \A i \in 1 .. 5 : yy_base[<<26,
            55, 75, 93, 102, 107>>[i]] + <<30, 20, 24, 20, 18, 31>>[i + 1]
                         = <<129, 109, 90, 76, 69>>[i]
      BY SMTT(60) DEF yy_base, From0
    <3>2. \A i \in 1 .. 5 : yy_nxt[<<129,
            109, 90, 76, 69>>[i]] = <<26, 55, 75, 93, 102, 107>>[i + 1]
      BY SMTT(60) DEF yy_nxt, From0
    <3> QED BY <3>1, <3>2 DEF Entry
  <2>2. \A i \in 1 .. 6, c \in 1 .. 53 :
          HasEntry(<<26, 55, 75, 93, 102, 107>>[i], c) <=> i < 6
            /\ c = <<30, 20, 24, 20, 18, 31>>[i + 1]
    BY SMTT(60) DEF HasEntry, yy_chk, yy_base, From0
  <2>3. yy_nxt[30] = 26
    BY SMTT(60) DEF yy_nxt, From0
  <2> QED BY <1>1, <1>2, <2>1, <2>2, <2>3 DEF IsChained
<1>8. IsAccepted(1)
  <2>1. \A i \in 1 .. 6 : yy_def[<<26, 55, 75, 93, 102, 107>>[i]] = 114
    BY SMTT(30) DEF yy_def, From0
  <2>2. \A i \in 1 .. 6 : yy_accept[<<26, 55, 75, 93, 102, 107>>[i]] = <<20, 20, 20, 20, 20, 1>>[i]
    BY SMTT(30) DEF yy_accept, From0
  <2>3. \A i \in 1 .. 6 : yy_base[<<26, 55, 75, 93, 102, 107>>[i]] = 145 <=> i = 8
    BY SMTT(30) DEF yy_base, From0
  <2> QED BY <1>1, <2>1, <2>2, <2>3 DEF IsAccepted, Jams, JamBase
<1> QED BY <1>4, <1>5, <1>6, <1>7, <1>8

LEMMA Row_FROM ==
  /\ IsSpelled(2) /\ IsLettered(2) /\ IsClassed(2)
  /\ IsChained(2) /\ IsAccepted(2)
<1>1. Length[2] = 4 /\ Chain[2] = <<21, 50, 71, 89>>
  BY DEF Length, Chain
<1>2. Column[2] = <<21, 29, 27, 25>>
  BY DEF Column
<1>3. Spell(2) = <<70, 82, 79, 77>>
  BY DEF Spell, Keyword, InLower
<1>4. IsSpelled(2)
  BY <1>1, <1>3 DEF IsSpelled, Char
<1>5. IsLettered(2)
  BY <1>1, <1>3 DEF IsLettered, Letters, Initial
<1>6. IsClassed(2)
  <2>1. \A i \in 1 .. 4, x \in 0 .. 255 : yy_ec[x] = <<21, 29, 27, 25>>[i]
          <=> x = <<70, 82, 79, 77>>[i]
    BY SMTT(60) DEF yy_ec
  <2>2. \A i \in 1 .. 4 : <<21, 29, 27, 25>>[i] \in 6 .. 53
    OBVIOUS
  <2>3. \A i \in 1 .. 4 : Column[2][i] \in 6 .. 53
    BY <1>2, <2>2
  <2>4. \A i \in 1 .. 4, x \in 0 .. 255 : yy_ec[x] = Column[2][i] <=> x = Spell(2)[i]
    BY <1>2, <1>3, <2>1
  <2> QED BY <1>1, <2>3, <2>4 DEF IsClassed, Char
<1>7. IsChained(2)
  <2>1. \A i \in 1 .. 3 : Entry(<<21, 50, 71, 89>>[i], <<21, 29, 27, 25>>[i + 1])
                       = <<21, 50, 71, 89>>[i + 1]
    <3>1. \A i \in 1 .. 3 : yy_base[<<21, 50, 71, 89>>[i]] + <<21, 29, 27, 25>>[i + 1]
                         = <<134, 113, 94>>[i]
      BY SMTT(60) DEF yy_base, From0
    <3>2. \A i \in 1 .. 3 : yy_nxt[<<134, 113, 94>>[i]] = <<21, 50, 71, 89>>[i + 1]
      BY SMTT(60) DEF yy_nxt, From0
    <3> QED BY <3>1, <3>2 DEF Entry
  <2>2. \A i \in 1 .. 4, c \in 1 .. 53 :
          HasEntry(<<21, 50, 71, 89>>[i], c) <=> i < 4 /\ c = <<21, 29, 27, 25>>[i + 1]
    BY SMTT(60) DEF HasEntry, yy_chk, yy_base, From0
  <2>3. yy_nxt[21] = 21
    BY SMTT(60) DEF yy_nxt, From0
  <2> QED BY <1>1, <1>2, <2>1, <2>2, <2>3 DEF IsChained
<1>8. IsAccepted(2)
  <2>1. \A i \in 1 .. 4 : yy_def[<<21, 50, 71, 89>>[i]] = 114
    BY SMTT(30) DEF yy_def, From0
  <2>2. \A i \in 1 .. 4 : yy_accept[<<21, 50, 71, 89>>[i]] = <<20, 20, 20, 2>>[i]
    BY SMTT(30) DEF yy_accept, From0
  <2>3. \A i \in 1 .. 4 : yy_base[<<21, 50, 71, 89>>[i]] = 145 <=> i = 8
    BY SMTT(30) DEF yy_base, From0
  <2> QED BY <1>1, <2>1, <2>2, <2>3 DEF IsAccepted, Jams, JamBase
<1> QED BY <1>4, <1>5, <1>6, <1>7, <1>8

LEMMA Row_WHERE ==
  /\ IsSpelled(3) /\ IsLettered(3) /\ IsClassed(3)
  /\ IsChained(3) /\ IsAccepted(3)
<1>1. Length[3] = 5 /\ Chain[3] = <<27, 56, 76, 94, 103>>
  BY DEF Length, Chain
<1>2. Column[3] = <<33, 22, 20, 29, 20>>
  BY DEF Column
<1>3. Spell(3) = <<87, 72, 69, 82, 69>>
  BY DEF Spell, Keyword, InLower
<1>4. IsSpelled(3)
  BY <1>1, <1>3 DEF IsSpelled, Char
<1>5. IsLettered(3)
  BY <1>1, <1>3 DEF IsLettered, Letters, Initial
<1>6. IsClassed(3)
  <2>1. \A i \in 1 .. 5, x \in 0 .. 255 : yy_ec[x] = <<33, 22, 20, 29, 20>>[i]
          <=> x = <<87, 72, 69, 82, 69>>[i]
    BY SMTT(60) DEF yy_ec
  <2>2. \A i \in 1 .. 5 : <<33, 22, 20, 29, 20>>[i] \in 6 .. 53
    OBVIOUS
  <2>3. \A i \in 1 .. 5 : Column[3][i] \in 6 .. 53
    BY <1>2, <2>2
  <2>4. \A i \in 1 .. 5, x \in 0 .. 255 : yy_ec[x] = Column[3][i] <=> x = Spell(3)[i]
    BY <1>2, <1>3, <2>1
  <2> QED BY <1>1, <2>3, <2>4 DEF IsClassed, Char
<1>7. IsChained(3)
  <2>1. \A i \in 1 .. 4 : Entry(<<27, 56, 76, 94, 103>>[i], <<33, 22, 20, 29, 20>>[i + 1])
                       = <<27, 56, 76, 94, 103>>[i + 1]
    <3>1. \A i \in 1 .. 4 : yy_base[<<27, 56, 76, 94, 103>>[i]] + <<33, 22, 20, 29, 20>>[i + 1]
                         = <<56, 108, 89, 75>>[i]
      BY SMTT(60) DEF yy_base, From0
    <3>2. \A i \in 1 .. 4 : yy_nxt[<<56, 108, 89, 75>>[i]] = <<27, 56, 76, 94, 103>>[i + 1]
      BY SMTT(60) DEF yy_nxt, From0
    <3> QED BY <3>1, <3>2 DEF Entry
  <2>2. \A i \in 1 .. 5, c \in 1 .. 53 :
          HasEntry(<<27, 56, 76, 94, 103>>[i], c) <=> IF i = 1 THEN c \in {22, 23}
            ELSE i < 5 /\ c = <<33, 22, 20, 29, 20>>[i + 1]
    BY SMTT(60) DEF HasEntry, yy_chk, yy_base, From0
  <2>3. yy_nxt[33] = 27
    BY SMTT(60) DEF yy_nxt, From0
  <2> QED BY <1>1, <1>2, <2>1, <2>2, <2>3 DEF IsChained
<1>8. IsAccepted(3)
  <2>1. \A i \in 1 .. 5 : yy_def[<<27, 56, 76, 94, 103>>[i]] = 114
    BY SMTT(30) DEF yy_def, From0
  <2>2. \A i \in 1 .. 5 : yy_accept[<<27, 56, 76, 94, 103>>[i]] = <<20, 20, 20, 20, 3>>[i]
    BY SMTT(30) DEF yy_accept, From0
  <2>3. \A i \in 1 .. 5 : yy_base[<<27, 56, 76, 94, 103>>[i]] = 145 <=> i = 8
    BY SMTT(30) DEF yy_base, From0
  <2> QED BY <1>1, <2>1, <2>2, <2>3 DEF IsAccepted, Jams, JamBase
<1> QED BY <1>4, <1>5, <1>6, <1>7, <1>8

LEMMA Row_LOAD ==
  /\ IsSpelled(4) /\ IsLettered(4) /\ IsClassed(4)
  /\ IsChained(4) /\ IsAccepted(4)
<1>1. Length[4] = 4 /\ Chain[4] = <<23, 52, 73, 91>>
  BY DEF Length, Chain
<1>2. Column[4] = <<24, 27, 16, 19>>
  BY DEF Column
<1>3. Spell(4) = <<76, 79, 65, 68>>
  BY DEF Spell, Keyword, InLower
<1>4. IsSpelled(4)
  BY <1>1, <1>3 DEF IsSpelled, Char
<1>5. IsLettered(4)
  BY <1>1, <1>3 DEF IsLettered, Letters, Initial
<1>6. IsClassed(4)
  <2>1. \A i \in 1 .. 4, x \in 0 .. 255 : yy_ec[x] = <<24, 27, 16, 19>>[i]
          <=> x = <<76, 79, 65, 68>>[i]
    BY SMTT(60) DEF yy_ec
  <2>2. \A i \in 1 .. 4 : <<24, 27, 16, 19>>[i] \in 6 .. 53
    OBVIOUS
  <2>3. \A i \in 1 .. 4 : Column[4][i] \in 6 .. 53
    BY <1>2, <2>2
  <2>4. \A i \in 1 .. 4, x \in 0 .. 255 : yy_ec[x] = Column[4][i] <=> x = Spell(4)[i]
    BY <1>2, <1>3, <2>1
  <2> QED BY <1>1, <2>3, <2>4 DEF IsClassed, Char
<1>7. IsChained(4)
  <2>1. \A i \in 1 .. 3 : Entry(<<23, 52, 73, 91>>[i], <<24, 27, 16, 19>>[i + 1])
                       = <<23, 52, 73, 91>>[i + 1]
    <3>1. \A i \in 1 .. 3 : yy_base[<<23, 52, 73, 91>>[i]] + <<24, 27, 16, 19>>[i + 1]
                         = <<132, 111, 92>>[i]
      BY SMTT(60) DEF yy_base, From0
    <3>2. \A i \in 1 .. 3 : yy_nxt[<<132, 111, 92>>[i]] = <<23, 52, 73, 91>>[i + 1]
      BY SMTT(60) DEF yy_nxt, From0
    <3> QED BY <3>1, <3>2 DEF Entry
  <2>2. \A i \in 1 .. 4, c \in 1 .. 53 :
          HasEntry(<<23, 52, 73, 91>>[i], c) <=> i < 4 /\ c = <<24, 27, 16, 19>>[i + 1]
    BY SMTT(60) DEF HasEntry, yy_chk, yy_base, From0
  <2>3. yy_nxt[24] = 23
    BY SMTT(60) DEF yy_nxt, From0
  <2> QED BY <1>1, <1>2, <2>1, <2>2, <2>3 DEF IsChained
<1>8. IsAccepted(4)
  <2>1. \A i \in 1 .. 4 : yy_def[<<23, 52, 73, 91>>[i]] = 114
    BY SMTT(30) DEF yy_def, From0
  <2>2. \A i \in 1 .. 4 : yy_accept[<<23, 52, 73, 91>>[i]] = <<20, 20, 20, 4>>[i]
    BY SMTT(30) DEF yy_accept, From0
  <2>3. \A i \in 1 .. 4 : yy_base[<<23, 52, 73, 91>>[i]] = 145 <=> i = 8
    BY SMTT(30) DEF yy_base, From0
  <2> QED BY <1>1, <2>1, <2>2, <2>3 DEF IsAccepted, Jams, JamBase
<1> QED BY <1>4, <1>5, <1>6, <1>7, <1>8

LEMMA Row_WITH ==
  /\ IsSpelled(5) /\ IsLettered(5) /\ IsClassed(5)
  /\ IsChained(5) /\ IsAccepted(5)
<1>1. Length[5] = 4 /\ Chain[5] = <<27, 57, 77, 95>>
  BY DEF Length, Chain
<1>2. Column[5] = <<33, 23, 31, 22>>
  BY DEF Column
<1>3. Spell(5) = <<87, 73, 84, 72>>
  BY DEF Spell, Keyword, InLower
<1>4. IsSpelled(5)
  BY <1>1, <1>3 DEF IsSpelled, Char
<1>5. IsLettered(5)
  BY <1>1, <1>3 DEF IsLettered, Letters, Initial
<1>6. IsClassed(5)
  <2>1. \A i \in 1 .. 4, x \in 0 .. 255 : yy_ec[x] = <<33, 23, 31, 22>>[i]
          <=> x = <<87, 73, 84, 72>>[i]
    BY SMTT(60) DEF yy_ec
  <2>2. \A i \in 1 .. 4 : <<33, 23, 31, 22>>[i] \in 6 .. 53
    OBVIOUS
  <2>3. \A i \in 1 .. 4 : Column[5][i] \in 6 .. 53
    BY <1>2, <2>2
  <2>4. \A i \in 1 .. 4, x \in 0 .. 255 : yy_ec[x] = Column[5][i] <=> x = Spell(5)[i]
    BY <1>2, <1>3, <2>1
  <2> QED BY <1>1, <2>3, <2>4 DEF IsClassed, Char
<1>7. IsChained(5)
  <2>1. \A i \in 1 .. 3 : Entry(<<27, 57, 77, 95>>[i], <<33, 23, 31, 22>>[i + 1])
                       = <<27, 57, 77, 95>>[i + 1]
    <3>1. \A i \in 1 .. 3 : yy_base[<<27, 57, 77, 95>>[i]] + <<33, 23, 31, 22>>[i + 1]
                         = <<57, 107, 88>>[i]
      BY SMTT(60) DEF yy_base, From0
    <3>2. \A i \in 1 .. 3 : yy_nxt[<<57, 107, 88>>[i]] = <<27, 57, 77, 95>>[i + 1]
      BY SMTT(60) DEF yy_nxt, From0
    <3> QED BY <3>1, <3>2 DEF Entry
  <2>2. \A i \in 1 .. 4, c \in 1 .. 53 :
          HasEntry(<<27, 57, 77, 95>>[i], c) <=> IF i = 1 THEN c \in {22, 23} ELSE i < 4
            /\ c = <<33, 23, 31, 22>>[i + 1]
    BY SMTT(60) DEF HasEntry, yy_chk, yy_base, From0
  <2>3. yy_nxt[33] = 27
    BY SMTT(60) DEF yy_nxt, From0
  <2> QED BY <1>1, <1>2, <2>1, <2>2, <2>3 DEF IsChained
<1>8. IsAccepted(5)
  <2>1. \A i \in 1 .. 4 : yy_def[<<27, 57, 77, 95>>[i]] = 114
    BY SMTT(30) DEF yy_def, From0
  <2>2. \A i \in 1 .. 4 : yy_accept[<<27, 57, 77, 95>>[i]] = <<20, 20, 20, 5>>[i]
    BY SMTT(30) DEF yy_accept, From0
  <2>3. \A i \in 1 .. 4 : yy_base[<<27, 57, 77, 95>>[i]] = 145 <=> i = 8
    BY SMTT(30) DEF yy_base, From0
  <2> QED BY <1>1, <2>1, <2>2, <2>3 DEF IsAccepted, Jams, JamBase
<1> QED BY <1>4, <1>5, <1>6, <1>7, <1>8

LEMMA Row_INDEX ==
  /\ IsSpelled(6) /\ IsLettered(6) /\ IsClassed(6)
  /\ IsChained(6) /\ IsAccepted(6)
<1>1. Length[6] = 5 /\ Chain[6] = <<22, 51, 72, 90, 101>>
  BY DEF Length, Chain
<1>2. Column[6] = <<23, 26, 19, 20, 34>>
  BY DEF Column
<1>3. Spell(6) = <<73, 78, 68, 69, 88>>
  BY DEF Spell, Keyword, InLower
<1>4. IsSpelled(6)
  BY <1>1, <1>3 DEF IsSpelled, Char
<1>5. IsLettered(6)
  BY <1>1, <1>3 DEF IsLettered, Letters, Initial
<1>6. IsClassed(6)
  <2>1. \A i \in 1 .. 5, x \in 0 .. 255 : yy_ec[x] = <<23, 26, 19, 20, 34>>[i]
          <=> x = <<73, 78, 68, 69, 88>>[i]
    BY SMTT(60) DEF yy_ec
  <2>2. \A i \in 1 .. 5 : <<23, 26, 19, 20, 34>>[i] \in 6 .. 53
    OBVIOUS
  <2>3. \A i \in 1 .. 5 : Column[6][i] \in 6 .. 53
    BY <1>2, <2>2
  <2>4. \A i \in 1 .. 5, x \in 0 .. 255 : yy_ec[x] = Column[6][i] <=> x = Spell(6)[i]
    BY <1>2, <1>3, <2>1
  <2> QED BY <1>1, <2>3, <2>4 DEF IsClassed, Char
<1>7. IsChained(6)
  <2>1. \A i \in 1 .. 4 : Entry(<<22, 51, 72, 90, 101>>[i], <<23, 26, 19, 20, 34>>[i + 1])
                       = <<22, 51, 72, 90, 101>>[i + 1]
    <3>1. \A i \in 1 .. 4 : yy_base[<<22, 51, 72, 90, 101>>[i]] + <<23, 26, 19, 20, 34>>[i + 1]
                         = <<133, 112, 93, 77>>[i]
      BY SMTT(60) DEF yy_base, From0
    <3>2. \A i \in 1 .. 4 : yy_nxt[<<133, 112, 93, 77>>[i]] = <<22, 51, 72, 90, 101>>[i + 1]
      BY SMTT(60) DEF yy_nxt, From0
    <3> QED BY <3>1, <3>2 DEF Entry
  <2>2. \A i \in 1 .. 5, c \in 1 .. 53 :
          HasEntry(<<22, 51, 72, 90, 101>>[i], c) <=> i < 5 /\ c = <<23, 26, 19, 20, 34>>[i + 1]
    BY SMTT(60) DEF HasEntry, yy_chk, yy_base, From0
  <2>3. yy_nxt[23] = 22
    BY SMTT(60) DEF yy_nxt, From0
  <2> QED BY <1>1, <1>2, <2>1, <2>2, <2>3 DEF IsChained
<1>8. IsAccepted(6)
  <2>1. \A i \in 1 .. 5 : yy_def[<<22, 51, 72, 90, 101>>[i]] = 114
    BY SMTT(30) DEF yy_def, From0
  <2>2. \A i \in 1 .. 5 : yy_accept[<<22, 51, 72, 90, 101>>[i]] = <<20, 20, 20, 20, 6>>[i]
    BY SMTT(30) DEF yy_accept, From0
  <2>3. \A i \in 1 .. 5 : yy_base[<<22, 51, 72, 90, 101>>[i]] = 145 <=> i = 8
    BY SMTT(30) DEF yy_base, From0
  <2> QED BY <1>1, <2>1, <2>2, <2>3 DEF IsAccepted, Jams, JamBase
<1> QED BY <1>4, <1>5, <1>6, <1>7, <1>8

LEMMA Row_QUIT ==
  /\ IsSpelled(7) /\ IsLettered(7) /\ IsClassed(7)
  /\ IsChained(7) /\ IsAccepted(7)
<1>1. Length[7] = 4 /\ Chain[7] = <<25, 54, 74, 92>>
  BY DEF Length, Chain
<1>2. Column[7] = <<28, 32, 23, 31>>
  BY DEF Column
<1>3. Spell(7) = <<81, 85, 73, 84>>
  BY DEF Spell, Keyword, InLower
<1>4. IsSpelled(7)
  BY <1>1, <1>3 DEF IsSpelled, Char
<1>5. IsLettered(7)
  BY <1>1, <1>3 DEF IsLettered, Letters, Initial
<1>6. IsClassed(7)
  <2>1. \A i \in 1 .. 4, x \in 0 .. 255 : yy_ec[x] = <<28, 32, 23, 31>>[i]
          <=> x = <<81, 85, 73, 84>>[i]
    BY SMTT(60) DEF yy_ec
  <2>2. \A i \in 1 .. 4 : <<28, 32, 23, 31>>[i] \in 6 .. 53
    OBVIOUS
  <2>3. \A i \in 1 .. 4 : Column[7][i] \in 6 .. 53
    BY <1>2, <2>2
  <2>4. \A i \in 1 .. 4, x \in 0 .. 255 : yy_ec[x] = Column[7][i] <=> x = Spell(7)[i]
    BY <1>2, <1>3, <2>1
  <2> QED BY <1>1, <2>3, <2>4 DEF IsClassed, Char
<1>7. IsChained(7)
  <2>1. \A i \in 1 .. 3 : Entry(<<25, 54, 74, 92>>[i], <<28, 32, 23, 31>>[i + 1])
                       = <<25, 54, 74, 92>>[i + 1]
    <3>1. \A i \in 1 .. 3 : yy_base[<<25, 54, 74, 92>>[i]] + <<28, 32, 23, 31>>[i + 1]
                         = <<130, 110, 91>>[i]
      BY SMTT(60) DEF yy_base, From0
    <3>2. \A i \in 1 .. 3 : yy_nxt[<<130, 110, 91>>[i]] = <<25, 54, 74, 92>>[i + 1]
      BY SMTT(60) DEF yy_nxt, From0
    <3> QED BY <3>1, <3>2 DEF Entry
  <2>2. \A i \in 1 .. 4, c \in 1 .. 53 :
          HasEntry(<<25, 54, 74, 92>>[i], c) <=> i < 4 /\ c = <<28, 32, 23, 31>>[i + 1]
    BY SMTT(60) DEF HasEntry, yy_chk, yy_base, From0
  <2>3. yy_nxt[28] = 25
    BY SMTT(60) DEF yy_nxt, From0
  <2> QED BY <1>1, <1>2, <2>1, <2>2, <2>3 DEF IsChained
<1>8. IsAccepted(7)
  <2>1. \A i \in 1 .. 4 : yy_def[<<25, 54, 74, 92>>[i]] = 114
    BY SMTT(30) DEF yy_def, From0
  <2>2. \A i \in 1 .. 4 : yy_accept[<<25, 54, 74, 92>>[i]] = <<20, 20, 20, 7>>[i]
    BY SMTT(30) DEF yy_accept, From0
  <2>3. \A i \in 1 .. 4 : yy_base[<<25, 54, 74, 92>>[i]] = 145 <=> i = 8
    BY SMTT(30) DEF yy_base, From0
  <2> QED BY <1>1, <2>1, <2>2, <2>3 DEF IsAccepted, Jams, JamBase
<1> QED BY <1>4, <1>5, <1>6, <1>7, <1>8

LEMMA Row_EXIT ==
  /\ IsSpelled(8) /\ IsLettered(8) /\ IsClassed(8)
  /\ IsChained(8) /\ IsAccepted(8)
<1>1. Length[8] = 4 /\ Chain[8] = <<20, 49, 70, 88>>
  BY DEF Length, Chain
<1>2. Column[8] = <<20, 34, 23, 31>>
  BY DEF Column
<1>3. Spell(8) = <<69, 88, 73, 84>>
  BY DEF Spell, Keyword, InLower
<1>4. IsSpelled(8)
  BY <1>1, <1>3 DEF IsSpelled, Char
<1>5. IsLettered(8)
  BY <1>1, <1>3 DEF IsLettered, Letters, Initial
<1>6. IsClassed(8)
  <2>1. \A i \in 1 .. 4, x \in 0 .. 255 : yy_ec[x] = <<20, 34, 23, 31>>[i]
          <=> x = <<69, 88, 73, 84>>[i]
    BY SMTT(60) DEF yy_ec
  <2>2. \A i \in 1 .. 4 : <<20, 34, 23, 31>>[i] \in 6 .. 53
    OBVIOUS
  <2>3. \A i \in 1 .. 4 : Column[8][i] \in 6 .. 53
    BY <1>2, <2>2
  <2>4. \A i \in 1 .. 4, x \in 0 .. 255 : yy_ec[x] = Column[8][i] <=> x = Spell(8)[i]
    BY <1>2, <1>3, <2>1
  <2> QED BY <1>1, <2>3, <2>4 DEF IsClassed, Char
<1>7. IsChained(8)
  <2>1. \A i \in 1 .. 3 : Entry(<<20, 49, 70, 88>>[i], <<20, 34, 23, 31>>[i + 1])
                       = <<20, 49, 70, 88>>[i + 1]
    <3>1. \A i \in 1 .. 3 : yy_base[<<20, 49, 70, 88>>[i]] + <<20, 34, 23, 31>>[i + 1]
                         = <<135, 114, 95>>[i]
      BY SMTT(60) DEF yy_base, From0
    <3>2. \A i \in 1 .. 3 : yy_nxt[<<135, 114, 95>>[i]] = <<20, 49, 70, 88>>[i + 1]
      BY SMTT(60) DEF yy_nxt, From0
    <3> QED BY <3>1, <3>2 DEF Entry
  <2>2. \A i \in 1 .. 4, c \in 1 .. 53 :
          HasEntry(<<20, 49, 70, 88>>[i], c) <=> i < 4 /\ c = <<20, 34, 23, 31>>[i + 1]
    BY SMTT(60) DEF HasEntry, yy_chk, yy_base, From0
  <2>3. yy_nxt[20] = 20
    BY SMTT(60) DEF yy_nxt, From0
  <2> QED BY <1>1, <1>2, <2>1, <2>2, <2>3 DEF IsChained
<1>8. IsAccepted(8)
  <2>1. \A i \in 1 .. 4 : yy_def[<<20, 49, 70, 88>>[i]] = 114
    BY SMTT(30) DEF yy_def, From0
  <2>2. \A i \in 1 .. 4 : yy_accept[<<20, 49, 70, 88>>[i]] = <<20, 20, 20, 8>>[i]
    BY SMTT(30) DEF yy_accept, From0
  <2>3. \A i \in 1 .. 4 : yy_base[<<20, 49, 70, 88>>[i]] = 145 <=> i = 8
    BY SMTT(30) DEF yy_base, From0
  <2> QED BY <1>1, <2>1, <2>2, <2>3 DEF IsAccepted, Jams, JamBase
<1> QED BY <1>4, <1>5, <1>6, <1>7, <1>8

LEMMA Row_COUNT ==
  /\ IsSpelled(9) /\ IsLettered(9) /\ IsClassed(9)
  /\ IsChained(9) /\ IsAccepted(9)
<1>1. Length[9] = 8 /\ Chain[9] = <<19, 48, 69, 87, 100, 106, 109, 111>>
  BY DEF Length, Chain
<1>2. Column[9] = <<18, 27, 32, 26, 31, 6, 8, 7>>
  BY DEF Column
<1>3. Spell(9) = <<67, 79, 85, 78, 84, 40, 42, 41>>
  BY DEF Spell, Keyword, InLower
<1>4. IsSpelled(9)
  BY <1>1, <1>3 DEF IsSpelled, Char
<1>5. IsLettered(9)
  BY <1>1, <1>3, SMTT(40) DEF IsLettered, Letters, Initial
<1>6. IsClassed(9)
  <2>1. \A i \in 1 .. 8, x \in 0 .. 255 : yy_ec[x] = <<18, 27, 32, 26, 31, 6, 8, 7>>[i]
          <=> x = <<67, 79, 85, 78, 84, 40, 42, 41>>[i]
    BY SMTT(60) DEF yy_ec
  <2>2. \A i \in 1 .. 8 : <<18, 27, 32, 26, 31, 6, 8, 7>>[i] \in 6 .. 53
    OBVIOUS
  <2>3. \A i \in 1 .. 8 : Column[9][i] \in 6 .. 53
    BY <1>2, <2>2
  <2>4. \A i \in 1 .. 8, x \in 0 .. 255 : yy_ec[x] = Column[9][i] <=> x = Spell(9)[i]
    BY <1>2, <1>3, <2>1, SMTT(40)
  <2> QED BY <1>1, <2>3, <2>4 DEF IsClassed, Char
<1>7. IsChained(9)
  <2>1. \A i \in 1 .. 7 : Entry(<<19,
          48, 69, 87, 100, 106, 109, 111>>[i], <<18, 27, 32, 26, 31, 6, 8, 7>>[i + 1])
                       = <<19, 48, 69, 87, 100, 106, 109, 111>>[i + 1]
    <3>1. \A i \in 1 .. 7 : yy_base[<<19,
            48, 69, 87, 100, 106, 109, 111>>[i]] + <<18, 27, 32, 26, 31, 6, 8, 7>>[i + 1]
                         = <<136, 115, 96, 78, 70, 66, 64>>[i]
      BY SMTT(60) DEF yy_base, From0
    <3>2. \A i \in 1 .. 7 : yy_nxt[<<136,
            115, 96, 78, 70, 66, 64>>[i]] = <<19, 48, 69, 87, 100, 106, 109, 111>>[i + 1]
      BY SMTT(60) DEF yy_nxt, From0
    <3> QED BY <3>1, <3>2 DEF Entry
  <2>2. \A i \in 1 .. 8, c \in 1 .. 53 :
          HasEntry(<<19, 48, 69, 87, 100, 106, 109, 111>>[i], c) <=> i < 8
            /\ c = <<18, 27, 32, 26, 31, 6, 8, 7>>[i + 1]
    BY SMTT(60) DEF HasEntry, yy_chk, yy_base, From0
  <2>3. yy_nxt[18] = 19
    BY SMTT(60) DEF yy_nxt, From0
  <2> QED BY <1>1, <1>2, <2>1, <2>2, <2>3 DEF IsChained
<1>8. IsAccepted(9)
  <2>1. \A i \in 1 .. 8 : yy_def[<<19, 48, 69, 87, 100, 106, 109, 111>>[i]] = IF i > 5
          THEN 112 ELSE 114
    BY SMTT(30) DEF yy_def, From0
  <2>2. \A i \in 1 .. 8 : yy_accept[<<19,
          48, 69, 87, 100, 106, 109, 111>>[i]] = <<20, 20, 20, 20, 20, 0, 0, 9>>[i]
    BY SMTT(30) DEF yy_accept, From0
  <2>3. \A i \in 1 .. 8 : yy_base[<<19, 48, 69, 87, 100, 106, 109, 111>>[i]] = 145 <=> i = 8
    BY SMTT(30) DEF yy_base, From0
  <2> QED BY <1>1, <2>1, <2>2, <2>3 DEF IsAccepted, Jams, JamBase
<1> QED BY <1>4, <1>5, <1>6, <1>7, <1>8

LEMMA Row_AND ==
  /\ IsSpelled(10) /\ IsLettered(10) /\ IsClassed(10)
  /\ IsChained(10) /\ IsAccepted(10)
<1>1. Length[10] = 3 /\ Chain[10] = <<17, 47, 68>>
  BY DEF Length, Chain
<1>2. Column[10] = <<16, 26, 19>>
  BY DEF Column
<1>3. Spell(10) = <<65, 78, 68>>
  BY DEF Spell, Keyword, InLower
<1>4. IsSpelled(10)
  BY <1>1, <1>3 DEF IsSpelled, Char
<1>5. IsLettered(10)
  BY <1>1, <1>3 DEF IsLettered, Letters, Initial
<1>6. IsClassed(10)
  <2>1. \A i \in 1 .. 3, x \in 0 .. 255 : yy_ec[x] = <<16, 26, 19>>[i] <=> x = <<65, 78, 68>>[i]
    BY SMTT(60) DEF yy_ec
  <2>2. \A i \in 1 .. 3 : <<16, 26, 19>>[i] \in 6 .. 53
    OBVIOUS
  <2>3. \A i \in 1 .. 3 : Column[10][i] \in 6 .. 53
    BY <1>2, <2>2
  <2>4. \A i \in 1 .. 3, x \in 0 .. 255 : yy_ec[x] = Column[10][i] <=> x = Spell(10)[i]
    BY <1>2, <1>3, <2>1
  <2> QED BY <1>1, <2>3, <2>4 DEF IsClassed, Char
<1>7. IsChained(10)
  <2>1. \A i \in 1 .. 2 : Entry(<<17, 47, 68>>[i], <<16, 26, 19>>[i + 1])
                       = <<17, 47, 68>>[i + 1]
    <3>1. \A i \in 1 .. 2 : yy_base[<<17, 47, 68>>[i]] + <<16, 26, 19>>[i + 1]
                         = <<137, 116>>[i]
      BY SMTT(60) DEF yy_base, From0
    <3>2. \A i \in 1 .. 2 : yy_nxt[<<137, 116>>[i]] = <<17, 47, 68>>[i + 1]
      BY SMTT(60) DEF yy_nxt, From0
    <3> QED BY <3>1, <3>2 DEF Entry
  <2>2. \A i \in 1 .. 3, c \in 1 .. 53 :
          HasEntry(<<17, 47, 68>>[i], c) <=> i < 3 /\ c = <<16, 26, 19>>[i + 1]
    BY SMTT(60) DEF HasEntry, yy_chk, yy_base, From0
  <2>3. yy_nxt[16] = 17
    BY SMTT(60) DEF yy_nxt, From0
  <2> QED BY <1>1, <1>2, <2>1, <2>2, <2>3 DEF IsChained
<1>8. IsAccepted(10)
  <2>1. \A i \in 1 .. 3 : yy_def[<<17, 47, 68>>[i]] = 114
    BY SMTT(30) DEF yy_def, From0
  <2>2. \A i \in 1 .. 3 : yy_accept[<<17, 47, 68>>[i]] = <<20, 20, 10>>[i]
    BY SMTT(30) DEF yy_accept, From0
  <2>3. \A i \in 1 .. 3 : yy_base[<<17, 47, 68>>[i]] = 145 <=> i = 8
    BY SMTT(30) DEF yy_base, From0
  <2> QED BY <1>1, <2>1, <2>2, <2>3 DEF IsAccepted, Jams, JamBase
<1> QED BY <1>4, <1>5, <1>6, <1>7, <1>8

LEMMA Row_OR ==
  /\ IsSpelled(11) /\ IsLettered(11) /\ IsClassed(11)
  /\ IsChained(11) /\ IsAccepted(11)
<1>1. Length[11] = 2 /\ Chain[11] = <<24, 53>>
  BY DEF Length, Chain
<1>2. Column[11] = <<27, 29>>
  BY DEF Column
<1>3. Spell(11) = <<79, 82>>
  BY DEF Spell, Keyword, InLower
<1>4. IsSpelled(11)
  BY <1>1, <1>3 DEF IsSpelled, Char
<1>5. IsLettered(11)
  BY <1>1, <1>3 DEF IsLettered, Letters, Initial
<1>6. IsClassed(11)
  <2>1. \A i \in 1 .. 2, x \in 0 .. 255 : yy_ec[x] = <<27, 29>>[i] <=> x = <<79, 82>>[i]
    BY SMTT(60) DEF yy_ec
  <2>2. \A i \in 1 .. 2 : <<27, 29>>[i] \in 6 .. 53
    OBVIOUS
  <2>3. \A i \in 1 .. 2 : Column[11][i] \in 6 .. 53
    BY <1>2, <2>2
  <2>4. \A i \in 1 .. 2, x \in 0 .. 255 : yy_ec[x] = Column[11][i] <=> x = Spell(11)[i]
    BY <1>2, <1>3, <2>1
  <2> QED BY <1>1, <2>3, <2>4 DEF IsClassed, Char
<1>7. IsChained(11)
  <2>1. \A i \in 1 .. 1 : Entry(<<24, 53>>[i], <<27, 29>>[i + 1])
                       = <<24, 53>>[i + 1]
    <3>1. \A i \in 1 .. 1 : yy_base[<<24, 53>>[i]] + <<27, 29>>[i + 1]
                         = <<131>>[i]
      BY SMTT(60) DEF yy_base, From0
    <3>2. \A i \in 1 .. 1 : yy_nxt[<<131>>[i]] = <<24, 53>>[i + 1]
      BY SMTT(60) DEF yy_nxt, From0
    <3> QED BY <3>1, <3>2 DEF Entry
  <2>2. \A i \in 1 .. 2, c \in 1 .. 53 :
          HasEntry(<<24, 53>>[i], c) <=> i < 2 /\ c = <<27, 29>>[i + 1]
    BY SMTT(60) DEF HasEntry, yy_chk, yy_base, From0
  <2>3. yy_nxt[27] = 24
    BY SMTT(60) DEF yy_nxt, From0
  <2> QED BY <1>1, <1>2, <2>1, <2>2, <2>3 DEF IsChained
<1>8. IsAccepted(11)
  <2>1. \A i \in 1 .. 2 : yy_def[<<24, 53>>[i]] = 114
    BY SMTT(30) DEF yy_def, From0
  <2>2. \A i \in 1 .. 2 : yy_accept[<<24, 53>>[i]] = <<20, 11>>[i]
    BY SMTT(30) DEF yy_accept, From0
  <2>3. \A i \in 1 .. 2 : yy_base[<<24, 53>>[i]] = 145 <=> i = 8
    BY SMTT(30) DEF yy_base, From0
  <2> QED BY <1>1, <2>1, <2>2, <2>3 DEF IsAccepted, Jams, JamBase
<1> QED BY <1>4, <1>5, <1>6, <1>7, <1>8

LEMMA Row_select ==
  /\ IsSpelled(12) /\ IsLettered(12) /\ IsClassed(12)
  /\ IsChained(12) /\ IsAccepted(12)
<1>1. Length[12] = 6 /\ Chain[12] = <<36, 65, 84, 98, 105, 107>>
  BY DEF Length, Chain
<1>2. Column[12] = <<49, 39, 43, 39, 37, 50>>
  BY DEF Column
<1>3. Spell(12) = <<115, 101, 108, 101, 99, 116>>
  BY DEF Spell, Keyword, InLower
<1>4. IsSpelled(12)
  BY <1>1, <1>3 DEF IsSpelled, Char
<1>5. IsLettered(12)
  BY <1>1, <1>3 DEF IsLettered, Letters, Initial
<1>6. IsClassed(12)
  <2>1. \A i \in 1 .. 6, x \in 0 .. 255 : yy_ec[x] = <<49, 39, 43, 39, 37, 50>>[i]
          <=> x = <<115, 101, 108, 101, 99, 116>>[i]
    BY SMTT(60) DEF yy_ec
  <2>2. \A i \in 1 .. 6 : <<49, 39, 43, 39, 37, 50>>[i] \in 6 .. 53
    OBVIOUS
  <2>3. \A i \in 1 .. 6 : Column[12][i] \in 6 .. 53
    BY <1>2, <2>2
  <2>4. \A i \in 1 .. 6, x \in 0 .. 255 : yy_ec[x] = Column[12][i] <=> x = Spell(12)[i]
    BY <1>2, <1>3, <2>1
  <2> QED BY <1>1, <2>3, <2>4 DEF IsClassed, Char
<1>7. IsChained(12)
  <2>1. \A i \in 1 .. 5 : Entry(<<36, 65, 84, 98, 105, 107>>[i], <<49, 39, 43, 39, 37, 50>>[i + 1])
                       = <<36, 65, 84, 98, 105, 107>>[i + 1]
    <3>1. \A i \in 1 .. 5 : yy_base[<<36,
            65, 84, 98, 105, 107>>[i]] + <<49, 39, 43, 39, 37, 50>>[i + 1]
                         = <<120, 99, 81, 72, 67>>[i]
      BY SMTT(60) DEF yy_base, From0
    <3>2. \A i \in 1 .. 5 : yy_nxt[<<120, 99, 81, 72, 67>>[i]] = <<36, 65, 84, 98, 105, 107>>[i + 1]
      BY SMTT(60) DEF yy_nxt, From0
    <3> QED BY <3>1, <3>2 DEF Entry
  <2>2. \A i \in 1 .. 6, c \in 1 .. 53 :
          HasEntry(<<36, 65, 84, 98, 105, 107>>[i], c) <=> i < 6
            /\ c = <<49, 39, 43, 39, 37, 50>>[i + 1]
    BY SMTT(60) DEF HasEntry, yy_chk, yy_base, From0
  <2>3. yy_nxt[49] = 36
    BY SMTT(60) DEF yy_nxt, From0
  <2> QED BY <1>1, <1>2, <2>1, <2>2, <2>3 DEF IsChained
<1>8. IsAccepted(12)
  <2>1. \A i \in 1 .. 6 : yy_def[<<36, 65, 84, 98, 105, 107>>[i]] = 114
    BY SMTT(30) DEF yy_def, From0
  <2>2. \A i \in 1 .. 6 : yy_accept[<<36, 65, 84, 98, 105, 107>>[i]] = <<20, 20, 20, 20, 20, 1>>[i]
    BY SMTT(30) DEF yy_accept, From0
  <2>3. \A i \in 1 .. 6 : yy_base[<<36, 65, 84, 98, 105, 107>>[i]] = 145 <=> i = 8
    BY SMTT(30) DEF yy_base, From0
  <2> QED BY <1>1, <2>1, <2>2, <2>3 DEF IsAccepted, Jams, JamBase
<1> QED BY <1>4, <1>5, <1>6, <1>7, <1>8

LEMMA Row_from ==
  /\ IsSpelled(13) /\ IsLettered(13) /\ IsClassed(13)
  /\ IsChained(13) /\ IsAccepted(13)
<1>1. Length[13] = 4 /\ Chain[13] = <<31, 61, 80, 89>>
  BY DEF Length, Chain
<1>2. Column[13] = <<40, 48, 46, 44>>
  BY DEF Column
<1>3. Spell(13) = <<102, 114, 111, 109>>
  BY DEF Spell, Keyword, InLower
<1>4. IsSpelled(13)
  BY <1>1, <1>3 DEF IsSpelled, Char
<1>5. IsLettered(13)
  BY <1>1, <1>3 DEF IsLettered, Letters, Initial
<1>6. IsClassed(13)
  <2>1. \A i \in 1 .. 4, x \in 0 .. 255 : yy_ec[x] = <<40, 48, 46, 44>>[i]
          <=> x = <<102, 114, 111, 109>>[i]
    BY SMTT(60) DEF yy_ec
  <2>2. \A i \in 1 .. 4 : <<40, 48, 46, 44>>[i] \in 6 .. 53
    OBVIOUS
  <2>3. \A i \in 1 .. 4 : Column[13][i] \in 6 .. 53
    BY <1>2, <2>2
  <2>4. \A i \in 1 .. 4, x \in 0 .. 255 : yy_ec[x] = Column[13][i] <=> x = Spell(13)[i]
    BY <1>2, <1>3, <2>1
  <2> QED BY <1>1, <2>3, <2>4 DEF IsClassed, Char
<1>7. IsChained(13)
  <2>1. \A i \in 1 .. 3 : Entry(<<31, 61, 80, 89>>[i], <<40, 48, 46, 44>>[i + 1])
                       = <<31, 61, 80, 89>>[i + 1]
    <3>1. \A i \in 1 .. 3 : yy_base[<<31, 61, 80, 89>>[i]] + <<40, 48, 46, 44>>[i + 1]
                         = <<125, 103, 85>>[i]
      BY SMTT(60) DEF yy_base, From0
    <3>2. \A i \in 1 .. 3 : yy_nxt[<<125, 103, 85>>[i]] = <<31, 61, 80, 89>>[i + 1]
      BY SMTT(60) DEF yy_nxt, From0
    <3> QED BY <3>1, <3>2 DEF Entry
  <2>2. \A i \in 1 .. 4, c \in 1 .. 53 :
          HasEntry(<<31, 61, 80, 89>>[i], c) <=> i < 4 /\ c = <<40, 48, 46, 44>>[i + 1]
    BY SMTT(60) DEF HasEntry, yy_chk, yy_base, From0
  <2>3. yy_nxt[40] = 31
    BY SMTT(60) DEF yy_nxt, From0
  <2> QED BY <1>1, <1>2, <2>1, <2>2, <2>3 DEF IsChained
<1>8. IsAccepted(13)
  <2>1. \A i \in 1 .. 4 : yy_def[<<31, 61, 80, 89>>[i]] = 114
    BY SMTT(30) DEF yy_def, From0
  <2>2. \A i \in 1 .. 4 : yy_accept[<<31, 61, 80, 89>>[i]] = <<20, 20, 20, 2>>[i]
    BY SMTT(30) DEF yy_accept, From0
  <2>3. \A i \in 1 .. 4 : yy_base[<<31, 61, 80, 89>>[i]] = 145 <=> i = 8
    BY SMTT(30) DEF yy_base, From0
  <2> QED BY <1>1, <2>1, <2>2, <2>3 DEF IsAccepted, Jams, JamBase
<1> QED BY <1>4, <1>5, <1>6, <1>7, <1>8

LEMMA Row_where ==
  /\ IsSpelled(14) /\ IsLettered(14) /\ IsClassed(14)
  /\ IsChained(14) /\ IsAccepted(14)
<1>1. Length[14] = 5 /\ Chain[14] = <<37, 66, 85, 99, 103>>
  BY DEF Length, Chain
<1>2. Column[14] = <<52, 41, 39, 48, 39>>
  BY DEF Column
<1>3. Spell(14) = <<119, 104, 101, 114, 101>>
  BY DEF Spell, Keyword, InLower
<1>4. IsSpelled(14)
  BY <1>1, <1>3 DEF IsSpelled, Char
<1>5. IsLettered(14)
  BY <1>1, <1>3 DEF IsLettered, Letters, Initial
<1>6. IsClassed(14)
  <2>1. \A i \in 1 .. 5, x \in 0 .. 255 : yy_ec[x] = <<52, 41, 39, 48, 39>>[i]
          <=> x = <<119, 104, 101, 114, 101>>[i]
    BY SMTT(60) DEF yy_ec
  <2>2. \A i \in 1 .. 5 : <<52, 41, 39, 48, 39>>[i] \in 6 .. 53
    OBVIOUS
  <2>3. \A i \in 1 .. 5 : Column[14][i] \in 6 .. 53
    BY <1>2, <2>2
  <2>4. \A i \in 1 .. 5, x \in 0 .. 255 : yy_ec[x] = Column[14][i] <=> x = Spell(14)[i]
    BY <1>2, <1>3, <2>1
  <2> QED BY <1>1, <2>3, <2>4 DEF IsClassed, Char
<1>7. IsChained(14)
  <2>1. \A i \in 1 .. 4 : Entry(<<37, 66, 85, 99, 103>>[i], <<52, 41, 39, 48, 39>>[i + 1])
                       = <<37, 66, 85, 99, 103>>[i + 1]
    <3>1. \A i \in 1 .. 4 : yy_base[<<37, 66, 85, 99, 103>>[i]] + <<52, 41, 39, 48, 39>>[i + 1]
                         = <<58, 98, 80, 71>>[i]
      BY SMTT(60) DEF yy_base, From0
    <3>2. \A i \in 1 .. 4 : yy_nxt[<<58, 98, 80, 71>>[i]] = <<37, 66, 85, 99, 103>>[i + 1]
      BY SMTT(60) DEF yy_nxt, From0
    <3> QED BY <3>1, <3>2 DEF Entry
  <2>2. \A i \in 1 .. 5, c \in 1 .. 53 :
          HasEntry(<<37, 66, 85, 99, 103>>[i], c) <=> IF i = 1 THEN c \in {41, 42}
            ELSE i < 5 /\ c = <<52, 41, 39, 48, 39>>[i + 1]
    BY SMTT(60) DEF HasEntry, yy_chk, yy_base, From0
  <2>3. yy_nxt[52] = 37
    BY SMTT(60) DEF yy_nxt, From0
  <2> QED BY <1>1, <1>2, <2>1, <2>2, <2>3 DEF IsChained
<1>8. IsAccepted(14)
  <2>1. \A i \in 1 .. 5 : yy_def[<<37, 66, 85, 99, 103>>[i]] = 114
    BY SMTT(30) DEF yy_def, From0
  <2>2. \A i \in 1 .. 5 : yy_accept[<<37, 66, 85, 99, 103>>[i]] = <<20, 20, 20, 20, 3>>[i]
    BY SMTT(30) DEF yy_accept, From0
  <2>3. \A i \in 1 .. 5 : yy_base[<<37, 66, 85, 99, 103>>[i]] = 145 <=> i = 8
    BY SMTT(30) DEF yy_base, From0
  <2> QED BY <1>1, <2>1, <2>2, <2>3 DEF IsAccepted, Jams, JamBase
<1> QED BY <1>4, <1>5, <1>6, <1>7, <1>8

LEMMA Row_load ==
  /\ IsSpelled(15) /\ IsLettered(15) /\ IsClassed(15)
  /\ IsChained(15) /\ IsAccepted(15)
<1>1. Length[15] = 4 /\ Chain[15] = <<33, 63, 82, 91>>
  BY DEF Length, Chain
<1>2. Column[15] = <<43, 46, 36, 38>>
  BY DEF Column
<1>3. Spell(15) = <<108, 111, 97, 100>>
  BY DEF Spell, Keyword, InLower
<1>4. IsSpelled(15)
  BY <1>1, <1>3 DEF IsSpelled, Char
<1>5. IsLettered(15)
  BY <1>1, <1>3 DEF IsLettered, Letters, Initial
<1>6. IsClassed(15)
  <2>1. \A i \in 1 .. 4, x \in 0 .. 255 : yy_ec[x] = <<43, 46, 36, 38>>[i]
          <=> x = <<108, 111, 97, 100>>[i]
    BY SMTT(60) DEF yy_ec
  <2>2. \A i \in 1 .. 4 : <<43, 46, 36, 38>>[i] \in 6 .. 53
    OBVIOUS
  <2>3. \A i \in 1 .. 4 : Column[15][i] \in 6 .. 53
    BY <1>2, <2>2
  <2>4. \A i \in 1 .. 4, x \in 0 .. 255 : yy_ec[x] = Column[15][i] <=> x = Spell(15)[i]
    BY <1>2, <1>3, <2>1
  <2> QED BY <1>1, <2>3, <2>4 DEF IsClassed, Char
<1>7. IsChained(15)
  <2>1. \A i \in 1 .. 3 : Entry(<<33, 63, 82, 91>>[i], <<43, 46, 36, 38>>[i + 1])
                       = <<33, 63, 82, 91>>[i + 1]
    <3>1. \A i \in 1 .. 3 : yy_base[<<33, 63, 82, 91>>[i]] + <<43, 46, 36, 38>>[i + 1]
                         = <<123, 101, 83>>[i]
      BY SMTT(60) DEF yy_base, From0
    <3>2. \A i \in 1 .. 3 : yy_nxt[<<123, 101, 83>>[i]] = <<33, 63, 82, 91>>[i + 1]
      BY SMTT(60) DEF yy_nxt, From0
    <3> QED BY <3>1, <3>2 DEF Entry
  <2>2. \A i \in 1 .. 4, c \in 1 .. 53 :
          HasEntry(<<33, 63, 82, 91>>[i], c) <=> i < 4 /\ c = <<43, 46, 36, 38>>[i + 1]
    BY SMTT(60) DEF HasEntry, yy_chk, yy_base, From0
  <2>3. yy_nxt[43] = 33
    BY SMTT(60) DEF yy_nxt, From0
  <2> QED BY <1>1, <1>2, <2>1, <2>2, <2>3 DEF IsChained
<1>8. IsAccepted(15)
  <2>1. \A i \in 1 .. 4 : yy_def[<<33, 63, 82, 91>>[i]] = 114
    BY SMTT(30) DEF yy_def, From0
  <2>2. \A i \in 1 .. 4 : yy_accept[<<33, 63, 82, 91>>[i]] = <<20, 20, 20, 4>>[i]
    BY SMTT(30) DEF yy_accept, From0
  <2>3. \A i \in 1 .. 4 : yy_base[<<33, 63, 82, 91>>[i]] = 145 <=> i = 8
    BY SMTT(30) DEF yy_base, From0
  <2> QED BY <1>1, <2>1, <2>2, <2>3 DEF IsAccepted, Jams, JamBase
<1> QED BY <1>4, <1>5, <1>6, <1>7, <1>8

LEMMA Row_with ==
  /\ IsSpelled(16) /\ IsLettered(16) /\ IsClassed(16)
  /\ IsChained(16) /\ IsAccepted(16)
<1>1. Length[16] = 4 /\ Chain[16] = <<37, 67, 86, 95>>
  BY DEF Length, Chain
<1>2. Column[16] = <<52, 42, 50, 41>>
  BY DEF Column
<1>3. Spell(16) = <<119, 105, 116, 104>>
  BY DEF Spell, Keyword, InLower
<1>4. IsSpelled(16)
  BY <1>1, <1>3 DEF IsSpelled, Char
<1>5. IsLettered(16)
  BY <1>1, <1>3 DEF IsLettered, Letters, Initial
<1>6. IsClassed(16)
  <2>1. \A i \in 1 .. 4, x \in 0 .. 255 : yy_ec[x] = <<52, 42, 50, 41>>[i]
          <=> x = <<119, 105, 116, 104>>[i]
    BY SMTT(60) DEF yy_ec
  <2>2. \A i \in 1 .. 4 : <<52, 42, 50, 41>>[i] \in 6 .. 53
    OBVIOUS
  <2>3. \A i \in 1 .. 4 : Column[16][i] \in 6 .. 53
    BY <1>2, <2>2
  <2>4. \A i \in 1 .. 4, x \in 0 .. 255 : yy_ec[x] = Column[16][i] <=> x = Spell(16)[i]
    BY <1>2, <1>3, <2>1
  <2> QED BY <1>1, <2>3, <2>4 DEF IsClassed, Char
<1>7. IsChained(16)
  <2>1. \A i \in 1 .. 3 : Entry(<<37, 67, 86, 95>>[i], <<52, 42, 50, 41>>[i + 1])
                       = <<37, 67, 86, 95>>[i + 1]
    <3>1. \A i \in 1 .. 3 : yy_base[<<37, 67, 86, 95>>[i]] + <<52, 42, 50, 41>>[i + 1]
                         = <<59, 97, 79>>[i]
      BY SMTT(60) DEF yy_base, From0
    <3>2. \A i \in 1 .. 3 : yy_nxt[<<59, 97, 79>>[i]] = <<37, 67, 86, 95>>[i + 1]
      BY SMTT(60) DEF yy_nxt, From0
    <3> QED BY <3>1, <3>2 DEF Entry
  <2>2. \A i \in 1 .. 4, c \in 1 .. 53 :
          HasEntry(<<37, 67, 86, 95>>[i], c) <=> IF i = 1 THEN c \in {41, 42} ELSE i < 4
            /\ c = <<52, 42, 50, 41>>[i + 1]
    BY SMTT(60) DEF HasEntry, yy_chk, yy_base, From0
  <2>3. yy_nxt[52] = 37
    BY SMTT(60) DEF yy_nxt, From0
  <2> QED BY <1>1, <1>2, <2>1, <2>2, <2>3 DEF IsChained
<1>8. IsAccepted(16)
  <2>1. \A i \in 1 .. 4 : yy_def[<<37, 67, 86, 95>>[i]] = 114
    BY SMTT(30) DEF yy_def, From0
  <2>2. \A i \in 1 .. 4 : yy_accept[<<37, 67, 86, 95>>[i]] = <<20, 20, 20, 5>>[i]
    BY SMTT(30) DEF yy_accept, From0
  <2>3. \A i \in 1 .. 4 : yy_base[<<37, 67, 86, 95>>[i]] = 145 <=> i = 8
    BY SMTT(30) DEF yy_base, From0
  <2> QED BY <1>1, <2>1, <2>2, <2>3 DEF IsAccepted, Jams, JamBase
<1> QED BY <1>4, <1>5, <1>6, <1>7, <1>8

LEMMA Row_index ==
  /\ IsSpelled(17) /\ IsLettered(17) /\ IsClassed(17)
  /\ IsChained(17) /\ IsAccepted(17)
<1>1. Length[17] = 5 /\ Chain[17] = <<32, 62, 81, 97, 101>>
  BY DEF Length, Chain
<1>2. Column[17] = <<42, 45, 38, 39, 53>>
  BY DEF Column
<1>3. Spell(17) = <<105, 110, 100, 101, 120>>
  BY DEF Spell, Keyword, InLower
<1>4. IsSpelled(17)
  BY <1>1, <1>3 DEF IsSpelled, Char
<1>5. IsLettered(17)
  BY <1>1, <1>3 DEF IsLettered, Letters, Initial
<1>6. IsClassed(17)
  <2>1. \A i \in 1 .. 5, x \in 0 .. 255 : yy_ec[x] = <<42, 45, 38, 39, 53>>[i]
          <=> x = <<105, 110, 100, 101, 120>>[i]
    BY SMTT(60) DEF yy_ec
  <2>2. \A i \in 1 .. 5 : <<42, 45, 38, 39, 53>>[i] \in 6 .. 53
    OBVIOUS
  <2>3. \A i \in 1 .. 5 : Column[17][i] \in 6 .. 53
    BY <1>2, <2>2
  <2>4. \A i \in 1 .. 5, x \in 0 .. 255 : yy_ec[x] = Column[17][i] <=> x = Spell(17)[i]
    BY <1>2, <1>3, <2>1
  <2> QED BY <1>1, <2>3, <2>4 DEF IsClassed, Char
<1>7. IsChained(17)
  <2>1. \A i \in 1 .. 4 : Entry(<<32, 62, 81, 97, 101>>[i], <<42, 45, 38, 39, 53>>[i + 1])
                       = <<32, 62, 81, 97, 101>>[i + 1]
    <3>1. \A i \in 1 .. 4 : yy_base[<<32, 62, 81, 97, 101>>[i]] + <<42, 45, 38, 39, 53>>[i + 1]
                         = <<124, 102, 84, 73>>[i]
      BY SMTT(60) DEF yy_base, From0
    <3>2. \A i \in 1 .. 4 : yy_nxt[<<124, 102, 84, 73>>[i]] = <<32, 62, 81, 97, 101>>[i + 1]
      BY SMTT(60) DEF yy_nxt, From0
    <3> QED BY <3>1, <3>2 DEF Entry
  <2>2. \A i \in 1 .. 5, c \in 1 .. 53 :
          HasEntry(<<32, 62, 81, 97, 101>>[i], c) <=> i < 5 /\ c = <<42, 45, 38, 39, 53>>[i + 1]
    BY SMTT(60) DEF HasEntry, yy_chk, yy_base, From0
  <2>3. yy_nxt[42] = 32
    BY SMTT(60) DEF yy_nxt, From0
  <2> QED BY <1>1, <1>2, <2>1, <2>2, <2>3 DEF IsChained
<1>8. IsAccepted(17)
  <2>1. \A i \in 1 .. 5 : yy_def[<<32, 62, 81, 97, 101>>[i]] = 114
    BY SMTT(30) DEF yy_def, From0
  <2>2. \A i \in 1 .. 5 : yy_accept[<<32, 62, 81, 97, 101>>[i]] = <<20, 20, 20, 20, 6>>[i]
    BY SMTT(30) DEF yy_accept, From0
  <2>3. \A i \in 1 .. 5 : yy_base[<<32, 62, 81, 97, 101>>[i]] = 145 <=> i = 8
    BY SMTT(30) DEF yy_base, From0
  <2> QED BY <1>1, <2>1, <2>2, <2>3 DEF IsAccepted, Jams, JamBase
<1> QED BY <1>4, <1>5, <1>6, <1>7, <1>8

LEMMA Row_quit ==
  /\ IsSpelled(18) /\ IsLettered(18) /\ IsClassed(18)
  /\ IsChained(18) /\ IsAccepted(18)
<1>1. Length[18] = 4 /\ Chain[18] = <<35, 64, 83, 92>>
  BY DEF Length, Chain
<1>2. Column[18] = <<47, 51, 42, 50>>
  BY DEF Column
<1>3. Spell(18) = <<113, 117, 105, 116>>
  BY DEF Spell, Keyword, InLower
<1>4. IsSpelled(18)
  BY <1>1, <1>3 DEF IsSpelled, Char
<1>5. IsLettered(18)
  BY <1>1, <1>3 DEF IsLettered, Letters, Initial
<1>6. IsClassed(18)
  <2>1. \A i \in 1 .. 4, x \in 0 .. 255 : yy_ec[x] = <<47, 51, 42, 50>>[i]
          <=> x = <<113, 117, 105, 116>>[i]
    BY SMTT(60) DEF yy_ec
  <2>2. \A i \in 1 .. 4 : <<47, 51, 42, 50>>[i] \in 6 .. 53
    OBVIOUS
  <2>3. \A i \in 1 .. 4 : Column[18][i] \in 6 .. 53
    BY <1>2, <2>2
  <2>4. \A i \in 1 .. 4, x \in 0 .. 255 : yy_ec[x] = Column[18][i] <=> x = Spell(18)[i]
    BY <1>2, <1>3, <2>1
  <2> QED BY <1>1, <2>3, <2>4 DEF IsClassed, Char
<1>7. IsChained(18)
  <2>1. \A i \in 1 .. 3 : Entry(<<35, 64, 83, 92>>[i], <<47, 51, 42, 50>>[i + 1])
                       = <<35, 64, 83, 92>>[i + 1]
    <3>1. \A i \in 1 .. 3 : yy_base[<<35, 64, 83, 92>>[i]] + <<47, 51, 42, 50>>[i + 1]
                         = <<121, 100, 82>>[i]
      BY SMTT(60) DEF yy_base, From0
    <3>2. \A i \in 1 .. 3 : yy_nxt[<<121, 100, 82>>[i]] = <<35, 64, 83, 92>>[i + 1]
      BY SMTT(60) DEF yy_nxt, From0
    <3> QED BY <3>1, <3>2 DEF Entry
  <2>2. \A i \in 1 .. 4, c \in 1 .. 53 :
          HasEntry(<<35, 64, 83, 92>>[i], c) <=> i < 4 /\ c = <<47, 51, 42, 50>>[i + 1]
    BY SMTT(60) DEF HasEntry, yy_chk, yy_base, From0
  <2>3. yy_nxt[47] = 35
    BY SMTT(60) DEF yy_nxt, From0
  <2> QED BY <1>1, <1>2, <2>1, <2>2, <2>3 DEF IsChained
<1>8. IsAccepted(18)
  <2>1. \A i \in 1 .. 4 : yy_def[<<35, 64, 83, 92>>[i]] = 114
    BY SMTT(30) DEF yy_def, From0
  <2>2. \A i \in 1 .. 4 : yy_accept[<<35, 64, 83, 92>>[i]] = <<20, 20, 20, 7>>[i]
    BY SMTT(30) DEF yy_accept, From0
  <2>3. \A i \in 1 .. 4 : yy_base[<<35, 64, 83, 92>>[i]] = 145 <=> i = 8
    BY SMTT(30) DEF yy_base, From0
  <2> QED BY <1>1, <2>1, <2>2, <2>3 DEF IsAccepted, Jams, JamBase
<1> QED BY <1>4, <1>5, <1>6, <1>7, <1>8

LEMMA Row_exit ==
  /\ IsSpelled(19) /\ IsLettered(19) /\ IsClassed(19)
  /\ IsChained(19) /\ IsAccepted(19)
<1>1. Length[19] = 4 /\ Chain[19] = <<30, 60, 79, 88>>
  BY DEF Length, Chain
<1>2. Column[19] = <<39, 53, 42, 50>>
  BY DEF Column
<1>3. Spell(19) = <<101, 120, 105, 116>>
  BY DEF Spell, Keyword, InLower
<1>4. IsSpelled(19)
  BY <1>1, <1>3 DEF IsSpelled, Char
<1>5. IsLettered(19)
  BY <1>1, <1>3 DEF IsLettered, Letters, Initial
<1>6. IsClassed(19)
  <2>1. \A i \in 1 .. 4, x \in 0 .. 255 : yy_ec[x] = <<39, 53, 42, 50>>[i]
          <=> x = <<101, 120, 105, 116>>[i]
    BY SMTT(60) DEF yy_ec
  <2>2. \A i \in 1 .. 4 : <<39, 53, 42, 50>>[i] \in 6 .. 53
    OBVIOUS
  <2>3. \A i \in 1 .. 4 : Column[19][i] \in 6 .. 53
    BY <1>2, <2>2
  <2>4. \A i \in 1 .. 4, x \in 0 .. 255 : yy_ec[x] = Column[19][i] <=> x = Spell(19)[i]
    BY <1>2, <1>3, <2>1
  <2> QED BY <1>1, <2>3, <2>4 DEF IsClassed, Char
<1>7. IsChained(19)
  <2>1. \A i \in 1 .. 3 : Entry(<<30, 60, 79, 88>>[i], <<39, 53, 42, 50>>[i + 1])
                       = <<30, 60, 79, 88>>[i + 1]
    <3>1. \A i \in 1 .. 3 : yy_base[<<30, 60, 79, 88>>[i]] + <<39, 53, 42, 50>>[i + 1]
                         = <<126, 104, 86>>[i]
      BY SMTT(60) DEF yy_base, From0
    <3>2. \A i \in 1 .. 3 : yy_nxt[<<126, 104, 86>>[i]] = <<30, 60, 79, 88>>[i + 1]
      BY SMTT(60) DEF yy_nxt, From0
    <3> QED BY <3>1, <3>2 DEF Entry
  <2>2. \A i \in 1 .. 4, c \in 1 .. 53 :
          HasEntry(<<30, 60, 79, 88>>[i], c) <=> i < 4 /\ c = <<39, 53, 42, 50>>[i + 1]
    BY SMTT(60) DEF HasEntry, yy_chk, yy_base, From0
  <2>3. yy_nxt[39] = 30
    BY SMTT(60) DEF yy_nxt, From0
  <2> QED BY <1>1, <1>2, <2>1, <2>2, <2>3 DEF IsChained
<1>8. IsAccepted(19)
  <2>1. \A i \in 1 .. 4 : yy_def[<<30, 60, 79, 88>>[i]] = 114
    BY SMTT(30) DEF yy_def, From0
  <2>2. \A i \in 1 .. 4 : yy_accept[<<30, 60, 79, 88>>[i]] = <<20, 20, 20, 8>>[i]
    BY SMTT(30) DEF yy_accept, From0
  <2>3. \A i \in 1 .. 4 : yy_base[<<30, 60, 79, 88>>[i]] = 145 <=> i = 8
    BY SMTT(30) DEF yy_base, From0
  <2> QED BY <1>1, <2>1, <2>2, <2>3 DEF IsAccepted, Jams, JamBase
<1> QED BY <1>4, <1>5, <1>6, <1>7, <1>8

LEMMA Row_count ==
  /\ IsSpelled(20) /\ IsLettered(20) /\ IsClassed(20)
  /\ IsChained(20) /\ IsAccepted(20)
<1>1. Length[20] = 8 /\ Chain[20] = <<29, 59, 78, 96, 104, 108, 110, 111>>
  BY DEF Length, Chain
<1>2. Column[20] = <<37, 46, 51, 45, 50, 6, 8, 7>>
  BY DEF Column
<1>3. Spell(20) = <<99, 111, 117, 110, 116, 40, 42, 41>>
  BY DEF Spell, Keyword, InLower
<1>4. IsSpelled(20)
  BY <1>1, <1>3 DEF IsSpelled, Char
<1>5. IsLettered(20)
  BY <1>1, <1>3, SMTT(40) DEF IsLettered, Letters, Initial
<1>6. IsClassed(20)
  <2>1. \A i \in 1 .. 8, x \in 0 .. 255 : yy_ec[x] = <<37, 46, 51, 45, 50, 6, 8, 7>>[i]
          <=> x = <<99, 111, 117, 110, 116, 40, 42, 41>>[i]
    BY SMTT(60) DEF yy_ec
  <2>2. \A i \in 1 .. 8 : <<37, 46, 51, 45, 50, 6, 8, 7>>[i] \in 6 .. 53
    OBVIOUS
  <2>3. \A i \in 1 .. 8 : Column[20][i] \in 6 .. 53
    BY <1>2, <2>2
  <2>4. \A i \in 1 .. 8, x \in 0 .. 255 : yy_ec[x] = Column[20][i] <=> x = Spell(20)[i]
    BY <1>2, <1>3, <2>1, SMTT(40)
  <2> QED BY <1>1, <2>3, <2>4 DEF IsClassed, Char
<1>7. IsChained(20)
  <2>1. \A i \in 1 .. 7 : Entry(<<29,
          59, 78, 96, 104, 108, 110, 111>>[i], <<37, 46, 51, 45, 50, 6, 8, 7>>[i + 1])
                       = <<29, 59, 78, 96, 104, 108, 110, 111>>[i + 1]
    <3>1. \A i \in 1 .. 7 : yy_base[<<29,
            59, 78, 96, 104, 108, 110, 111>>[i]] + <<37, 46, 51, 45, 50, 6, 8, 7>>[i + 1]
                         = <<127, 105, 87, 74, 68, 65, 63>>[i]
      BY SMTT(60) DEF yy_base, From0
    <3>2. \A i \in 1 .. 7 : yy_nxt[<<127,
            105, 87, 74, 68, 65, 63>>[i]] = <<29, 59, 78, 96, 104, 108, 110, 111>>[i + 1]
      BY SMTT(60) DEF yy_nxt, From0
    <3> QED BY <3>1, <3>2 DEF Entry
  <2>2. \A i \in 1 .. 8, c \in 1 .. 53 :
          HasEntry(<<29, 59, 78, 96, 104, 108, 110, 111>>[i], c) <=> i < 8
            /\ c = <<37, 46, 51, 45, 50, 6, 8, 7>>[i + 1]
    BY SMTT(60) DEF HasEntry, yy_chk, yy_base, From0
  <2>3. yy_nxt[37] = 29
    BY SMTT(60) DEF yy_nxt, From0
  <2> QED BY <1>1, <1>2, <2>1, <2>2, <2>3 DEF IsChained
<1>8. IsAccepted(20)
  <2>1. \A i \in 1 .. 8 : yy_def[<<29, 59, 78, 96, 104, 108, 110, 111>>[i]] = IF i > 5
          THEN 112 ELSE 114
    BY SMTT(30) DEF yy_def, From0
  <2>2. \A i \in 1 .. 8 : yy_accept[<<29,
          59, 78, 96, 104, 108, 110, 111>>[i]] = <<20, 20, 20, 20, 20, 0, 0, 9>>[i]
    BY SMTT(30) DEF yy_accept, From0
  <2>3. \A i \in 1 .. 8 : yy_base[<<29, 59, 78, 96, 104, 108, 110, 111>>[i]] = 145 <=> i = 8
    BY SMTT(30) DEF yy_base, From0
  <2> QED BY <1>1, <2>1, <2>2, <2>3 DEF IsAccepted, Jams, JamBase
<1> QED BY <1>4, <1>5, <1>6, <1>7, <1>8

LEMMA Row_and ==
  /\ IsSpelled(21) /\ IsLettered(21) /\ IsClassed(21)
  /\ IsChained(21) /\ IsAccepted(21)
<1>1. Length[21] = 3 /\ Chain[21] = <<28, 58, 68>>
  BY DEF Length, Chain
<1>2. Column[21] = <<36, 45, 38>>
  BY DEF Column
<1>3. Spell(21) = <<97, 110, 100>>
  BY DEF Spell, Keyword, InLower
<1>4. IsSpelled(21)
  BY <1>1, <1>3 DEF IsSpelled, Char
<1>5. IsLettered(21)
  BY <1>1, <1>3 DEF IsLettered, Letters, Initial
<1>6. IsClassed(21)
  <2>1. \A i \in 1 .. 3, x \in 0 .. 255 : yy_ec[x] = <<36, 45, 38>>[i] <=> x = <<97, 110, 100>>[i]
    BY SMTT(60) DEF yy_ec
  <2>2. \A i \in 1 .. 3 : <<36, 45, 38>>[i] \in 6 .. 53
    OBVIOUS
  <2>3. \A i \in 1 .. 3 : Column[21][i] \in 6 .. 53
    BY <1>2, <2>2
  <2>4. \A i \in 1 .. 3, x \in 0 .. 255 : yy_ec[x] = Column[21][i] <=> x = Spell(21)[i]
    BY <1>2, <1>3, <2>1
  <2> QED BY <1>1, <2>3, <2>4 DEF IsClassed, Char
<1>7. IsChained(21)
  <2>1. \A i \in 1 .. 2 : Entry(<<28, 58, 68>>[i], <<36, 45, 38>>[i + 1])
                       = <<28, 58, 68>>[i + 1]
    <3>1. \A i \in 1 .. 2 : yy_base[<<28, 58, 68>>[i]] + <<36, 45, 38>>[i + 1]
                         = <<128, 106>>[i]
      BY SMTT(60) DEF yy_base, From0
    <3>2. \A i \in 1 .. 2 : yy_nxt[<<128, 106>>[i]] = <<28, 58, 68>>[i + 1]
      BY SMTT(60) DEF yy_nxt, From0
    <3> QED BY <3>1, <3>2 DEF Entry
  <2>2. \A i \in 1 .. 3, c \in 1 .. 53 :
          HasEntry(<<28, 58, 68>>[i], c) <=> i < 3 /\ c = <<36, 45, 38>>[i + 1]
    BY SMTT(60) DEF HasEntry, yy_chk, yy_base, From0
  <2>3. yy_nxt[36] = 28
    BY SMTT(60) DEF yy_nxt, From0
  <2> QED BY <1>1, <1>2, <2>1, <2>2, <2>3 DEF IsChained
<1>8. IsAccepted(21)
  <2>1. \A i \in 1 .. 3 : yy_def[<<28, 58, 68>>[i]] = 114
    BY SMTT(30) DEF yy_def, From0
  <2>2. \A i \in 1 .. 3 : yy_accept[<<28, 58, 68>>[i]] = <<20, 20, 10>>[i]
    BY SMTT(30) DEF yy_accept, From0
  <2>3. \A i \in 1 .. 3 : yy_base[<<28, 58, 68>>[i]] = 145 <=> i = 8
    BY SMTT(30) DEF yy_base, From0
  <2> QED BY <1>1, <2>1, <2>2, <2>3 DEF IsAccepted, Jams, JamBase
<1> QED BY <1>4, <1>5, <1>6, <1>7, <1>8

LEMMA Row_or ==
  /\ IsSpelled(22) /\ IsLettered(22) /\ IsClassed(22)
  /\ IsChained(22) /\ IsAccepted(22)
<1>1. Length[22] = 2 /\ Chain[22] = <<34, 53>>
  BY DEF Length, Chain
<1>2. Column[22] = <<46, 48>>
  BY DEF Column
<1>3. Spell(22) = <<111, 114>>
  BY DEF Spell, Keyword, InLower
<1>4. IsSpelled(22)
  BY <1>1, <1>3 DEF IsSpelled, Char
<1>5. IsLettered(22)
  BY <1>1, <1>3 DEF IsLettered, Letters, Initial
<1>6. IsClassed(22)
  <2>1. \A i \in 1 .. 2, x \in 0 .. 255 : yy_ec[x] = <<46, 48>>[i] <=> x = <<111, 114>>[i]
    BY SMTT(60) DEF yy_ec
  <2>2. \A i \in 1 .. 2 : <<46, 48>>[i] \in 6 .. 53
    OBVIOUS
  <2>3. \A i \in 1 .. 2 : Column[22][i] \in 6 .. 53
    BY <1>2, <2>2
  <2>4. \A i \in 1 .. 2, x \in 0 .. 255 : yy_ec[x] = Column[22][i] <=> x = Spell(22)[i]
    BY <1>2, <1>3, <2>1
  <2> QED BY <1>1, <2>3, <2>4 DEF IsClassed, Char
<1>7. IsChained(22)
  <2>1. \A i \in 1 .. 1 : Entry(<<34, 53>>[i], <<46, 48>>[i + 1])
                       = <<34, 53>>[i + 1]
    <3>1. \A i \in 1 .. 1 : yy_base[<<34, 53>>[i]] + <<46, 48>>[i + 1]
                         = <<122>>[i]
      BY SMTT(60) DEF yy_base, From0
    <3>2. \A i \in 1 .. 1 : yy_nxt[<<122>>[i]] = <<34, 53>>[i + 1]
      BY SMTT(60) DEF yy_nxt, From0
    <3> QED BY <3>1, <3>2 DEF Entry
  <2>2. \A i \in 1 .. 2, c \in 1 .. 53 :
          HasEntry(<<34, 53>>[i], c) <=> i < 2 /\ c = <<46, 48>>[i + 1]
    BY SMTT(60) DEF HasEntry, yy_chk, yy_base, From0
  <2>3. yy_nxt[46] = 34
    BY SMTT(60) DEF yy_nxt, From0
  <2> QED BY <1>1, <1>2, <2>1, <2>2, <2>3 DEF IsChained
<1>8. IsAccepted(22)
  <2>1. \A i \in 1 .. 2 : yy_def[<<34, 53>>[i]] = 114
    BY SMTT(30) DEF yy_def, From0
  <2>2. \A i \in 1 .. 2 : yy_accept[<<34, 53>>[i]] = <<20, 11>>[i]
    BY SMTT(30) DEF yy_accept, From0
  <2>3. \A i \in 1 .. 2 : yy_base[<<34, 53>>[i]] = 145 <=> i = 8
    BY SMTT(30) DEF yy_base, From0
  <2> QED BY <1>1, <2>1, <2>2, <2>3 DEF IsAccepted, Jams, JamBase
<1> QED BY <1>4, <1>5, <1>6, <1>7, <1>8

LEMMA WordRows ==
  \A k \in 1 .. 22 : IsSpelled(k) /\ IsLettered(k) /\ IsClassed(k) /\ IsChained(k) /\ IsAccepted(k)
BY OneOfTheKeys, Row_SELECT, Row_FROM, Row_WHERE, Row_LOAD, Row_WITH, Row_INDEX, Row_QUIT,
   Row_EXIT, Row_COUNT, Row_AND, Row_OR, Row_select, Row_from, Row_where, Row_load,
   Row_with, Row_index, Row_quit, Row_exit, Row_count, Row_and, Row_or

-----------------------------------------------------------------------------
(* What the tables say of the other characters *)

(* A state without an entry does what its default does. *)
LEMMA ByDefault ==
  ASSUME NEW s \in 1 .. 112, NEW c \in 1 .. 53
  PROVE  /\ HasEntry(s, c) => NextState(s, c) = Entry(s, c)
         /\ ~HasEntry(s, c) =>
              /\ yy_def[s] = 112 => NextState(s, c) = 112
              /\ yy_def[s] = 113 => NextState(s, c) = 40
              /\ yy_def[s] = 114 => NextState(s, c) = IF yy_meta[c] = 2 THEN 46 ELSE 112
<1>1. s \in States /\ c \in Classes /\ yy_meta[c] \in 1 .. 2
  BY TableTypes, MetaRows DEF States, JamState, Classes
<1>2. NextState(s, c) = Unfolded(s, c)
  BY <1>1, NextStateIs
<1>3. \A d \in 1 .. 53 : Entry(112, d) = 112
  BY BaseRows, JamRow DEF Entry
<1>4. HasEntry(s, c) => NextState(s, c) = Entry(s, c)
  BY <1>2 DEF Unfolded
<1>5. ASSUME ~HasEntry(s, c), yy_def[s] = 112 PROVE NextState(s, c) = 112
  <2>1. ClassIn(112, c) = c
    BY <1>1, ClassStays
  <2> QED BY <1>2, <1>3, <1>5, <2>1 DEF Unfolded
<1>6. \A m \in 1 .. 2 : HasEntry(113, m) /\ Entry(113, m) = 40
  <2>1. yy_chk[60] = 113 /\ yy_chk[61] = 113
    BY SMTT(30) DEF yy_chk, From0
  <2>2. yy_nxt[60] = 40 /\ yy_nxt[61] = 40
    BY SMTT(30) DEF yy_nxt, From0
  <2> QED BY <2>1, <2>2, BaseRows DEF HasEntry, Entry
<1>7. ASSUME ~HasEntry(s, c), yy_def[s] = 113 PROVE NextState(s, c) = 40
  <2>1. ClassIn(113, c) = yy_meta[c]
    BY DEF ClassIn, Template
  <2> QED BY <1>1, <1>2, <1>6, <1>7, <2>1 DEF Unfolded
<1>8. HasEntry(114, 2) /\ Entry(114, 2) = 46 /\ ~HasEntry(114, 1) /\ Entry(112, 1) = 112
  <2>1. yy_chk[62] = 114 /\ yy_chk[61] # 114
    BY SMTT(30) DEF yy_chk, From0
  <2>2. yy_nxt[62] = 46
    BY SMTT(30) DEF yy_nxt, From0
  <2> QED BY <1>3, <2>1, <2>2, BaseRows DEF HasEntry, Entry
<1>9. ASSUME ~HasEntry(s, c), yy_def[s] = 114
      PROVE  NextState(s, c) = IF yy_meta[c] = 2 THEN 46 ELSE 112
  <2>1. ClassIn(114, c) = yy_meta[c]
    BY DEF ClassIn, Template
  <2> QED BY <1>1, <1>2, <1>8, <1>9, <2>1 DEF Unfolded
<1> QED BY <1>4, <1>5, <1>7, <1>9, SMTT(40)

(* The entries of the states that no word leads through *)
LEMMA OtherEntries ==
  \A c \in 1 .. 53 :
    /\ HasEntry(1, c) /\ Entry(1, c) = yy_nxt[c]
    /\ HasEntry(5, c) <=> c = 2
    /\ HasEntry(7, c) <=> c = 3
    /\ HasEntry(8, c) <=> c = 5
    /\ HasEntry(11, c) <=> c = 11
    /\ HasEntry(12, c) <=> c = 11
    /\ HasEntry(14, c) <=> c \in {14, 15}
    /\ HasEntry(16, c) <=> c = 14
    /\ HasEntry(38, c) <=> c = 2
    /\ HasEntry(40, c) <=> c = 5
    /\ HasEntry(42, c) <=> c = 11
    /\ ~HasEntry(18, c) /\ ~HasEntry(46, c)
    /\ \A s \in {4, 6, 9, 10, 13, 15, 39, 41, 43, 44, 45} : ~HasEntry(s, c)
<1> TAKE c \in 1 .. 53
<1>1. HasEntry(1, c) /\ Entry(1, c) = yy_nxt[c]
  BY BaseRows, FirstRow DEF HasEntry, Entry
<1>2. HasEntry(5, c) <=> c = 2
  BY SMTT(30) DEF HasEntry, yy_chk, yy_base, From0
<1>3. HasEntry(7, c) <=> c = 3
  BY SMTT(30) DEF HasEntry, yy_chk, yy_base, From0
<1>4. HasEntry(8, c) <=> c = 5
  BY SMTT(30) DEF HasEntry, yy_chk, yy_base, From0
<1>5. HasEntry(11, c) <=> c = 11
  BY SMTT(30) DEF HasEntry, yy_chk, yy_base, From0
<1>6. HasEntry(12, c) <=> c = 11
  BY SMTT(30) DEF HasEntry, yy_chk, yy_base, From0
<1>7. HasEntry(14, c) <=> c \in {14, 15}
  BY SMTT(30) DEF HasEntry, yy_chk, yy_base, From0
<1>8. HasEntry(16, c) <=> c = 14
  BY SMTT(30) DEF HasEntry, yy_chk, yy_base, From0
<1>9. HasEntry(38, c) <=> c = 2
  BY SMTT(30) DEF HasEntry, yy_chk, yy_base, From0
<1>10. HasEntry(40, c) <=> c = 5
  BY SMTT(30) DEF HasEntry, yy_chk, yy_base, From0
<1>11. HasEntry(42, c) <=> c = 11
  BY SMTT(30) DEF HasEntry, yy_chk, yy_base, From0
<1>12. ~HasEntry(18, c) /\ ~HasEntry(46, c)
  BY SMTT(30) DEF HasEntry, yy_chk, yy_base, From0
<1>13. ASSUME NEW s \in {4, 6, 9, 10, 13, 15, 39, 41, 43, 44, 45} PROVE ~HasEntry(s, c)
  <2>1. yy_base[s] = 145
    BY SMTT(30) DEF yy_base, From0
  <2> QED BY <2>1, JamRow DEF HasEntry
<1> QED BY <1>1, <1>2, <1>3, <1>4, <1>5, <1>6, <1>7, <1>8, <1>9, <1>10, <1>11, <1>12, <1>13

LEMMA OtherNexts ==
  \A c \in 1 .. 53 :
    /\ NextState(1, c) = yy_nxt[c]
    /\ \A s \in {4, 6, 9, 10, 13, 15, 39, 41, 43, 44, 45} : NextState(s, c) = 112
    /\ \A s \in {5, 38} : NextState(s, c) = IF c = 2 THEN 38 ELSE 112
    /\ NextState(7, c) = IF c = 3 THEN 39 ELSE 112
    /\ \A s \in {8, 40} : NextState(s, c) = IF c = 5 THEN 41 ELSE 40
    /\ \A s \in {11, 12, 42} : NextState(s, c) = IF c = 11 THEN 42 ELSE 112
    /\ NextState(14, c) = IF c = 14 THEN 43 ELSE IF c = 15 THEN 44 ELSE 112
    /\ NextState(16, c) = IF c = 14 THEN 45 ELSE 112
    /\ \A s \in {18, 46} : NextState(s, c) = IF yy_meta[c] = 2 THEN 46 ELSE 112
<1> TAKE c \in 1 .. 53
<1>1. /\ \A s \in {4, 5, 6, 7, 9, 10, 11, 12, 13, 14, 15, 16, 38, 39, 41, 42, 43, 44, 45} :
           yy_def[s] = 112
      /\ yy_def[8] = 113 /\ yy_def[40] = 113 /\ yy_def[18] = 114 /\ yy_def[46] = 114
  BY SMTT(60) DEF yy_def, From0
<1>2. /\ Entry(5, 2) = 38 /\ Entry(38, 2) = 38 /\ Entry(7, 3) = 39 /\ Entry(8, 5) = 41
      /\ Entry(40, 5) = 41 /\ Entry(11, 11) = 42 /\ Entry(12, 11) = 42 /\ Entry(42, 11) = 42
      /\ Entry(14, 14) = 43 /\ Entry(14, 15) = 44 /\ Entry(16, 14) = 45
  <2>1. /\ yy_base[5] = 141 /\ yy_base[38] = 117 /\ yy_base[7] = 139 /\ yy_base[8] = 136
        /\ yy_base[40] = 113 /\ yy_base[11] = 129 /\ yy_base[12] = 128 /\ yy_base[42] = 106
        /\ yy_base[14] = 40 /\ yy_base[16] = 124
    BY SMTT(60) DEF yy_base, From0
  <2>2. /\ yy_nxt[143] = 38 /\ yy_nxt[119] = 38 /\ yy_nxt[142] = 39 /\ yy_nxt[141] = 41
        /\ yy_nxt[118] = 41 /\ yy_nxt[140] = 42 /\ yy_nxt[139] = 42 /\ yy_nxt[117] = 42
        /\ yy_nxt[54] = 43 /\ yy_nxt[55] = 44 /\ yy_nxt[138] = 45
    BY SMTT(60) DEF yy_nxt, From0
  <2> QED BY <2>1, <2>2 DEF Entry
<1>3. \A s \in 1 .. 112 :
        /\ HasEntry(s, c) => NextState(s, c) = Entry(s, c)
        /\ ~HasEntry(s, c) =>
             /\ yy_def[s] = 112 => NextState(s, c) = 112
             /\ yy_def[s] = 113 => NextState(s, c) = 40
             /\ yy_def[s] = 114 => NextState(s, c) = IF yy_meta[c] = 2 THEN 46 ELSE 112
  BY ByDefault, ZenonT(60)
<1>4. /\ HasEntry(1, c) /\ Entry(1, c) = yy_nxt[c]
      /\ HasEntry(5, c) <=> c = 2
      /\ HasEntry(7, c) <=> c = 3
      /\ HasEntry(8, c) <=> c = 5
      /\ HasEntry(11, c) <=> c = 11
      /\ HasEntry(12, c) <=> c = 11
      /\ HasEntry(14, c) <=> c \in {14, 15}
      /\ HasEntry(16, c) <=> c = 14
      /\ HasEntry(38, c) <=> c = 2
      /\ HasEntry(40, c) <=> c = 5
      /\ HasEntry(42, c) <=> c = 11
      /\ ~HasEntry(18, c) /\ ~HasEntry(46, c)
      /\ \A s \in {4, 6, 9, 10, 13, 15, 39, 41, 43, 44, 45} : ~HasEntry(s, c)
  BY OtherEntries
<1>5. \A s \in {4, 6, 9, 10, 13, 15, 39, 41, 43, 44, 45} : NextState(s, c) = 112
  BY <1>1, <1>3, <1>4
<1>6. \A s \in {5, 38} : NextState(s, c) = IF c = 2 THEN 38 ELSE 112
  BY <1>1, <1>2, <1>3, <1>4
<1>7. NextState(7, c) = IF c = 3 THEN 39 ELSE 112
  BY <1>1, <1>2, <1>3, <1>4
<1>8. \A s \in {8, 40} : NextState(s, c) = IF c = 5 THEN 41 ELSE 40
  BY <1>1, <1>2, <1>3, <1>4
<1>9. \A s \in {11, 12, 42} : NextState(s, c) = IF c = 11 THEN 42 ELSE 112
  BY <1>1, <1>2, <1>3, <1>4
<1>10. NextState(14, c) = IF c = 14 THEN 43 ELSE IF c = 15 THEN 44 ELSE 112
  BY <1>1, <1>2, <1>3, <1>4
<1>11. NextState(16, c) = IF c = 14 THEN 45 ELSE 112
  BY <1>1, <1>2, <1>3, <1>4
<1>12. \A s \in {18, 46} : NextState(s, c) = IF yy_meta[c] = 2 THEN 46 ELSE 112
  BY <1>1, <1>3, <1>4
<1>13. NextState(1, c) = yy_nxt[c]
  BY <1>3, <1>4
<1> QED BY <1>5, <1>6, <1>7, <1>8, <1>9, <1>10, <1>11, <1>12, <1>13

(* What the states that no word leads through accept *)
LEMMA OtherRows ==
  /\ \A s \in {4, 6, 9, 10, 13, 15, 39, 41, 43, 44, 45} : Jams(s)
  /\ \A s \in {1, 5, 7, 8, 11, 12, 14, 16, 18, 38, 40, 42, 46} : ~Jams(s)
  /\ yy_accept[4] = 26 /\ yy_accept[7] = 26 /\ yy_accept[8] = 26 /\ yy_accept[11] = 26
  /\ yy_accept[5] = 25 /\ yy_accept[38] = 25 /\ yy_accept[6] = 23 /\ yy_accept[39] = 23
  /\ yy_accept[9] = 22 /\ yy_accept[10] = 21 /\ yy_accept[12] = 18 /\ yy_accept[42] = 18
  /\ yy_accept[13] = 24 /\ yy_accept[14] = 15 /\ yy_accept[15] = 12 /\ yy_accept[16] = 14
  /\ yy_accept[18] = 20 /\ yy_accept[46] = 20 /\ yy_accept[40] = 0 /\ yy_accept[41] = 19
  /\ yy_accept[43] = 17 /\ yy_accept[44] = 13 /\ yy_accept[45] = 16
<1>1. \A s \in {4, 6, 9, 10, 13, 15, 39, 41, 43, 44, 45} : yy_base[s] = 145
  BY SMTT(60) DEF yy_base, From0
<1>2. \A s \in {1, 5, 7, 8, 11, 12, 14, 16, 18, 38, 40, 42, 46} : yy_base[s] # 145
  BY SMTT(60) DEF yy_base, From0
<1>3. /\ yy_accept[4] = 26 /\ yy_accept[7] = 26 /\ yy_accept[8] = 26 /\ yy_accept[11] = 26
      /\ yy_accept[5] = 25 /\ yy_accept[38] = 25 /\ yy_accept[6] = 23 /\ yy_accept[39] = 23
      /\ yy_accept[9] = 22 /\ yy_accept[10] = 21 /\ yy_accept[12] = 18 /\ yy_accept[42] = 18
      /\ yy_accept[13] = 24 /\ yy_accept[14] = 15 /\ yy_accept[15] = 12 /\ yy_accept[16] = 14
  BY SMTT(60) DEF yy_accept, From0
<1>4. /\ yy_accept[18] = 20 /\ yy_accept[46] = 20 /\ yy_accept[40] = 0 /\ yy_accept[41] = 19
      /\ yy_accept[43] = 17 /\ yy_accept[44] = 13 /\ yy_accept[45] = 16
  BY SMTT(60) DEF yy_accept, From0
<1> QED BY <1>1, <1>2, <1>3, <1>4 DEF Jams, JamBase

(* The classes of the characters *)
LEMMA CharClasses ==
  ASSUME NEW x \in Char
  PROVE  /\ ClassAgain(x) \in 1 .. 53
         /\ ClassAgain(x) = 2 <=> x \in {Space, TAB}
         /\ ClassAgain(x) = 3 <=> x = LF
         /\ ClassAgain(x) = 4 <=> x = CR
         /\ ClassAgain(x) = 5 <=> x = Quote
         /\ ClassAgain(x) = 8 <=> x = 42
         /\ ClassAgain(x) = 9 <=> x = 44
         /\ ClassAgain(x) = 10 <=> x = Minus
         /\ ClassAgain(x) = 11 <=> x \in Digits
         /\ ClassAgain(x) = 12 <=> x = 59
         /\ ClassAgain(x) = 13 <=> x = 60
         /\ ClassAgain(x) = 14 <=> x = 61
         /\ ClassAgain(x) = 15 <=> x = 62
         /\ ClassAgain(x) \in (16 .. 53) \ {35} <=> x \in Letters
         /\ ClassAgain(x) \in {1, 6, 7, 35} <=> x \in Plain
         /\ yy_meta[ClassAgain(x)] = 2 <=> x \in NameChars
<1>1. x \in 0 .. 255
  BY DEF Char
<1>2. yy_ec[x] \in 0 .. 53 /\ (yy_ec[x] = 0 <=> x = 0)
  BY <1>1, ClassRows DEF NUL, Classes
<1>3. ClassAgain(x) = IF x = 0 THEN 1 ELSE yy_ec[x]
  BY DEF ClassAgain, NUL
<1>4. /\ yy_ec[x] = 2 <=> x \in {9, 32}
      /\ yy_ec[x] = 3 <=> x = 10
      /\ yy_ec[x] = 4 <=> x = 13
  BY <1>1, SMTT(30) DEF yy_ec
<1>5. /\ yy_ec[x] = 5 <=> x = 39
      /\ yy_ec[x] = 8 <=> x = 42
      /\ yy_ec[x] = 9 <=> x = 44
      /\ yy_ec[x] = 10 <=> x = 45
  BY <1>1, SMTT(30) DEF yy_ec
<1>6. /\ yy_ec[x] = 11 <=> x \in 48 .. 57
      /\ yy_ec[x] = 12 <=> x = 59
      /\ yy_ec[x] = 13 <=> x = 60
      /\ yy_ec[x] = 14 <=> x = 61
      /\ yy_ec[x] = 15 <=> x = 62
  BY <1>1, SMTT(30) DEF yy_ec
<1>7. yy_ec[x] \in (16 .. 53) \ {35} <=> x \in 65 .. 90 \cup 97 .. 122
  <2>1. x \in 65 .. 90 => yy_ec[x] \in 16 .. 34
    BY SMTT(30) DEF yy_ec
  <2>2. x \in 97 .. 122 => yy_ec[x] \in 36 .. 53 \cup {17}
    BY SMTT(30) DEF yy_ec
  <2>3. x \in 0 .. 64 => yy_ec[x] \in 0 .. 15
    BY SMTT(30) DEF yy_ec
  <2>4. x \in 91 .. 96 \cup 123 .. 255 => yy_ec[x] \in {1, 35}
    BY SMTT(30) DEF yy_ec
  <2> QED BY <1>1, <2>1, <2>2, <2>3, <2>4
<1>8. yy_ec[x] = 35 <=> x = 95
  BY <1>1, SMTT(30) DEF yy_ec
<1>9. x \in Plain <=> yy_ec[x] \in {0, 1, 6, 7, 35}
  <2>1. x \in Plain <=> x \notin Letters \cup {9, 32, 10, 13, 39, 42, 44, 45, 59, 60, 61, 62}
                        /\ x \notin Digits
    BY <1>1 DEF Plain, Char, Space, TAB, LF, CR, Quote, Minus
  <2> QED BY <1>2, <1>4, <1>5, <1>6, <1>7, <2>1 DEF Letters, Digits
<1>10. \A c \in 1 .. 53 : yy_meta[c] = 2 <=> c \in {10, 11} \cup 16 .. 53
  BY SMTT(30) DEF yy_meta, From0
<1>11. ClassAgain(x) \in 1 .. 53
  BY <1>2, <1>3
<1>12. ClassAgain(x) \in {10, 11} \cup 16 .. 53 <=> x \in NameChars
  BY <1>1, <1>2, <1>3, <1>5, <1>6, <1>7, <1>8 DEF NameChars, Letters, Digits, Minus
<1> QED BY <1>2, <1>3, <1>4, <1>5, <1>6, <1>7, <1>9, <1>10, <1>11, <1>12
        DEF Space, TAB, LF, CR, Quote, Minus, Digits, Letters

(* Where the first character of a token leads *)
LEMMA FirstNexts ==
  /\ yy_nxt[1] = 4 /\ yy_nxt[2] = 5 /\ yy_nxt[3] = 6 /\ yy_nxt[4] = 7 /\ yy_nxt[5] = 8
  /\ yy_nxt[6] = 4 /\ yy_nxt[7] = 4 /\ yy_nxt[8] = 9 /\ yy_nxt[9] = 10 /\ yy_nxt[10] = 11
  /\ yy_nxt[11] = 12 /\ yy_nxt[12] = 13 /\ yy_nxt[13] = 14 /\ yy_nxt[14] = 15
  /\ yy_nxt[15] = 16 /\ yy_nxt[35] = 4
  /\ \A c \in (16 .. 53) \ {35} : (\A k \in 1 .. 22 : c # Column[k][1]) => yy_nxt[c] = 18
<1>1. /\ yy_nxt[1] = 4 /\ yy_nxt[2] = 5 /\ yy_nxt[3] = 6 /\ yy_nxt[4] = 7 /\ yy_nxt[5] = 8
      /\ yy_nxt[6] = 4 /\ yy_nxt[7] = 4 /\ yy_nxt[8] = 9 /\ yy_nxt[9] = 10 /\ yy_nxt[10] = 11
      /\ yy_nxt[11] = 12 /\ yy_nxt[12] = 13 /\ yy_nxt[13] = 14 /\ yy_nxt[14] = 15
      /\ yy_nxt[15] = 16 /\ yy_nxt[35] = 4
  BY SMTT(60) DEF yy_nxt, From0
<1>2. \A c \in (16 .. 53) \ {35} : yy_nxt[c] = 18
        \/ c \in {16, 18, 20,
        21, 23, 24, 27, 28, 30, 33, 36, 37, 39, 40, 42, 43, 46, 47, 49, 52}
  BY SMTT(60) DEF yy_nxt, From0
<1>3. /\ Column[1][1] = 30 /\ Column[2][1] = 21 /\ Column[3][1] = 33 /\ Column[4][1] = 24
      /\ Column[5][1] = 33 /\ Column[6][1] = 23 /\ Column[7][1] = 28 /\ Column[8][1] = 20
      /\ Column[9][1] = 18 /\ Column[10][1] = 16 /\ Column[11][1] = 27 /\ Column[12][1] = 49
      /\ Column[13][1] = 40 /\ Column[14][1] = 52 /\ Column[15][1] = 43 /\ Column[16][1] = 52
      /\ Column[17][1] = 42 /\ Column[18][1] = 47 /\ Column[19][1] = 39 /\ Column[20][1] = 37
      /\ Column[21][1] = 36 /\ Column[22][1] = 46
  BY SMTT(60) DEF Column
<1> QED BY <1>1, <1>2, <1>3

-----------------------------------------------------------------------------
(* What the rules say of prefixes *)

(* The words and their beginnings *)
LEMMA WordIs ==
  ASSUME NEW k \in 1 .. 22
  PROVE  /\ Length[k] \in 2 .. 8
         /\ Length[k] > 6 <=> k \in {9, 20}
         /\ \A i \in 1 .. Length[k] : Spell(k)[i] \in Char \ {0}
         /\ \A i \in 1 .. Length[k] : i <= 5 \/ k \notin {9, 20} => Spell(k)[i] \in Letters
         /\ k \in {9, 20} => Length[k] = 8 /\ Spell(k)[6] = 40
         /\ \A i \in 1 .. Length[k] : Chain[k][i] \in (17 .. 111) \ ({18} \cup 38 .. 46)
<1>1. /\ Length[k] \in 2 .. 8 /\ (Length[k] > 6 <=> k \in {9, 20})
      /\ k \in {9, 20} => Length[k] = 8
  BY Lengths
<1>2. IsLettered(k) /\ IsAccepted(k)
  BY WordRows
<1>3. \A i \in 1 .. Length[k] : Spell(k)[i] \in Letters \cup {40, 41, 42}
  BY <1>1, <1>2 DEF IsLettered
<1>4. Letters \cup {40, 41, 42} \subseteq Char \ {0}
  BY DEF Letters, Char
<1>5. \A i \in 1 .. Length[k] : i <= 5 \/ k \notin {9, 20} => Spell(k)[i] \in Letters
  BY <1>2 DEF IsLettered
<1>6. k \in {9, 20} => Spell(k)[6] = 40
  BY <1>1, <1>2 DEF IsLettered
<1>7. \A i \in 1 .. Length[k] : Chain[k][i] \in (17 .. 111) \ ({18} \cup 38 .. 46)
  BY <1>2 DEF IsAccepted
<1> QED BY <1>1, <1>3, <1>4, <1>5, <1>6, <1>7

(* Two characters tell which word it is, ... *)
LEMMA OneWord ==
  ASSUME NEW u, NEW n \in Nat \ {0}, NEW k \in 1 .. 22, NEW j \in 1 .. 22,
         Begins(u, n, k), Begins(u, n, j)
  PROVE  k = j \/ (n = 1 /\ k \in {3, 5} /\ j \in {3, 5}) \/ (n = 1 /\ k \in {14, 16}
           /\ j \in {14, 16})
<1>1. IsLettered(k) /\ IsLettered(j)
  BY WordRows
<1>2. u[1] = Initial[k] /\ u[1] = Initial[j]
  BY <1>1 DEF IsLettered, Begins
<1>3. k = j \/ (k \in {3, 5} /\ j \in {3, 5}) \/ (k \in {14, 16} /\ j \in {14, 16})
  BY <1>2, SMTT(60) DEF Initial
<1>4. CASE n = 1
  BY <1>3, <1>4
<1>5. CASE n >= 2
  <2>1. u[2] = Spell(k)[2] /\ u[2] = Spell(j)[2]
    BY <1>5 DEF Begins
  <2> QED BY <1>1, <1>3, <2>1 DEF IsLettered
<1> QED BY <1>4, <1>5

(* ... and the state what has been read of one. *)
LEMMA OneState ==
  ASSUME NEW u, NEW n \in Nat \ {0}, NEW k \in 1 .. 22, NEW j \in 1 .. 22,
         Begins(u, n, k), Begins(u, n, j)
  PROVE  Chain[k][n] = Chain[j][n]
<1>1. Chain[3][1] = 27 /\ Chain[5][1] = 27 /\ Chain[14][1] = 37 /\ Chain[16][1] = 37
  BY DEF Chain
<1> QED BY <1>1, OneWord

LEMMA RuleIs ==
  ASSUME NEW u, NEW n
  PROVE  /\ \A r \in 1 .. 11 : RuleIn(r, u, n) <=> \E k \in {r, r + 11} : n = Length[k]
              /\ Begins(u, n, k)
         /\ RuleIn(12, u, n) <=> One(u, n, 61)
         /\ RuleIn(13, u, n) <=> Two(u, n, 60, 62)
         /\ RuleIn(14, u, n) <=> One(u, n, 62)
         /\ RuleIn(15, u, n) <=> One(u, n, 60)
         /\ RuleIn(16, u, n) <=> Two(u, n, 62, 61)
         /\ RuleIn(17, u, n) <=> Two(u, n, 60, 61)
         /\ RuleIn(18, u, n) <=> IntegerIn(u, n)
         /\ RuleIn(19, u, n) <=> StringIn(u, n)
         /\ RuleIn(20, u, n) <=> NameIn(u, n)
         /\ RuleIn(21, u, n) <=> One(u, n, 44)
         /\ RuleIn(22, u, n) <=> One(u, n, 42)
         /\ RuleIn(23, u, n) <=> One(u, n, LF) \/ Two(u, n, CR, LF)
         /\ RuleIn(24, u, n) <=> One(u, n, 59)
         /\ RuleIn(25, u, n) <=> BlankIn(u, n)
         /\ RuleIn(26, u, n) <=> n = 1
BY SMTT(60) DEF RuleIn

LEMMA OneOfTheRules ==
  \A r \in Rules : \/ r \in 1 .. 11 \/ r = 12 \/ r = 13 \/ r = 14 \/ r = 15 \/ r = 16 \/ r = 17
                   \/ r = 18 \/ r = 19 \/ r = 20 \/ r = 21 \/ r = 22 \/ r = 23 \/ r = 24
                   \/ r = 25 \/ r = 26
BY DEF Rules

(* Something matches them, or more. *)
Alive(u, n) ==
  \/ \E k \in 1 .. 22 : Begins(u, n, k)
  \/ BlankIn(u, n) \/ IntegerIn(u, n) \/ OpenIn(u, n) \/ StringIn(u, n) \/ NameIn(u, n)
  \/ Two(u, n, 60, 61) \/ Two(u, n, 60, 62) \/ Two(u, n, 62, 61) \/ Two(u, n, CR, LF)

LEMMA Viable ==
  ASSUME NEW u, NEW n \in Nat, n >= 2,
         GrowsIn(u, n) \/ \E r \in Rules : RuleIn(r, u, n)
  PROVE  Alive(u, n)
<1>1. CASE GrowsIn(u, n)
  BY <1>1 DEF GrowsIn, Alive
<1>2. ASSUME NEW r \in Rules, RuleIn(r, u, n) PROVE Alive(u, n)
  <2>1. CASE r \in 1 .. 11
    <3>1. PICK k \in {r, r + 11} : Begins(u, n, k)
      BY <1>2, <2>1, RuleIs
    <3>2. k \in 1 .. 22
      BY <2>1
    <3> QED BY <3>1, <3>2 DEF Alive
  <2>2. CASE r \in 12 .. 26
    <3>1. ~One(u, n, 61) /\ ~One(u, n, 62) /\ ~One(u, n, 60) /\ ~One(u, n, 44) /\ ~One(u, n, 42)
          /\ ~One(u, n, 59) /\ ~One(u, n, LF) /\ n # 1
      BY DEF One
    <3> QED BY <1>2, <2>2, <3>1, OneOfTheRules, RuleIs DEF Alive
  <2> QED BY <2>1, <2>2 DEF Rules
<1> QED BY <1>1, <1>2

(* Less than a rule matches may grow. *)
LEMMA PrefixGrows ==
  ASSUME NEW u \in Seq(Char), NEW m \in 1 .. Len(u), NEW n \in Nat \ {0}, n < m,
         NEW r \in Rules, RuleIn(r, u, m)
  PROVE  GrowsIn(u, n)
<1>0. m \in Nat /\ n \in 1 .. m - 1
  OBVIOUS
<1>1. CASE r \in 1 .. 11
  <2>1. PICK k \in {r, r + 11} : m = Length[k] /\ Begins(u, m, k)
    BY <1>1, RuleIs
  <2>2. k \in 1 .. 22
    BY <1>1, <2>1
  <2>3. n < Length[k] /\ n <= Length[k] /\ \A i \in 1 .. n : i \in 1 .. m
    BY <1>0, <2>1
  <2>4. Begins(u, n, k)
    BY <2>1, <2>3 DEF Begins
  <2> QED BY <2>2, <2>3, <2>4 DEF GrowsIn
<1>2. CASE r \in {12, 14, 15, 21, 22, 24, 26}
  BY <1>0, <1>2, RuleIs DEF One
<1>3. CASE r \in {13, 16, 17, 23}
  <2>1. m # 1
    BY <1>0
  <2>2. Two(u, m, 60, 62) \/ Two(u, m, 62, 61) \/ Two(u, m, 60, 61) \/ Two(u, m, CR, LF)
    <3>1. /\ RuleIn(13, u, m) => Two(u, m, 60, 62)
          /\ RuleIn(16, u, m) => Two(u, m, 62, 61)
          /\ RuleIn(17, u, m) => Two(u, m, 60, 61)
          /\ RuleIn(23, u, m) => One(u, m, LF) \/ Two(u, m, CR, LF)
      BY RuleIs
    <3>2. ~One(u, m, LF)
      BY <2>1 DEF One
    <3> QED BY <1>3, <3>1, <3>2
  <2>3. n = 1 /\ u[1] \in {60, 62, CR}
    BY <1>0, <2>2 DEF Two
  <2> QED BY <2>3 DEF GrowsIn
<1>4. CASE r = 18
  <2>1. IntegerIn(u, m)
    BY <1>4, RuleIs
  <2>2. (n = 1 /\ u[1] = Minus) \/ IntegerIn(u, n)
    BY <1>0, <2>1 DEF IntegerIn
  <2> QED BY <2>2 DEF GrowsIn
<1>5. CASE r = 19
  <2>1. StringIn(u, m)
    BY <1>5, RuleIs
  <2>2. OpenIn(u, n)
    BY <1>0, <2>1 DEF StringIn, OpenIn
  <2> QED BY <2>2 DEF GrowsIn
<1>6. CASE r = 20
  <2>1. NameIn(u, m)
    BY <1>6, RuleIs
  <2>2. NameIn(u, n)
    BY <1>0, <2>1 DEF NameIn
  <2> QED BY <2>2 DEF GrowsIn
<1>7. CASE r = 25
  <2>1. BlankIn(u, m)
    BY <1>7, RuleIs
  <2>2. BlankIn(u, n)
    BY <1>0, <2>1 DEF BlankIn
  <2> QED BY <2>2 DEF GrowsIn
<1> QED BY <1>1, <1>2, <1>3, <1>4, <1>5, <1>6, <1>7 DEF Rules

(* What the first character tells *)
LEMMA FirstTells ==
  ASSUME NEW u, NEW n \in Nat \ {0}
  PROVE  /\ \A k \in 1 .. 22 : Begins(u, n, k) => u[1] \in Letters
         /\ BlankIn(u, n) => u[1] \in {Space, TAB}
         /\ IntegerIn(u, n) => u[1] \in Digits \cup {Minus}
         /\ OpenIn(u, n) => u[1] = Quote
         /\ StringIn(u, n) => u[1] = Quote /\ n >= 2
         /\ NameIn(u, n) => u[1] \in Letters
<1>1. ASSUME NEW k \in 1 .. 22, Begins(u, n, k) PROVE u[1] \in Letters
  <2>1. u[1] = Spell(k)[1]
    BY <1>1 DEF Begins
  <2>2. 1 \in 1 .. Length[k]
    BY Lengths
  <2>3. Spell(k)[1] \in Letters
    BY <2>2, WordIs
  <2> QED BY <2>1, <2>3
<1> QED BY <1>1 DEF BlankIn, IntegerIn, OpenIn, StringIn, NameIn

-----------------------------------------------------------------------------
(* The automaton, step by step *)

WordStates == (17 .. 111) \ ({18} \cup 38 .. 46)

LEMMA MeansIs ==
  ASSUME NEW u, NEW n \in Nat \ {0}
  PROVE  /\ ~Means(1, u, n)
         /\ Means(4, u, n) <=> n = 1 /\ u[1] \in Plain
         /\ \A s \in {5, 38} : Means(s, u, n) <=> BlankIn(u, n)
         /\ Means(6, u, n) <=> One(u, n, LF)
         /\ Means(7, u, n) <=> One(u, n, CR)
         /\ Means(8, u, n) <=> One(u, n, Quote)
         /\ Means(40, u, n) <=> n >= 2 /\ OpenIn(u, n)
         /\ Means(9, u, n) <=> One(u, n, 42)
         /\ Means(10, u, n) <=> One(u, n, 44)
         /\ Means(11, u, n) <=> One(u, n, Minus)
         /\ \A s \in {12, 42} : Means(s, u, n) <=> IntegerIn(u, n)
         /\ Means(13, u, n) <=> One(u, n, 59)
         /\ Means(14, u, n) <=> One(u, n, 60)
         /\ Means(15, u, n) <=> One(u, n, 61)
         /\ Means(16, u, n) <=> One(u, n, 62)
         /\ \A s \in {18, 46} :
              Means(s, u, n) <=> NameIn(u, n) /\ \A k \in 1 .. 22 : ~Begins(u, n, k)
         /\ Means(39, u, n) <=> Two(u, n, CR, LF)
         /\ Means(41, u, n) <=> StringIn(u, n)
         /\ Means(43, u, n) <=> Two(u, n, 60, 61)
         /\ Means(44, u, n) <=> Two(u, n, 60, 62)
         /\ Means(45, u, n) <=> Two(u, n, 62, 61)
         /\ \A s \in WordStates \cup {2} : Means(s, u, n) <=> Spelled(s, u, n)
BY SMTT(60) DEF Means, WordStates

LEMMA WordMeans ==
  ASSUME NEW u, NEW n \in Nat \ {0}, NEW s \in WordStates \cup {2}
  PROVE  Means(s, u, n) <=> Spelled(s, u, n)
BY MeansIs

LEMMA NameMeans ==
  ASSUME NEW u, NEW n \in Nat \ {0}, NEW s \in {18, 46}
  PROVE  Means(s, u, n) <=> NameIn(u, n) /\ \A k \in 1 .. 22 : ~Begins(u, n, k)
BY MeansIs

LEMMA WordStatesApart == \A s \in WordStates : s \in 17 .. 111 /\ s \notin {EobState, JamState}
BY DEF WordStates, EobState, JamState

LEMMA LettersApart ==
  \A x \in Letters : x \notin {Space, TAB, Minus, Quote, 60, 62, CR, LF} /\ x \notin Digits
BY DEF Letters, Space, TAB, Minus, Quote, CR, LF, Digits

LEMMA OneOfTheStates ==
  ASSUME NEW s \in States \ {EobState, JamState}
  PROVE  \/ s = 1 \/ s \in WordStates \cup {2} \/ s \in {5, 38} \/ s = 7 \/ s \in {8, 40}
         \/ s \in {11, 12, 42} \/ s = 14 \/ s = 16 \/ s \in {18, 46}
         \/ s \in {4, 6, 9, 10, 13, 15, 39, 41, 43, 44, 45}
BY DEF States, JamState, EobState, WordStates

LEMMA LetterClass ==
  ASSUME NEW k \in 1 .. 22, NEW i \in 1 .. Length[k], NEW x \in Char
  PROVE  ClassAgain(x) = Column[k][i] <=> x = Spell(k)[i]
<1>1. Column[k][i] \in 6 .. 53 /\ (yy_ec[x] = Column[k][i] <=> x = Spell(k)[i])
  BY WordRows DEF IsClassed
<1>2. Spell(k)[i] # 0
  <2>1. \A l \in 1 .. Length[k] : Spell(k)[l] \in Char \ {0}
    BY WordIs
  <2> QED BY <2>1
<1>3. ClassAgain(x) = IF x = 0 THEN 1 ELSE yy_ec[x]
  BY DEF ClassAgain, NUL
<1> QED BY <1>1, <1>2, <1>3

LEMMA AliveTells ==
  ASSUME NEW u, NEW m \in Nat, m >= 2, Alive(u, m)
  PROVE  \/ u[1] \in Letters /\ (NameIn(u, m) \/ \E k \in 1 .. 22 : Begins(u, m, k))
         \/ u[1] \in {Space, TAB} /\ BlankIn(u, m)
         \/ u[1] \in Digits \cup {Minus} /\ IntegerIn(u, m)
         \/ u[1] = Quote /\ (OpenIn(u, m) \/ StringIn(u, m))
         \/ u[1] = 60 /\ m = 2 /\ u[2] \in {61, 62}
         \/ u[1] = 62 /\ m = 2 /\ u[2] = 61
         \/ u[1] = CR /\ m = 2 /\ u[2] = LF
<1>1. m \in Nat \ {0}
  OBVIOUS
<1> QED BY <1>1, FirstTells DEF Alive, Two

LEMMA FirstMeans ==
  ASSUME NEW u
  PROVE  /\ Means(4, u, 1) <=> u[1] \in Plain
         /\ Means(5, u, 1) <=> BlankIn(u, 1)
         /\ Means(6, u, 1) <=> One(u, 1, LF)
         /\ Means(7, u, 1) <=> One(u, 1, CR)
         /\ Means(8, u, 1) <=> One(u, 1, Quote)
         /\ Means(9, u, 1) <=> One(u, 1, 42)
         /\ Means(10, u, 1) <=> One(u, 1, 44)
         /\ Means(11, u, 1) <=> One(u, 1, Minus)
         /\ Means(12, u, 1) <=> IntegerIn(u, 1)
         /\ Means(13, u, 1) <=> One(u, 1, 59)
         /\ Means(14, u, 1) <=> One(u, 1, 60)
         /\ Means(15, u, 1) <=> One(u, 1, 61)
         /\ Means(16, u, 1) <=> One(u, 1, 62)
BY SMTT(60) DEF Means

(* The first character *)
LEMMA FirstStep ==
  ASSUME NEW u \in Seq(Char), Len(u) >= 1, NEW t, t = NextState(1, ClassAgain(u[1]))
  PROVE  t \notin {EobState, JamState} /\ Means(t, u, 1)
<1>1. PICK x : x = u[1]
  OBVIOUS
<1>2. x \in Char
  BY <1>1, ElementOfSeq
<1>3. PICK c : c = ClassAgain(x)
  OBVIOUS
<1>4. /\ c \in 1 .. 53 /\ t = yy_nxt[c]
      /\ c = 2 <=> x \in {Space, TAB}
      /\ c = 3 <=> x = LF
      /\ c = 4 <=> x = CR
      /\ c = 5 <=> x = Quote
      /\ c = 8 <=> x = 42
      /\ c = 9 <=> x = 44
      /\ c = 10 <=> x = Minus
      /\ c = 11 <=> x \in Digits
      /\ c = 12 <=> x = 59
      /\ c = 13 <=> x = 60
      /\ c = 14 <=> x = 61
      /\ c = 15 <=> x = 62
      /\ c \in (16 .. 53) \ {35} <=> x \in Letters
      /\ c \in {1, 6, 7, 35} <=> x \in Plain
  <2>1. c \in 1 .. 53
    BY <1>2, <1>3, CharClasses
  <2>2. \A l \in 1 .. 53 : NextState(1, l) = yy_nxt[l]
    BY OtherNexts, ZenonT(60)
  <2>3. t = yy_nxt[c]
    BY <1>1, <1>3, <2>1, <2>2
  <2> QED BY <1>2, <1>3, <2>1, <2>3, CharClasses, ZenonT(60)
<1>5. CASE c \in {1, 6, 7, 35}
  <2>1. t = 4
    BY <1>4, <1>5, FirstNexts, SMTT(40)
  <2> QED BY <1>1, <1>4, <1>5, <2>1, FirstMeans DEF EobState, JamState
<1>6. CASE c = 2
  <2>1. t = 5 /\ BlankIn(u, 1)
    BY <1>1, <1>4, <1>6, FirstNexts DEF BlankIn
  <2> QED BY <2>1, FirstMeans DEF EobState, JamState
<1>7. CASE c = 3
  <2>1. t = 6 /\ One(u, 1, LF)
    BY <1>1, <1>4, <1>7, FirstNexts DEF One
  <2> QED BY <2>1, FirstMeans DEF EobState, JamState
<1>8. CASE c = 4
  <2>1. t = 7 /\ One(u, 1, CR)
    BY <1>1, <1>4, <1>8, FirstNexts DEF One
  <2> QED BY <2>1, FirstMeans DEF EobState, JamState
<1>9. CASE c = 5
  <2>1. t = 8 /\ One(u, 1, Quote)
    BY <1>1, <1>4, <1>9, FirstNexts DEF One
  <2> QED BY <2>1, FirstMeans DEF EobState, JamState
<1>10. CASE c = 8
  <2>1. t = 9 /\ One(u, 1, 42)
    BY <1>1, <1>4, <1>10, FirstNexts DEF One
  <2> QED BY <2>1, FirstMeans DEF EobState, JamState
<1>11. CASE c = 9
  <2>1. t = 10 /\ One(u, 1, 44)
    BY <1>1, <1>4, <1>11, FirstNexts DEF One
  <2> QED BY <2>1, FirstMeans DEF EobState, JamState
<1>12. CASE c = 10
  <2>1. t = 11 /\ One(u, 1, Minus)
    BY <1>1, <1>4, <1>12, FirstNexts DEF One
  <2> QED BY <2>1, FirstMeans DEF EobState, JamState
<1>13. CASE c = 11
  <2>1. t = 12
    BY <1>4, <1>13, FirstNexts
  <2>2. IntegerIn(u, 1)
    <3>1. u[1] \in Digits /\ u[1] # Minus
      BY <1>1, <1>4, <1>13 DEF Digits, Minus
    <3> QED BY <3>1 DEF IntegerIn
  <2> QED BY <2>1, <2>2, FirstMeans DEF EobState, JamState
<1>14. CASE c = 12
  <2>1. t = 13 /\ One(u, 1, 59)
    BY <1>1, <1>4, <1>14, FirstNexts DEF One
  <2> QED BY <2>1, FirstMeans DEF EobState, JamState
<1>15. CASE c = 13
  <2>1. t = 14 /\ One(u, 1, 60)
    BY <1>1, <1>4, <1>15, FirstNexts DEF One
  <2> QED BY <2>1, FirstMeans DEF EobState, JamState
<1>16. CASE c = 14
  <2>1. t = 15 /\ One(u, 1, 61)
    BY <1>1, <1>4, <1>16, FirstNexts DEF One
  <2> QED BY <2>1, FirstMeans DEF EobState, JamState
<1>17. CASE c = 15
  <2>1. t = 16 /\ One(u, 1, 62)
    BY <1>1, <1>4, <1>17, FirstNexts DEF One
  <2> QED BY <2>1, FirstMeans DEF EobState, JamState
<1>18. CASE c \in (16 .. 53) \ {35}
  <2>1. \A k \in 1 .. 22 : c = Column[k][1] <=> x = Spell(k)[1]
    <3> TAKE k \in 1 .. 22
    <3>0. Length[k] \in 2 .. 8
      BY Lengths
    <3>1. 1 \in 1 .. Length[k]
      BY <3>0
    <3> QED BY <1>2, <1>3, <3>1, LetterClass
  <2>2. CASE \E k \in 1 .. 22 : c = Column[k][1]
    <3>1. PICK k \in 1 .. 22 : c = Column[k][1]
      BY <2>2
    <3>2. Length[k] \in 2 .. 8 /\ IsChained(k) /\ 1 \in 1 .. Length[k]
      <4>1. Length[k] \in 2 .. 8
        BY Lengths
      <4>2. IsChained(k)
        BY WordRows
      <4> QED BY <4>1, <4>2
    <3>3. t = Chain[k][1]
      BY <1>4, <3>1, <3>2 DEF IsChained
    <3>4. Begins(u, 1, k)
      <4>1. u[1] = Spell(k)[1]
        BY <1>1, <2>1, <3>1
      <4>2. \A i \in 1 .. 1 : u[i] = Spell(k)[i]
        BY <4>1
      <4>3. 1 <= Length[k]
        BY <3>2
      <4> QED BY <4>2, <4>3 DEF Begins
    <3>5. Spelled(t, u, 1)
      BY <3>3, <3>4 DEF Spelled
    <3>6. t \in WordStates
      <4>1. \A i \in 1 .. Length[k] : Chain[k][i] \in (17 .. 111) \ ({18} \cup 38 .. 46)
        BY WordIs
      <4> QED BY <3>2, <3>3, <4>1 DEF WordStates
    <3>7. Means(t, u, 1)
      BY <3>5, <3>6, WordMeans
    <3>8. t \notin {EobState, JamState}
      BY <3>6, WordStatesApart
    <3> QED BY <3>7, <3>8
  <2>3. CASE \A k \in 1 .. 22 : c # Column[k][1]
    <3>1. t = 18
      BY <1>4, <1>18, <2>3, FirstNexts
    <3>2. \A k \in 1 .. 22 : ~Begins(u, 1, k)
      <4> SUFFICES ASSUME NEW k \in 1 .. 22, Begins(u, 1, k) PROVE FALSE
        OBVIOUS
      <4>1. u[1] = Spell(k)[1]
        BY DEF Begins
      <4> QED BY <1>1, <2>1, <2>3, <4>1
    <3>3. NameIn(u, 1)
      BY <1>1, <1>4, <1>18 DEF NameIn, NameChars
    <3> QED BY <3>1, <3>2, <3>3, NameMeans DEF EobState, JamState
  <2> QED BY <2>2, <2>3
<1> QED BY <1>4, <1>5, <1>6, <1>7, <1>8, <1>9, <1>10, <1>11, <1>12, <1>13, <1>14, <1>15, <1>16,
           <1>17, <1>18

(* What the state of a word leads to *)
LEMMA WordStep ==
  ASSUME NEW u \in Seq(Char), NEW n \in 1 .. Len(u) - 1, NEW s \in WordStates \cup {2},
         Spelled(s, u, n), NEW t, t = NextState(s, ClassAgain(u[n + 1]))
  PROVE  IF t = JamState THEN ~Alive(u, n + 1) ELSE t # EobState /\ Means(t, u, n + 1)
<1>1. PICK x : x = u[n + 1]
  OBVIOUS
<1>2. x \in Char /\ n \in Nat \ {0} /\ n + 1 \in Nat \ {0} /\ n + 1 >= 2
  <2>1. n + 1 \in 1 .. Len(u) /\ n \in Nat \ {0}
    OBVIOUS
  <2> QED BY <1>1, <2>1, ElementOfSeq
<1>3. PICK c : c = ClassAgain(x)
  OBVIOUS
<1>4. PICK k \in 1 .. 22 : Begins(u, n, k) /\ Chain[k][n] = s
  BY DEF Spelled
<1>5. /\ n <= Length[k] /\ n \in 1 .. Length[k] /\ Length[k] \in 2 .. 8
      /\ \A i \in 1 .. n : u[i] = Spell(k)[i]
  <2>1. Length[k] \in 2 .. 8
    BY Lengths
  <2>2. n <= Length[k] /\ \A i \in 1 .. n : u[i] = Spell(k)[i]
    BY <1>4 DEF Begins
  <2> QED BY <1>2, <2>1, <2>2
<1>6. /\ IsChained(k) /\ IsAccepted(k)
  BY WordRows
<1>7. c \in 1 .. 53 /\ (yy_meta[c] = 2 <=> x \in NameChars) /\ s \in 1 .. 112
  BY <1>2, <1>3, CharClasses, SMTT(40) DEF WordStates
<1>8. t = NextState(s, c)
  BY <1>1, <1>3
<1>9. \A j \in 1 .. 22 : Begins(u, n + 1, j) => Begins(u, n, j) /\ n + 1 <= Length[j]
        /\ x = Spell(j)[n + 1]
  <2> SUFFICES ASSUME NEW j \in 1 .. 22, Begins(u, n + 1, j)
               PROVE  Begins(u, n, j) /\ n + 1 <= Length[j] /\ x = Spell(j)[n + 1]
    OBVIOUS
  <2>1. Length[j] \in 2 .. 8 /\ n + 1 <= Length[j] /\ \A i \in 1 .. n + 1 : u[i] = Spell(j)[i]
    BY Lengths DEF Begins
  <2>2. \A i \in 1 .. n : i \in 1 .. n + 1
    BY <1>2
  <2>3. n <= Length[j] /\ n + 1 \in 1 .. n + 1
    BY <1>2, <2>1
  <2> QED BY <1>1, <2>1, <2>2, <2>3 DEF Begins
<1>10. CASE \E j \in 1 .. 22 : Begins(u, n + 1, j)
  <2>1. PICK j \in 1 .. 22 : Begins(u, n + 1, j)
    BY <1>10
  <2>2. Begins(u, n, j) /\ n + 1 <= Length[j] /\ x = Spell(j)[n + 1]
    BY <1>9, <2>1
  <2>3. Length[j] \in 2 .. 8 /\ n + 1 \in 1 .. Length[j] /\ n \in 1 .. Length[j] - 1
          /\ n \in 1 .. Length[j]
    <3>1. Length[j] \in 2 .. 8
      BY Lengths
    <3> QED BY <1>2, <2>2, <3>1
  <2>4. c = Column[j][n + 1]
    BY <1>2, <1>3, <2>2, <2>3, LetterClass
  <2>5. Chain[j][n] = s
    BY <1>2, <1>4, <2>2, OneState, ZenonT(60)
  <2>6. IsChained(j)
    BY WordRows
  <2>7. HasEntry(s, c) /\ Entry(s, c) = Chain[j][n + 1]
    <3>1. Entry(s, c) = Chain[j][n + 1]
      BY <2>3, <2>4, <2>5, <2>6 DEF IsChained
    <3>2. HasEntry(s, c) <=> IF n = 1 /\ j \in {3, 5} THEN c \in {22, 23}
                             ELSE IF n = 1 /\ j \in {14, 16} THEN c \in {41, 42}
                             ELSE n < Length[j] /\ c = Column[j][n + 1]
      BY <1>7, <2>3, <2>5, <2>6 DEF IsChained
    <3>3. Column[3][2] = 22 /\ Column[5][2] = 23 /\ Column[14][2] = 41 /\ Column[16][2] = 42
      BY DEF Column
    <3>4. n < Length[j]
      BY <2>3
    <3> QED BY <2>4, <3>1, <3>2, <3>3, <3>4
  <2>8. t = Chain[j][n + 1]
    BY <1>7, <1>8, <2>7, ByDefault, ZenonT(60)
  <2>9. t \in WordStates
    <3>1. \A i \in 1 .. Length[j] : Chain[j][i] \in (17 .. 111) \ ({18} \cup 38 .. 46)
      BY WordIs
    <3> QED BY <2>3, <2>8, <3>1 DEF WordStates
  <2>10. Spelled(t, u, n + 1)
    BY <2>1, <2>8 DEF Spelled
  <2>11. Means(t, u, n + 1)
    BY <1>2, <2>9, <2>10, WordMeans
  <2>12. t # EobState /\ t # JamState
    BY <2>9, WordStatesApart
  <2> QED BY <2>11, <2>12
<1>11. CASE \A j \in 1 .. 22 : ~Begins(u, n + 1, j)
  <2>1. ASSUME NEW j \in 1 .. 22, Begins(u,
                 n, j), n + 1 <= Length[j], c = Column[j][n + 1] PROVE FALSE
    <3>1. Length[j] \in 2 .. 8 /\ n + 1 \in 1 .. Length[j]
      <4>1. Length[j] \in 2 .. 8
        BY Lengths
      <4> QED BY <1>2, <2>1, <4>1
    <3>2. x = Spell(j)[n + 1]
      BY <1>2, <1>3, <2>1, <3>1, LetterClass
    <3>3. \A i \in 1 .. n + 1 : i \in 1 .. n \/ i = n + 1
      BY <1>2
    <3>4. Begins(u, n + 1, j)
      BY <1>1, <2>1, <3>2, <3>3 DEF Begins
    <3> QED BY <1>11, <3>4
  <2>2. ~HasEntry(s, c)
    <3> SUFFICES ASSUME HasEntry(s, c) PROVE FALSE
      OBVIOUS
    <3>1. IF n = 1 /\ k \in {3, 5} THEN c \in {22, 23}
          ELSE IF n = 1 /\ k \in {14, 16} THEN c \in {41, 42}
          ELSE n < Length[k] /\ c = Column[k][n + 1]
      BY <1>4, <1>5, <1>6, <1>7 DEF IsChained
    <3>2. Column[3][2] = 22 /\ Column[5][2] = 23 /\ Column[14][2] = 41 /\ Column[16][2] = 42
      BY DEF Column
    <3>3. CASE n < Length[k] /\ c = Column[k][n + 1]
      <4>1. n + 1 <= Length[k]
        BY <1>2, <1>5, <3>3
      <4> QED BY <1>4, <2>1, <3>3, <4>1
    <3>4. CASE n = 1 /\ ((k \in {3, 5} /\ c \in {22, 23}) \/ (k \in {14, 16} /\ c \in {41, 42}))
      <4>1. Initial[3] = 87 /\ Initial[5] = 87 /\ Initial[14] = 119 /\ Initial[16] = 119
        BY DEF Initial
      <4>2. \A j \in {3, 5, 14, 16} : Spell(j)[1] = Initial[j] /\ n + 1 <= Length[j]
              /\ 1 <= Length[j]
        <5> TAKE j \in {3, 5, 14, 16}
        <5>1. j \in 1 .. 22
          OBVIOUS
        <5>2. IsLettered(j) /\ Length[j] \in 2 .. 8
          BY <5>1, WordRows, Lengths
        <5> QED BY <3>4, <5>2 DEF IsLettered
      <4>3. u[1] = Spell(k)[1]
        BY <1>5
      <4>4. \A j \in {3, 5, 14, 16} : Spell(j)[1] = Spell(k)[1] => Begins(u, n, j)
        <5> TAKE j \in {3, 5, 14, 16}
        <5>1. 1 <= Length[j] /\ \A i \in 1 .. 1 : i = 1
          BY <4>2
        <5> QED BY <3>4, <4>3, <5>1 DEF Begins
      <4>5. k \in {3, 5} => Begins(u, n, 3) /\ Begins(u, n, 5)
        BY <4>1, <4>2, <4>4
      <4>6. k \in {14, 16} => Begins(u, n, 14) /\ Begins(u, n, 16)
        BY <4>1, <4>2, <4>4
      <4> QED BY <2>1, <3>2, <3>4, <4>2, <4>5, <4>6, SMTT(40)
    <3> QED BY <3>1, <3>3, <3>4
  <2>3. u[1] \in Letters
    BY <1>2, <1>4, FirstTells
  <2>4. Alive(u, n + 1) => NameIn(u, n + 1)
    <3> SUFFICES ASSUME Alive(u, n + 1) PROVE NameIn(u, n + 1)
      OBVIOUS
    <3>1. u[1] \notin {Space, TAB, Minus, Quote, 60, 62, CR} /\ u[1] \notin Digits
      BY <2>3, LettersApart
    <3> QED BY <1>2, <1>11, <3>1, AliveTells
  <2>5. NameIn(u, n + 1) => x \in NameChars /\ \A i \in 1 .. n : u[i] \in NameChars
    <3>1. n + 1 \in 1 .. n + 1 /\ \A i \in 1 .. n : i \in 1 .. n + 1
      BY <1>2
    <3> QED BY <1>1, <3>1 DEF NameIn
  <2>6. CASE n > 5 /\ k \in {9, 20}
    <3>1. yy_def[s] = 112
      BY <1>4, <1>5, <1>6, <2>6, SMTT(40) DEF IsAccepted
    <3>2. t = 112
      BY <1>7, <1>8, <2>2, <3>1, ByDefault, ZenonT(60)
    <3>3. u[6] = 40
      <4>1. Spell(k)[6] = 40
        <5>1. k \in {9, 20} => Length[k] = 8 /\ Spell(k)[6] = 40
          BY WordIs
        <5> QED BY <2>6, <5>1
      <4>2. 6 \in 1 .. n
        BY <1>2, <2>6
      <4> QED BY <1>5, <4>1, <4>2
    <3>4. ~NameIn(u, n + 1)
      <4>1. 6 \in 1 .. n /\ 40 \notin NameChars
        BY <1>2, <2>6 DEF NameChars, Letters, Digits, Minus
      <4> QED BY <2>5, <3>3, <4>1
    <3> QED BY <2>4, <3>2, <3>4 DEF JamState
  <2>7. CASE ~(n > 5 /\ k \in {9, 20})
    <3>1. yy_def[s] = 114
      BY <1>4, <1>5, <1>6, <2>7 DEF IsAccepted
    <3>2. t = IF yy_meta[c] = 2 THEN 46 ELSE 112
      <4>1. NextState(s, c) = IF yy_meta[c] = 2 THEN 46 ELSE 112
        BY <1>7, <2>2, <3>1, ByDefault, ZenonT(60)
      <4> QED BY <1>8, <4>1
    <3>3. CASE x \in NameChars
      <4>1. \A i \in 1 .. n : u[i] \in Letters
        <5> TAKE i \in 1 .. n
        <5>1. i \in 1 .. Length[k] /\ (i <= 5 \/ k \notin {9, 20})
          BY <1>2, <1>5, <2>7
        <5>2. \A l \in 1 .. Length[k] : l <= 5 \/ k \notin {9, 20} => Spell(k)[l] \in Letters
          BY WordIs
        <5> QED BY <1>5, <5>1, <5>2
      <4>2. \A i \in 1 .. n + 1 : i \in 1 .. n \/ i = n + 1
        BY <1>2
      <4>3. NameIn(u, n + 1)
        BY <1>1, <2>3, <3>3, <4>1, <4>2 DEF NameIn, NameChars
      <4>4. t = 46
        BY <1>7, <3>2, <3>3
      <4>5. Means(46, u, n + 1)
        BY <1>2, <1>11, <4>3, NameMeans
      <4> QED BY <4>4, <4>5 DEF EobState, JamState
    <3>4. CASE x \notin NameChars
      BY <1>7, <2>4, <2>5, <3>2, <3>4 DEF JamState
    <3> QED BY <3>3, <3>4
  <2> QED BY <2>6, <2>7
<1> QED BY <1>10, <1>11

(* What the other states lead to *)
LEMMA NameStep ==
  ASSUME NEW u \in Seq(Char), NEW n \in 1 .. Len(u) - 1, NEW s \in {18, 46},
         Means(s, u, n), NEW t, t = NextState(s, ClassAgain(u[n + 1]))
  PROVE  IF t = JamState THEN ~Alive(u, n + 1) ELSE t # EobState /\ Means(t, u, n + 1)
<1>1. PICK x : x = u[n + 1]
  OBVIOUS
<1>2. x \in Char /\ n \in Nat \ {0} /\ n + 1 \in Nat \ {0} /\ n + 1 >= 2
  <2>1. n + 1 \in 1 .. Len(u) /\ n \in Nat \ {0}
    OBVIOUS
  <2> QED BY <1>1, <2>1, ElementOfSeq
<1>3. NameIn(u, n) /\ \A k \in 1 .. 22 : ~Begins(u, n, k)
  BY <1>2, NameMeans
<1>4. ASSUME NEW k \in 1 .. 22 PROVE ~Begins(u, n + 1, k)
  <2> SUFFICES ASSUME Begins(u, n + 1, k) PROVE FALSE
    OBVIOUS
  <2>1. Length[k] \in 2 .. 8
    BY Lengths
  <2>2. n <= Length[k] /\ \A i \in 1 .. n : i \in 1 .. n + 1
    <3>1. n + 1 <= Length[k]
      BY DEF Begins
    <3> QED BY <1>2, <2>1, <3>1
  <2>3. Begins(u, n, k)
    BY <2>2 DEF Begins
  <2> QED BY <1>3, <2>3
<1>5. \A i \in 1 .. n + 1 : i \in 1 .. n \/ i = n + 1
  BY <1>2
<1>6. PICK c : c = ClassAgain(x)
  OBVIOUS
<1>7. c \in 1 .. 53 /\ (yy_meta[c] = 2 <=> x \in NameChars)
  BY <1>2, <1>6, CharClasses
<1>8. t = IF yy_meta[c] = 2 THEN 46 ELSE 112
  <2>1. \A l \in 1 .. 53, r \in {18, 46} : NextState(r, l) = IF yy_meta[l] = 2 THEN 46 ELSE 112
    BY OtherNexts, ZenonT(60)
  <2>2. NextState(s, c) = IF yy_meta[c] = 2 THEN 46 ELSE 112
    BY <1>7, <2>1, ZenonT(60)
  <2> QED BY <1>1, <1>6, <2>2
<1>9. CASE x \in NameChars
  <2>1. NameIn(u, n + 1)
    BY <1>1, <1>3, <1>5, <1>9 DEF NameIn
  <2>2. t = 46 /\ Means(46, u, n + 1)
    BY <1>2, <1>4, <1>7, <1>8, <1>9, <2>1, NameMeans
  <2> QED BY <2>2 DEF EobState, JamState
<1>10. CASE x \notin NameChars
  <2>1. t = 112
    BY <1>7, <1>8, <1>10
  <2>2. ~NameIn(u, n + 1)
    <3>1. n + 1 \in 1 .. n + 1
      BY <1>2
    <3> QED BY <1>1, <1>10, <3>1 DEF NameIn
  <2>3. u[1] \in Letters
    BY <1>3 DEF NameIn
  <2>4. u[1] \notin {Space, TAB, Minus, Quote, 60, 62, CR} /\ u[1] \notin Digits
    BY <2>3, LettersApart
  <2>5. ~Alive(u, n + 1)
    BY <1>2, <1>4, <2>2, <2>4, AliveTells
  <2> QED BY <2>1, <2>5 DEF JamState
<1> QED BY <1>9, <1>10

(* The characters that begin nothing else *)
LEMMA Apart ==
  /\ \A x \in Plain : x \notin Letters /\ x \notin Digits
                      /\ x \notin {Space, TAB, Minus, Quote, 60, 62, CR, LF, 42, 44, 59, 61}
  /\ \A x \in {Space, TAB, Quote, 60, 62, CR, LF, 42, 44, 59, 61} :
       x \notin Letters /\ x \notin Digits /\ x # Minus
  /\ \A x \in Digits \cup {Minus} :
       x \notin Letters /\ x \notin {Space, TAB, Quote, 60, 62, CR, LF, 42, 44, 59, 61}
  /\ Minus \notin Digits
  /\ Space = 32 /\ TAB = 9 /\ Quote = 39 /\ CR = 13 /\ LF = 10 /\ Minus = 45
BY DEF Plain, Letters, Digits, Space, TAB, Quote, CR, LF, Minus

LEMMA OtherStep ==
  ASSUME NEW u \in Seq(Char), NEW n \in 1 .. Len(u) - 1,
         NEW s \in {4, 5, 6, 7, 8, 9, 10, 11, 12, 13, 14, 15, 16} \cup 38 .. 45,
         Means(s, u, n), NEW t, t = NextState(s, ClassAgain(u[n + 1]))
  PROVE  IF t = JamState THEN ~Alive(u, n + 1) ELSE t # EobState /\ Means(t, u, n + 1)
<1>1. PICK x : x = u[n + 1]
  OBVIOUS
<1>2. x \in Char /\ n \in Nat \ {0} /\ n + 1 \in Nat \ {0} /\ n + 1 >= 2
  <2>1. n + 1 \in 1 .. Len(u) /\ n \in Nat \ {0}
    OBVIOUS
  <2> QED BY <1>1, <2>1, ElementOfSeq
<1>3. \A i \in 1 .. n + 1 : i \in 1 .. n \/ i = n + 1
  BY <1>2
<1>4. n + 1 \in 1 .. n + 1 /\ n \in 1 .. n + 1 /\ \A i \in 1 .. n : i \in 1 .. n + 1
  BY <1>2
<1>5. PICK c : c = ClassAgain(x)
  OBVIOUS
<1>6. /\ c \in 1 .. 53
      /\ c = 2 <=> x \in {Space, TAB}
      /\ c = 3 <=> x = LF
      /\ c = 5 <=> x = Quote
      /\ c = 11 <=> x \in Digits
      /\ c = 14 <=> x = 61
      /\ c = 15 <=> x = 62
  BY <1>2, <1>5, CharClasses
<1>7. t = NextState(s, c)
  BY <1>1, <1>5
<1>19. /\ \A r \in {4, 6, 9, 10, 13, 15, 39, 41, 43, 44, 45} : NextState(r, c) = 112
       /\ \A r \in {5, 38} : NextState(r, c) = IF c = 2 THEN 38 ELSE 112
       /\ NextState(7, c) = IF c = 3 THEN 39 ELSE 112
       /\ \A r \in {8, 40} : NextState(r, c) = IF c = 5 THEN 41 ELSE 40
       /\ \A r \in {11, 12, 42} : NextState(r, c) = IF c = 11 THEN 42 ELSE 112
       /\ NextState(14, c) = IF c = 14 THEN 43 ELSE IF c = 15 THEN 44 ELSE 112
       /\ NextState(16, c) = IF c = 14 THEN 45 ELSE 112
  <2>1. c \in 1 .. 53
    BY <1>6
  <2> QED BY <2>1, OtherNexts, ZenonT(60)
<1>8. ~Alive(u, n + 1) \/
        \/ u[1] \in Letters /\ (NameIn(u, n + 1) \/ \E k \in 1 .. 22 : Begins(u, n + 1, k))
        \/ u[1] \in {Space, TAB} /\ BlankIn(u, n + 1)
        \/ u[1] \in Digits \cup {Minus} /\ IntegerIn(u, n + 1)
        \/ u[1] = Quote /\ (OpenIn(u, n + 1) \/ StringIn(u, n + 1))
        \/ u[1] = 60 /\ n = 1 /\ x \in {61, 62}
        \/ u[1] = 62 /\ n = 1 /\ x = 61
        \/ u[1] = CR /\ n = 1 /\ x = LF
  <2>1. n + 1 = 2 => n = 1 /\ u[2] = x
    BY <1>1, <1>2
  <2> QED BY <1>2, <2>1, AliveTells
<1>9. ASSUME t = 112, ~Alive(u, n + 1) PROVE IF t = JamState THEN ~Alive(u, n + 1)
               ELSE t # EobState /\ Means(t, u, n + 1)
  BY <1>9 DEF JamState
<1>10. CASE s \in {4, 6, 9, 10, 13, 15}
  <2>1. u[1] \in Plain \cup {LF, 42, 44, 59, 61}
    BY <1>2, <1>10, MeansIs, SMTT(40) DEF One
  <2>2. ~Alive(u, n + 1)
    BY <1>8, <2>1, Apart
  <2>3. t = 112
    BY <1>7, <1>10, <1>19, ZenonT(60)
  <2> QED BY <1>9, <2>2, <2>3
<1>11. CASE s \in {39, 43, 44, 45}
  <2>1. n = 2 /\ u[1] \in {CR, 60, 62}
    <3>1. /\ Means(39, u, n) => Two(u, n, CR, LF)
          /\ Means(43, u, n) => Two(u, n, 60, 61)
          /\ Means(44, u, n) => Two(u, n, 60, 62)
          /\ Means(45, u, n) => Two(u, n, 62, 61)
      BY <1>2, MeansIs
    <3> QED BY <1>11, <3>1 DEF Two
  <2>2. ~Alive(u, n + 1)
    BY <1>8, <2>1, Apart
  <2>3. t = 112
    BY <1>7, <1>11, <1>19, SMTT(40)
  <2> QED BY <1>9, <2>2, <2>3
<1>12. CASE s = 41
  <2>1. n >= 2 /\ u[n] = Quote /\ u[1] = Quote
    <3>1. StringIn(u, n)
      BY <1>2, <1>12, MeansIs
    <3> QED BY <3>1 DEF StringIn, OpenIn
  <2>2. ~OpenIn(u, n + 1)
    <3>1. n \in 2 .. n + 1
      BY <1>2, <2>1
    <3> QED BY <2>1, <3>1 DEF OpenIn
  <2>3. ~StringIn(u, n + 1)
    <3>1. n \in 2 .. (n + 1) - 1
      BY <1>2, <2>1
    <3> QED BY <2>1, <3>1 DEF StringIn, OpenIn
  <2>4. ~Alive(u, n + 1)
    BY <1>8, <2>1, <2>2, <2>3, Apart
  <2>5. t = 112
    BY <1>7, <1>12, <1>19
  <2> QED BY <1>9, <2>4, <2>5
<1>13. CASE s \in {5, 38}
  <2>1. BlankIn(u, n)
    BY <1>2, <1>13, MeansIs, ZenonT(60)
  <2>2. t = IF c = 2 THEN 38 ELSE 112
    BY <1>7, <1>13, <1>19, ZenonT(60)
  <2>3. CASE c = 2
    <3>1. BlankIn(u, n + 1)
      BY <1>1, <1>3, <1>6, <2>1, <2>3 DEF BlankIn
    <3> QED BY <1>2, <2>2, <2>3, <3>1, MeansIs DEF EobState, JamState
  <2>4. CASE c # 2
    <3>1. u[1] \in {Space, TAB}
      BY <1>2, <2>1 DEF BlankIn
    <3>2. ~BlankIn(u, n + 1)
      BY <1>1, <1>4, <1>6, <2>4 DEF BlankIn
    <3>3. ~Alive(u, n + 1)
      BY <1>8, <3>1, <3>2, Apart
    <3> QED BY <1>9, <2>2, <2>4, <3>3
  <2> QED BY <2>3, <2>4
<1>14. CASE s = 7
  <2>1. One(u, n, CR)
    BY <1>2, <1>14, MeansIs
  <2>2. t = IF c = 3 THEN 39 ELSE 112
    BY <1>7, <1>14, <1>19
  <2>3. CASE c = 3
    <3>1. Two(u, n + 1, CR, LF)
      BY <1>1, <1>6, <2>1, <2>3 DEF One, Two
    <3> QED BY <1>2, <2>2, <2>3, <3>1, MeansIs DEF EobState, JamState
  <2>4. CASE c # 3
    <3>1. ~Alive(u, n + 1)
      BY <1>6, <1>8, <2>1, <2>4, Apart DEF One
    <3> QED BY <1>9, <2>2, <2>4, <3>1
  <2> QED BY <2>3, <2>4
<1>15. CASE s \in {8, 40}
  <2>1. OpenIn(u, n)
    <3>1. /\ Means(8, u, n) => One(u, n, Quote)
          /\ Means(40, u, n) => OpenIn(u, n)
      BY <1>2, MeansIs
    <3>2. One(u, n, Quote) => OpenIn(u, n)
      BY DEF One, OpenIn
    <3> QED BY <1>15, <3>1, <3>2
  <2>2. t = IF c = 5 THEN 41 ELSE 40
    BY <1>7, <1>15, <1>19
  <2>3. CASE c = 5
    <3>1. StringIn(u, n + 1)
      <4>1. (n + 1) - 1 = n
        BY <1>2
      <4> QED BY <1>1, <1>2, <1>6, <2>1, <2>3, <4>1 DEF StringIn
    <3> QED BY <1>2, <2>2, <2>3, <3>1, MeansIs DEF EobState, JamState
  <2>4. CASE c # 5
    <3>1. \A i \in 2 .. n + 1 : i \in 2 .. n \/ i = n + 1
      BY <1>2
    <3>2. OpenIn(u, n + 1)
      BY <1>1, <1>6, <2>1, <2>4, <3>1 DEF OpenIn
    <3> QED BY <1>2, <2>2, <2>4, <3>2, MeansIs DEF EobState, JamState
  <2> QED BY <2>3, <2>4
<1>16. CASE s \in {11, 12, 42}
  <2>1. u[1] \in Digits \cup {Minus} /\ \A i \in 2 .. n : u[i] \in Digits
    <3>1. One(u, n, Minus) \/ IntegerIn(u, n)
      <4>1. /\ Means(11, u, n) => One(u, n, Minus)
            /\ \A r \in {12, 42} : Means(r, u, n) => IntegerIn(u, n)
        BY <1>2, MeansIs, SMTT(40)
      <4> QED BY <1>16, <4>1
    <3>2. One(u, n, Minus) => \A i \in 2 .. n : FALSE
      BY DEF One
    <3> QED BY <3>1, <3>2 DEF One, IntegerIn
  <2>2. t = IF c = 11 THEN 42 ELSE 112
    BY <1>7, <1>16, <1>19, ZenonT(60)
  <2>3. CASE c = 11
    <3>1. \A i \in 2 .. n + 1 : i \in 2 .. n \/ i = n + 1
      BY <1>2
    <3>2. IntegerIn(u, n + 1)
      BY <1>1, <1>2, <1>6, <2>1, <2>3, <3>1 DEF IntegerIn
    <3> QED BY <1>2, <2>2, <2>3, <3>2, MeansIs DEF EobState, JamState
  <2>4. CASE c # 11
    <3>1. n + 1 \in 2 .. n + 1
      BY <1>2
    <3>2. ~IntegerIn(u, n + 1)
      BY <1>1, <1>6, <2>4, <3>1 DEF IntegerIn
    <3>3. ~Alive(u, n + 1)
      BY <1>8, <2>1, <3>2, Apart
    <3> QED BY <1>9, <2>2, <2>4, <3>3
  <2> QED BY <2>3, <2>4
<1>17. CASE s = 14
  <2>1. One(u, n, 60)
    BY <1>2, <1>17, MeansIs
  <2>2. t = IF c = 14 THEN 43 ELSE IF c = 15 THEN 44 ELSE 112
    BY <1>7, <1>17, <1>19
  <2>3. CASE c = 14
    <3>1. Two(u, n + 1, 60, 61)
      BY <1>1, <1>6, <2>1, <2>3 DEF One, Two
    <3> QED BY <1>2, <2>2, <2>3, <3>1, MeansIs DEF EobState, JamState
  <2>4. CASE c = 15
    <3>1. Two(u, n + 1, 60, 62)
      BY <1>1, <1>6, <2>1, <2>4 DEF One, Two
    <3> QED BY <1>2, <2>2, <2>4, <3>1, MeansIs DEF EobState, JamState
  <2>5. CASE c \notin {14, 15}
    <3>1. ~Alive(u, n + 1)
      BY <1>6, <1>8, <2>1, <2>5, Apart DEF One
    <3> QED BY <1>9, <2>2, <2>5, <3>1
  <2> QED BY <2>3, <2>4, <2>5
<1>18. CASE s = 16
  <2>1. One(u, n, 62)
    BY <1>2, <1>18, MeansIs
  <2>2. t = IF c = 14 THEN 45 ELSE 112
    BY <1>7, <1>18, <1>19
  <2>3. CASE c = 14
    <3>1. Two(u, n + 1, 62, 61)
      BY <1>1, <1>6, <2>1, <2>3 DEF One, Two
    <3> QED BY <1>2, <2>2, <2>3, <3>1, MeansIs DEF EobState, JamState
  <2>4. CASE c # 14
    <3>1. ~Alive(u, n + 1)
      BY <1>6, <1>8, <2>1, <2>4, Apart DEF One
    <3> QED BY <1>9, <2>2, <2>4, <3>1
  <2> QED BY <2>3, <2>4
<1> QED BY <1>10, <1>11, <1>12, <1>13, <1>14, <1>15, <1>16, <1>17, <1>18

(* A step takes the meaning of the state on; the automaton stops only when *)
(* nothing matches any more.                                               *)
LEMMA StateStep ==
  ASSUME NEW u \in Seq(Char), NEW n \in 0 .. Len(u) - 1, NEW s \in States \ {EobState, JamState},
         Means(s, u, n), NEW t, t = NextState(s, ClassAgain(u[n + 1]))
  PROVE  IF t = JamState THEN n > 0 /\ ~Alive(u, n + 1) ELSE t # EobState /\ Means(t, u, n + 1)
<1>1. CASE n = 0
  <2>1. s = 1
    BY <1>1 DEF Means
  <2>2. Len(u) >= 1 /\ n + 1 = 1
    BY <1>1
  <2>3. t = NextState(1, ClassAgain(u[1]))
    BY <2>1, <2>2
  <2>4. t \notin {EobState, JamState} /\ Means(t, u, 1)
    BY <2>2, <2>3, FirstStep
  <2> QED BY <2>2, <2>4
<1>2. CASE n # 0
  <2>1. n \in 1 .. Len(u) - 1 /\ n \in Nat \ {0} /\ n > 0
    BY <1>2
  <2>2. s # 1
    BY <2>1 DEF Means
  <2>3. CASE s \in WordStates \cup {2}
    <3>1. Spelled(s, u, n)
      BY <2>1, <2>3, WordMeans
    <3> QED BY <2>1, <2>3, <3>1, WordStep
  <2>4. CASE s \in {18, 46}
    BY <2>1, <2>4, NameStep
  <2>5. CASE s \in {4, 5, 6, 7, 8, 9, 10, 11, 12, 13, 14, 15, 16} \cup 38 .. 45
    BY <2>1, <2>5, OtherStep
  <2> QED BY <2>2, <2>3, <2>4, <2>5, OneOfTheStates
<1> QED BY <1>1, <1>2

-----------------------------------------------------------------------------
(* What the automaton accepts, and when it stops *)

LEMMA RuleFirst ==
  ASSUME NEW u, NEW n \in Nat \ {0}, NEW q \in Rules, RuleIn(q, u, n)
  PROVE  \/ /\ q \in 1 .. 11 /\ u[1] \in Letters
            /\ \E k \in 1 .. 22 : k \in {q, q + 11} /\ n = Length[k] /\ Begins(u, n, k)
         \/ q = 12 /\ n = 1 /\ u[1] = 61
         \/ q = 13 /\ n = 2 /\ u[1] = 60 /\ u[2] = 62
         \/ q = 14 /\ n = 1 /\ u[1] = 62
         \/ q = 15 /\ n = 1 /\ u[1] = 60
         \/ q = 16 /\ n = 2 /\ u[1] = 62 /\ u[2] = 61
         \/ q = 17 /\ n = 2 /\ u[1] = 60 /\ u[2] = 61
         \/ q = 18 /\ u[1] \in Digits \cup {Minus} /\ IntegerIn(u, n)
         \/ q = 19 /\ u[1] = Quote /\ StringIn(u, n) /\ n >= 2
         \/ q = 20 /\ u[1] \in Letters /\ NameIn(u, n)
         \/ q = 21 /\ n = 1 /\ u[1] = 44
         \/ q = 22 /\ n = 1 /\ u[1] = 42
         \/ q = 23 /\ ((n = 1 /\ u[1] = LF) \/ (n = 2 /\ u[1] = CR /\ u[2] = LF))
         \/ q = 24 /\ n = 1 /\ u[1] = 59
         \/ q = 25 /\ u[1] \in {Space, TAB} /\ BlankIn(u, n)
         \/ q = 26 /\ n = 1
<1>1. CASE q \in 1 .. 11
  <2>1. PICK k \in {q, q + 11} : n = Length[k] /\ Begins(u, n, k)
    BY <1>1, RuleIs
  <2>2. k \in 1 .. 22
    BY <1>1
  <2>3. u[1] \in Letters
    BY <2>1, <2>2, FirstTells
  <2> QED BY <1>1, <2>1, <2>2, <2>3
<1>2. CASE q \in 12 .. 17
  BY <1>2, RuleIs DEF One, Two
<1>3. CASE q \in 18 .. 20
  <2>1. /\ q = 18 => IntegerIn(u, n)
        /\ q = 19 => StringIn(u, n)
        /\ q = 20 => NameIn(u, n)
    BY RuleIs
  <2> QED BY <1>3, <2>1, FirstTells
<1>4. CASE q \in 21 .. 24
  BY <1>4, RuleIs DEF One, Two
<1>5. CASE q = 25
  <2>1. BlankIn(u, n)
    BY <1>5, RuleIs
  <2> QED BY <1>5, <2>1, FirstTells
<1>6. CASE q = 26
  BY <1>6, RuleIs
<1> QED BY <1>1, <1>2, <1>3, <1>4, <1>5, <1>6 DEF Rules

(* Rule r, or none, is the first that matches. *)
FirstRule(r, u, n) ==
  /\ r = 0 => \A q \in Rules : ~RuleIn(q, u, n)
  /\ r # 0 => r \in Rules /\ RuleIn(r, u, n) /\ \A q \in Rules : q < r => ~RuleIn(q, u, n)

LEMMA WordAccepts ==
  ASSUME NEW u, NEW n \in Nat \ {0}, NEW s, Spelled(s, u, n)
  PROVE  FirstRule(yy_accept[s], u, n) /\ (Jams(s) <=> ~GrowsIn(u, n))
<1>1. PICK k \in 1 .. 22 : Begins(u, n, k) /\ Chain[k][n] = s
  BY DEF Spelled
<1>2. Length[k] \in 2 .. 8 /\ (Length[k] > 6 <=> k \in {9, 20}) /\ (k \in {9, 20} => Length[k] = 8)
  BY Lengths
<1>3. n \in 1 .. Length[k] /\ \A i \in 1 .. n : u[i] = Spell(k)[i]
  BY <1>1, <1>2 DEF Begins
<1>4. /\ yy_accept[s] = IF n = Length[k] THEN IF k > 11 THEN k - 11 ELSE k
                        ELSE IF n > 5 THEN 0 ELSE 20
      /\ Jams(s) <=> n = 8
  <2>1. IsAccepted(k)
    BY WordRows
  <2> QED BY <1>1, <1>3, <2>1 DEF IsAccepted
<1>5. u[1] \in Letters /\ u[1] \notin {Space, TAB, Minus, Quote, 60, 62, CR, LF}
        /\ u[1] \notin Digits
  <2>1. u[1] \in Letters
    BY <1>1, FirstTells
  <2> QED BY <2>1, LettersApart
<1>6. ASSUME NEW j \in 1 .. 22, Begins(u, n, j), n = Length[j]
      PROVE  j = k
  <2>1. Length[j] \in 2 .. 8
    BY Lengths
  <2> QED BY <1>1, <1>6, <2>1, OneWord
<1>7. \A i \in 1 .. n : i <= 5 \/ k \notin {9, 20} => u[i] \in Letters
  <2>1. \A i \in 1 .. Length[k] : i <= 5 \/ k \notin {9, 20} => Spell(k)[i] \in Letters
    BY WordIs
  <2> QED BY <1>2, <1>3, <2>1
<1>8. n > 5 /\ k \in {9, 20} => ~NameIn(u, n)
  <2> SUFFICES ASSUME n > 5, k \in {9, 20} PROVE ~NameIn(u, n)
    OBVIOUS
  <2>1. 6 \in 1 .. n /\ Spell(k)[6] = 40
    BY WordIs
  <2>2. u[6] = 40
    BY <1>3, <2>1
  <2>3. 40 \notin NameChars
    BY DEF NameChars, Letters, Digits, Minus
  <2> QED BY <2>1, <2>2, <2>3 DEF NameIn
<1>9. ~(n > 5 /\ k \in {9, 20}) => NameIn(u, n)
  <2> SUFFICES ASSUME ~(n > 5 /\ k \in {9, 20}) PROVE NameIn(u, n)
    OBVIOUS
  <2>1. \A i \in 1 .. n : u[i] \in Letters
    BY <1>7
  <2> QED BY <1>5, <2>1 DEF NameIn, NameChars
<1>10. \A q \in Rules : RuleIn(q, u, n) =>
         \/ q \in 1 .. 11 /\ k \in {q, q + 11} /\ n = Length[k]
         \/ q = 20 /\ ~(n > 5 /\ k \in {9, 20})
         \/ q = 26 /\ n = 1
         \/ q \in {12, 21, 22, 24} /\ u[1] \in {61, 44, 42, 59}
  <2> SUFFICES ASSUME NEW q \in Rules, RuleIn(q, u, n)
               PROVE  \/ q \in 1 .. 11 /\ k \in {q, q + 11} /\ n = Length[k]
                      \/ q = 20 /\ ~(n > 5 /\ k \in {9, 20})
                      \/ q = 26 /\ n = 1
                      \/ q \in {12, 21, 22, 24} /\ u[1] \in {61, 44, 42, 59}
    OBVIOUS
  <2> QED BY <1>5, <1>6, <1>8, RuleFirst
<1>11. FirstRule(yy_accept[s], u, n)
  <2>1. u[1] \notin {61, 44, 42, 59}
    BY <1>5 DEF Letters
  <2>2. CASE n = Length[k]
    <3>1. PICK r : r = yy_accept[s]
      OBVIOUS
    <3>2. r \in 1 .. 11 /\ k \in {r, r + 11}
      BY <1>4, <2>2, <3>1
    <3>3. RuleIn(r, u, n)
      BY <1>1, <2>2, <3>2, RuleIs
    <3>4. \A q \in Rules : q < r => ~RuleIn(q, u, n)
      BY <1>10, <2>1, <3>2 DEF Rules
    <3> QED BY <3>1, <3>2, <3>3, <3>4 DEF FirstRule, Rules
  <2>3. CASE n # Length[k] /\ n > 5
    <3>1. k \in {9, 20} /\ n # 1
      BY <1>2, <1>3, <2>3
    <3>2. yy_accept[s] = 0
      BY <1>4, <2>3
    <3>3. \A q \in Rules : ~RuleIn(q, u, n)
      BY <1>10, <2>1, <2>3, <3>1
    <3> QED BY <3>2, <3>3 DEF FirstRule
  <2>4. CASE n # Length[k] /\ ~(n > 5)
    <3>1. yy_accept[s] = 20
      BY <1>4, <2>4
    <3>2. RuleIn(20, u, n)
      BY <1>9, <2>4, RuleIs
    <3>3. \A q \in Rules : q < 20 => ~RuleIn(q, u, n)
      BY <1>10, <2>1, <2>4 DEF Rules
    <3> QED BY <3>1, <3>2, <3>3 DEF FirstRule, Rules
  <2> QED BY <2>2, <2>3, <2>4
<1>12. CASE n = 8
  <2>1. k \in {9, 20} /\ n > 5 /\ n # 1
    BY <1>2, <1>3, <1>12
  <2>2. \A j \in 1 .. 22 : ~(n < Length[j])
    BY <1>12, Lengths
  <2>3. ~IntegerIn(u, n) /\ ~OpenIn(u, n) /\ ~BlankIn(u, n)
    BY <1>5, FirstTells
  <2>4. ~GrowsIn(u, n)
    BY <1>8, <2>1, <2>2, <2>3 DEF GrowsIn
  <2> QED BY <1>4, <1>11, <1>12, <2>4
<1>13. CASE n # 8
  <2>1. n < Length[k] \/ NameIn(u, n)
    BY <1>2, <1>3, <1>9, <1>13
  <2>2. GrowsIn(u, n)
    BY <1>1, <2>1 DEF GrowsIn
  <2> QED BY <1>4, <1>11, <1>13, <2>2
<1> QED BY <1>12, <1>13

(* What the rule says of the first characters *)
LEMMA RuleByFirst ==
  ASSUME NEW u, NEW n \in Nat \ {0}, NEW q \in Rules, RuleIn(q, u, n)
  PROVE  /\ q \in 1 .. 11 \cup {20} => u[1] \in Letters
         /\ q \in {12, 14, 15, 21, 22, 24, 26} => n = 1
         /\ q = 12 => u[1] = 61
         /\ q \in {14, 16} => u[1] = 62
         /\ q \in {13, 15, 17} => u[1] = 60
         /\ q \in {13, 16, 17} => n = 2
         /\ q = 13 => u[2] = 62
         /\ q \in {16, 17} => u[2] = 61
         /\ q = 18 => u[1] \in Digits \cup {Minus}
         /\ q = 19 => u[1] = Quote
         /\ q \in 1 .. 26
<1>1. q \in 1 .. 26
  BY DEF Rules
<1>2. CASE q \in 1 .. 11
  <2>1. PICK k \in {q, q + 11} : n = Length[k] /\ Begins(u, n, k)
    BY <1>2, RuleIs
  <2>2. k \in 1 .. 22
    BY <1>2
  <2>3. u[1] \in Letters
    BY <2>1, <2>2, FirstTells
  <2> QED BY <1>2, <2>3
<1>3. CASE q \in 12 .. 17
  <2>1. /\ q = 12 => n = 1 /\ u[1] = 61
        /\ q = 13 => n = 2 /\ u[1] = 60 /\ u[2] = 62
        /\ q = 14 => n = 1 /\ u[1] = 62
        /\ q = 15 => n = 1 /\ u[1] = 60
        /\ q = 16 => n = 2 /\ u[1] = 62 /\ u[2] = 61
        /\ q = 17 => n = 2 /\ u[1] = 60 /\ u[2] = 61
    BY RuleIs DEF One, Two
  <2> QED BY <1>3, <2>1
<1>4. CASE q \in 18 .. 20
  <2>1. /\ q = 18 => IntegerIn(u, n)
        /\ q = 19 => StringIn(u, n)
        /\ q = 20 => NameIn(u, n)
    BY RuleIs
  <2>2. /\ q = 18 => u[1] \in Digits \cup {Minus}
        /\ q = 19 => u[1] = Quote
        /\ q = 20 => u[1] \in Letters
    BY <2>1, FirstTells
  <2> QED BY <1>4, <2>2
<1>5. CASE q \in 21 .. 26
  <2>1. q \in {21, 22, 24, 26} => n = 1
    BY RuleIs DEF One
  <2> QED BY <1>5, <2>1
<1> QED BY <1>1, <1>2, <1>3, <1>4, <1>5

LEMMA NameAccepts ==
  ASSUME NEW u, NEW n \in Nat \ {0}, NEW s \in {18, 46}, Means(s, u, n)
  PROVE  FirstRule(yy_accept[s], u, n) /\ (Jams(s) <=> ~GrowsIn(u, n))
<1>1. NameIn(u, n) /\ \A k \in 1 .. 22 : ~Begins(u, n, k)
  BY NameMeans
<1>2. yy_accept[s] = 20 /\ ~Jams(s)
  BY OtherRows
<1>3. u[1] \in Letters
  BY <1>1 DEF NameIn
<1>4. u[1] \notin {Space, TAB, Minus, Quote, 60, 62, CR, LF} /\ u[1] \notin Digits /\ u[1] # 61
  BY <1>3, LettersApart DEF Letters
<1>5. ASSUME NEW q \in Rules, q < 20, RuleIn(q, u, n) PROVE FALSE
  BY <1>1, <1>4, <1>5, RuleFirst
<1>6. RuleIn(20, u, n)
  BY <1>1, RuleIs
<1>7. FirstRule(20, u, n)
  BY <1>5, <1>6 DEF FirstRule, Rules
<1>8. GrowsIn(u, n)
  BY <1>1 DEF GrowsIn
<1> QED BY <1>2, <1>7, <1>8

(* A state that no word leads through *)
LEMMA SignMeans ==
  ASSUME NEW u, NEW n \in Nat \ {0},
           NEW s \in {4, 6, 7, 8, 9, 10, 11, 13, 14, 15, 16}, Means(s, u, n)
  PROVE  /\ n = 1
         /\ s = 4 => u[1] \in Plain
         /\ s = 6 => u[1] = LF
         /\ s = 7 => u[1] = CR
         /\ s = 8 => u[1] = Quote
         /\ s = 9 => u[1] = 42
         /\ s = 10 => u[1] = 44
         /\ s = 11 => u[1] = Minus
         /\ s = 13 => u[1] = 59
         /\ s = 14 => u[1] = 60
         /\ s = 15 => u[1] = 61
         /\ s = 16 => u[1] = 62
<1>1. /\ Means(4, u, n) => n = 1 /\ u[1] \in Plain
      /\ Means(6, u, n) => One(u, n, LF)
      /\ Means(7, u, n) => One(u, n, CR)
      /\ Means(8, u, n) => One(u, n, Quote)
      /\ Means(9, u, n) => One(u, n, 42)
      /\ Means(10, u, n) => One(u, n, 44)
      /\ Means(11, u, n) => One(u, n, Minus)
      /\ Means(13, u, n) => One(u, n, 59)
      /\ Means(14, u, n) => One(u, n, 60)
      /\ Means(15, u, n) => One(u, n, 61)
      /\ Means(16, u, n) => One(u, n, 62)
  BY MeansIs
<1> QED BY <1>1 DEF One

LEMMA SignAccepts ==
  ASSUME NEW u, NEW n \in Nat \ {0},
           NEW s \in {4, 6, 7, 8, 9, 10, 11, 13, 14, 15, 16}, Means(s, u, n)
  PROVE  FirstRule(yy_accept[s], u, n) /\ (Jams(s) <=> ~GrowsIn(u, n))
<1>1. PICK r : r = yy_accept[s]
  OBVIOUS
<1>2. /\ n = 1
      /\ s \in {4, 7, 8, 11} => r = 26
      /\ s = 6 => r = 23 /\ u[1] = LF
      /\ s = 9 => r = 22 /\ u[1] = 42
      /\ s = 10 => r = 21 /\ u[1] = 44
      /\ s = 13 => r = 24 /\ u[1] = 59
      /\ s = 14 => r = 15 /\ u[1] = 60
      /\ s = 15 => r = 12 /\ u[1] = 61
      /\ s = 16 => r = 14 /\ u[1] = 62
  BY <1>1, SignMeans, OtherRows
<1>3. s \in {4, 7, 8, 11} => u[1] \in Plain \cup {CR, Quote, Minus}
  BY SignMeans
<1>4. r \in Rules
  BY <1>2 DEF Rules
<1>5. RuleIn(r, u, n)
  <2>1. /\ RuleIn(12, u, n) <=> One(u, n, 61)
        /\ RuleIn(14, u, n) <=> One(u, n, 62)
        /\ RuleIn(15, u, n) <=> One(u, n, 60)
        /\ RuleIn(21, u, n) <=> One(u, n, 44)
        /\ RuleIn(22, u, n) <=> One(u, n, 42)
        /\ RuleIn(23, u, n) <=> One(u, n, LF) \/ Two(u, n, CR, LF)
        /\ RuleIn(24, u, n) <=> One(u, n, 59)
        /\ RuleIn(26, u, n) <=> n = 1
    BY RuleIs
  <2> QED BY <1>2, <2>1 DEF One
<1>6. ASSUME NEW q \in Rules, q < r, RuleIn(q, u, n) PROVE FALSE
  <2>1. /\ u[1] \notin Letters
        /\ u[1] \in Digits \cup {Minus} => u[1] = Minus
        /\ u[1] = Minus => s = 11
        /\ u[1] \notin {Space, TAB}
    BY <1>2, <1>3, SignMeans, Apart
  <2>2. u[1] = Minus => ~IntegerIn(u, n)
    BY <1>2 DEF IntegerIn, Minus, Digits
  <2>3. \/ q = 12 /\ u[1] = 61
        \/ q = 14 /\ u[1] = 62
        \/ q = 15 /\ u[1] = 60
        \/ q = 21 /\ u[1] = 44
        \/ q = 22 /\ u[1] = 42
        \/ q = 23 /\ u[1] = LF
        \/ q = 24 /\ u[1] = 59
        \/ q = 26
    BY <1>2, <1>6, <2>1, <2>2, RuleFirst
  <2> QED BY <1>2, <1>3, <1>6, <2>3, Apart
<1>7. FirstRule(r, u, n)
  BY <1>2, <1>4, <1>5, <1>6 DEF FirstRule
<1>8. CASE s \in {4, 6, 9, 10, 13, 15}
  <2>1. u[1] \in Plain \cup {LF, 42, 44, 59, 61}
    BY <1>8, SignMeans
  <2>2. u[1] \notin Letters /\ u[1] \notin Digits
          /\ u[1] \notin {Space, TAB, Minus, Quote, 60, 62, CR}
    BY <2>1, Apart
  <2>3. ~GrowsIn(u, n)
    BY <2>2, FirstTells DEF GrowsIn
  <2> QED BY <1>1, <1>7, <1>8, <2>3, OtherRows
<1>9. CASE s \in {7, 8, 11, 14, 16}
  <2>1. u[1] \in {CR, Quote, Minus, 60, 62}
    BY <1>9, SignMeans
  <2>2. u[1] = Quote => OpenIn(u, n)
    BY <1>2 DEF OpenIn
  <2>3. GrowsIn(u, n)
    BY <1>2, <2>1, <2>2 DEF GrowsIn
  <2> QED BY <1>1, <1>7, <1>9, <2>3, OtherRows
<1> QED BY <1>8, <1>9

LEMMA LongAccepts ==
  ASSUME NEW u, NEW n \in Nat \ {0},
           NEW s \in {5, 12, 38, 39, 40, 41, 42, 43, 44, 45}, Means(s, u, n)
  PROVE  FirstRule(yy_accept[s], u, n) /\ (Jams(s) <=> ~GrowsIn(u, n))
<1>1. CASE s \in {5, 38}
  <2>1. BlankIn(u, n)
    BY <1>1, MeansIs
  <2>2. u[1] \in {Space, TAB}
    BY <2>1, FirstTells
  <2>3. RuleIn(25, u, n) /\ GrowsIn(u, n)
    BY <2>1, RuleIs DEF GrowsIn
  <2>4. ASSUME NEW q \in Rules, q < 25, RuleIn(q, u, n) PROVE FALSE
    BY <2>2, <2>4, RuleFirst, Apart
  <2>5. yy_accept[s] = 25 /\ ~Jams(s)
    BY <1>1, OtherRows
  <2> QED BY <2>3, <2>4, <2>5 DEF FirstRule, Rules
<1>2. CASE s \in {12, 42}
  <2>1. IntegerIn(u, n)
    BY <1>2, MeansIs
  <2>2. u[1] \in Digits \cup {Minus}
    BY <2>1, FirstTells
  <2>3. RuleIn(18, u, n) /\ GrowsIn(u, n)
    BY <2>1, RuleIs DEF GrowsIn
  <2>4. ASSUME NEW q \in Rules, q < 18, RuleIn(q, u, n) PROVE FALSE
    <3>1. u[1] \notin Letters /\ u[1] \notin {60, 61, 62}
      BY <2>2, Apart
    <3> QED BY <2>2, <2>4, <3>1, RuleByFirst
  <2>5. yy_accept[s] = 18 /\ ~Jams(s)
    BY <1>2, OtherRows
  <2> QED BY <2>3, <2>4, <2>5 DEF FirstRule, Rules
<1>3. CASE s = 40
  <2>1. n >= 2 /\ OpenIn(u, n)
    BY <1>3, MeansIs
  <2>2. u[1] = Quote
    BY <2>1, FirstTells
  <2>3. ~StringIn(u, n)
    <3>1. n \in 2 .. n
      BY <2>1
    <3> QED BY <2>1, <3>1 DEF StringIn, OpenIn
  <2>4. ASSUME NEW q \in Rules, RuleIn(q, u, n) PROVE FALSE
    BY <2>1, <2>2, <2>3, <2>4, RuleFirst, Apart
  <2>5. GrowsIn(u, n)
    BY <2>1 DEF GrowsIn
  <2>6. yy_accept[s] = 0 /\ ~Jams(s)
    BY <1>3, OtherRows
  <2> QED BY <2>4, <2>5, <2>6 DEF FirstRule
<1>4. CASE s = 41
  <2>1. StringIn(u, n)
    BY <1>4, MeansIs
  <2>2. u[1] = Quote /\ n >= 2
    BY <2>1, FirstTells
  <2>3. RuleIn(19, u, n)
    BY <2>1, RuleIs
  <2>4. ASSUME NEW q \in Rules, q < 19, RuleIn(q, u, n) PROVE FALSE
    <3>1. u[1] \notin Letters /\ u[1] \notin {60, 61, 62} /\ u[1] \notin Digits \cup {Minus}
      BY <2>2, Apart
    <3> QED BY <2>2, <2>4, <3>1, RuleByFirst
  <2>5. yy_accept[s] = 19 /\ Jams(s)
    BY <1>4, OtherRows
  <2>6. ~OpenIn(u, n)
    <3>1. n \in 2 .. n
      BY <2>2
    <3> QED BY <2>1, <3>1 DEF StringIn, OpenIn
  <2>7. ~GrowsIn(u, n)
    BY <2>2, <2>6, FirstTells, Apart DEF GrowsIn
  <2> QED BY <2>3, <2>4, <2>5, <2>7 DEF FirstRule, Rules
<1>5. CASE s \in {39, 43, 44, 45}
  <2>1. PICK r : r = yy_accept[s]
    OBVIOUS
  <2>2. /\ n = 2
        /\ s = 39 => r = 23 /\ u[1] = CR /\ u[2] = LF
        /\ s = 43 => r = 17 /\ u[1] = 60 /\ u[2] = 61
        /\ s = 44 => r = 13 /\ u[1] = 60 /\ u[2] = 62
        /\ s = 45 => r = 16 /\ u[1] = 62 /\ u[2] = 61
    <3>1. /\ Means(39, u, n) => Two(u, n, CR, LF)
          /\ Means(43, u, n) => Two(u, n, 60, 61)
          /\ Means(44, u, n) => Two(u, n, 60, 62)
          /\ Means(45, u, n) => Two(u, n, 62, 61)
      BY MeansIs
    <3> QED BY <1>5, <2>1, <3>1, OtherRows DEF Two
  <2>3. r \in Rules /\ RuleIn(r, u, n)
    <3>1. /\ RuleIn(13, u, n) <=> Two(u, n, 60, 62)
          /\ RuleIn(16, u, n) <=> Two(u, n, 62, 61)
          /\ RuleIn(17, u, n) <=> Two(u, n, 60, 61)
          /\ RuleIn(23, u, n) <=> One(u, n, LF) \/ Two(u, n, CR, LF)
      BY RuleIs
    <3> QED BY <1>5, <2>2, <3>1 DEF Two, Rules
  <2>4. u[1] \in {CR, 60, 62} /\ u[1] \notin Letters /\ u[1] \notin Digits
          /\ u[1] \notin {Minus, Space, TAB, Quote}
    BY <1>5, <2>2, Apart
  <2>5. ASSUME NEW q \in Rules, q < r, RuleIn(q, u, n) PROVE FALSE
    <3>1. \/ q = 13 /\ u[1] = 60 /\ u[2] = 62
          \/ q = 16 /\ u[1] = 62 /\ u[2] = 61
          \/ q = 17 /\ u[1] = 60 /\ u[2] = 61
          \/ q = 23
      <4>1. u[1] \notin {61, 44, 42, 59} /\ u[1] \notin Digits \cup {Minus} /\ n # 1
        BY <2>2, <2>4, Apart
      <4>2. r \in {13, 16, 17, 23}
        BY <1>5, <2>2
      <4> QED BY <2>2, <2>4, <2>5, <4>1, <4>2, RuleByFirst
    <3> QED BY <1>5, <2>2, <2>5, <3>1, Apart
  <2>6. ~GrowsIn(u, n)
    BY <2>2, <2>4, FirstTells DEF GrowsIn
  <2>7. r # 0
    BY <1>5, <2>2
  <2>8. FirstRule(r, u, n)
    BY <2>3, <2>5, <2>7 DEF FirstRule
  <2> QED BY <1>5, <2>1, <2>6, <2>8, OtherRows
<1> QED BY <1>1, <1>2, <1>3, <1>4, <1>5

(* A state accepts the first rule that matches what has been read, and     *)
(* nothing leads out of it when that is not the beginning of more.         *)
LEMMA StateAccepts ==
  ASSUME NEW u, NEW n \in Nat \ {0}, NEW s \in States \ {EobState, JamState}, Means(s, u, n)
  PROVE  FirstRule(yy_accept[s], u, n) /\ (Jams(s) <=> ~GrowsIn(u, n))
<1>1. s # 1
  BY DEF Means
<1>2. CASE s \in WordStates \cup {2}
  <2>1. Spelled(s, u, n)
    BY <1>2, WordMeans
  <2> QED BY <2>1, WordAccepts
<1>3. CASE s \in {18, 46}
  BY <1>3, NameAccepts
<1>4. CASE s \in {4, 6, 7, 8, 9, 10, 11, 13, 14, 15, 16}
  BY <1>4, SignAccepts
<1>5. CASE s \in {5, 12, 38, 39, 40, 41, 42, 43, 44, 45}
  BY <1>5, LongAccepts
<1> QED BY <1>1, <1>2, <1>3, <1>4, <1>5, OneOfTheStates

-----------------------------------------------------------------------------
(* What has been read of a text is a text of its own, and the rules say    *)
(* the same of it.                                                         *)

LEMMA WordRuleIs ==
  /\ DOMAIN WordRule = 1 .. 17 \cup 21 .. 24
  /\ \A r \in 1 .. 11 : WordRule[r] = {Spell(r), Spell(r + 11)}
  /\ WordRule[12] = {<<61>>} /\ WordRule[13] = {<<60, 62>>} /\ WordRule[14] = {<<62>>}
  /\ WordRule[15] = {<<60>>} /\ WordRule[16] = {<<62, 61>>} /\ WordRule[17] = {<<60, 61>>}
  /\ WordRule[21] = {<<44>>} /\ WordRule[22] = {<<42>>}
  /\ WordRule[23] = {<<LF>>, <<CR, LF>>} /\ WordRule[24] = {<<59>>}
<1>1. DOMAIN WordRule = 1 .. 17 \cup 21 .. 24
  BY DEF WordRule
<1>2. \A r \in 1 .. 11 : WordRule[r] = {Keyword[r], InLower(Keyword[r])}
  BY DEF WordRule
<1>3. \A r \in 1 .. 11 : Spell(r) = Keyword[r] /\ Spell(r + 11) = InLower(Keyword[r])
  <2> TAKE r \in 1 .. 11
  <2>1. r <= 11 /\ ~(r + 11 <= 11) /\ (r + 11) - 11 = r
    OBVIOUS
  <2> QED BY <2>1 DEF Spell
<1>4. /\ WordRule[12] = {<<61>>} /\ WordRule[13] = {<<60, 62>>} /\ WordRule[14] = {<<62>>}
      /\ WordRule[15] = {<<60>>} /\ WordRule[16] = {<<62, 61>>} /\ WordRule[17] = {<<60, 61>>}
  BY DEF WordRule
<1>5. /\ WordRule[21] = {<<44>>} /\ WordRule[22] = {<<42>>}
      /\ WordRule[23] = {<<LF>>, <<CR, LF>>} /\ WordRule[24] = {<<59>>}
  BY DEF WordRule
<1> QED BY <1>1, <1>2, <1>3, <1>4, <1>5

(* s is what has been read: the first n characters of u. *)
IsRead(s, u, n) == s \in Seq(Char) /\ Len(s) = n /\ \A i \in 1 .. n : s[i] = u[i]

LEMMA SpellIs ==
  ASSUME NEW k \in 1 .. 22
  PROVE  Spell(k) \in Seq(Char) /\ Len(Spell(k)) = Length[k] /\ Length[k] \in 2 .. 8
<1>1. Length[k] \in 2 .. 8
  BY Lengths
<1>2. IsSpelled(k)
  BY WordRows
<1>3. Spell(k) = [i \in 1 .. Length[k] |-> Spell(k)[i]]
        /\ \A i \in 1 .. Length[k] : Spell(k)[i] \in Char
  BY <1>2 DEF IsSpelled
<1>4. Spell(k) \in [1 .. Length[k] -> Char]
  BY <1>3
<1>5. Length[k] \in Nat
  BY <1>1
<1>6. Spell(k) \in Seq(Char)
  BY <1>4, <1>5, SeqDef
<1>7. Len(Spell(k)) = Length[k]
  BY <1>2 DEF IsSpelled
<1> QED BY <1>1, <1>6, <1>7

LEMMA WordRead ==
  ASSUME NEW u, NEW n \in Nat \ {0}, NEW s, IsRead(s, u, n), NEW k \in 1 .. 22
  PROVE  s = Spell(k) <=> n = Length[k] /\ Begins(u, n, k)
<1>1. s \in Seq(Char) /\ Len(s) = n /\ \A i \in 1 .. n : s[i] = u[i]
  BY DEF IsRead
<1>2. Spell(k) \in Seq(Char) /\ Len(Spell(k)) = Length[k] /\ Length[k] \in 2 .. 8
  BY SpellIs
<1>3. ASSUME s = Spell(k) PROVE n = Length[k] /\ Begins(u, n, k)
  <2>1. n = Length[k] /\ \A i \in 1 .. n : u[i] = Spell(k)[i]
    BY <1>1, <1>2, <1>3
  <2> QED BY <2>1 DEF Begins
<1>4. ASSUME n = Length[k], Begins(u, n, k) PROVE s = Spell(k)
  <2>1. \A i \in 1 .. Len(s) : s[i] = Spell(k)[i]
    BY <1>1, <1>4 DEF Begins
  <2>2. Len(s) = Len(Spell(k))
    BY <1>1, <1>2, <1>4
  <2> QED BY <1>1, <1>2, <2>1, <2>2, SeqEqual
<1> QED BY <1>3, <1>4

LEMMA SignRead ==
  ASSUME NEW u, NEW n \in Nat \ {0}, NEW s, IsRead(s, u, n), NEW a \in Char, NEW b \in Char
  PROVE  (s = <<a>> <=> One(u, n, a)) /\ (s = <<a, b>> <=> Two(u, n, a, b))
<1>1. s \in Seq(Char) /\ Len(s) = n /\ \A i \in 1 .. n : s[i] = u[i]
  BY DEF IsRead
<1>2. <<a>> \in Seq(Char) /\ Len(<<a>>) = 1 /\ <<a>>[1] = a
  OBVIOUS
<1>3. <<a, b>> \in Seq(Char) /\ Len(<<a, b>>) = 2 /\ <<a, b>>[1] = a /\ <<a, b>>[2] = b
  OBVIOUS
<1>4. s = <<a>> => One(u, n, a)
  BY <1>1, <1>2 DEF One
<1>5. One(u, n, a) => s = <<a>>
  <2> SUFFICES ASSUME One(u, n, a) PROVE s = <<a>>
    OBVIOUS
  <2>1. n = 1 /\ u[1] = a
    BY DEF One
  <2>2. Len(s) = Len(<<a>>) /\ \A i \in 1 .. Len(s) : s[i] = <<a>>[i]
    BY <1>1, <1>2, <2>1
  <2>3. PICK w \in Seq(Char) : w = <<a>>
    BY <1>2
  <2>4. Len(s) = Len(w) /\ \A i \in 1 .. Len(s) : s[i] = w[i]
    BY <2>2, <2>3
  <2>5. s = w
    BY <1>1, <2>4, SeqEqual
  <2> QED BY <2>3, <2>5
<1>6. s = <<a, b>> => Two(u, n, a, b)
  BY <1>1, <1>3 DEF Two
<1>7. Two(u, n, a, b) => s = <<a, b>>
  <2> SUFFICES ASSUME Two(u, n, a, b) PROVE s = <<a, b>>
    OBVIOUS
  <2>1. n = 2 /\ u[1] = a /\ u[2] = b
    BY DEF Two
  <2>2. Len(s) = 2 /\ s[1] = a /\ s[2] = b
    BY <1>1, <2>1
  <2>3. Len(s) = Len(<<a, b>>) /\ \A i \in 1 .. 2 : s[i] = <<a, b>>[i]
    BY <1>3, <2>2
  <2>4. PICK w \in Seq(Char) : w = <<a, b>>
    BY <1>3
  <2>5. Len(s) = Len(w) /\ \A i \in 1 .. Len(s) : s[i] = w[i]
    BY <2>2, <2>3, <2>4
  <2>6. s = w
    BY <1>1, <2>5, SeqEqual
  <2> QED BY <2>4, <2>6
<1> QED BY <1>4, <1>5, <1>6, <1>7

LEMMA IntegerRead ==
  ASSUME NEW u, NEW n \in Nat \ {0}, NEW s, IsRead(s, u, n)
  PROVE  IsInteger(s) <=> IntegerIn(u, n)
<1>1. s \in Seq(Char) /\ Len(s) = n /\ DOMAIN s = 1 .. n /\ \A i \in 1 .. n : s[i] = u[i]
  BY DEF IsRead
<1>2. s[1] = u[1] /\ 1 \in 1 .. n
  BY <1>1
<1>3. Minus \notin Digits
  BY DEF Minus, Digits
<1>4. CASE u[1] = Minus
  <2>1. Unsigned(s) = Tail(s)
    BY <1>2, <1>4 DEF Unsigned
  <2>2. PICK w : w = Tail(s)
    OBVIOUS
  <2>3. s # <<>>
    BY <1>1
  <2>4. w \in Seq(Char) /\ Len(w) = n - 1 /\ \A i \in 1 .. n - 1 : w[i] = s[i + 1]
    BY <1>1, <2>2, <2>3
  <2>5. w # <<>> <=> n >= 2
    BY <2>4
  <2>6. DOMAIN w = 1 .. n - 1
    BY <2>4
  <2>7. ASSUME \A i \in DOMAIN w : w[i] \in Digits PROVE \A i \in 2 .. n : u[i] \in Digits
    <3> TAKE i \in 2 .. n
    <3>1. i - 1 \in 1 .. n - 1 /\ (i - 1) + 1 = i /\ i \in 1 .. n
      OBVIOUS
    <3>2. w[i - 1] = s[i] /\ w[i - 1] \in Digits
      BY <2>4, <2>6, <2>7, <3>1
    <3> QED BY <1>1, <3>1, <3>2
  <2>8. ASSUME \A i \in 2 .. n : u[i] \in Digits PROVE \A i \in DOMAIN w : w[i] \in Digits
    <3> TAKE i \in DOMAIN w
    <3>1. i \in 1 .. n - 1 /\ i + 1 \in 2 .. n /\ i + 1 \in 1 .. n
      BY <2>6
    <3>2. w[i] = u[i + 1]
      BY <1>1, <2>4, <3>1
    <3> QED BY <2>8, <3>1, <3>2
  <2>9. IsInteger(s) <=> n >= 2 /\ \A i \in 2 .. n : u[i] \in Digits
    BY <2>1, <2>2, <2>5, <2>7, <2>8 DEF IsInteger, Only
  <2>10. IntegerIn(u, n) <=> n >= 2 /\ \A i \in 2 .. n : u[i] \in Digits
    BY <1>4 DEF IntegerIn
  <2> QED BY <2>9, <2>10
<1>5. CASE u[1] # Minus
  <2>1. Unsigned(s) = s
    BY <1>2, <1>5 DEF Unsigned
  <2>2. s # <<>>
    BY <1>1
  <2>3. IsInteger(s) <=> \A i \in 1 .. n : u[i] \in Digits
    BY <1>1, <2>1, <2>2 DEF IsInteger, Only
  <2>4. IntegerIn(u, n) <=> u[1] \in Digits /\ \A i \in 2 .. n : u[i] \in Digits
    BY <1>5 DEF IntegerIn
  <2>5. \A i \in 1 .. n : i = 1 \/ i \in 2 .. n
    OBVIOUS
  <2>6. 1 \in 1 .. n /\ \A i \in 2 .. n : i \in 1 .. n
    OBVIOUS
  <2> QED BY <2>3, <2>4, <2>5, <2>6
<1> QED BY <1>4, <1>5

LEMMA OthersRead ==
  ASSUME NEW u, NEW n \in Nat \ {0}, NEW s, IsRead(s, u, n)
  PROVE  /\ IsOpenString(s) <=> OpenIn(u, n)
         /\ IsString(s) <=> StringIn(u, n)
         /\ IsName(s) <=> NameIn(u, n)
         /\ IsBlank(s) <=> BlankIn(u, n)
<1>1. s \in Seq(Char) /\ Len(s) = n /\ DOMAIN s = 1 .. n /\ \A i \in 1 .. n : s[i] = u[i]
  BY DEF IsRead
<1>2. s[1] = u[1] /\ s[n] = u[n]
  BY <1>1
<1>3. \A i \in 2 .. n : s[i] = u[i]
  BY <1>1
<1>4. IsOpenString(s) <=> OpenIn(u, n)
  BY <1>1, <1>2, <1>3 DEF IsOpenString, OpenIn
<1>5. IsName(s) <=> NameIn(u, n)
  BY <1>1, <1>2 DEF IsName, NameIn, NameChars, Only
<1>6. IsBlank(s) <=> BlankIn(u, n)
  BY <1>1 DEF IsBlank, BlankIn, Only
<1>7. IsString(s) <=> StringIn(u, n)
  <2>1. CASE n = 1
    BY <1>1, <2>1 DEF IsString, StringIn
  <2>2. CASE n # 1
    <3>1. PICK w : w = Front(s)
      OBVIOUS
    <3>2. w \in Seq(Char) /\ Len(w) = n - 1 /\ \A i \in 1 .. n - 1 : w[i] = s[i]
      BY <1>1, <2>2, <3>1 DEF Front
    <3>3. w[1] = u[1] /\ \A i \in 2 .. n - 1 : w[i] = u[i]
      BY <1>1, <2>2, <3>2
    <3>4. IsOpenString(w) <=> OpenIn(u, n - 1)
      BY <3>2, <3>3 DEF IsOpenString, OpenIn
    <3>5. Last(s) = u[n] /\ Len(s) > 1 /\ n >= 2
      BY <1>1, <1>2, <2>2 DEF Last
    <3> QED BY <3>1, <3>4, <3>5 DEF IsString, StringIn
  <2> QED BY <2>1, <2>2
<1> QED BY <1>4, <1>5, <1>6, <1>7

LEMMA MatchesRead ==
  ASSUME NEW u, NEW n \in Nat \ {0}, NEW s, IsRead(s, u, n), NEW r \in Rules
  PROVE  Matches(r, s) <=> RuleIn(r, u, n)
<1>1. /\ r \in 1 .. 17 \cup 21 .. 24 => (Matches(r, s) <=> s \in WordRule[r])
      /\ r = 18 => (Matches(r, s) <=> IsInteger(s))
      /\ r = 19 => (Matches(r, s) <=> IsString(s))
      /\ r = 20 => (Matches(r, s) <=> IsName(s))
      /\ r = 25 => (Matches(r, s) <=> IsBlank(s))
      /\ r = 26 => (Matches(r, s) <=> Len(s) = 1)
  <2>1. DOMAIN WordRule = 1 .. 17 \cup 21 .. 24
    BY WordRuleIs
  <2>2. PICK D : D = DOMAIN WordRule
    OBVIOUS
  <2>3. D = 1 .. 17 \cup 21 .. 24
    BY <2>1, <2>2
  <2>4. Matches(r, s) = CASE r \in D -> s \in WordRule[r]
                           [] r = 18 -> IsInteger(s)
                           [] r = 19 -> IsString(s)
                           [] r = 20 -> IsName(s)
                           [] r = 25 -> IsBlank(s)
                           [] r = 26 -> Len(s) = 1
    BY <2>2, Zenon DEF Matches
  <2>5. /\ r \in 1 .. 17 \cup 21 .. 24 => r \in D /\ r \notin {18, 19, 20, 25, 26}
        /\ r \in {18, 19, 20, 25, 26} => r \notin D
    BY <2>3
  <2>6. r \in 1 .. 17 \cup 21 .. 24 => (Matches(r, s) <=> s \in WordRule[r])
    BY <2>4, <2>5, Zenon
  <2>7. /\ r = 18 => (Matches(r, s) <=> IsInteger(s))
        /\ r = 19 => (Matches(r, s) <=> IsString(s))
    BY <2>4, <2>5
  <2>8. /\ r = 20 => (Matches(r, s) <=> IsName(s))
        /\ r = 25 => (Matches(r, s) <=> IsBlank(s))
    BY <2>4, <2>5
  <2>9. r = 26 => (Matches(r, s) <=> Len(s) = 1)
    <3> SUFFICES ASSUME r = 26 PROVE Matches(r, s) <=> Len(s) = 1
      OBVIOUS
    <3>1. r \notin D /\ r # 18 /\ r # 19 /\ r # 20 /\ r # 25
      BY <2>5
    <3> QED BY <2>4, <3>1, Zenon
  <2> QED BY <2>6, <2>7, <2>8, <2>9
<1>2. Len(s) = n
  BY DEF IsRead
<1>3. CASE r \in 1 .. 11
  <2>1. Matches(r, s) <=> s = Spell(r) \/ s = Spell(r + 11)
    BY <1>1, <1>3, WordRuleIs
  <2>2. r \in 1 .. 22 /\ r + 11 \in 1 .. 22
    BY <1>3
  <2>3. s = Spell(r) <=> n = Length[r] /\ Begins(u, n, r)
    BY <2>2, WordRead
  <2>4. s = Spell(r + 11) <=> n = Length[r + 11] /\ Begins(u, n, r + 11)
    BY <2>2, WordRead
  <2>5. RuleIn(r, u, n) <=> \E k \in {r, r + 11} : n = Length[k] /\ Begins(u, n, k)
    BY <1>3, RuleIs
  <2> QED BY <2>1, <2>3, <2>4, <2>5
<1>4. CASE r \in 12 .. 17
  <2>1. 60 \in Char /\ 61 \in Char /\ 62 \in Char
    BY DEF Char
  <2>2. /\ s = <<61>> <=> One(u, n, 61)
        /\ s = <<62>> <=> One(u, n, 62)
        /\ s = <<60>> <=> One(u, n, 60)
        /\ s = <<60, 62>> <=> Two(u, n, 60, 62)
        /\ s = <<62, 61>> <=> Two(u, n, 62, 61)
        /\ s = <<60, 61>> <=> Two(u, n, 60, 61)
    BY <2>1, SignRead
  <2>3. /\ RuleIn(12, u, n) <=> One(u, n, 61)
        /\ RuleIn(13, u, n) <=> Two(u, n, 60, 62)
        /\ RuleIn(14, u, n) <=> One(u, n, 62)
        /\ RuleIn(15, u, n) <=> One(u, n, 60)
        /\ RuleIn(16, u, n) <=> Two(u, n, 62, 61)
        /\ RuleIn(17, u, n) <=> Two(u, n, 60, 61)
    BY RuleIs
  <2>4. Matches(r, s) <=> s \in WordRule[r]
    BY <1>1, <1>4
  <2>5. /\ s \in WordRule[12] <=> s = <<61>>
        /\ s \in WordRule[13] <=> s = <<60, 62>>
        /\ s \in WordRule[14] <=> s = <<62>>
        /\ s \in WordRule[15] <=> s = <<60>>
        /\ s \in WordRule[16] <=> s = <<62, 61>>
        /\ s \in WordRule[17] <=> s = <<60, 61>>
    BY WordRuleIs
  <2>6. r = 12 \/ r = 13 \/ r = 14 \/ r = 15 \/ r = 16 \/ r = 17
    BY <1>4
  <2> QED BY <2>2, <2>3, <2>4, <2>5, <2>6
<1>5. CASE r \in 21 .. 24
  <2>1. 44 \in Char /\ 42 \in Char /\ 59 \in Char /\ CR \in Char /\ LF \in Char
    BY DEF Char, CR, LF
  <2>2. /\ s = <<44>> <=> One(u, n, 44)
        /\ s = <<42>> <=> One(u, n, 42)
        /\ s = <<59>> <=> One(u, n, 59)
        /\ s = <<LF>> <=> One(u, n, LF)
        /\ s = <<CR, LF>> <=> Two(u, n, CR, LF)
    BY <2>1, SignRead
  <2>3. /\ RuleIn(21, u, n) <=> One(u, n, 44)
        /\ RuleIn(22, u, n) <=> One(u, n, 42)
        /\ RuleIn(23, u, n) <=> One(u, n, LF) \/ Two(u, n, CR, LF)
        /\ RuleIn(24, u, n) <=> One(u, n, 59)
    BY RuleIs
  <2>4. Matches(r, s) <=> s \in WordRule[r]
    BY <1>1, <1>5
  <2>5. /\ s \in WordRule[21] <=> s = <<44>>
        /\ s \in WordRule[22] <=> s = <<42>>
        /\ s \in WordRule[23] <=> s = <<LF>> \/ s = <<CR, LF>>
        /\ s \in WordRule[24] <=> s = <<59>>
    BY WordRuleIs
  <2>6. r = 21 \/ r = 22 \/ r = 23 \/ r = 24
    BY <1>5
  <2> QED BY <2>2, <2>3, <2>4, <2>5, <2>6
<1>6. CASE r = 18
  BY <1>1, <1>6, IntegerRead, RuleIs
<1>7. CASE r \in {19, 20, 25}
  <2>1. /\ RuleIn(19, u, n) <=> StringIn(u, n)
        /\ RuleIn(20, u, n) <=> NameIn(u, n)
        /\ RuleIn(25, u, n) <=> BlankIn(u, n)
    BY RuleIs
  <2>2. /\ IsString(s) <=> StringIn(u, n)
        /\ IsName(s) <=> NameIn(u, n)
        /\ IsBlank(s) <=> BlankIn(u, n)
    BY OthersRead
  <2> QED BY <1>1, <1>7, <2>1, <2>2
<1>8. CASE r = 26
  <2>1. RuleIn(26, u, n) <=> n = 1
    BY RuleIs
  <2> QED BY <1>1, <1>2, <1>8, <2>1
<1> QED BY <1>3, <1>4, <1>5, <1>6, <1>7, <1>8 DEF Rules

(* Some word begins with what has been read, and goes on. *)
LEMMA PrefixRead ==
  ASSUME NEW u, NEW n \in Nat \ {0}, NEW s, IsRead(s, u, n),
         NEW w \in Seq(Char), NEW m, m = Len(w)
  PROVE  IsStrictPrefix(s, w) <=> n < m /\ \A i \in 1 .. n : u[i] = w[i]
<1>1. s \in Seq(Char) /\ Len(s) = n /\ \A i \in 1 .. n : s[i] = u[i]
  BY DEF IsRead
<1>2. m \in Nat
  OBVIOUS
<1>3. SubSeq(s, 1, Len(s)) = s
  BY <1>1
<1>4. CASE n <= m
  <2>1. PICK v : v = SubSeq(w, 1, n)
    OBVIOUS
  <2>2. v \in Seq(Char) /\ Len(v) = n /\ \A i \in 1 .. n : v[i] = w[i]
    BY <1>2, <1>4, <2>1
  <2>3. s = v <=> \A i \in 1 .. n : u[i] = w[i]
    <3>1. s = v => \A i \in 1 .. n : u[i] = w[i]
      BY <1>1, <2>2
    <3>2. (\A i \in 1 .. n : u[i] = w[i]) => s = v
      BY <1>1, <2>2, SeqEqual
    <3> QED BY <3>1, <3>2
  <2>4. IsPrefix(s, w) <=> s = v
    BY <1>1, <1>3, <1>4, <2>1 DEF IsPrefix
  <2>5. n < m => s # w
    BY <1>1
  <2>6. n = m => v = w
    BY <2>1, <2>2, SeqEqual
  <2> QED BY <1>2, <1>4, <2>3, <2>4, <2>5, <2>6 DEF IsStrictPrefix
<1>5. CASE ~(n <= m)
  BY <1>1, <1>2, <1>5 DEF IsStrictPrefix, IsPrefix
<1> QED BY <1>4, <1>5

LEMMA GrowsRead ==
  ASSUME NEW u, NEW n \in Nat \ {0}, NEW s, IsRead(s, u, n)
  PROVE  CanGrow(s) <=> GrowsIn(u, n)
<1>1. \A k \in 1 .. 22 : IsStrictPrefix(s, Spell(k)) <=> n < Length[k] /\ Begins(u, n, k)
  <2> TAKE k \in 1 .. 22
  <2>1. Spell(k) \in Seq(Char) /\ Len(Spell(k)) = Length[k] /\ Length[k] \in 2 .. 8
    BY SpellIs
  <2>2. IsStrictPrefix(s, Spell(k)) <=> n < Length[k] /\ \A i \in 1 .. n : u[i] = Spell(k)[i]
    BY <2>1, PrefixRead, ZenonT(60)
  <2> QED BY <2>1, <2>2 DEF Begins
<1>2. ASSUME NEW a \in Char, NEW b \in Char
      PROVE  ~IsStrictPrefix(s, <<a>>) /\ (IsStrictPrefix(s, <<a, b>>) <=> One(u, n, a))
  <2>0. <<a>> \in Seq(Char) /\ <<a, b>> \in Seq(Char)
    OBVIOUS
  <2>1. PICK w \in Seq(Char) : w = <<a>>
    BY <2>0
  <2>2. PICK v \in Seq(Char) : v = <<a, b>>
    BY <2>0
  <2>3. Len(w) = 1
    BY <2>1
  <2>4. Len(v) = 2 /\ v[1] = a
    BY <2>2
  <2>5. IsStrictPrefix(s, w) <=> n < 1 /\ \A i \in 1 .. n : u[i] = w[i]
    BY <2>3, PrefixRead
  <2>6. IsStrictPrefix(s, v) <=> n < 2 /\ \A i \in 1 .. n : u[i] = v[i]
    BY <2>4, PrefixRead, ZenonT(60)
  <2>7. IsStrictPrefix(s, v) <=> One(u, n, a)
    BY <2>4, <2>6 DEF One
  <2> QED BY <2>1, <2>2, <2>5, <2>7
<1>3. (\E r \in DOMAIN WordRule : \E word \in WordRule[r] : IsStrictPrefix(s, word))
      <=> \/ \E k \in 1 .. 22 : n < Length[k] /\ Begins(u, n, k)
          \/ n = 1 /\ u[1] \in {60, 62, CR}
  <2>1. ASSUME NEW r \in DOMAIN WordRule, NEW word \in WordRule[r], IsStrictPrefix(s, word)
        PROVE  \/ \E k \in 1 .. 22 : n < Length[k] /\ Begins(u, n, k)
               \/ n = 1 /\ u[1] \in {60, 62, CR}
    <3>1. r \in 1 .. 17 \cup 21 .. 24
      BY WordRuleIs
    <3>2. CASE r \in 1 .. 11
      <4>1. word = Spell(r) \/ word = Spell(r + 11)
        BY <2>1, <3>2, WordRuleIs
      <4>2. r \in 1 .. 22 /\ r + 11 \in 1 .. 22
        BY <3>2
      <4> QED BY <1>1, <2>1, <4>1, <4>2
    <3>3. CASE r \in 12 .. 17 \cup 21 .. 24
      <4>1. \/ word = <<61>> \/ word = <<60, 62>> \/ word = <<62>> \/ word = <<60>>
                 \/ word = <<62, 61>>
            \/ word = <<60, 61>> \/ word = <<44>> \/ word = <<42>> \/ word = <<LF>>
            \/ word = <<CR, LF>> \/ word = <<59>>
        <5>1. r = 12 \/ r = 13 \/ r = 14 \/ r = 15 \/ r = 16 \/ r = 17 \/ r = 21 \/ r = 22
                \/ r = 23 \/ r = 24
          BY <3>3
        <5> QED BY <2>1, <5>1, WordRuleIs
      <4>2. /\ 60 \in Char /\ 61 \in Char /\ 62 \in Char /\ 44 \in Char /\ 42 \in Char
                 /\ 59 \in Char
            /\ CR \in Char /\ LF \in Char
        BY DEF Char, CR, LF
      <4>3. word = <<60, 62>> \/ word = <<62, 61>> \/ word = <<60, 61>> \/ word = <<CR, LF>>
        BY <1>2, <2>1, <4>1, <4>2, ZenonT(60)
      <4>4. /\ word = <<60, 62>> \/ word = <<60, 61>> => One(u, n, 60)
            /\ word = <<62, 61>> => One(u, n, 62)
            /\ word = <<CR, LF>> => One(u, n, CR)
        <5>1. /\ IsStrictPrefix(s, <<60, 62>>) <=> One(u, n, 60)
              /\ IsStrictPrefix(s, <<60, 61>>) <=> One(u, n, 60)
              /\ IsStrictPrefix(s, <<62, 61>>) <=> One(u, n, 62)
              /\ IsStrictPrefix(s, <<CR, LF>>) <=> One(u, n, CR)
          BY <1>2, <4>2
        <5> QED BY <2>1, <5>1
      <4>5. One(u, n, 60) \/ One(u, n, 62) \/ One(u, n, CR)
        BY <4>3, <4>4
      <4> QED BY <4>5 DEF One
    <3> QED BY <3>1, <3>2, <3>3
  <2>2. ASSUME NEW k \in 1 .. 22, n < Length[k], Begins(u, n, k)
        PROVE  \E r \in DOMAIN WordRule : \E word \in WordRule[r] : IsStrictPrefix(s, word)
    <3>1. IsStrictPrefix(s, Spell(k))
      BY <1>1, <2>2
    <3>2. CASE k <= 11
      <4>1. k \in 1 .. 11 /\ k \in DOMAIN WordRule
        BY <3>2, WordRuleIs
      <4>2. Spell(k) \in WordRule[k]
        BY <4>1, WordRuleIs
      <4> QED BY <3>1, <4>1, <4>2
    <3>3. CASE k > 11
      <4>1. PICK r \in 1 .. 11 : k = r + 11
        <5>1. k - 11 \in 1 .. 11 /\ k = (k - 11) + 11
          BY <3>3
        <5> QED BY <5>1
      <4>2. Spell(k) \in WordRule[r] /\ r \in DOMAIN WordRule
        BY <4>1, WordRuleIs
      <4> QED BY <3>1, <4>2
    <3> QED BY <3>2, <3>3
  <2>3. ASSUME n = 1, u[1] \in {60, 62, CR}
        PROVE  \E r \in DOMAIN WordRule : \E word \in WordRule[r] : IsStrictPrefix(s, word)
    <3>1. 60 \in Char /\ 61 \in Char /\ 62 \in Char /\ CR \in Char /\ LF \in Char
      BY DEF Char, CR, LF
    <3>2. /\ u[1] = 60 => IsStrictPrefix(s, <<60, 61>>)
          /\ u[1] = 62 => IsStrictPrefix(s, <<62, 61>>)
          /\ u[1] = CR => IsStrictPrefix(s, <<CR, LF>>)
      <4>1. /\ u[1] = 60 => One(u, n, 60)
            /\ u[1] = 62 => One(u, n, 62)
            /\ u[1] = CR => One(u, n, CR)
        BY <2>3 DEF One
      <4> QED BY <1>2, <3>1, <4>1, ZenonT(60)
    <3>3. /\ <<60, 61>> \in WordRule[17] /\ <<62, 61>> \in WordRule[16]
               /\ <<CR, LF>> \in WordRule[23]
          /\ 17 \in DOMAIN WordRule /\ 16 \in DOMAIN WordRule /\ 23 \in DOMAIN WordRule
      BY WordRuleIs
    <3> QED BY <2>3, <3>2, <3>3
  <2> QED BY <2>1, <2>2, <2>3
<1>4. s # <<>>
  BY DEF IsRead
<1>5. s = <<Minus>> <=> n = 1 /\ u[1] = Minus
  <2>1. Minus \in Char
    BY DEF Minus, Char
  <2> QED BY <2>1, SignRead DEF One
<1>6. IsInteger(s) <=> IntegerIn(u, n)
  BY IntegerRead
<1>7. (IsOpenString(s) <=> OpenIn(u, n)) /\ (IsName(s) <=> NameIn(u, n)) /\ (IsBlank(s)
        <=> BlankIn(u, n))
  BY OthersRead
<1> QED BY <1>3, <1>4, <1>5, <1>6, <1>7 DEF CanGrow, GrowsIn

-----------------------------------------------------------------------------
(* The longest match of a text u: l is the last state that accepts, b how  *)
(* much had been read then, and s the state after n characters.            *)

NoneIn(u, n, m) == \A i \in n + 1 .. m : \A r \in Rules : ~RuleIn(r, u, i)

Back(u, l, b) ==
  l \in States \ {EobState, JamState} /\ b \in 1 .. Len(u) /\ Means(l, u, b)

Stand(u, s, n, l, b) ==
  /\ n \in 0 .. Len(u) /\ Means(s, u, n)
  /\ yy_accept[s] = 0 /\ n > 0 => Back(u, l, b) /\ b <= n /\ NoneIn(u, b, n)

(* Reading them does not end in JamState; and it takes more to know what   *)
(* the token is.                                                           *)
Live(u, n) == n <= 1 \/ Alive(u, n)
Open(u, n) == n = 0 \/ u[n] = NUL \/ GrowsIn(u, n)

(* The automaton has met a NUL, m characters being in the buffer.          *)
Looked(u, n, m) == Live(u, n) /\ (n = m => Open(u, n))

LEMMA MeansAlive ==
  ASSUME NEW u, NEW n \in Nat, n >= 2, NEW s \in States \ {EobState, JamState}, Means(s, u, n)
  PROVE  Alive(u, n)
<1>0. n \in Nat \ {0} /\ s # 1
  BY DEF Means
<1>1. CASE s \in WordStates \cup {2}
  <2>1. Spelled(s, u, n)
    BY <1>0, <1>1, WordMeans
  <2> QED BY <2>1 DEF Spelled, Alive
<1>2. CASE s \in {18, 46}
  <2>1. NameIn(u, n)
    BY <1>0, <1>2, NameMeans
  <2> QED BY <2>1 DEF Alive
<1>3. CASE s \in {4, 6, 7, 8, 9, 10, 11, 13, 14, 15, 16}
  BY <1>0, <1>3, SignMeans
<1>4. CASE s \in {5, 12, 38, 39, 40, 41, 42, 43, 44, 45}
  <2>1. /\ s \in {5, 38} => BlankIn(u, n)
        /\ s \in {12, 42} => IntegerIn(u, n)
        /\ s = 40 => OpenIn(u, n)
        /\ s = 41 => StringIn(u, n)
    BY <1>0, MeansIs
  <2>2. /\ s = 39 => Two(u, n, CR, LF)
        /\ s = 43 => Two(u, n, 60, 61)
        /\ s = 44 => Two(u, n, 60, 62)
        /\ s = 45 => Two(u, n, 62, 61)
    BY <1>0, MeansIs
  <2> QED BY <1>4, <2>1, <2>2 DEF Alive
<1> QED BY <1>0, <1>1, <1>2, <1>3, <1>4, OneOfTheStates

LEMMA AliveBefore ==
  ASSUME NEW u, NEW m \in Nat, NEW n \in Nat, n >= 2, n <= m, Alive(u, m)
  PROVE  Alive(u, n)
<1>1. (\A i \in 1 .. n : i \in 1 .. m) /\ (\A i \in 2 .. n : i \in 2 .. m)
  OBVIOUS
<1>2. ASSUME NEW k \in 1 .. 22, Begins(u, m, k) PROVE Begins(u, n, k)
  <2>1. n <= Length[k]
    <3>1. Length[k] \in 2 .. 8
      BY Lengths
    <3> QED BY <1>2, <3>1 DEF Begins
  <2> QED BY <1>1, <1>2, <2>1 DEF Begins
<1>3. /\ BlankIn(u, m) => BlankIn(u, n)
      /\ IntegerIn(u, m) => IntegerIn(u, n)
      /\ OpenIn(u, m) => OpenIn(u, n)
      /\ NameIn(u, m) => NameIn(u, n)
  BY <1>1 DEF BlankIn, IntegerIn, OpenIn, NameIn
<1>4. ASSUME StringIn(u, m) PROVE n = m \/ OpenIn(u, n)
  <2> SUFFICES ASSUME n # m PROVE OpenIn(u, n)
    OBVIOUS
  <2>1. OpenIn(u, m - 1) /\ \A i \in 2 .. n : i \in 2 .. m - 1
    BY <1>4 DEF StringIn
  <2> QED BY <2>1 DEF OpenIn
<1>5. ASSUME m = 2 PROVE n = m
  BY <1>5
<1>6. n = m => Alive(u, n)
  OBVIOUS
<1> QED BY <1>2, <1>3, <1>4, <1>5, <1>6 DEF Alive, Two

(* Where reading has ended, no rule matches more. *)
LEMMA NoneLonger ==
  ASSUME NEW u \in Seq(Char), NEW n \in Nat \ {0}, ~GrowsIn(u, n)
  PROVE  NoneIn(u, n, Len(u))
<1>1. ASSUME NEW i \in n + 1 .. Len(u), NEW r \in Rules, RuleIn(r, u, i) PROVE FALSE
  <2>1. i \in 1 .. Len(u) /\ n < i
    OBVIOUS
  <2> QED BY <1>1, <2>1, PrefixGrows
<1> QED BY <1>1 DEF NoneIn

LEMMA NoneAlive ==
  ASSUME NEW u \in Seq(Char), NEW n \in Nat \ {0}, ~Alive(u, n + 1)
  PROVE  NoneIn(u, n, Len(u))
<1>0. n + 1 \in Nat \ {0} /\ n + 1 \in Nat /\ n + 1 >= 2
  OBVIOUS
<1>1. ~GrowsIn(u, n + 1) /\ \A r \in Rules : ~RuleIn(r, u, n + 1)
  BY <1>0, Viable
<1>2. NoneIn(u, n + 1, Len(u))
  BY <1>0, <1>1, NoneLonger
<1>3. \A i \in n + 1 .. Len(u) : i = n + 1 \/ i \in (n + 1) + 1 .. Len(u)
  OBVIOUS
<1> QED BY <1>1, <1>2, <1>3 DEF NoneIn

LEMMA NoneJoin ==
  ASSUME NEW u, NEW b \in Nat, NEW n \in Nat, NEW m \in Nat, NoneIn(u, b, n), NoneIn(u, n, m)
  PROVE  NoneIn(u, b, m)
<1>1. \A i \in b + 1 .. m : i \in b + 1 .. n \/ i \in n + 1 .. m
  OBVIOUS
<1> QED BY <1>1 DEF NoneIn

(* One character more *)
LEMMA Advances ==
  ASSUME NEW u \in Seq(Char), NEW n \in 0 .. Len(u) - 1,
         NEW s \in States \ {EobState, JamState}, NEW l, NEW b, Stand(u, s, n, l, b),
         NEW t, t = NextState(s, ClassAgain(u[n + 1])), t \in States,
         NEW l2, NEW b2,
         IF yy_accept[s] # 0 THEN l2 = s /\ b2 = n ELSE l2 = l /\ b2 = b
  PROVE  IF t = JamState
         THEN /\ n > 0 /\ ~Alive(u, n + 1) /\ NoneIn(u, n, Len(u))
              /\ Back(u, l2, b2) /\ NoneIn(u, b2, Len(u))
         ELSE /\ t # EobState /\ Stand(u, t, n + 1, l2, b2)
              /\ Jams(t) => NoneIn(u, n + 1, Len(u))
<1>0. n \in Nat /\ n + 1 \in Nat \ {0} /\ n + 1 \in 1 .. Len(u) /\ Len(u) \in Nat
        /\ n + 1 \in 0 .. Len(u)
  OBVIOUS
<1>1. Means(s, u, n) /\ (yy_accept[s] = 0 /\ n > 0 => Back(u, l, b) /\ b <= n /\ NoneIn(u, b, n))
  BY DEF Stand
<1>2. IF t = JamState THEN n > 0 /\ ~Alive(u, n + 1) ELSE t # EobState /\ Means(t, u, n + 1)
  BY <1>1, StateStep
<1>3. yy_accept[s] # 0 => n > 0
  <2>1. n = 0 => s = 1
    BY <1>1 DEF Means
  <2>2. yy_accept[1] = 0
    BY AcceptRows
  <2> QED BY <1>0, <2>1, <2>2
<1>4. ASSUME n > 0
      PROVE  Back(u, l2, b2) /\ b2 <= n /\ NoneIn(u, b2, n) /\ b2 \in Nat
  <2>1. CASE yy_accept[s] # 0
    <3>1. n \in 1 .. Len(u)
      BY <1>0, <1>4
    <3>2. NoneIn(u, n, n)
      BY <1>0 DEF NoneIn
    <3> QED BY <1>0, <1>1, <2>1, <3>1, <3>2 DEF Back
  <2>2. CASE yy_accept[s] = 0
    BY <1>1, <1>4, <2>2 DEF Back
  <2> QED BY <2>1, <2>2
<1>5. CASE t = JamState
  <2>1. n \in Nat \ {0} /\ ~Alive(u, n + 1)
    BY <1>0, <1>2, <1>5
  <2>2. NoneIn(u, n, Len(u))
    BY <2>1, NoneAlive
  <2>3. Back(u, l2, b2) /\ NoneIn(u, b2, n) /\ b2 \in Nat
    BY <1>4, <2>1
  <2>4. NoneIn(u, b2, Len(u))
    BY <1>0, <2>2, <2>3, NoneJoin
  <2> QED BY <1>2, <1>5, <2>2, <2>3, <2>4
<1>6. CASE t # JamState
  <2>1. t \in States \ {EobState, JamState} /\ Means(t, u, n + 1)
    BY <1>2, <1>6
  <2>2. FirstRule(yy_accept[t], u, n + 1) /\ (Jams(t) <=> ~GrowsIn(u, n + 1))
    BY <1>0, <2>1, StateAccepts
  <2>3. Jams(t) => NoneIn(u, n + 1, Len(u))
    BY <1>0, <2>2, NoneLonger
  <2>4. ASSUME yy_accept[t] = 0
        PROVE  Back(u, l2, b2) /\ b2 <= n + 1 /\ NoneIn(u, b2, n + 1)
    <3>1. \A r \in Rules : ~RuleIn(r, u, n + 1)
      BY <2>2, <2>4 DEF FirstRule
    <3>2. n > 0
      <4>1. 26 \in Rules /\ (n = 0 => RuleIn(26, u, n + 1))
        BY <1>0, RuleIs DEF Rules
      <4> QED BY <1>0, <3>1, <4>1
    <3>3. Back(u, l2, b2) /\ b2 <= n /\ NoneIn(u, b2, n) /\ b2 \in Nat
      BY <1>4, <3>2
    <3>4. NoneIn(u, n, n + 1)
      <4>1. \A i \in n + 1 .. n + 1 : i = n + 1
        BY <1>0
      <4> QED BY <3>1, <4>1 DEF NoneIn
    <3>5. NoneIn(u, b2, n + 1)
      BY <1>0, <3>3, <3>4, NoneJoin
    <3> QED BY <1>0, <3>3, <3>5
  <2>5. Stand(u, t, n + 1, l2, b2)
    BY <1>0, <2>1, <2>4 DEF Stand
  <2> QED BY <1>6, <2>1, <2>3, <2>5
<1> QED BY <1>5, <1>6

(* The longest match, and its rule *)
LEMMA LongestIs ==
  ASSUME NEW u \in Seq(Char), NEW n \in 1 .. Len(u), NEW r, r # 0, FirstRule(r, u, n),
         NoneIn(u, n, Len(u))
  PROVE  u # <<>> /\ Longest(u) = n /\ RuleFor(SubSeq(u, 1, n)) = r
<1>0. Len(u) \in Nat /\ n \in Nat \ {0}
  OBVIOUS
<1>1. ASSUME NEW m \in 1 .. Len(u) PROVE IsRead(SubSeq(u, 1, m), u, m)
  BY <1>0 DEF IsRead
<1>2. \A m \in 1 .. Len(u), q \in Rules : Matches(q, SubSeq(u, 1, m)) <=> RuleIn(q, u, m)
  <2> TAKE m \in 1 .. Len(u), q \in Rules
  <2>1. m \in Nat \ {0} /\ IsRead(SubSeq(u, 1, m), u, m)
    BY <1>1
  <2> QED BY <2>1, MatchesRead
<1>3. r \in Rules /\ RuleIn(r, u, n) /\ \A q \in Rules : q < r => ~RuleIn(q, u, n)
  BY DEF FirstRule
<1>4. PICK S : S = {m \in 1 .. Len(u) : \E q \in Rules : Matches(q, SubSeq(u, 1, m))}
  OBVIOUS
<1>5. n \in S /\ \A m \in S : n >= m
  <2>1. n \in S
    BY <1>2, <1>3, <1>4
  <2>2. ASSUME NEW m \in S PROVE n >= m
    <3>1. m \in 1 .. Len(u) /\ \E q \in Rules : RuleIn(q, u, m)
      BY <1>2, <1>4, <2>2
    <3>2. ~(m > n)
      <4>1. m > n => m \in n + 1 .. Len(u)
        BY <1>0, <3>1
      <4> QED BY <3>1, <4>1 DEF NoneIn
    <3> QED BY <1>0, <3>1, <3>2
  <2> QED BY <2>1, <2>2
<1>6. S \subseteq Nat
  BY <1>4
<1>7. Max(S) = n
  <2>1. \E x \in S : \A y \in S : x >= y
    BY <1>5
  <2>2. Max(S) \in S /\ \A y \in S : Max(S) >= y
    BY <2>1 DEF Max
  <2>3. Max(S) \in Nat /\ Max(S) >= n /\ n >= Max(S)
    BY <1>5, <1>6, <2>2
  <2> QED BY <1>0, <2>3
<1>8. Longest(u) = n
  BY <1>4, <1>7 DEF Longest
<1>9. PICK T : T = {q \in Rules : Matches(q, SubSeq(u, 1, n))}
  OBVIOUS
<1>10. T \subseteq Nat
  BY <1>9, SMTT(40) DEF Rules
<1>11. r \in T /\ \A q \in T : r <= q
  <2>1. r \in T
    BY <1>2, <1>3, <1>9
  <2>2. ASSUME NEW q \in T PROVE r <= q
    <3>1. q \in Rules /\ RuleIn(q, u, n)
      BY <1>2, <1>9, <2>2
    <3>2. ~(q < r)
      BY <1>3, <3>1
    <3>3. q \in Nat /\ r \in Nat
      BY <1>3, <3>1 DEF Rules
    <3> QED BY <3>2, <3>3
  <2> QED BY <2>1, <2>2
<1>12. Min(T) = r
  <2>1. Min(T) \in T /\ \A q \in T : Min(T) <= q
    BY <1>10, <1>11, MinIs
  <2>2. Min(T) <= r /\ r <= Min(T) /\ Min(T) \in Nat /\ r \in Nat
    BY <1>10, <1>11, <2>1
  <2> QED BY <2>2
<1>13. RuleFor(SubSeq(u, 1, n)) = r
  BY <1>9, <1>12 DEF RuleFor
<1> QED BY <1>0, <1>8, <1>13

-----------------------------------------------------------------------------
(* The automaton and the text that has not become tokens yet.  pc "match", *)
(* "again", "nul" and "find" are the places where it is somewhere in it.   *)

Rest  == SubSeq(text, token.to + 1, Len(text))
Reads == pc \in {"match", "again", "nul", "find"}
Ahead == yy_n_chars - yy_bp

Standing ==
  Reads /\ yy_current_state \notin {EobState, JamState} =>
    Stand(Rest, yy_current_state, yy_cp - yy_bp,
          yy_last_accepting_state, yy_last_accepting_cpos - yy_bp)

(* The scanner is about to go on, to meet a NUL or to read. *)
AtMatch ==
  pc = "match" =>
    /\ yy_current_state # JamState
    /\ yy_current_state # EobState /\ yy_cp > yy_bp =>
         Rest[yy_cp - yy_bp] = NUL \/ ~Jams(yy_current_state)
    /\ yy_current_state = EobState => Looked(Rest, yy_cp - 1 - yy_bp, Ahead)

(* It goes over what it has read before. *)
AtAgain ==
  pc \in {"again", "nul"} =>
    /\ yy_current_state # JamState /\ Live(Rest, yy_c_buf_p - yy_bp)
    /\ then = "match" => Open(Rest, yy_c_buf_p - yy_bp)
    /\ then = "nul"   => At(yy_c_buf_p) = NUL
    /\ then = "find"  => yy_c_buf_p = yy_n_chars /\ pos = Len(text)

(* It has stopped: nothing longer matches, or the buffer ends here. *)
AtFind ==
  pc = "find" =>
    IF yy_current_state # JamState
    THEN NoneIn(Rest, yy_cp - yy_bp, Len(Rest))
    ELSE IF yy_last_accepting_state = EobState
         THEN Looked(Rest, yy_last_accepting_cpos - 1 - yy_bp, Ahead)
         ELSE /\ Back(Rest, yy_last_accepting_state, yy_last_accepting_cpos - yy_bp)
              /\ NoneIn(Rest, yy_last_accepting_cpos - yy_bp, Len(Rest))

(* The end of the file has been seen. *)
EofSeen == yy_buffer_status = "EOF_PENDING" => pos = Len(text)

(* Every token so far was the longest match. *)
IsLongest ==
  token # NoToken =>
    LET rest == SubSeq(text, token.from + 1, Len(text))
    IN IF rest = <<>> THEN token.sym = "$end"
       ELSE /\ token.to = token.from + Longest(rest)
            /\ token.sym = SymbolOf(RuleFor(SubSeq(rest, 1, Longest(rest))))

LexInv == Standing /\ AtMatch /\ AtAgain /\ AtFind /\ EofSeen /\ IsLongest

LEMMA RestIs ==
  ASSUME ScanInv
  PROVE  /\ Rest \in Seq(Char) /\ Len(Rest) \in Nat
         /\ pc \notin {"start", "eof"} =>
              /\ yy_bp \in Nat /\ yy_n_chars \in Nat /\ yy_bp <= yy_n_chars
              /\ token.to = pos - Ahead /\ Len(Rest) = (Len(text) - pos) + Ahead
              /\ pos <= Len(text) /\ pos \in Nat /\ Len(text) \in Nat
              /\ \A p \in yy_bp .. yy_n_chars - 1 : At(p) = Rest[p - yy_bp + 1]
<1>1. TypeOK /\ Continues
  BY DEF ScanInv
<1>2. /\ yy_n_chars \in Nat /\ yy_bp \in Nat /\ pos \in Nat
      /\ text \in Seq(0 .. 255) /\ pos <= Len(text) /\ Len(text) \in Nat
  BY <1>1, Numbers
<1>3. PICK to : to = token.to
  OBVIOUS
<1>4. to \in Nat /\ PlaceOf(Here) = to
  BY <1>1, <1>3 DEF Continues
<1>5. \A i \in to + 1 .. Len(text) : text[i] \in 0 .. 255
  <2> TAKE i \in to + 1 .. Len(text)
  <2>1. i \in 1 .. Len(text)
    BY <1>2, <1>4
  <2> QED BY <1>2, <2>1, ElementOfSeq
<1>6. PICK u : u = SubSeq(text, to + 1, Len(text))
  OBVIOUS
<1>7. PICK from : from = to + 1 /\ from \in Int /\ Len(text) \in Int
  BY <1>2, <1>4
<1>8. /\ SubSeq(text, from, Len(text)) \in Seq(0 .. 255)
      /\ Len(SubSeq(text, from, Len(text)))
           = IF from <= Len(text) THEN Len(text) - from + 1 ELSE 0
      /\ \A i \in 1 .. Len(text) - from + 1 : SubSeq(text, from, Len(text))[i] = text[from + i - 1]
  BY <1>5, <1>7, SubSeqProperties
<1>9. /\ u \in Seq(0 .. 255)
      /\ Len(u) = IF to + 1 <= Len(text) THEN Len(text) - to ELSE 0
      /\ \A i \in 1 .. Len(text) - to : u[i] = text[to + i]
  <2>1. /\ u \in Seq(0 .. 255)
        /\ Len(u) = IF from <= Len(text) THEN Len(text) - from + 1 ELSE 0
        /\ \A i \in 1 .. Len(text) - from + 1 : u[i] = text[from + i - 1]
    BY <1>6, <1>7, <1>8
  <2>2. \A i \in 1 .. Len(text) - to : i \in 1 .. Len(text) - from + 1 /\ from + i - 1 = to + i
    BY <1>2, <1>4, <1>7
  <2>3. \A i \in 1 .. Len(text) - to : u[i] = text[to + i]
    BY <2>1, <2>2
  <2>4. Len(u) = IF to + 1 <= Len(text) THEN Len(text) - to ELSE 0
    BY <1>2, <1>4, <1>7, <2>1
  <2> QED BY <2>1, <2>3, <2>4
<1>10. Rest = u
  BY <1>3, <1>6 DEF Rest
<1>11. u \in Seq(Char) /\ Len(u) \in Nat
  BY <1>9 DEF Char
<1>12. ASSUME pc \notin {"start", "eof"}
       PROVE  /\ yy_bp \in Nat /\ yy_n_chars \in Nat /\ yy_bp <= yy_n_chars
              /\ token.to = pos - Ahead /\ Len(Rest) = (Len(text) - pos) + Ahead
              /\ pos <= Len(text) /\ pos \in Nat /\ Len(text) \in Nat
              /\ \A p \in yy_bp .. yy_n_chars - 1 : At(p) = Rest[p - yy_bp + 1]
  <2>1. Mem = yy_ch_buf /\ Here = yy_bp
    BY <1>12 DEF Mem, Here
  <2>2. yy_bp <= yy_n_chars
    BY <1>1, <1>12 DEF TypeOK
  <2>3. to = pos - yy_n_chars + yy_bp
    BY <1>4, <2>1 DEF PlaceOf
  <2>4. to = pos - Ahead /\ Len(u) = (Len(text) - pos) + Ahead
    <3>1. to = pos - Ahead
      BY <1>2, <1>4, <2>3 DEF Ahead
    <3>2. to <= Len(text) /\ Len(text) - to = (Len(text) - pos) + Ahead
      BY <1>2, <1>4, <2>2, <2>3 DEF Ahead
    <3>3. Len(u) = Len(text) - to
      BY <1>2, <1>4, <1>9, <3>2
    <3> QED BY <3>1, <3>2, <3>3
  <2>5. \A i \in yy_bp + 1 .. yy_n_chars : yy_ch_buf[i] = text[pos - yy_n_chars + i]
    BY <1>1, <2>1 DEF Continues
  <2>6. ASSUME NEW p \in yy_bp .. yy_n_chars - 1 PROVE At(p) = u[p - yy_bp + 1]
    <3>1. p \in Nat /\ p + 1 \in yy_bp + 1 .. yy_n_chars /\ p - yy_bp + 1 \in 1 .. Len(text) - to
      BY <1>2, <2>2, <2>3
    <3>2. to + (p - yy_bp + 1) = pos - yy_n_chars + (p + 1)
      BY <1>2, <2>3, <3>1
    <3>3. At(p) = text[pos - yy_n_chars + (p + 1)]
      BY <2>5, <3>1 DEF At
    <3>4. u[p - yy_bp + 1] = text[to + (p - yy_bp + 1)]
      BY <1>9, <3>1
    <3> QED BY <3>2, <3>3, <3>4
  <2> QED BY <1>2, <1>3, <1>10, <2>2, <2>4, <2>6
<1> QED BY <1>10, <1>11, <1>12

(* One turn of a loop that takes a character of the text *)
LEMMA Taken ==
  ASSUME ScanInv, LexInv, pc \in {"match", "again", "nul"},
         yy_current_state \in States \ {EobState, JamState}, yy_cp \in yy_bp .. yy_n_chars - 1,
         NEW t, t = NextState(yy_current_state, ClassAgain(At(yy_cp))),
         NEW l2, NEW b2,
         IF yy_accept[yy_current_state] # 0 THEN l2 = yy_current_state /\ b2 = yy_cp
         ELSE l2 = yy_last_accepting_state /\ b2 = yy_last_accepting_cpos
  PROVE  /\ t \in States /\ t # EobState
         /\ IF t = JamState
            THEN /\ yy_cp > yy_bp /\ ~Alive(Rest, (yy_cp - yy_bp) + 1)
                 /\ NoneIn(Rest, yy_cp - yy_bp, Len(Rest))
                 /\ Back(Rest, l2, b2 - yy_bp) /\ NoneIn(Rest, b2 - yy_bp, Len(Rest))
            ELSE /\ Stand(Rest, t, (yy_cp + 1) - yy_bp, l2, b2 - yy_bp)
                 /\ Jams(t) => NoneIn(Rest, (yy_cp + 1) - yy_bp, Len(Rest))
<1>1. pc \notin {"start", "eof"} /\ Reads
  BY DEF Reads
<1>2. PICK u : u = Rest
  OBVIOUS
<1>3. /\ u \in Seq(Char) /\ Len(u) \in Nat
      /\ yy_bp \in Nat /\ yy_n_chars \in Nat /\ yy_bp <= yy_n_chars
      /\ Len(u) = (Len(text) - pos) + Ahead /\ pos <= Len(text) /\ pos \in Nat /\ Len(text) \in Nat
      /\ \A p \in yy_bp .. yy_n_chars - 1 : At(p) = u[p - yy_bp + 1]
  BY <1>1, <1>2, RestIs
<1>4. PICK n : n = yy_cp - yy_bp
  OBVIOUS
<1>5. n \in 0 .. Len(u) - 1 /\ n \in Nat /\ yy_cp \in Nat /\ (yy_cp + 1) - yy_bp = n + 1
      /\ (n > 0 => yy_cp > yy_bp)
  BY <1>3, <1>4 DEF Ahead
<1>6. PICK x : x = At(yy_cp)
  OBVIOUS
<1>7. x = u[n + 1] /\ x \in Char
  <2>1. x = u[n + 1]
    BY <1>3, <1>4, <1>6
  <2>2. n + 1 \in 1 .. Len(u)
    BY <1>5
  <2>3. u[n + 1] \in Char
    BY <1>3, <2>2, ElementOfSeq
  <2> QED BY <2>1, <2>3
<1>8. PICK s : s = yy_current_state
  OBVIOUS
<1>9. Stand(u, s, n, yy_last_accepting_state, yy_last_accepting_cpos - yy_bp)
  <2>1. Standing
    BY DEF LexInv
  <2> QED BY <1>1, <1>2, <1>4, <1>8, <2>1 DEF Standing
<1>10. s \in States \ {EobState, JamState} /\ t = NextState(s, ClassAgain(u[n + 1]))
  BY <1>6, <1>7, <1>8
<1>11. t \in States /\ t # EobState
  <2>1. PICK c : c = ClassAgain(x)
    OBVIOUS
  <2>2. c \in Classes /\ c # 0
    <3>1. c = IF x = NUL THEN 1 ELSE yy_ec[x]
      BY <2>1 DEF ClassAgain
    <3>2. x # NUL => yy_ec[x] \in Classes /\ yy_ec[x] # 0
      BY <1>7, ClassRows DEF Char
    <3> QED BY <3>1, <3>2 DEF Classes
  <2>3. t = NextState(s, c)
    BY <1>7, <1>10, <2>1
  <2> QED BY <1>10, <2>2, <2>3, Transitions
<1>12. PICK b3 : b3 = b2 - yy_bp
  OBVIOUS
<1>13. IF yy_accept[s] # 0 THEN l2 = s /\ b3 = n
       ELSE l2 = yy_last_accepting_state /\ b3 = yy_last_accepting_cpos - yy_bp
  BY <1>4, <1>8, <1>12
<1>14. IF t = JamState
       THEN /\ n > 0 /\ ~Alive(u, n + 1) /\ NoneIn(u, n, Len(u))
            /\ Back(u, l2, b3) /\ NoneIn(u, b3, Len(u))
       ELSE /\ t # EobState /\ Stand(u, t, n + 1, l2, b3)
            /\ Jams(t) => NoneIn(u, n + 1, Len(u))
  BY <1>3, <1>5, <1>9, <1>10, <1>11, <1>13, Advances
<1> QED BY <1>2, <1>4, <1>5, <1>11, <1>12, <1>14

(* The token and the text are what they were. *)
LEMMA RestStays ==
  ASSUME UNCHANGED <<text, token>>
  PROVE  Rest' = Rest
BY DEF Rest

LEMMA LongestStays ==
  ASSUME LexInv, UNCHANGED <<text, token>>
  PROVE  IsLongest'
BY DEF LexInv, IsLongest

LEMMA NoDifference == \A p \in Nat : p - p = 0
OBVIOUS

(* A new scan from the beginning of a token *)
LEMMA FreshStand ==
  ASSUME ScanInv, Rest' = Rest, yy_cp' = yy_bp', yy_bp' \in Nat, yy_current_state' = 1
  PROVE  Standing'
<1>1. yy_cp' - yy_bp' = 0
  <2>1. PICK p \in Nat : p = yy_bp'
    OBVIOUS
  <2>2. p - p = 0
    BY <2>1, NoDifference
  <2>3. yy_cp' = p
    BY <2>1, Zenon
  <2> QED BY <2>1, <2>2, <2>3
<1>2. Len(Rest) \in Nat
  BY RestIs
<1>3. Means(1, Rest, 0)
  BY DEF Means
<1>4. PICK u : u = Rest
  OBVIOUS
<1>5. \A l, b : Stand(u, 1, 0, l, b)
  BY <1>2, <1>3, <1>4 DEF Stand
<1>6. PICK w : w = yy_cp' - yy_bp'
  OBVIOUS
<1>7. Stand(Rest', yy_current_state', w, yy_last_accepting_state', yy_last_accepting_cpos' - yy_bp')
  BY <1>1, <1>4, <1>5, <1>6
<1> QED BY <1>6, <1>7 DEF Standing

-----------------------------------------------------------------------------
(* The steps *)

LEMMA StartReads == ASSUME ScanInv, LexInv, Start PROVE LexInv'
<1>1. /\ pc' = "match" /\ yy_cp' = yy_c_buf_p /\ yy_bp' = yy_c_buf_p /\ yy_current_state' = 1
      /\ UNCHANGED <<text, token, pos, yy_buffer_status>>
  BY DEF Start, input
<1>2. yy_c_buf_p \in Nat
  <2>1. TypeOK
    BY DEF ScanInv
  <2>2. yy_c_buf_p \in 0 .. yy_n_chars /\ yy_n_chars \in Nat
    BY <2>1, Numbers
  <2> QED BY <2>2
<1>3. Standing'
  <2>1. Rest' = Rest
    BY <1>1, RestStays
  <2> QED BY <1>1, <1>2, <2>1, FreshStand
<1>4. AtMatch'
  <2>1. ~(yy_cp' > yy_bp') /\ yy_current_state' # EobState /\ yy_current_state' # JamState
    BY <1>1, <1>2 DEF EobState, JamState
  <2> QED BY <2>1 DEF AtMatch
<1>5. AtAgain' /\ AtFind'
  BY <1>1 DEF AtAgain, AtFind
<1>6. EofSeen'
  BY <1>1 DEF LexInv, EofSeen
<1>7. IsLongest'
  BY <1>1, LongestStays
<1> QED BY <1>3, <1>4, <1>5, <1>6, <1>7 DEF LexInv

(* What match keeps of the text *)
LEMMA TextStays ==
  ASSUME LexInv, UNCHANGED <<input, buffer, yy_bp, token>>
  PROVE  /\ Rest' = Rest /\ Ahead' = Ahead /\ yy_bp' = yy_bp /\ yy_n_chars' = yy_n_chars
         /\ pos' = pos /\ text' = text
         /\ EofSeen' /\ IsLongest'
<1>1. UNCHANGED <<text, token, pos, yy_n_chars, yy_buffer_status, yy_bp>>
  BY DEF input, buffer
<1>2. Rest' = Rest /\ Ahead' = Ahead
  BY <1>1, RestStays DEF Ahead
<1>3. EofSeen'
  BY <1>1 DEF LexInv, EofSeen
<1>4. IsLongest'
  BY <1>1, LongestStays
<1> QED BY <1>1, <1>2, <1>3, <1>4

LEMMA MatchReads == ASSUME ScanInv, LexInv, Match PROVE LexInv'
<1> DEFINE s == yy_current_state
           l == yy_last_accepting_state
           b == yy_last_accepting_cpos
<1>1. /\ pc = "match" /\ Take(yy_ec[At(yy_cp)])
      /\ pc' = IF Jams(s') THEN "find" ELSE "match"
      /\ UNCHANGED <<input, buffer, yy_c_buf_p, yytext_ptr, yy_hold_char, yy_bp, then, token>>
  BY DEF Match
<1>2. PICK c : c = yy_ec[At(yy_cp)]
  OBVIOUS
<1>3. /\ yy_cp' = yy_cp + 1 /\ s' = NextState(s, c)
      /\ IF yy_accept[s] # 0 THEN l' = s /\ b' = yy_cp ELSE l' = l /\ b' = b
  BY <1>1, <1>2 DEF Take
<1>4. /\ Rest' = Rest /\ Ahead' = Ahead /\ yy_bp' = yy_bp /\ yy_n_chars' = yy_n_chars
      /\ EofSeen' /\ IsLongest'
  BY <1>1, TextStays
<1>5. TypeOK /\ Continues /\ Matching
  BY <1>1 DEF ScanInv
<1>6. /\ yy_cp \in Nat /\ yy_bp \in Nat /\ yy_n_chars \in Nat
      /\ s \in States /\ yy_cp >= yy_bp /\ yy_bp <= yy_n_chars /\ yy_cp <= yy_n_chars + 1
      /\ yy_cp = yy_n_chars + 1 => s = EobState
      /\ s = EobState => yy_cp > yy_bp
  <2>1. yy_bp <= yy_n_chars
    BY <1>1, <1>5 DEF TypeOK
  <2> QED BY <1>5, <2>1, Numbers DEF Matching, Scanned
<1>7. PICK x : x = At(yy_cp)
  OBVIOUS
<1>8. x \in 0 .. 255 /\ c = yy_ec[x] /\ c \in Classes /\ (c = 0 <=> x = NUL)
  <2>1. yy_cp \in 0 .. yy_n_chars + 1
    BY <1>6
  <2>2. x \in 0 .. 255
    BY <1>5, <1>7, <2>1, Chars
  <2> QED BY <1>2, <1>7, <2>2, ClassRows
<1>9. s # JamState
  BY <1>1 DEF LexInv, AtMatch
<1>10. AtAgain'
  <2>1. pc' \in {"find", "match"}
    BY <1>1
  <2> QED BY <2>1 DEF AtAgain
<1>11. CASE s = EobState
  <2>1. s' = JamState
    BY <1>3, <1>6, <1>8, <1>11, Transitions
  <2>2. pc' = "find"
    BY <1>1, <2>1, JamIsPlain
  <2>3. l' = EobState /\ b' = yy_cp
    <3>1. yy_accept[EobState] # 0
      <4>1. EobState \in 0 .. 112 /\ YY_END_OF_BUFFER # 0
        BY DEF EobState, YY_END_OF_BUFFER
      <4> QED BY <4>1, AcceptRows
    <3> QED BY <1>3, <1>11, <3>1
  <2>4. Looked(Rest, yy_cp - 1 - yy_bp, Ahead)
    BY <1>1, <1>11 DEF LexInv, AtMatch
  <2>5. Looked(Rest', b' - 1 - yy_bp', Ahead')
    BY <1>4, <2>3, <2>4
  <2>6. Standing' /\ AtMatch'
    BY <2>1, <2>2 DEF Standing, AtMatch
  <2>7. AtFind'
    BY <2>1, <2>3, <2>5 DEF AtFind
  <2> QED BY <1>4, <1>10, <2>6, <2>7 DEF LexInv
<1>12. CASE s # EobState /\ x = NUL
  <2>1. s \in States \ {EobState, JamState} /\ yy_cp <= yy_n_chars
    BY <1>6, <1>9, <1>12
  <2>2. s' = EobState /\ pc' = "match"
    <3>1. s' = EobState
      BY <1>3, <1>6, <1>8, <1>12, Transitions
    <3> QED BY <1>1, <3>1, JamIsPlain
  <2>3. PICK n \in Nat : n = yy_cp - yy_bp
    BY <1>6
  <2>4. Stand(Rest, s, n, l, b - yy_bp)
    BY <1>1, <2>1, <2>3 DEF LexInv, Standing, Reads
  <2>5. Means(s, Rest, n)
    BY <2>4 DEF Stand
  <2>6. Live(Rest, n)
    BY <2>1, <2>3, <2>5, MeansAlive DEF Live
  <2>7. Open(Rest, n)
    <3>1. CASE n = 0
      BY <3>1 DEF Open
    <3>2. CASE n # 0
      <4>1. Rest[n] = NUL \/ ~Jams(s)
        BY <1>1, <1>6, <1>12, <2>3, <3>2 DEF LexInv, AtMatch
      <4>2. n \in Nat \ {0}
        BY <3>2
      <4>3. Jams(s) <=> ~GrowsIn(Rest, n)
        BY <2>1, <2>5, <4>2, StateAccepts
      <4> QED BY <4>1, <4>3 DEF Open
    <3> QED BY <3>1, <3>2
  <2>8. yy_cp' - 1 - yy_bp' = n
    BY <1>3, <1>4, <1>6, <2>3
  <2>9. Looked(Rest', yy_cp' - 1 - yy_bp', Ahead')
    <3>1. Looked(Rest, n, Ahead)
      BY <2>6, <2>7 DEF Looked
    <3> QED BY <1>4, <2>8, <3>1
  <2>10. Standing' /\ AtFind'
    BY <2>2 DEF Standing, AtFind
  <2>11. AtMatch'
    <3>1. EobState # JamState
      BY DEF EobState, JamState
    <3> QED BY <2>2, <2>9, <3>1 DEF AtMatch
  <2> QED BY <1>4, <1>10, <2>10, <2>11 DEF LexInv
<1>13. CASE s # EobState /\ x # NUL
  <2>1. s \in States \ {EobState, JamState}
    BY <1>6, <1>9, <1>13
  <2>2. yy_cp \in yy_bp .. yy_n_chars - 1
    <3>1. At(yy_n_chars) = NUL
      BY <1>1, <1>5, EndsInNuls
    <3> QED BY <1>6, <1>7, <1>13, <3>1
  <2>3. PICK t : t = s'
    OBVIOUS
  <2>4. t = NextState(s, ClassAgain(At(yy_cp)))
    BY <1>3, <1>7, <1>8, <1>13, <2>3 DEF ClassAgain
  <2>5. PICK l2, b2 : l2 = l' /\ b2 = b'
    OBVIOUS
  <2>6. IF yy_accept[s] # 0 THEN l2 = s /\ b2 = yy_cp ELSE l2 = l /\ b2 = b
    BY <1>3, <2>5
  <2>7. /\ t \in States /\ t # EobState
        /\ IF t = JamState
           THEN /\ yy_cp > yy_bp /\ ~Alive(Rest, (yy_cp - yy_bp) + 1)
                /\ NoneIn(Rest, yy_cp - yy_bp, Len(Rest))
                /\ Back(Rest, l2, b2 - yy_bp) /\ NoneIn(Rest, b2 - yy_bp, Len(Rest))
           ELSE /\ Stand(Rest, t, (yy_cp + 1) - yy_bp, l2, b2 - yy_bp)
                /\ Jams(t) => NoneIn(Rest, (yy_cp + 1) - yy_bp, Len(Rest))
    <3> HIDE DEF s, l, b
    <3>1. pc \in {"match", "again", "nul"}
      BY <1>1
    <3> QED BY <2>1, <2>2, <2>4, <2>6, <3>1, Taken DEF s, l, b
  <2>8. CASE t = JamState
    <3>1. pc' = "find"
      BY <1>1, <2>3, <2>8, JamIsPlain
    <3>2. Back(Rest', l', b' - yy_bp') /\ NoneIn(Rest', b' - yy_bp', Len(Rest'))
      BY <1>4, <2>5, <2>7, <2>8
    <3>3. l' # EobState
      BY <2>5, <2>7, <2>8 DEF Back
    <3>4. Standing' /\ AtMatch'
      BY <2>3, <2>8, <3>1 DEF Standing, AtMatch
    <3>5. AtFind'
      BY <2>3, <2>8, <3>2, <3>3 DEF AtFind
    <3> QED BY <1>4, <1>10, <3>4, <3>5 DEF LexInv
  <2>9. CASE t # JamState
    <3>1. Stand(Rest', s', yy_cp' - yy_bp', l', b' - yy_bp')
      BY <1>3, <1>4, <2>3, <2>5, <2>7, <2>9
    <3>2. Standing'
      BY <3>1 DEF Standing
    <3>3. pc' = "match" => ~Jams(s')
      BY <1>1
    <3>4. AtMatch'
      BY <2>3, <2>7, <2>9, <3>3 DEF AtMatch
    <3>5. pc' = "find" => Jams(t)
      BY <1>1, <2>3
    <3>6. pc' = "find" => NoneIn(Rest', yy_cp' - yy_bp', Len(Rest'))
      BY <1>3, <1>4, <2>7, <2>9, <3>5
    <3>7. AtFind'
      BY <2>3, <2>9, <3>6 DEF AtFind
    <3> QED BY <1>4, <1>10, <3>2, <3>4, <3>7 DEF LexInv
  <2> QED BY <2>8, <2>9
<1> QED BY <1>11, <1>12, <1>13

LEMMA AgainReads == ASSUME ScanInv, LexInv, Again PROVE LexInv'
<1> DEFINE s == yy_current_state
           l == yy_last_accepting_state
           b == yy_last_accepting_cpos
<1>1. /\ pc = "again"
      /\ IF yy_cp < yy_c_buf_p THEN Take(ClassAgain(At(yy_cp))) /\ UNCHANGED pc
         ELSE pc' = then /\ UNCHANGED match
      /\ UNCHANGED <<input, buffer, yy_c_buf_p, yytext_ptr, yy_hold_char, yy_bp, then, token>>
  BY DEF Again
<1>2. /\ Rest' = Rest /\ Ahead' = Ahead /\ yy_bp' = yy_bp /\ yy_n_chars' = yy_n_chars
      /\ pos' = pos /\ text' = text
      /\ EofSeen' /\ IsLongest'
  BY <1>1, TextStays
<1>3. TypeOK /\ GoingOver
  BY <1>1 DEF ScanInv
<1>4. /\ yy_cp \in Nat /\ yy_bp \in Nat /\ yy_n_chars \in Nat
      /\ yy_c_buf_p \in 0 .. yy_n_chars /\ yy_cp <= yy_c_buf_p /\ yy_cp >= yy_bp
      /\ s \in States /\ s # EobState
      /\ then \in {"match", "find", "nul"}
  BY <1>3, Numbers DEF GoingOver, Scanned
<1>5. s # JamState /\ Live(Rest, yy_c_buf_p - yy_bp)
  BY <1>1 DEF LexInv, AtAgain
<1>6. /\ then = "match" => Open(Rest, yy_c_buf_p - yy_bp)
      /\ then = "nul"   => At(yy_c_buf_p) = NUL
      /\ then = "find"  => yy_c_buf_p = yy_n_chars /\ pos = Len(text)
  BY <1>1 DEF LexInv, AtAgain
<1>7. At(yy_c_buf_p)' = At(yy_c_buf_p) /\ yy_c_buf_p' = yy_c_buf_p /\ then' = then
  BY <1>1 DEF At, buffer
<1>8. s' # JamState => AtAgain'
  BY <1>2, <1>5, <1>6, <1>7 DEF AtAgain
<1>9. CASE yy_cp < yy_c_buf_p
  <2>1. /\ yy_cp' = yy_cp + 1 /\ s' = NextState(s, ClassAgain(At(yy_cp))) /\ pc' = "again"
        /\ IF yy_accept[s] # 0 THEN l' = s /\ b' = yy_cp ELSE l' = l /\ b' = b
    BY <1>1, <1>9 DEF Take
  <2>2. s \in States \ {EobState, JamState} /\ yy_cp \in yy_bp .. yy_n_chars - 1
    BY <1>4, <1>5, <1>9
  <2>3. PICK t : t = s'
    OBVIOUS
  <2>4. PICK l2, b2 : l2 = l' /\ b2 = b'
    OBVIOUS
  <2>5. /\ t = NextState(s, ClassAgain(At(yy_cp)))
        /\ IF yy_accept[s] # 0 THEN l2 = s /\ b2 = yy_cp ELSE l2 = l /\ b2 = b
    BY <2>1, <2>3, <2>4
  <2>6. /\ t \in States /\ t # EobState
        /\ IF t = JamState
           THEN /\ yy_cp > yy_bp /\ ~Alive(Rest, (yy_cp - yy_bp) + 1)
                /\ NoneIn(Rest, yy_cp - yy_bp, Len(Rest))
                /\ Back(Rest, l2, b2 - yy_bp) /\ NoneIn(Rest, b2 - yy_bp, Len(Rest))
           ELSE /\ Stand(Rest, t, (yy_cp + 1) - yy_bp, l2, b2 - yy_bp)
                /\ Jams(t) => NoneIn(Rest, (yy_cp + 1) - yy_bp, Len(Rest))
    <3> HIDE DEF s, l, b
    <3>1. pc \in {"match", "again", "nul"}
      BY <1>1
    <3> QED BY <2>2, <2>5, <3>1, Taken DEF s, l, b
  <2>7. t # JamState
    <3> SUFFICES ASSUME t = JamState PROVE FALSE
      OBVIOUS
    <3>1. yy_cp > yy_bp /\ ~Alive(Rest, (yy_cp - yy_bp) + 1)
      BY <2>6
    <3>2. PICK n \in Nat : n = (yy_cp - yy_bp) + 1
      BY <1>4
    <3>3. PICK m \in Nat : m = yy_c_buf_p - yy_bp
      BY <1>4
    <3>4. n >= 2 /\ n <= m
      BY <1>4, <1>9, <3>1, <3>2, <3>3
    <3>5. Alive(Rest, m)
      BY <1>5, <3>3, <3>4 DEF Live
    <3> QED BY <3>1, <3>2, <3>4, <3>5, AliveBefore
  <2>8. Stand(Rest', s', yy_cp' - yy_bp', l', b' - yy_bp')
    BY <1>2, <2>1, <2>3, <2>4, <2>6, <2>7
  <2>9. Standing' /\ AtMatch' /\ AtFind'
    BY <2>1, <2>8 DEF Standing, AtMatch, AtFind
  <2> QED BY <1>2, <1>8, <2>3, <2>7, <2>9 DEF LexInv
<1>10. CASE ~(yy_cp < yy_c_buf_p)
  <2>1. /\ pc' = then /\ s' = s /\ l' = l /\ b' = b /\ yy_cp' = yy_cp
        /\ yy_cp = yy_c_buf_p
    BY <1>1, <1>4, <1>10 DEF match
  <2>2. PICK n \in Nat : n = yy_cp - yy_bp
    BY <1>4
  <2>3. Stand(Rest, s, n, l, b - yy_bp)
    BY <1>1, <1>4, <1>5, <2>2 DEF LexInv, Standing, Reads
  <2>4. Standing'
    <3>1. Stand(Rest', s', yy_cp' - yy_bp', l', b' - yy_bp')
      BY <1>2, <2>1, <2>2, <2>3
    <3> QED BY <3>1 DEF Standing
  <2>5. AtMatch'
    <3>1. ASSUME then = "match", yy_cp > yy_bp PROVE Rest[n] = NUL \/ ~Jams(s)
      <4>1. Open(Rest, n) /\ n \in Nat \ {0}
        BY <1>4, <1>6, <2>1, <2>2, <3>1
      <4>2. Means(s, Rest, n)
        BY <2>3 DEF Stand
      <4>3. s \in States \ {EobState, JamState}
        BY <1>4, <1>5
      <4>4. Jams(s) <=> ~GrowsIn(Rest, n)
        BY <4>1, <4>2, <4>3, StateAccepts
      <4> QED BY <4>1, <4>4 DEF Open
    <3>2. pc' = "match" /\ yy_cp' > yy_bp' => Rest'[yy_cp' - yy_bp'] = NUL \/ ~Jams(s')
      BY <1>2, <2>1, <2>2, <3>1
    <3>3. s' # JamState /\ s' # EobState
      BY <1>4, <1>5, <2>1
    <3> QED BY <3>2, <3>3 DEF AtMatch
  <2>6. AtFind'
    <3>1. s' # JamState
      BY <1>5, <2>1
    <3>2. ASSUME then = "find" PROVE NoneIn(Rest, n, Len(Rest))
      <4>1. yy_cp = yy_n_chars /\ pos = Len(text)
        BY <1>6, <2>1, <3>2
      <4>2. Len(Rest) = (Len(text) - pos) + Ahead /\ pos \in Nat /\ Len(text) \in Nat
        BY <1>1, RestIs
      <4>3. Len(Rest) = n
        BY <1>4, <2>2, <4>1, <4>2 DEF Ahead
      <4> QED BY <4>3 DEF NoneIn
    <3>3. pc' = "find" => NoneIn(Rest', yy_cp' - yy_bp', Len(Rest'))
      BY <1>2, <2>1, <2>2, <3>2
    <3> QED BY <3>1, <3>3 DEF AtFind
  <2>7. AtAgain'
    BY <1>5, <1>8, <2>1
  <2> QED BY <1>2, <2>4, <2>5, <2>6, <2>7 DEF LexInv
<1> QED BY <1>9, <1>10

LEMMA TryNulReads == ASSUME ScanInv, LexInv, TryNul PROVE LexInv'
<1> DEFINE s == yy_current_state
           l == yy_last_accepting_state
           b == yy_last_accepting_cpos
<1>1. /\ pc = "nul"
      /\ IF NextState(s, 1) # JamState
         THEN Take(1) /\ yy_c_buf_p' = yy_cp + 1 /\ pc' = "match"
         ELSE /\ pc' = "find" /\ UNCHANGED <<yy_cp, yy_current_state, yy_c_buf_p>>
              /\ IF yy_accept[s] # 0 THEN l' = s /\ b' = yy_cp ELSE UNCHANGED <<l, b>>
      /\ UNCHANGED <<input, buffer, yytext_ptr, yy_hold_char, yy_bp, then, token>>
  BY DEF TryNul
<1>2. /\ Rest' = Rest /\ Ahead' = Ahead /\ yy_bp' = yy_bp /\ yy_n_chars' = yy_n_chars
      /\ EofSeen' /\ IsLongest'
  BY <1>1, TextStays
<1>3. TypeOK /\ GoingOver /\ then = "nul" /\ yy_cp = yy_c_buf_p
  BY <1>1 DEF ScanInv
<1>4. /\ yy_cp \in Nat /\ yy_bp \in Nat /\ yy_n_chars \in Nat
      /\ yy_cp < yy_n_chars /\ yy_cp >= yy_bp
      /\ s \in States /\ s # EobState
  BY <1>3, Numbers DEF GoingOver, Scanned
<1>5. s # JamState /\ At(yy_cp) = NUL
  BY <1>1, <1>3 DEF LexInv, AtAgain
<1>6. ClassAgain(At(yy_cp)) = 1
  BY <1>5 DEF ClassAgain
<1>7. s \in States \ {EobState, JamState} /\ yy_cp \in yy_bp .. yy_n_chars - 1
  BY <1>4, <1>5
<1>8. PICK t : t = NextState(s, 1)
  OBVIOUS
<1>9. PICK l2, b2 : l2 = l' /\ b2 = b'
  OBVIOUS
<1>10. IF yy_accept[s] # 0 THEN l2 = s /\ b2 = yy_cp ELSE l2 = l /\ b2 = b
  BY <1>1, <1>9 DEF Take
<1>11. /\ t \in States /\ t # EobState
       /\ IF t = JamState
          THEN /\ yy_cp > yy_bp /\ ~Alive(Rest, (yy_cp - yy_bp) + 1)
               /\ NoneIn(Rest, yy_cp - yy_bp, Len(Rest))
               /\ Back(Rest, l2, b2 - yy_bp) /\ NoneIn(Rest, b2 - yy_bp, Len(Rest))
          ELSE /\ Stand(Rest, t, (yy_cp + 1) - yy_bp, l2, b2 - yy_bp)
               /\ Jams(t) => NoneIn(Rest, (yy_cp + 1) - yy_bp, Len(Rest))
  <2> HIDE DEF s, l, b
  <2>1. pc \in {"match", "again", "nul"}
    BY <1>1
  <2>2. t = NextState(s, ClassAgain(At(yy_cp)))
    BY <1>6, <1>8
  <2> QED BY <1>7, <1>10, <2>1, <2>2, Taken DEF s, l, b
<1>12. CASE t = JamState
  <2>1. pc' = "find" /\ s' = s /\ yy_cp' = yy_cp
    BY <1>1, <1>8, <1>12
  <2>2. PICK n \in Nat : n = yy_cp - yy_bp
    BY <1>4
  <2>3. Stand(Rest, s, n, l, b - yy_bp)
    BY <1>1, <1>4, <1>5, <2>2 DEF LexInv, Standing, Reads
  <2>4. Stand(Rest, s, n, l2, b2 - yy_bp)
    BY <1>10, <2>3 DEF Stand
  <2>5. Standing'
    <3>1. Stand(Rest', s', yy_cp' - yy_bp', l', b' - yy_bp')
      BY <1>2, <1>9, <2>1, <2>2, <2>4
    <3> QED BY <3>1 DEF Standing
  <2>6. NoneIn(Rest', yy_cp' - yy_bp', Len(Rest'))
    BY <1>2, <1>11, <1>12, <2>1
  <2>7. AtFind'
    BY <1>5, <2>1, <2>6 DEF AtFind
  <2>8. AtMatch' /\ AtAgain'
    BY <2>1 DEF AtMatch, AtAgain
  <2> QED BY <1>2, <2>5, <2>7, <2>8 DEF LexInv
<1>13. CASE t # JamState
  <2>1. pc' = "match" /\ s' = t /\ yy_cp' = yy_cp + 1
    BY <1>1, <1>8, <1>13 DEF Take
  <2>2. Stand(Rest', s', yy_cp' - yy_bp', l', b' - yy_bp')
    BY <1>2, <1>9, <1>11, <1>13, <2>1
  <2>3. Standing'
    BY <2>2 DEF Standing
  <2>4. Rest'[yy_cp' - yy_bp'] = NUL
    <3>1. At(yy_cp) = Rest[yy_cp - yy_bp + 1]
      BY <1>1, <1>7, RestIs
    <3>2. yy_cp' - yy_bp' = yy_cp - yy_bp + 1
      BY <1>2, <1>4, <2>1
    <3> QED BY <1>2, <1>5, <3>1, <3>2
  <2>5. AtMatch'
    BY <1>11, <1>13, <2>1, <2>4 DEF AtMatch
  <2>6. AtFind' /\ AtAgain'
    BY <2>1 DEF AtFind, AtAgain
  <2> QED BY <1>2, <2>3, <2>5, <2>6 DEF LexInv
<1> QED BY <1>12, <1>13

(* What has been found is the longest match, ... *)
LEMMA Matched ==
  ASSUME ScanInv, LexInv, Found, Act \in Rules
  PROVE  /\ End - yy_bp \in 1 .. Len(Rest)
         /\ FirstRule(Act, Rest, End - yy_bp) /\ NoneIn(Rest, End - yy_bp, Len(Rest))
<1> DEFINE s == yy_current_state
           l == yy_last_accepting_state
           b == yy_last_accepting_cpos
<1>1. pc = "find" /\ Finding
  BY DEF Found, ScanInv
<1>2. /\ yy_cp \in Nat /\ yy_bp \in Nat /\ yy_cp > yy_bp /\ s \in States /\ s # EobState
  <2>1. TypeOK
    BY DEF ScanInv
  <2> QED BY <1>1, <2>1, Numbers DEF Finding, Scanned
<1>3. PICK u : u = Rest
  OBVIOUS
<1>4. Len(u) \in Nat
  BY <1>3, RestIs
<1>5. PICK n \in Nat \ {0} : n = yy_cp - yy_bp
  BY <1>2
<1>6. s # JamState => Stand(u, s, n, l, b - yy_bp) /\ NoneIn(u, n, Len(u))
  BY <1>1, <1>2, <1>3, <1>5 DEF LexInv, Standing, AtFind, Reads
<1>7. PICK m : m = b - yy_bp
  OBVIOUS
<1>8. CASE yy_accept[s] # 0
  <2>1. s # JamState
    BY <1>8, AcceptRows
  <2>2. Means(s, u, n) /\ n \in 1 .. Len(u)
    BY <1>4, <1>6, <2>1 DEF Stand
  <2>3. s \in States \ {EobState, JamState}
    BY <1>2, <2>1
  <2>4. FirstRule(yy_accept[s], u, n)
    BY <2>2, <2>3, StateAccepts
  <2>5. Act = yy_accept[s] /\ End = yy_cp
    BY <1>8 DEF Act, End, BacksUp
  <2> QED BY <1>3, <1>5, <1>6, <2>1, <2>2, <2>4, <2>5
<1>9. CASE yy_accept[s] = 0
  <2>1. Act = yy_accept[l] /\ End = b
    BY <1>9 DEF Act, End, BacksUp
  <2>2. l # EobState
    <3>1. EobState \in 0 .. 112 /\ YY_END_OF_BUFFER \notin Rules
      BY DEF EobState, YY_END_OF_BUFFER, Rules
    <3>2. yy_accept[EobState] = YY_END_OF_BUFFER
      BY <3>1, AcceptRows
    <3> QED BY <2>1, <3>1, <3>2
  <2>3. Back(u, l, m) /\ NoneIn(u, m, Len(u))
    <3>1. CASE s = JamState
      BY <1>1, <1>3, <1>7, <2>2, <3>1 DEF LexInv, AtFind
    <3>2. CASE s # JamState
      <4>1. Back(u, l, m) /\ m <= n /\ NoneIn(u, m, n)
        BY <1>5, <1>6, <1>7, <1>9, <3>2 DEF Stand
      <4>2. m \in Nat
        BY <4>1 DEF Back
      <4>3. NoneIn(u, m, Len(u))
        BY <1>4, <1>6, <3>2, <4>1, <4>2, NoneJoin
      <4> QED BY <4>1, <4>3
    <3> QED BY <3>1, <3>2
  <2>4. l \in States \ {EobState, JamState} /\ m \in 1 .. Len(u) /\ Means(l, u, m)
    BY <2>3 DEF Back
  <2>5. FirstRule(yy_accept[l], u, m)
    <3>1. m \in Nat \ {0}
      BY <2>4
    <3> QED BY <2>4, <3>1, StateAccepts
  <2> QED BY <1>3, <1>7, <2>1, <2>3, <2>4, <2>5
<1> QED BY <1>8, <1>9

(* ... unless it is the end of the buffer. *)
LEMMA NulMet ==
  ASSUME ScanInv, LexInv, AtEnd
  PROVE  /\ yy_last_accepting_state = EobState /\ End = yy_last_accepting_cpos
         /\ Looked(Rest, End - 1 - yy_bp, Ahead)
<1> DEFINE s == yy_current_state
           l == yy_last_accepting_state
           b == yy_last_accepting_cpos
<1>1. pc = "find" /\ Finding /\ Act = YY_END_OF_BUFFER /\ TypeOK
  BY DEF AtEnd, Found, ScanInv
<1>2. /\ yy_cp \in Nat /\ yy_bp \in Nat /\ yy_cp > yy_bp /\ s \in States /\ s # EobState
  BY <1>1, Numbers DEF Finding, Scanned
<1>3. s \in 0 .. 112 /\ l \in 0 .. 112
  BY <1>1, <1>2, AcceptDomain DEF TypeOK, States, JamState
<1>4. yy_accept[s] = 0
  <2> SUFFICES ASSUME yy_accept[s] # 0 PROVE FALSE
    OBVIOUS
  <2>1. Act = yy_accept[s]
    BY DEF Act, BacksUp
  <2> QED BY <1>1, <1>2, <1>3, <2>1, AcceptRows
<1>5. Act = yy_accept[l] /\ End = b
  BY <1>4 DEF Act, End, BacksUp
<1>6. l = EobState
  BY <1>1, <1>3, <1>5, AcceptRows
<1>7. s = JamState
  <2> SUFFICES ASSUME s # JamState PROVE FALSE
    OBVIOUS
  <2>1. PICK n \in Nat : n = yy_cp - yy_bp /\ n > 0
    BY <1>2
  <2>2. Stand(Rest, s, n, l, b - yy_bp)
    BY <1>1, <1>2, <2>1 DEF LexInv, Standing, Reads
  <2>3. Back(Rest, l, b - yy_bp)
    BY <1>4, <2>1, <2>2 DEF Stand
  <2> QED BY <1>6, <2>3 DEF Back
<1>8. Looked(Rest, b - 1 - yy_bp, Ahead)
  BY <1>1, <1>6, <1>7 DEF LexInv, AtFind
<1> QED BY <1>5, <1>6, <1>8

LEMMA DeliverReads == ASSUME ScanInv, LexInv, Deliver PROVE LexInv'
<1>1. /\ pc = "find" /\ Act \in Rules /\ Found
      /\ token' = [sym |-> Symbol(Act), from |-> PlaceOf(yy_bp), to |-> PlaceOf(End)]
      /\ pc' = "start"
      /\ UNCHANGED <<text, pos, yy_buffer_status>>
  BY DEF Deliver, Found, input
<1>2. Standing' /\ AtMatch' /\ AtAgain' /\ AtFind'
  BY <1>1 DEF Standing, AtMatch, AtAgain, AtFind, Reads
<1>3. EofSeen'
  BY <1>1 DEF LexInv, EofSeen
<1>4. TypeOK /\ Continues
  BY DEF ScanInv
<1>5. /\ yy_bp \in Nat /\ yy_n_chars \in Nat /\ pos \in Nat
      /\ token.to = PlaceOf(yy_bp)
  BY <1>1, <1>4, Numbers DEF Continues, Here
<1>6. PICK n : n = End - yy_bp
  OBVIOUS
<1>7. PICK u : u = Rest
  OBVIOUS
<1>8. n \in 1 .. Len(u) /\ FirstRule(Act, u, n) /\ NoneIn(u, n, Len(u)) /\ u \in Seq(Char)
  BY <1>1, <1>6, <1>7, Matched, RestIs
<1>9. PICK r : r = Act
  OBVIOUS
<1>10. r # 0 /\ FirstRule(r, u, n)
  BY <1>1, <1>8, <1>9 DEF Rules
<1>11. u # <<>> /\ Longest(u) = n /\ RuleFor(SubSeq(u, 1, n)) = r
  BY <1>8, <1>10, LongestIs
<1>12. token'.from = token.to /\ token'.to = token'.from + n /\ token'.sym = SymbolOf(r)
  <2>1. End \in yy_bp + 1 .. yy_n_chars + 1
    BY <1>1, WhatIsFound
  <2>2. PICK e \in Nat : e = End
    BY <1>5, <2>1
  <2>3. pos - yy_n_chars + e = (pos - yy_n_chars + yy_bp) + (e - yy_bp)
    BY <1>5, <2>2
  <2>4. PlaceOf(e) = PlaceOf(yy_bp) + (e - yy_bp)
    BY <2>3 DEF PlaceOf
  <2>5. Symbol(r) = SymbolOf(r)
    BY DEF Symbol, SymbolOf
  <2> QED BY <1>1, <1>5, <1>6, <1>9, <2>2, <2>4, <2>5
<1>13. SubSeq(text', token'.from + 1, Len(text')) = u
  BY <1>1, <1>7, <1>12 DEF Rest
<1>14. IsLongest'
  BY <1>11, <1>12, <1>13 DEF IsLongest
<1> QED BY <1>2, <1>3, <1>14 DEF LexInv

LEMMA NulInTextReads == ASSUME ScanInv, LexInv, NulInText PROVE LexInv'
<1>1. /\ AtEnd /\ Real
      /\ yy_buffer_status' = Normal /\ yy_c_buf_p' = End - 1
      /\ pc' = "again" /\ then' = "nul" /\ yy_cp' = yy_bp /\ yy_bp' = yy_bp /\ yy_current_state' = 1
      /\ UNCHANGED <<text, pos, yy_ch_buf, yy_n_chars, token>>
  BY DEF NulInText, GoOver, input
<1>2. /\ yy_bp \in 0 .. yy_n_chars /\ yy_n_chars \in Nat /\ yy_bp \in Nat
      /\ End \in yy_bp + 1 .. yy_n_chars + 1 /\ At(End - 1) = NUL
  <2>1. TypeOK
    BY DEF ScanInv
  <2> QED BY <1>1, <2>1, AtTheEnd, Numbers
<1>3. Rest' = Rest /\ IsLongest'
  BY <1>1, RestStays, LongestStays
<1>4. Standing'
  BY <1>1, <1>2, <1>3, FreshStand
<1>5. PICK e \in Nat : e = End
  BY <1>2
<1>6. Live(Rest', yy_c_buf_p' - yy_bp')
  <2>1. Looked(Rest, e - 1 - yy_bp, Ahead)
    BY <1>1, <1>5, NulMet
  <2>2. yy_c_buf_p' - yy_bp' = e - 1 - yy_bp
    BY <1>1, <1>5
  <2> QED BY <1>3, <2>1, <2>2 DEF Looked
<1>7. At(yy_c_buf_p)' = NUL
  BY <1>1, <1>2 DEF At
<1>8. AtAgain'
  <2>1. yy_current_state' # JamState
    BY <1>1 DEF JamState
  <2> QED BY <1>1, <1>6, <1>7, <2>1 DEF AtAgain
<1>9. AtMatch' /\ AtFind'
  BY <1>1 DEF AtMatch, AtFind
<1>10. EofSeen'
  BY <1>1 DEF LexInv, EofSeen, Normal
<1> QED BY <1>3, <1>4, <1>8, <1>9, <1>10 DEF LexInv

LEMMA GrowReads == ASSUME ScanInv, LexInv, Grow PROVE LexInv'
<1>1. UNCHANGED <<text, pos, yy_buffer_status, yy_ch_buf, yy_n_chars, yy_c_buf_p, match, yy_bp, pc,
                  then, token>>
  BY DEF Grow, input
<1> QED BY <1>1 DEF LexInv, Standing, AtMatch, AtAgain, AtFind, EofSeen, IsLongest, Rest, Reads,
                    Ahead, At, match

LEMMA ReadFailsReads == ASSUME ScanInv, LexInv, ReadFails PROVE LexInv'
<1>1. pc' = "dead" /\ UNCHANGED <<input, buffer, yy_bp, token>>
  BY DEF ReadFails
<1>2. EofSeen' /\ IsLongest'
  BY <1>1, TextStays
<1>3. Standing' /\ AtMatch' /\ AtAgain' /\ AtFind'
  BY <1>1 DEF Standing, AtMatch, AtAgain, AtFind, Reads
<1> QED BY <1>2, <1>3 DEF LexInv

(* A read that brings nothing has come to the end. *)
LEMMA NothingRead ==
  ASSUME ScanInv, LexInv, HasRoom, NextRead = <<>>
  PROVE  pos = Len(text)
<1>1. TypeOK /\ AtEnd /\ ~Real
  BY DEF HasRoom, Fills, ScanInv
<1>2. pos \in 0 .. Len(text) /\ Len(text) \in Nat /\ text \in Seq(0 .. 255) /\ pos \in Nat
  BY <1>1, Numbers
<1>3. CASE ~Reading
  <2>1. yy_buffer_status = "EOF_PENDING"
    BY <1>1, <1>3 DEF Reading, Fills
  <2> QED BY <2>1 DEF LexInv, EofSeen
<1>4. CASE Reading
  <2> SUFFICES ASSUME pos < Len(text) PROVE FALSE
    BY <1>2
  <2>1. Len(Kept) = yy_n_chars - yy_bp /\ yy_bp \in 0 .. yy_n_chars
    BY RefillFrom
  <2>2. Room \in Nat \ {0}
    <3>1. Room > 0
      BY <1>4 DEF HasRoom
    <3>2. yy_n_chars \in Nat /\ yy_buf_size \in Nat
      BY <1>1, Numbers
    <3>3. Len(Kept) \in Nat
      BY <2>1, <3>2
    <3> QED BY <3>1, <3>2, <3>3 DEF Room
  <2>3. PICK n : n = Min({Room, YY_READ_BUF_SIZE})
    OBVIOUS
  <2>4. n \in Nat \ {0}
    <3>1. YY_READ_BUF_SIZE \in Nat \ {0}
      BY ScannerAssumption
    <3>2. {Room, YY_READ_BUF_SIZE} \in SUBSET Nat /\ {Room, YY_READ_BUF_SIZE} # {}
      BY <2>2, <3>1
    <3>3. n \in {Room, YY_READ_BUF_SIZE}
      BY <2>3, <3>2, MinIs
    <3> QED BY <2>2, <3>1, <3>3
  <2>5. PICK w : w = Unread
    OBVIOUS
  <2>6. w \in Seq(0 .. 255) /\ Len(w) \in Nat \ {0}
    <3>1. \A i \in pos + 1 .. Len(text) : text[i] \in 0 .. 255
      BY <1>2, ElementOfSeq
    <3>2. /\ w \in Seq(0 .. 255)
          /\ Len(w) = IF pos + 1 <= Len(text) THEN Len(text) - (pos + 1) + 1 ELSE 0
      BY <1>2, <2>5, <3>1, SubSeqProperties DEF Unread
    <3> QED BY <1>2, <3>2
  <2>7. PICK E : E = {i \in 1 .. Len(w) : yy_is_interactive /\ w[i] = LF}
    OBVIOUS
  <2>8. PICK S : S = {n, Len(w)} \cup E
    OBVIOUS
  <2>9. PICK m : m = Min(S)
    OBVIOUS
  <2>10. m \in Nat \ {0} /\ m <= Len(w)
    <3>1. S \in SUBSET (Nat \ {0}) /\ S # {} /\ Len(w) \in S
      BY <2>4, <2>6, <2>7, <2>8
    <3>2. S \in SUBSET Nat
      BY <3>1
    <3> QED BY <2>9, <3>1, <3>2, MinIs
  <2>11. NextRead = SubSeq(w, 1, m)
    <3>1. NextRead = ReadTo(n)
      BY <1>4, <2>3 DEF NextRead
    <3>2. ReadTo(n) = SubSeq(w, 1, m)
      BY <2>5, <2>7, <2>8, <2>9 DEF ReadTo
    <3> QED BY <3>1, <3>2
  <2>12. Len(SubSeq(w, 1, m)) = m
    BY <2>6, <2>10
  <2>13. Len(NextRead) = 0
    OBVIOUS
  <2> QED BY <2>10, <2>11, <2>12, <2>13
<1> QED BY <1>3, <1>4

(* The end of the buffer: its text is gone over again. *)
LEMMA RefillLooks ==
  ASSUME ScanInv, LexInv, HasRoom
  PROVE  Looked(Rest, Len(Kept), Len(Kept)) /\ Len(Kept) \in Nat /\ Ahead = Len(Kept)
<1>1. AtEnd /\ ~Real /\ TypeOK
  BY DEF HasRoom, Fills, ScanInv
<1>2. End = yy_n_chars + 1 /\ Len(Kept) = yy_n_chars - yy_bp /\ yy_bp \in 0 .. yy_n_chars
  BY RefillFrom
<1>3. yy_n_chars \in Nat
  BY <1>1, Numbers
<1>4. PICK e \in Nat : e = End
  BY <1>2, <1>3
<1>5. Looked(Rest, e - 1 - yy_bp, Ahead)
  BY <1>1, <1>4, NulMet
<1>6. e - 1 - yy_bp = yy_n_chars - yy_bp /\ yy_n_chars - yy_bp \in Nat
  BY <1>2, <1>3, <1>4
<1> QED BY <1>2, <1>5, <1>6 DEF Ahead

LEMMA FillMoreReads == ASSUME ScanInv, LexInv, FillMore PROVE LexInv'
<1>1. /\ HasRoom /\ NextRead # <<>> /\ yy_buffer_status' = Normal
      /\ yy_c_buf_p' = Len(Kept)
      /\ pc' = "again" /\ then' = "match" /\ yy_cp' = 0 /\ yy_bp' = 0 /\ yy_current_state' = 1
      /\ UNCHANGED <<text, token>>
  BY DEF FillMore, Holds, GoOver, input
<1>2. Looked(Rest, Len(Kept), Len(Kept)) /\ Len(Kept) \in Nat
  BY <1>1, RefillLooks
<1>3. Rest' = Rest /\ IsLongest'
  BY <1>1, RestStays, LongestStays
<1>4. Standing'
  BY <1>1, <1>3, FreshStand
<1>5. AtAgain'
  <2>1. yy_c_buf_p' - yy_bp' = Len(Kept)
    BY <1>1, <1>2
  <2>2. Live(Rest', yy_c_buf_p' - yy_bp') /\ Open(Rest', yy_c_buf_p' - yy_bp')
    BY <1>2, <1>3, <2>1 DEF Looked
  <2>3. yy_current_state' # JamState
    BY <1>1 DEF JamState
  <2> QED BY <1>1, <2>2, <2>3 DEF AtAgain
<1>6. AtMatch' /\ AtFind'
  BY <1>1 DEF AtMatch, AtFind
<1>7. EofSeen'
  <2>1. yy_buffer_status # "EOF_PENDING"
    BY <1>1 DEF NextRead, Reading
  <2> QED BY <1>1, <2>1 DEF EofSeen, Normal
<1> QED BY <1>3, <1>4, <1>5, <1>6, <1>7 DEF LexInv

LEMMA FillLastReads == ASSUME ScanInv, LexInv, FillLast PROVE LexInv'
<1>1. /\ HasRoom /\ NextRead = <<>>
      /\ yy_ch_buf' = Buffered(Kept) /\ yy_n_chars' = Len(Kept) /\ pos' = pos
      /\ yy_c_buf_p' = Len(Kept)
      /\ pc' = "again" /\ then' = "find" /\ yy_cp' = 0 /\ yy_bp' = 0 /\ yy_current_state' = 1
      /\ UNCHANGED <<text, token>>
  BY DEF FillLast, Holds, GoOver, AfterLastMatch, input
<1>2. Looked(Rest, Len(Kept), Len(Kept)) /\ Len(Kept) \in Nat
  BY <1>1, RefillLooks
<1>3. pos = Len(text)
  BY <1>1, NothingRead
<1>4. Rest' = Rest /\ IsLongest'
  BY <1>1, RestStays, LongestStays
<1>5. Standing'
  BY <1>1, <1>4, FreshStand
<1>6. AtAgain'
  <2>1. yy_c_buf_p' - yy_bp' = Len(Kept)
    BY <1>1, <1>2
  <2>2. Live(Rest', yy_c_buf_p' - yy_bp')
    BY <1>2, <1>4, <2>1 DEF Looked
  <2>3. yy_current_state' # JamState /\ yy_c_buf_p' = yy_n_chars' /\ pos' = Len(text')
    BY <1>1, <1>3 DEF JamState
  <2> QED BY <1>1, <2>2, <2>3 DEF AtAgain
<1>7. AtMatch' /\ AtFind'
  BY <1>1 DEF AtMatch, AtFind
<1>8. EofSeen'
  BY <1>1, <1>3 DEF EofSeen
<1> QED BY <1>4, <1>5, <1>6, <1>7, <1>8 DEF LexInv

LEMMA FillEndReads == ASSUME ScanInv, LexInv, FillEnd PROVE LexInv'
<1>1. /\ HasRoom /\ NextRead = <<>> /\ Kept = <<>> /\ pos' = pos
      /\ yy_buffer_status' = "NEW" /\ pc' = "eof" /\ text' = text
      /\ token' = [sym |-> "$end", from |-> PlaceOf(yy_bp), to |-> PlaceOf(yy_bp)]
  BY DEF FillEnd, Holds, input
<1>2. pos = Len(text)
  BY <1>1, NothingRead
<1>3. token'.from = token.to
  BY FillEndKeeps
<1>4. token.to = pos /\ pos \in Nat /\ text \in Seq(0 .. 255)
  <2>1. TypeOK
    BY DEF ScanInv
  <2>2. pos = token.to + Len(Kept) /\ token.to \in Nat /\ Len(Kept) = 0
    BY <1>1, RefillFrom
  <2> QED BY <2>1, <2>2, Numbers
<1>5. SubSeq(text', token'.from + 1, Len(text')) = <<>>
  <2>1. SubSeq(text, pos + 1, pos) = <<>>
    BY <1>4
  <2> QED BY <1>1, <1>2, <1>3, <1>4, <2>1
<1>6. token'.sym = "$end"
  BY <1>1
<1>7. IsLongest'
  BY <1>5, <1>6 DEF IsLongest
<1>8. Standing' /\ AtMatch' /\ AtAgain' /\ AtFind'
  BY <1>1 DEF Standing, AtMatch, AtAgain, AtFind, Reads
<1>9. EofSeen'
  BY <1>1 DEF EofSeen
<1> QED BY <1>7, <1>8, <1>9 DEF LexInv

LEMMA InitReads == ASSUME Init PROVE LexInv
BY DEF Init, LexInv, Standing, AtMatch, AtAgain, AtFind, EofSeen, IsLongest, Reads

LEMMA StepReads == ASSUME ScanInv, LexInv, [Next]_vars PROVE LexInv'
<1>1. CASE Start
  BY <1>1, StartReads
<1>2. CASE Match
  BY <1>2, MatchReads
<1>3. CASE Again
  BY <1>3, AgainReads
<1>4. CASE Deliver
  BY <1>4, DeliverReads
<1>5. CASE NulInText
  BY <1>5, NulInTextReads
<1>6. CASE TryNul
  BY <1>6, TryNulReads
<1>7. CASE Grow
  BY <1>7, GrowReads
<1>8. CASE FillMore
  BY <1>8, FillMoreReads
<1>9. CASE FillLast
  BY <1>9, FillLastReads
<1>10. CASE FillEnd
  BY <1>10, FillEndReads
<1>11. CASE ReadFails
  BY <1>11, ReadFailsReads
<1>12. CASE UNCHANGED vars
  <2>1. UNCHANGED <<input, buffer,
          match, yy_c_buf_p, yytext_ptr, yy_hold_char, yy_bp, pc, then, token>>
    BY <1>12 DEF vars
  <2> QED BY <2>1 DEF LexInv, Standing, AtMatch, AtAgain, AtFind, EofSeen, IsLongest, Rest, Reads,
                      Ahead, At, input, buffer, match
<1> QED BY <1>1, <1>2, <1>3, <1>4, <1>5, <1>6, <1>7, <1>8, <1>9, <1>10, <1>11, <1>12
        DEF Next, Steps

(* LexInv is invariant: in each state the automaton has read what the      *)
(* state means, whatever is typed and however reads cut it up.             *)
THEOREM AutomatonInvariant == Spec => []LexInv
BY InitReads, StepReads, ScannerInvariant, PTL DEF Spec

(* Each token is the longest match of SqlParser.l's rules, and of the      *)
(* first rule that matches as much: the tables and the loops of lex.sql.c  *)
(* recognize for any text, however it is cut up by reads, what the rules   *)
(* say.                                                                    *)
THEOREM TokensStayLongest == Spec => []TokensAreLongest
<1>1. LexInv => TokensAreLongest
  BY DEF LexInv, IsLongest, TokensAreLongest
<1> QED BY <1>1, AutomatonInvariant, PTL

LEMMA ReadingIsNeeded == ASSUME ScanInv, LexInv PROVE ReadsOnlyIfNeeded
<1> SUFFICES ASSUME Reading PROVE Undecided(Kept)
  BY DEF ReadsOnlyIfNeeded
<1>1. AtEnd /\ ~Real /\ TypeOK /\ Continues /\ pc = "find"
  BY DEF Reading, Fills, AtEnd, Found, ScanInv
<1>2. End = yy_n_chars + 1 /\ yy_bp \in 0 .. yy_n_chars /\ yy_n_chars \in Nat
  BY <1>1, AtTheEnd, Numbers
<1>3. PICK n \in Nat : n = yy_n_chars - yy_bp
  BY <1>2
<1>4. PICK u : u = Rest
  OBVIOUS
<1>5. Open(u, n)
  <2>1. PICK e \in Nat : e = End
    BY <1>2
  <2>2. Looked(u, e - 1 - yy_bp, Ahead)
    BY <1>1, <1>4, <2>1, NulMet
  <2>3. e - 1 - yy_bp = n /\ Ahead = n
    BY <1>2, <1>3, <2>1 DEF Ahead
  <2> QED BY <2>2, <2>3 DEF Looked
<1>6. /\ u \in Seq(Char)
      /\ \A p \in yy_bp .. yy_n_chars - 1 : At(p) = u[p - yy_bp + 1]
  BY <1>1, <1>4, RestIs
<1>7. PICK k : k = Kept
  OBVIOUS
<1>8. /\ k \in Seq(Char) /\ Len(k) = n /\ \A i \in 1 .. n : k[i] = yy_ch_buf[yy_bp + i]
  <2>1. k = SubSeq(yy_ch_buf, yy_bp + 1, yy_n_chars)
    BY <1>2, <1>7 DEF Kept, Slice
  <2>2. ASSUME NEW i \in yy_bp + 1 .. yy_n_chars PROVE yy_ch_buf[i] \in 0 .. 255
    <3>1. i \in 1 .. Len(yy_ch_buf) /\ yy_ch_buf \in Seq(0 .. 255)
      BY <1>1, <1>2, Numbers
    <3> QED BY <3>1, ElementOfSeq
  <2>3. /\ k \in Seq(0 .. 255)
        /\ Len(k) = IF yy_bp + 1 <= yy_n_chars THEN yy_n_chars - (yy_bp + 1) + 1 ELSE 0
        /\ \A i \in 1 .. yy_n_chars - (yy_bp + 1) + 1 : k[i] = yy_ch_buf[yy_bp + 1 + i - 1]
    BY <1>2, <2>1, <2>2, SubSeqProperties
  <2> QED BY <1>2, <1>3, <2>3 DEF Char
<1>9. ASSUME NEW i \in 1 .. n PROVE k[i] = u[i]
  <2>1. PICK p : p = yy_bp + i - 1
    OBVIOUS
  <2>2. p \in yy_bp .. yy_n_chars - 1 /\ p + 1 = yy_bp + i /\ p - yy_bp + 1 = i
    BY <1>2, <1>3, <2>1
  <2>3. At(p) = u[i] /\ At(p) = yy_ch_buf[yy_bp + i]
    BY <1>6, <2>2 DEF At
  <2> QED BY <1>8, <2>3
<1>10. CASE n = 0
  <2>1. k = <<>>
    BY <1>8, <1>10
  <2> QED BY <1>7, <2>1 DEF Undecided, CanGrow
<1>11. CASE n # 0
  <2>1. n \in Nat \ {0} /\ IsRead(k, u, n)
    BY <1>8, <1>9, <1>11 DEF IsRead
  <2>2. CanGrow(k) <=> GrowsIn(u, n)
    BY <2>1, GrowsRead
  <2>3. Last(k) = u[n]
    BY <1>8, <1>9, <1>11 DEF Last
  <2> QED BY <1>5, <1>7, <1>11, <2>2, <2>3 DEF Open, Undecided
<1> QED BY <1>10, <1>11

(* The scanner asks for more text only if it may change the token: what it *)
(* has may be the beginning of a longer match, or ends in a NUL, of which  *)
(* it does not know whether it is one of the text.                         *)
THEOREM ReadsAreNeeded == Spec => []ReadsOnlyIfNeeded
<1>1. ScanInv /\ LexInv => ReadsOnlyIfNeeded
  BY ReadingIsNeeded
<1> QED BY <1>1, ScannerInvariant, AutomatonInvariant, PTL

=============================================================================
