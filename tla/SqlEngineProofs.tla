---------------------------- MODULE SqlEngineProofs ----------------------------
(***************************************************************************)
(* Proofs about SqlEngine, for any tables, load files, queries and size of *)
(* an int, whatever calls fail and wherever the process ends: a SELECT     *)
(* answers with the rows that meet its conditions, in their order and once *)
(* each, as long as keys and conditions differ by an int; and a LOAD has   *)
(* added the lines of its file that append() accepted.                     *)
(***************************************************************************)
EXTENDS SqlEngine, SequenceTheorems, FiniteSetTheorems, WellFoundedInduction, TLAPS

(* A set of naturals that is not empty has a least element. *)
LEMMA LeastElementExists ==
  ASSUME NEW S \in SUBSET Nat, S # {}
  PROVE  \E i \in S : \A j \in S : i <= j
<1> DEFINE R == {ss \in Nat \X Nat : ss[1] < ss[2]}
<1>1. IsWellFoundedOn(R, Nat)
  BY NatLessThanWellFounded DEF OpToRel
<1>2. PICK i \in S : \A j \in S : <<j, i>> \notin R
  <2> HIDE DEF R
  <2> QED BY <1>1, WFMin
<1>3. \A j \in S : ~(j < i)
  BY <1>2
<1> QED BY <1>3

(* A set of integers that is not empty and has an upper bound has a        *)
(* greatest element.                                                       *)
LEMMA GreatestElementExists ==
  ASSUME NEW S \in SUBSET Int, S # {}, NEW top \in Int, \A k \in S : k <= top
  PROVE  \E g \in S : \A k \in S : k <= g
<1> DEFINE Gaps == {top - k : k \in S}
<1>1. Gaps \in SUBSET Nat /\ Gaps # {}
  <2>1. \A k \in S : top - k \in Nat
    OBVIOUS
  <2> QED BY <2>1
<1>2. PICK d \in Gaps : \A j \in Gaps : d <= j
  BY <1>1, LeastElementExists
<1>3. PICK g \in S : d = top - g
  BY <1>2
<1>4. \A k \in S : k <= g
  <2> TAKE k \in S
  <2>1. top - k \in Gaps
    OBVIOUS
  <2> HIDE DEF Gaps
  <2>2. top - g <= top - k
    BY <2>1, <1>2, <1>3
  <2> QED BY <2>2
<1> QED BY <1>4

-----------------------------------------------------------------------------
(* The invariant *)

Misread == "RC_FILE_READ_FAILED"
Codes   == {"RC_FILE_OPEN_FAILED", Misread, "RC_FILE_WRITE_FAILED"}

LoadStmts ==
  [op : {"load"}, table : Tables, lines : LoadFiles, at : Nat \ {0}, value : Values,
   base : Seq(Records), kept : Seq(Nat), errors : SUBSET Codes]

SelectStmts ==
  [op : {"select", "exit_select"}, table : Tables, query : Queries, at : Nat, end : Nat,
   diff : Int, count : Nat, rows : Seq(Seq(Int))]

Ascending(kept) == \A j \in 2 .. Len(kept) : kept[j - 1] < kept[j]

(* A LOAD has added the lines that append() accepted among those it has    *)
(* read, and its value is that of the last line.                           *)
Loading ==
  /\ stmt \in LoadStmts
  /\ stmt.at <= Len(stmt.lines) + 1
  /\ using[rf] \in {stmt.table, NoTable}
  /\ stmt.kept \in Seq(1 .. stmt.at - 1) /\ Ascending(stmt.kept)
  /\ stmt.errors = {} => Len(stmt.kept) = stmt.at - 1
  /\ Misread \notin stmt.errors =>
       rf \notin doubt /\ log[stmt.table] = stmt.base \o KeptRows(stmt.lines, stmt.kept)
  /\ stmt.value = ValueOf(stmt.lines, stmt.at - 1)

(* A SELECT has counted and printed what matches among the rows it has     *)
(* read, and the table has the length it had at first.                     *)
Selecting ==
  LET rows == log[stmt.table]
  IN /\ stmt \in SelectStmts
     /\ using[rf] = stmt.table
     /\ stmt.op = "select" => rf \notin doubt
     /\ stmt.end = Len(rows) /\ stmt.at <= stmt.end
     /\ Sensible(stmt.query.conds, rows) =>
          /\ stmt.count = Cardinality(Matching(stmt.query.conds, rows, stmt.at))
          /\ IF stmt.query.attr \in Columns
             THEN IsPrinted(stmt.query, rows, stmt.at, stmt.rows)
             ELSE stmt.rows = <<>>

EngineInv == /\ TypeOK
             /\ stmt = NoStmt \/ Loading \/ Selecting
             /\ stmt = NoStmt \/ result = NoResult
             /\ SelectAnswers
             /\ LoadAdds

-----------------------------------------------------------------------------
(* Conditions *)

LEMMA InputIntegers ==
  /\ Keys \subseteq Int /\ Values \subseteq Int
  /\ \A c \in Conditions : c.value \in Int /\ c.comp \in Comparators
  /\ \A rec \in Records : rec.key \in Int /\ rec.value \in Int
<1>1. Keys \subseteq Int /\ Values \subseteq Int
  BY EngineAssumption
<1> QED BY <1>1 DEF Conditions, Records

LEMMA WrappedInt == ASSUME NEW i \in Int PROVE Wrapped(i) \in Int
<1> DEFINE m == 2 * MaxInt + 2
<1>1. m \in Int /\ m > 0 /\ i + MaxInt + 1 \in Int /\ MaxInt \in Int
  BY EngineAssumption
<1> HIDE DEF m
<1>2. (i + MaxInt + 1) % m \in Int
  BY <1>1
<1> QED BY <1>1, <1>2 DEF Wrapped, m

(* What an int can hold is computed exactly. *)
LEMMA WrappedIsExact == ASSUME NEW i \in -MaxInt - 1 .. MaxInt PROVE Wrapped(i) = i
<1> DEFINE m == 2 * MaxInt + 2
           j == i + MaxInt + 1
<1>1. m \in Int /\ m > 0 /\ j \in Int /\ 0 <= j /\ j < m /\ MaxInt \in Int /\ i \in Int
  BY EngineAssumption
<1>2. j % m = j
  <2> HIDE DEF m, j
  <2> QED BY <1>1
<1> QED BY <1>1, <1>2 DEF Wrapped

LEMMA RejectsExactly ==
  ASSUME NEW comp \in Comparators, NEW a \in Int, NEW b \in Int
  PROVE  Rejects(comp, a - b) <=> ~Holds(comp, a, b)
<1>1. CASE comp = "EQ"
  BY <1>1 DEF Rejects, Holds
<1>2. CASE comp = "NE"
  BY <1>2 DEF Rejects, Holds
<1>3. CASE comp = "GT"
  BY <1>3 DEF Rejects, Holds
<1>4. CASE comp = "LT"
  BY <1>4 DEF Rejects, Holds
<1>5. CASE comp = "GE"
  BY <1>5 DEF Rejects, Holds
<1>6. CASE comp = "LE"
  BY <1>6 DEF Rejects, Holds
<1> QED BY <1>1, <1>2, <1>3, <1>4, <1>5, <1>6 DEF Comparators

(* A condition on a known attribute compares the row that is being read,   *)
(* whatever diff was before.                                               *)
LEMMA DiffExact ==
  ASSUME NEW rec, NEW conds \in Seq(Conditions), NEW diff,
         NEW i \in 1 .. Len(conds), conds[i].attr # NoAttribute
  PROVE  DiffAfter(rec, conds, diff, i) = Difference(rec, conds[i])
<1> DEFINE known == {j \in 1 .. i : conds[j].attr # NoAttribute}
           Last(j) == \A k \in known : k <= j
<1>1. i \in known /\ known \subseteq Int
  OBVIOUS
<1>2. \A j \in known : j <= i
  OBVIOUS
<1>3. \A j \in known : Last(j) <=> j = i
  <2> HIDE DEF known
  <2> QED BY <1>1, <1>2
<1>4. (CHOOSE j \in known : Last(j)) = i
  <2> HIDE DEF known, Last
  <2> QED BY <1>1, <1>3
<1>5. known # {}
  BY <1>1
<1> QED BY <1>4, <1>5 DEF DiffAfter

(* diff is an int as long as it starts as one. *)
LEMMA DiffInt ==
  ASSUME NEW rec \in Records, NEW conds \in Seq(Conditions), NEW diff \in Int,
         NEW i \in 0 .. Len(conds)
  PROVE  DiffAfter(rec, conds, diff, i) \in Int
<1> DEFINE known == {j \in 1 .. i : conds[j].attr # NoAttribute}
           j == CHOOSE j \in known : \A k \in known : k <= j
<1>1. CASE known = {}
  BY <1>1 DEF DiffAfter
<1>2. CASE known # {}
  <2>1. \A k \in known : k \in Int /\ k <= i
    OBVIOUS
  <2>2. i \in Int /\ known \in SUBSET Int
    OBVIOUS
  <2>3. \E l \in known : \A k \in known : k <= l
    <3> HIDE DEF known
    <3> QED BY <1>2, <2>1, <2>2, GreatestElementExists
  <2>4. j \in known
    <3> HIDE DEF known
    <3> QED BY <2>3
  <2>5. conds[j] \in Conditions
    BY <2>4
  <2>6. Difference(rec, conds[j]) \in Int
    <3>1. rec.key - conds[j].value \in Int /\ rec.value - conds[j].value \in Int
      BY <2>5, InputIntegers
    <3> QED BY <3>1, WrappedInt DEF Difference
  <2>7. DiffAfter(rec, conds, diff, i) = Difference(rec, conds[j])
    BY <1>2 DEF DiffAfter
  <2> QED BY <2>6, <2>7
<1> QED BY <1>1, <1>2

(* diff keeps its meaning over a tuple. *)
LEMMA TriedInt ==
  ASSUME NEW rec \in Records, NEW conds \in Seq(Conditions), NEW diff \in Int
  PROVE  Tried(rec, conds, diff).diff \in Int
<1> DEFINE rejecting == {i \in 1 .. Len(conds) :
                          Rejects(conds[i].comp, DiffAfter(rec, conds, diff, i))}
           first == CHOOSE i \in rejecting : \A j \in rejecting : i <= j
           last == IF rejecting = {} THEN Len(conds) ELSE first
<1>1. last \in 0 .. Len(conds)
  <2>1. CASE rejecting = {}
    BY <2>1
  <2>2. CASE rejecting # {}
    <3>1. rejecting \in SUBSET Nat
      OBVIOUS
    <3>2. first \in rejecting
      <4> HIDE DEF rejecting
      <4> QED BY <2>2, <3>1, LeastElementExists
    <3> QED BY <2>2, <3>2
  <2> QED BY <2>1, <2>2
<1>2. Tried(rec, conds, diff).diff = DiffAfter(rec, conds, diff, last)
  BY DEF Tried
<1> HIDE DEF last
<1> QED BY <1>1, <1>2, DiffInt

(* Without an overflow a tuple passes exactly if it meets each condition. *)
LEMMA TriedExactly ==
  ASSUME NEW rec \in Records, NEW conds \in Seq(Conditions), NEW diff \in Int,
         \A i \in 1 .. Len(conds) :
           /\ conds[i].attr # NoAttribute
           /\ conds[i].attr = KeyColumn => rec.key - conds[i].value \in -MaxInt - 1 .. MaxInt
  PROVE  Tried(rec, conds, diff).met <=> Meets(rec, conds)
<1>1. ASSUME NEW i \in 1 .. Len(conds)
      PROVE  Rejects(conds[i].comp, DiffAfter(rec, conds, diff, i)) <=>
             ~Holds(conds[i].comp, IF conds[i].attr = KeyColumn THEN rec.key ELSE rec.value,
                    conds[i].value)
  <2>1. /\ conds[i].value \in Int /\ conds[i].comp \in Comparators
        /\ rec.key \in Int /\ rec.value \in Int
    BY InputIntegers
  <2>2. DiffAfter(rec, conds, diff, i) = Difference(rec, conds[i])
    BY DiffExact
  <2>3. CASE conds[i].attr = KeyColumn
    <3>1. Difference(rec, conds[i]) = rec.key - conds[i].value
      BY <2>3, WrappedIsExact DEF Difference
    <3> QED BY <2>1, <2>2, <2>3, <3>1, RejectsExactly
  <2>4. CASE conds[i].attr # KeyColumn
    <3>1. Difference(rec, conds[i]) = rec.value - conds[i].value
      BY <2>4 DEF Difference
    <3> QED BY <2>1, <2>2, <2>4, <3>1, RejectsExactly
  <2> QED BY <2>3, <2>4
<1>2. Tried(rec, conds, diff).met <=>
        \A i \in 1 .. Len(conds) : ~Rejects(conds[i].comp, DiffAfter(rec, conds, diff, i))
  BY DEF Tried
<1> QED BY <1>1, <1>2 DEF Meets

-----------------------------------------------------------------------------
(* What is printed *)

LEMMA MatchingGrows ==
  ASSUME NEW conds, NEW rows, NEW n \in Nat
  PROVE  /\ IsFiniteSet(Matching(conds, rows, n))
         /\ Cardinality(Matching(conds, rows, n)) \in Nat
         /\ Matching(conds, rows, n + 1) =
              IF Meets(rows[n + 1], conds) THEN Matching(conds, rows, n) \cup {n + 1}
                                           ELSE Matching(conds, rows, n)
         /\ Cardinality(Matching(conds, rows, n + 1)) =
              Cardinality(Matching(conds, rows, n)) + (IF Meets(rows[n + 1], conds) THEN 1 ELSE 0)
<1> DEFINE M == Matching(conds, rows, n)
           N == Matching(conds, rows, n + 1)
<1>1. IsFiniteSet(M)
  <2>1. IsFiniteSet(1 .. n)
    BY FS_Interval
  <2>2. M \subseteq 1 .. n
    BY DEF Matching
  <2> QED BY <2>1, <2>2, FS_Subset
<1>2. Cardinality(M) \in Nat
  BY <1>1, FS_CardinalityType
<1>3. 1 .. n + 1 = (1 .. n) \cup {n + 1}
  OBVIOUS
<1>4. N = IF Meets(rows[n + 1], conds) THEN M \cup {n + 1} ELSE M
  BY <1>3 DEF Matching
<1>5. n + 1 \notin M
  BY DEF Matching
<1>6. Cardinality(M \cup {n + 1}) = Cardinality(M) + 1
  <2> HIDE DEF M
  <2> QED BY <1>1, <1>5, FS_AddElement
<1>7. Cardinality(N) = Cardinality(M) + (IF Meets(rows[n + 1], conds) THEN 1 ELSE 0)
  <2> HIDE DEF M, N
  <2> QED BY <1>2, <1>4, <1>6
<1> QED BY <1>1, <1>2, <1>4, <1>7

(* A match has a place, between the first and the last. *)
LEMMA PlaceInRange ==
  ASSUME NEW conds, NEW rows, NEW n \in Nat, NEW i \in Matching(conds, rows, n)
  PROVE  Cardinality(Matching(conds, rows, i)) \in 1 .. Cardinality(Matching(conds, rows, n))
<1> DEFINE M == Matching(conds, rows, i)
           N == Matching(conds, rows, n)
<1>1. i \in 1 .. n /\ Meets(rows[i], conds)
  BY DEF Matching
<1>2. IsFiniteSet(N) /\ IsFiniteSet(M) /\ Cardinality(M) \in Nat /\ Cardinality(N) \in Nat
  <2>1. i \in Nat
    BY <1>1
  <2> QED BY <2>1, MatchingGrows
<1>3. M \subseteq N /\ i \in M
  BY <1>1 DEF Matching
<1> HIDE DEF M, N
<1>4. Cardinality(M) <= Cardinality(N)
  BY <1>2, <1>3, FS_Subset
<1>5. Cardinality(M) # 0
  BY <1>2, <1>3, FS_EmptySet
<1> QED BY <1>2, <1>4, <1>5 DEF M, N

LEMMA PrintedStart ==
  ASSUME NEW query, NEW rows
  PROVE  IsPrinted(query, rows, 0, <<>>) /\ Cardinality(Matching(query.conds, rows, 0)) = 0
<1>1. Matching(query.conds, rows, 0) = {}
  BY DEF Matching
<1> QED BY <1>1, FS_EmptySet DEF IsPrinted

(* Printing a row, or passing it by *)
LEMMA PrintedGrows ==
  ASSUME NEW query, NEW rows, NEW n \in Nat, NEW S, NEW printed \in Seq(S),
         IsPrinted(query, rows, n, printed), Printed(query.attr, rows[n + 1]) \in S
  PROVE  IsPrinted(query, rows, n + 1,
                   IF Meets(rows[n + 1], query.conds)
                   THEN Append(printed, Printed(query.attr, rows[n + 1])) ELSE printed)
<1> DEFINE M(k) == Matching(query.conds, rows, k)
           P(k) == Cardinality(M(k))
           row == Printed(query.attr, rows[n + 1])
<1>1. /\ Len(printed) = P(n) /\ P(n) \in Nat
      /\ \A i \in M(n) : P(i) \in 1 .. P(n) /\ printed[P(i)] = Printed(query.attr, rows[i])
  BY PlaceInRange, MatchingGrows DEF IsPrinted
<1>2. CASE ~Meets(rows[n + 1], query.conds)
  <2>1. M(n + 1) = M(n)
    BY <1>2, MatchingGrows
  <2> QED BY <1>1, <1>2, <2>1 DEF IsPrinted
<1>3. CASE Meets(rows[n + 1], query.conds)
  <2>1. M(n + 1) = M(n) \cup {n + 1} /\ P(n + 1) = P(n) + 1
    BY <1>3, MatchingGrows
  <2> HIDE DEF M, P
  <2>2. Len(Append(printed, row)) = P(n + 1)
    BY <1>1, <2>1
  <2>3. \A i \in M(n) : Append(printed, row)[P(i)] = Printed(query.attr, rows[i])
    <3> HIDE DEF row
    <3> QED BY <1>1 DEF row
  <2>4. Append(printed, row)[P(n + 1)] = row
    BY <1>1, <2>1
  <2> QED BY <1>3, <2>1, <2>2, <2>3, <2>4 DEF IsPrinted, M, P
<1> QED BY <1>2, <1>3

-----------------------------------------------------------------------------
(* The lines of a load file *)

LEMMA ValueType ==
  ASSUME NEW lines \in Seq(Lines), NEW i \in 0 .. Len(lines)
  PROVE  ValueOf(lines, i) \in Values
<1> DEFINE given == {j \in 1 .. i : lines[j].comma}
           last == CHOOSE j \in given : \A k \in given : k <= j
<1>1. CASE given = {}
  BY <1>1, EngineAssumption DEF ValueOf
<1>2. CASE given # {}
  <2>1. i \in Int /\ given \in SUBSET Int /\ \A k \in given : k <= i
    OBVIOUS
  <2>2. last \in given
    <3> HIDE DEF given
    <3> QED BY <1>2, <2>1, GreatestElementExists
  <2>3. lines[last] \in Lines
    BY <2>2
  <2> QED BY <1>2, <2>3 DEF ValueOf, Lines
<1> QED BY <1>1, <1>2

(* What parseLoadLine does is to take the value of the last line that has  *)
(* a comma.                                                                *)
LEMMA ValueNext ==
  ASSUME NEW lines \in Seq(Lines), NEW i \in 1 .. Len(lines)
  PROVE  ValueOf(lines, i) = ParsedValue(lines[i], ValueOf(lines, i - 1))
<1> DEFINE given(n) == {j \in 1 .. n : lines[j].comma}
           Last(n) == CHOOSE j \in given(n) : \A k \in given(n) : k <= j
<1>1. CASE lines[i].comma
  <2>1. i \in given(i) /\ \A k \in given(i) : k \in Int /\ k <= i
    BY <1>1
  <2>2. \A j \in given(i) : (\A k \in given(i) : k <= j) <=> j = i
    <3> HIDE DEF given
    <3> QED BY <2>1
  <2>3. Last(i) = i
    <3> HIDE DEF given
    <3> QED BY <2>1, <2>2
  <2>4. given(i) # {}
    BY <2>1
  <2>5. ValueOf(lines, i) = lines[Last(i)].value
    BY <2>4, Zenon DEF ValueOf
  <2> HIDE DEF Last
  <2> QED BY <1>1, <2>3, <2>5 DEF ParsedValue
<1>2. CASE ~lines[i].comma
  <2>1. given(i) = given(i - 1)
    <3> SUFFICES ASSUME NEW j PROVE j \in given(i) <=> j \in given(i - 1)
      OBVIOUS
    <3>1. CASE j = i
      BY <3>1, <1>2
    <3>2. CASE j # i
      BY <3>2
    <3> QED BY <3>1, <3>2
  <2>2. \A m : ValueOf(lines, m) = IF given(m) = {} THEN 0 ELSE lines[Last(m)].value
    BY Zenon DEF ValueOf
  <2>3. Last(i) = Last(i - 1)
    BY <2>1
  <2> HIDE DEF given, Last
  <2>4. ValueOf(lines, i) = ValueOf(lines, i - 1)
    BY <2>1, <2>2, <2>3
  <2> QED BY <1>2, <2>4 DEF ParsedValue
<1> QED BY <1>1, <1>2

LEMMA RowType ==
  ASSUME NEW lines \in Seq(Lines), NEW i \in 1 .. Len(lines)
  PROVE  RowOf(lines, i) \in Records
<1>1. ValueOf(lines, i) \in Values
  <2>1. i \in 0 .. Len(lines)
    OBVIOUS
  <2> QED BY <2>1, ValueType
<1>2. lines[i] \in Lines
  OBVIOUS
<1>3. lines[i].key \in Keys
  BY <1>2 DEF Lines
<1> QED BY <1>1, <1>3, EngineAssumption DEF RowOf, Record, Records

LEMMA KeptType ==
  ASSUME NEW lines \in Seq(Lines), NEW kept \in Seq(1 .. Len(lines))
  PROVE  KeptRows(lines, kept) \in Seq(Records) /\ Len(KeptRows(lines, kept)) = Len(kept)
<1>1. \A j \in 1 .. Len(kept) : RowOf(lines, kept[j]) \in Records
  <2> TAKE j \in 1 .. Len(kept)
  <2>1. kept[j] \in 1 .. Len(lines)
    OBVIOUS
  <2> QED BY <2>1, RowType
<1> QED BY <1>1 DEF KeptRows

LEMMA KeptGrows ==
  ASSUME NEW lines \in Seq(Lines), NEW kept \in Seq(1 .. Len(lines)),
         NEW i \in 1 .. Len(lines)
  PROVE  KeptRows(lines, Append(kept, i)) = Append(KeptRows(lines, kept), RowOf(lines, i))
<1> DEFINE n == Len(kept)
           more == Append(kept, i)
           old == KeptRows(lines, kept)
           u == KeptRows(lines, more)
           v == Append(old, RowOf(lines, i))
<1>1. /\ more \in Seq(1 .. Len(lines)) /\ Len(more) = n + 1 /\ n \in Nat
      /\ \A j \in 1 .. n : more[j] = kept[j]
      /\ more[n + 1] = i
  BY AppendProperties
<1>2. old \in Seq(Records) /\ Len(old) = n
  BY KeptType
<1>3. u \in Seq(Records) /\ Len(u) = n + 1
  <2> HIDE DEF more
  <2> QED BY <1>1, KeptType
<1>4. /\ v \in Seq(Records) /\ Len(v) = n + 1
      /\ \A j \in 1 .. n : v[j] = old[j]
      /\ v[n + 1] = RowOf(lines, i)
  <2> HIDE DEF old
  <2> QED BY <1>2, RowType, AppendProperties
<1>5. \A j \in 1 .. n + 1 : u[j] = RowOf(lines, more[j])
  <2> HIDE DEF more
  <2> QED BY <1>1 DEF KeptRows
<1>6. \A j \in 1 .. n : old[j] = RowOf(lines, kept[j])
  BY DEF KeptRows
<1> HIDE DEF n, more, old, u, v
<1>7. \A j \in 1 .. n + 1 : u[j] = v[j]
  <2> TAKE j \in 1 .. n + 1
  <2>1. CASE j = n + 1
    BY <2>1, <1>1, <1>4, <1>5
  <2>2. CASE j # n + 1
    <3>1. j \in 1 .. n
      BY <2>2, <1>1
    <3> QED BY <3>1, <1>1, <1>4, <1>5, <1>6
  <2> QED BY <2>1, <2>2
<1>8. u = v
  BY <1>3, <1>4, <1>7, SeqEqual
<1> QED BY <1>8 DEF u, v, more, old

LEMMA AppendBehind ==
  ASSUME NEW s \in Seq(Records), NEW t \in Seq(Records), NEW x \in Records
  PROVE  Append(s \o t, x) = s \o Append(t, x)
<1>1. <<x>> \in Seq(Records) /\ s \o t \in Seq(Records)
  BY ConcatProperties
<1>2. Append(s \o t, x) = (s \o t) \o <<x>> /\ Append(t, x) = t \o <<x>>
  BY <1>1, AppendIsConcat
<1> QED BY <1>1, <1>2, ConcatAssociative

LEMMA AscendingGrows ==
  ASSUME NEW i \in Nat \ {0}, NEW kept \in Seq(1 .. i - 1), Ascending(kept)
  PROVE  Append(kept, i) \in Seq(1 .. i) /\ Ascending(Append(kept, i))
<1> DEFINE more == Append(kept, i)
           n == Len(kept)
<1>1. kept \in Seq(1 .. i) /\ n \in Nat
  OBVIOUS
<1>2. /\ more \in Seq(1 .. i) /\ Len(more) = n + 1
      /\ \A j \in 1 .. n : more[j] = kept[j]
      /\ more[n + 1] = i
  BY <1>1, AppendProperties
<1>3. \A j \in 1 .. n : kept[j] < i
  OBVIOUS
<1>4. Ascending(more)
  <2> HIDE DEF more
  <2> SUFFICES ASSUME NEW j \in 2 .. n + 1 PROVE more[j - 1] < more[j]
    BY <1>2 DEF Ascending
  <2>1. CASE j = n + 1
    <3>1. j - 1 = n /\ n \in 1 .. n
      BY <2>1, <1>1
    <3> QED BY <2>1, <3>1, <1>2, <1>3
  <2>2. CASE j # n + 1
    <3>1. j \in 2 .. n /\ j - 1 \in 1 .. n /\ j \in 1 .. n
      BY <2>2, <1>1
    <3> QED BY <3>1, <1>2 DEF Ascending
  <2> QED BY <2>1, <2>2
<1> QED BY <1>2, <1>4

-----------------------------------------------------------------------------
(* The steps *)

LEMMA EngineInvInit == Init => EngineInv
<1> SUFFICES ASSUME Init PROVE EngineInv
  OBVIOUS
<1>1. log \in [Tables -> Seq(Records)] /\ doubt = {} /\ spoiled = FALSE
  BY DEF Init, Log!LogInit
<1>2. using \in [{rf} -> Tables \cup {NoTable}] /\ using[rf] = NoTable
  BY DEF Init, Log!LogInit
<1>3. stmt.op = "none"
  BY DEF Init, NoStmt
<1>4. TypeOK
  BY <1>1, <1>2, <1>3 DEF TypeOK
<1> QED BY <1>4 DEF Init, EngineInv, NoStmt, NoResult, SelectAnswers, LoadAdds

(* Calls that leave the tables as they are, and statements that are over *)
LEMMA QuietStep ==
  ASSUME EngineInv, UNCHANGED log,
         using' \in [{rf} -> Tables \cup {NoTable}],
         doubt' \in SUBSET {rf}, spoiled' \in BOOLEAN,
         \/ stmt' = NoStmt /\ using'[rf] = NoTable /\ doubt' = {}
         \/ result' = NoResult /\ (Loading' \/ Selecting'),
         SelectAnswers', LoadAdds'
  PROVE  EngineInv'
<1>1. /\ stmt'.op \in {"none", "load", "select", "exit_select"}
      /\ stmt'.op = "none" => using'[rf] = NoTable /\ doubt' = {}
  <2>1. CASE stmt' = NoStmt /\ using'[rf] = NoTable /\ doubt' = {}
    BY <2>1 DEF NoStmt
  <2>2. CASE Loading'
    <3>1. stmt'.op = "load"
      BY <2>2 DEF Loading, LoadStmts
    <3> QED BY <3>1
  <2>3. CASE Selecting'
    <3>1. stmt'.op \in {"select", "exit_select"}
      BY <2>3 DEF Selecting, SelectStmts
    <3> QED BY <3>1
  <2> QED BY <2>1, <2>2, <2>3
<1>2. TypeOK'
  BY <1>1 DEF EngineInv, TypeOK
<1> QED BY <1>2 DEF EngineInv

(* The object of a statement goes away. *)
LEMMA EndOfObject ==
  ASSUME EngineInv, CloseAndDestroy \/ Log!Released(rf, "destroy")
  PROVE  /\ UNCHANGED log
         /\ using' \in [{rf} -> Tables \cup {NoTable}] /\ using'[rf] = NoTable
         /\ doubt' \in SUBSET {rf} /\ doubt' = {} /\ spoiled' \in BOOLEAN
<1>1. Log!LetGo(rf) /\ spoiled' \in {spoiled, TRUE}
  BY DEF CloseAndDestroy, Log!Released, Log!CloseFailed
<1>2. /\ using \in [{rf} -> Tables \cup {NoTable}] /\ doubt \in SUBSET {rf}
      /\ spoiled \in BOOLEAN
  BY DEF EngineInv, TypeOK
<1> QED BY <1>1, <1>2 DEF Log!LetGo

(* A call that fails. *)
LEMMA FailedCall ==
  ASSUME EngineInv, NEW op, NEW i, Fails(op, i)
  PROVE  /\ UNCHANGED <<log, using>> /\ answer'.rc \in Codes /\ answer'.rc # "OK"
         /\ doubt' \in SUBSET {rf} /\ spoiled' \in BOOLEAN
         /\ answer'.rc # Misread \/ using[rf] = NoTable => doubt' = doubt
<1>1. PICK c \in Codes : Log!Failed(op, rf, c, i)
  BY DEF Fails, Codes, Misread
<1>2. answer'.rc = c
  BY <1>1 DEF Log!Failed, Log!Answer
<1>3. doubt \in SUBSET {rf} /\ spoiled \in BOOLEAN
  BY DEF EngineInv, TypeOK
<1>4. spoiled' \in BOOLEAN
  BY <1>1, <1>3 DEF Log!Failed
<1> QED BY <1>1, <1>2, <1>3, <1>4 DEF Log!Failed, Codes, Misread

LEMMA LoadStartFine ==
  ASSUME EngineInv, NEW t \in Tables, NEW lines \in LoadFiles, LoadStart(t, lines)
  PROVE  EngineInv'
<1>1. /\ using \in [{rf} -> Tables \cup {NoTable}] /\ log[t] \in Seq(Records)
      /\ using[rf] = NoTable /\ doubt = {} /\ spoiled \in BOOLEAN
  BY DEF EngineInv, TypeOK, LoadStart, NoStmt
<1>2. stmt' = [op |-> "load", table |-> t, lines |-> lines, at |-> 1, value |-> 0,
               base |-> log[t], kept |-> <<>>, errors |-> Errors(answer'.rc)]
  BY DEF LoadStart
<1>3. /\ UNCHANGED log /\ doubt' = {} /\ spoiled' \in BOOLEAN
      /\ using' = [using EXCEPT ![rf] = t] \/ using' = using
      /\ Errors(answer'.rc) \in SUBSET Codes
  <2>1. CASE Log!Opened(rf, t)
    BY <2>1, <1>1 DEF Log!Opened, Log!Answer, Errors
  <2>2. CASE Fails("open", 0)
    BY <2>2, <1>1, FailedCall DEF Errors
  <2> QED BY <2>1, <2>2 DEF LoadStart
<1>4. Len(lines) \in Nat /\ lines \in Seq(Lines)
  BY InputAssumption
<1>5. stmt' \in LoadStmts
  BY <1>1, <1>2, <1>3, EngineAssumption DEF LoadStmts
<1>6. ValueOf(lines, 0) = 0 /\ <<>> \in Seq(1 .. 0) /\ Ascending(<<>>)
  BY DEF ValueOf, Ascending
<1>7. log[t] \o KeptRows(lines, <<>>) = log[t]
  <2>1. KeptRows(lines, <<>>) = <<>>
    BY DEF KeptRows
  <2> QED BY <2>1, <1>1, ConcatEmptySeq
<1>8. /\ stmt'.at = 1 /\ stmt'.lines = lines /\ stmt'.kept = <<>> /\ stmt'.value = 0
      /\ stmt'.base = log[t] /\ stmt'.table = t /\ stmt'.at - 1 = 0 /\ Len(<<>>) = 0
      /\ 1 <= Len(lines) + 1
  BY <1>2, <1>4
<1>9. using'[rf] \in {t, NoTable} /\ log'[t] = log[t]
  BY <1>1, <1>3
<1>10. Loading'
  BY <1>3, <1>5, <1>6, <1>7, <1>8, <1>9 DEF Loading
<1>11. result' = NoResult
  BY DEF LoadStart
<1>12. SelectAnswers' /\ LoadAdds'
  BY <1>11 DEF NoResult, SelectAnswers, LoadAdds
<1>13. using' \in [{rf} -> Tables \cup {NoTable}]
  BY <1>1, <1>3
<1> QED BY <1>3, <1>10, <1>11, <1>12, <1>13, QuietStep

LEMMA LoadOver ==
  ASSUME EngineInv, stmt.op = "load"
  PROVE  Loading /\ stmt # NoStmt /\ result = NoResult
BY DEF EngineInv, NoStmt, Selecting, SelectStmts

LEMMA LoadUnreadableFine ==
  ASSUME EngineInv, LoadUnreadable
  PROVE  EngineInv'
<1>1. /\ UNCHANGED log
      /\ using' \in [{rf} -> Tables \cup {NoTable}] /\ using'[rf] = NoTable
      /\ doubt' \in SUBSET {rf} /\ doubt' = {} /\ spoiled' \in BOOLEAN
  BY EndOfObject DEF LoadUnreadable
<1>2. Loading /\ stmt.at = 1
  BY LoadOver DEF LoadUnreadable
<1>3. PICK rc \in {0, 1} :
        /\ stmt' = NoStmt
        /\ result' = [op |-> "load", rc |-> rc, table |-> stmt.table, lines |-> <<>>,
                      base |-> stmt.base, kept |-> stmt.kept, errors |-> stmt.errors]
  BY DEF LoadUnreadable, Finish, Loaded
<1>4. SelectAnswers'
  BY <1>3 DEF SelectAnswers
<1>5. LoadAdds'
  <2>1. stmt.kept \in Seq(1 .. 0) /\ Len(stmt.kept) \in Nat
    BY <1>2 DEF Loading
  <2>2. stmt.kept = <<>>
    <3>1. ASSUME Len(stmt.kept) > 0 PROVE FALSE
      <4>1. stmt.kept[1] \in 1 .. 0
        BY <3>1, <2>1
      <4> QED BY <4>1
    <3> QED BY <2>1, <3>1
  <2>3. KeptRows(stmt.lines, <<>>) = <<>> /\ KeptRows(<<>>, <<>>) = <<>>
    BY DEF KeptRows
  <2>4. Misread \notin stmt.errors => log'[stmt.table] = stmt.base \o KeptRows(<<>>, <<>>)
    BY <1>1, <1>2, <2>2, <2>3 DEF Loading
  <2>5. /\ result'.table = stmt.table /\ result'.lines = <<>> /\ result'.base = stmt.base
        /\ result'.kept = <<>> /\ result'.errors = stmt.errors
    BY <1>3, <2>2
  <2>6. Len(<<>>) = 0
    OBVIOUS
  <2> QED BY <2>4, <2>5, <2>6 DEF LoadAdds, Misread
<1> QED BY <1>1, <1>3, <1>4, <1>5, QuietStep

LEMMA LoadLineFine ==
  ASSUME EngineInv, LoadLine
  PROVE  EngineInv'
<1> DEFINE t == stmt.table
           lines == stmt.lines
           at == stmt.at
           line == lines[at]
           v == ParsedValue(line, stmt.value)
           kept == IF answer'.rc = "OK" THEN Append(stmt.kept, at) ELSE stmt.kept
           errors == stmt.errors \cup Errors(answer'.rc)
           rows == log[t]
<1>1. Loading /\ result = NoResult
  BY LoadOver DEF LoadLine
<1>2. /\ stmt \in LoadStmts /\ t \in Tables /\ lines \in Seq(Lines)
      /\ at \in 1 .. Len(lines) /\ line \in Lines
  <2>1. stmt \in LoadStmts /\ stmt.at <= Len(stmt.lines)
    BY <1>1 DEF Loading, LoadLine
  <2>2. t \in Tables /\ lines \in Seq(Lines) /\ at \in Nat \ {0}
    BY <2>1, InputAssumption DEF LoadStmts
  <2> QED BY <2>1, <2>2
<1>3. v \in Values /\ line.value \in Values /\ line.key \in Keys
  BY <1>2 DEF ParsedValue, Lines, LoadStmts
<1>4. stmt' = [stmt EXCEPT !.at = at + 1, !.value = v, !.kept = kept, !.errors = errors]
  BY DEF LoadLine
<1>5. /\ stmt.kept \in Seq(1 .. at - 1) /\ Ascending(stmt.kept) /\ stmt.kept \in Seq(Nat)
      /\ stmt.errors \in SUBSET Codes /\ stmt.base \in Seq(Records)
      /\ stmt.errors = {} => Len(stmt.kept) = at - 1
      /\ stmt.value = ValueOf(lines, at - 1)
      /\ Misread \notin stmt.errors =>
           rf \notin doubt /\ rows = stmt.base \o KeptRows(lines, stmt.kept)
      /\ using[rf] \in {t, NoTable}
  BY <1>1 DEF Loading, LoadStmts
<1>6. v = ValueOf(lines, at)
  BY <1>2, <1>5, ValueNext
<1>7. result' = NoResult
  BY <1>1 DEF LoadLine
<1>8. SelectAnswers' /\ LoadAdds'
  BY <1>7 DEF NoResult, SelectAnswers, LoadAdds
<1>9. /\ log \in [Tables -> Seq(Records)] /\ using \in [{rf} -> Tables \cup {NoTable}]
      /\ doubt \in SUBSET {rf} /\ spoiled \in BOOLEAN /\ rows \in Seq(Records)
  BY <1>2 DEF EngineInv, TypeOK
<1>10. at + 1 <= Len(lines) + 1 /\ at + 1 - 1 = at /\ at + 1 \in Nat \ {0} /\ at \in Nat \ {0}
  BY <1>2
<1>11. ASSUME kept \in Seq(1 .. at), kept \in Seq(Nat), Ascending(kept),
              errors \in SUBSET Codes,
              errors = {} => Len(kept) = at,
              Misread \notin errors =>
                rf \notin doubt' /\ log'[t] = stmt.base \o KeptRows(lines, kept),
              using'[rf] \in {t, NoTable}
       PROVE  Loading' /\ stmt'.op = "load"
  <2> DEFINE n == at + 1
  <2>1. stmt' = [stmt EXCEPT !.at = n, !.value = v, !.kept = kept, !.errors = errors]
    BY <1>4 DEF n
  <2>2. n \in Nat \ {0} /\ n <= Len(lines) + 1 /\ n - 1 = at
    BY <1>10
  <2> HIDE DEF n, v, kept, errors
  <2>3. /\ stmt' \in LoadStmts /\ stmt'.table = t /\ stmt'.lines = lines /\ stmt'.at = n
        /\ stmt'.base = stmt.base /\ stmt'.kept = kept /\ stmt'.errors = errors
        /\ stmt'.value = v /\ stmt'.op = "load"
    BY <1>2, <1>3, <1>11, <2>1, <2>2 DEF LoadStmts
  <2> QED BY <1>6, <1>11, <2>2, <2>3 DEF Loading
<1>12. CASE Fails("append", 0)
  <2>1. /\ UNCHANGED <<log, using>> /\ answer'.rc \in Codes /\ answer'.rc # "OK"
        /\ doubt' \in SUBSET {rf} /\ spoiled' \in BOOLEAN
        /\ answer'.rc # Misread => doubt' = doubt
    BY <1>12, FailedCall
  <2>2. kept = stmt.kept /\ errors = stmt.errors \cup {answer'.rc}
    BY <2>1 DEF Errors
  <2>3. stmt.kept \in Seq(1 .. at)
    BY <1>5, <1>10
  <2>4. errors # {} /\ errors \in SUBSET Codes
    BY <2>1, <2>2, <1>5
  <2>5. Misread \notin errors =>
          rf \notin doubt' /\ log'[t] = stmt.base \o KeptRows(lines, kept)
    BY <2>1, <2>2, <1>5
  <2>6. Loading'
    <3> HIDE DEF kept, errors
    <3>1. /\ kept \in Seq(1 .. at) /\ kept \in Seq(Nat) /\ Ascending(kept)
          /\ using'[rf] \in {t, NoTable}
      BY <1>5, <2>1, <2>2, <2>3
    <3> QED BY <1>11, <2>4, <2>5, <3>1
  <2> QED BY <1>7, <1>8, <1>9, <2>1, <2>6, QuietStep
<1>13. CASE Log!Appended(rf, Record(line.key, v))
  <2> DEFINE r == Record(line.key, v)
             stored == RowOf(lines, at)
  <2>1. r \in Records /\ r.key = line.key /\ r.value = v
    BY <1>3 DEF Record, Records
  <2>2. stored \in Records /\ stored = Record(line.key, Cut[v])
    BY <1>2, <1>6, RowType DEF RowOf
  <2>3. PICK l \in Log!Before(rf, log[using[rf]]) :
          log' = [log EXCEPT ![using[rf]] = Append(l, stored)]
    BY <1>13, <2>1, <2>2 DEF Log!Appended
  <2>4. /\ using[rf] # NoTable /\ UNCHANGED <<using, spoiled>>
        /\ doubt' = doubt \/ doubt' = doubt \ {rf}
        /\ answer'.rc = "OK"
    BY <1>13 DEF Log!Appended, Log!Answer
  <2>5. using[rf] = t /\ l \in Seq(Records) /\ (rf \notin doubt => l = rows)
    <3>1. using[rf] = t
      BY <1>5, <2>4
    <3>2. rf \notin doubt => l = rows
      BY <3>1, <2>3 DEF Log!Before
    <3>3. rf \in doubt => l \in [1 .. Len(rows) -> Records]
      BY <3>1, <2>3, InputAssumption DEF Log!Before
    <3>4. Len(rows) \in Nat
      BY <1>9
    <3> HIDE DEF rows
    <3> QED BY <3>1, <3>2, <3>3, <3>4, <1>9
  <2>6. log' \in [Tables -> Seq(Records)] /\ log'[t] = Append(l, stored)
    <3> HIDE DEF stored
    <3>1. Append(l, stored) \in Seq(Records)
      BY <2>2, <2>5, AppendProperties
    <3> QED BY <1>2, <1>9, <2>3, <2>5, <3>1
  <2>7. kept = Append(stmt.kept, at) /\ errors = stmt.errors
    BY <2>4 DEF Errors
  <2>8. kept \in Seq(1 .. at) /\ Ascending(kept)
    BY <2>7, <1>5, <1>10, AscendingGrows
  <2>9. errors = {} => Len(kept) = at
    <3>1. Len(kept) = Len(stmt.kept) + 1
      BY <2>7, <1>5, <1>10, AppendProperties
    <3>2. stmt.errors = {} => Len(stmt.kept) = at - 1
      BY <1>5
    <3>3. errors = stmt.errors
      BY <2>7
    <3>4. at \in Nat
      BY <1>10
    <3> HIDE DEF kept, errors, at
    <3> QED BY <3>1, <3>2, <3>3, <3>4
  <2>10. ASSUME Misread \notin errors
         PROVE  rf \notin doubt' /\ log'[t] = stmt.base \o KeptRows(lines, kept)
    <3>1. rf \notin doubt /\ rows = stmt.base \o KeptRows(lines, stmt.kept)
      BY <2>7, <2>10, <1>5
    <3>2. stmt.kept \in Seq(1 .. Len(lines))
      BY <1>2, <1>5
    <3>3. KeptRows(lines, stmt.kept) \in Seq(Records)
      BY <1>2, <3>2, KeptType
    <3>4. KeptRows(lines, kept) = Append(KeptRows(lines, stmt.kept), stored)
      BY <1>2, <2>7, <3>2, KeptGrows
    <3>5. log'[t] = Append(stmt.base \o KeptRows(lines, stmt.kept), stored)
      BY <2>5, <2>6, <3>1
    <3> HIDE DEF stored, kept, rows
    <3>6. log'[t] = stmt.base \o Append(KeptRows(lines, stmt.kept), stored)
      BY <1>5, <2>2, <3>3, <3>5, AppendBehind
    <3> QED BY <2>4, <3>1, <3>4, <3>6
  <2>11. Loading' /\ stmt'.op = "load"
    <3> HIDE DEF kept, errors
    <3>1. kept \in Seq(Nat)
      BY <2>8, <1>10
    <3>2. errors \in SUBSET Codes /\ using'[rf] \in {t, NoTable}
      BY <2>4, <2>7, <1>5
    <3> QED BY <1>11, <2>8, <2>9, <2>10, <3>1, <3>2
  <2>12. TypeOK'
    BY <1>9, <2>4, <2>6, <2>11 DEF TypeOK
  <2> QED BY <1>7, <1>8, <2>11, <2>12 DEF EngineInv
<1> QED BY <1>12, <1>13 DEF LoadLine

LEMMA LoadEndFine ==
  ASSUME EngineInv, LoadEnd
  PROVE  EngineInv'
<1>1. /\ UNCHANGED log
      /\ using' \in [{rf} -> Tables \cup {NoTable}] /\ using'[rf] = NoTable
      /\ doubt' \in SUBSET {rf} /\ doubt' = {} /\ spoiled' \in BOOLEAN
  BY EndOfObject DEF LoadEnd
<1>2. Loading /\ stmt.at > Len(stmt.lines)
  BY LoadOver DEF LoadEnd
<1>3. PICK rc \in {0, 1} :
        /\ stmt' = NoStmt
        /\ result' = [op |-> "load", rc |-> rc, table |-> stmt.table, lines |-> stmt.lines,
                      base |-> stmt.base, kept |-> stmt.kept, errors |-> stmt.errors]
  BY DEF LoadEnd, Finish, Loaded
<1>4. SelectAnswers'
  BY <1>3 DEF SelectAnswers
<1>5. LoadAdds'
  <2>1. stmt.at - 1 = Len(stmt.lines)
    <3>1. stmt.at \in Nat /\ stmt.lines \in Seq(Lines)
      BY <1>2, InputAssumption DEF Loading, LoadStmts
    <3>2. stmt.at <= Len(stmt.lines) + 1
      BY <1>2 DEF Loading
    <3> QED BY <1>2, <3>1, <3>2
  <2> QED BY <1>1, <1>2, <1>3, <2>1 DEF LoadAdds, Loading, Misread, Ascending
<1> QED BY <1>1, <1>3, <1>4, <1>5, QuietStep

LEMMA SelectStartFine ==
  ASSUME EngineInv, NEW t \in Tables, NEW q \in Queries, SelectStart(t, q)
  PROVE  EngineInv'
<1>1. /\ UNCHANGED log /\ log[t] \in Seq(Records) /\ Len(log[t]) \in Nat
      /\ using \in [{rf} -> Tables \cup {NoTable}] /\ stmt = NoStmt
      /\ using[rf] = NoTable /\ doubt = {} /\ spoiled \in BOOLEAN
  <2>1. stmt = NoStmt /\ stmt.op = "none"
    BY DEF SelectStart, NoStmt
  <2>2. /\ log \in [Tables -> Seq(Records)]
        /\ using \in [{rf} -> Tables \cup {NoTable}] /\ spoiled \in BOOLEAN
        /\ using[rf] = NoTable /\ doubt = {}
    BY <2>1 DEF EngineInv, TypeOK
  <2>3. UNCHANGED log
    BY FailedCall DEF SelectStart, Log!Opened
  <2> QED BY <2>1, <2>2, <2>3
<1>2. CASE /\ Log!Opened(rf, t) /\ result' = NoResult
           /\ \E d \in {-1, 0, 1} :
                stmt' = [op |-> "select", table |-> t, query |-> q, at |-> 0,
                         end |-> Len(log[t]), diff |-> d, count |-> 0, rows |-> <<>>]
  <2>1. PICK d \in {-1, 0, 1} :
          stmt' = [op |-> "select", table |-> t, query |-> q, at |-> 0,
                   end |-> Len(log[t]), diff |-> d, count |-> 0, rows |-> <<>>]
    BY <1>2
  <2>2. stmt' \in SelectStmts
    BY <1>1, <2>1 DEF SelectStmts
  <2>3. using' = [using EXCEPT ![rf] = t] /\ doubt' = {} /\ spoiled' \in BOOLEAN
    BY <1>1, <1>2 DEF Log!Opened
  <2>4. IsPrinted(q, log[t], 0, <<>>) /\ Cardinality(Matching(q.conds, log[t], 0)) = 0
    BY PrintedStart
  <2>5. Selecting'
    BY <1>1, <2>1, <2>2, <2>3, <2>4 DEF Selecting
  <2>6. SelectAnswers' /\ LoadAdds'
    BY <1>2 DEF NoResult, SelectAnswers, LoadAdds
  <2> QED BY <1>1, <1>2, <2>3, <2>5, <2>6, QuietStep
<1>3. CASE /\ Fails("open", 0)
           /\ Finish([op |-> "select", rc |-> -1, query |-> q, table |-> t,
                      count |-> 0, rows |-> <<>>])
  <2>1. stmt' = NoStmt /\ result'.op = "select" /\ result'.rc = -1
    BY <1>3 DEF Finish
  <2>2. using' = using /\ doubt' = {} /\ spoiled' \in BOOLEAN
    BY <1>1, <1>3, FailedCall
  <2>3. SelectAnswers' /\ LoadAdds'
    BY <2>1 DEF SelectAnswers, LoadAdds
  <2> QED BY <1>1, <1>3, <2>1, <2>2, <2>3, QuietStep
<1> QED BY <1>2, <1>3 DEF SelectStart

LEMMA SelectOver ==
  ASSUME EngineInv, stmt.op \in {"select", "exit_select"}
  PROVE  /\ Selecting /\ stmt # NoStmt /\ result = NoResult
         /\ log[stmt.table] \in Seq(Records) /\ stmt.query \in Queries
         /\ stmt.query.conds \in Seq(Conditions)
<1>1. Selecting /\ stmt # NoStmt /\ result = NoResult
  <2>1. ~Loading
    BY DEF Loading, LoadStmts
  <2>2. stmt # NoStmt
    BY DEF NoStmt
  <2> QED BY <2>1, <2>2 DEF EngineInv
<1> QED BY <1>1, InputAssumption DEF EngineInv, TypeOK, Selecting, SelectStmts

LEMMA PrintedType ==
  ASSUME NEW attr, NEW rec \in Records
  PROVE  Printed(attr, rec) \in Seq(Int)
<1>1. rec.key \in Int /\ rec.value \in Int
  BY InputIntegers
<1>2. <<rec.key>> \in Seq(Int) /\ <<rec.value>> \in Seq(Int) /\ <<>> \in Seq(Int)
      /\ <<rec.key, rec.value>> \in Seq(Int)
  BY <1>1
<1> QED BY <1>2 DEF Printed

LEMMA SelectTupleFine ==
  ASSUME EngineInv, SelectTuple
  PROVE  EngineInv'
<1> DEFINE rows == log[stmt.table]
           conds == stmt.query.conds
           attr == stmt.query.attr
           n == stmt.at
           rec == rows[n + 1]
           t == Tried(rec, conds, stmt.diff)
           count == IF t.met THEN stmt.count + 1 ELSE stmt.count
           printed == IF t.met /\ attr \in Columns
                      THEN Append(stmt.rows, Printed(attr, rec)) ELSE stmt.rows
<1>1. /\ Selecting /\ result = NoResult /\ stmt.op = "select" /\ rows \in Seq(Records)
      /\ conds \in Seq(Conditions)
  BY SelectOver DEF SelectTuple
<1>2. /\ n \in Nat /\ stmt.end = Len(rows) /\ n < stmt.end /\ stmt.end \in Nat
      /\ rec \in Records /\ stmt.diff \in Int /\ stmt.count \in Nat
      /\ stmt.rows \in Seq(Seq(Int)) /\ stmt \in SelectStmts /\ using[rf] = stmt.table
      /\ rf \notin doubt
  <2>1. /\ stmt \in SelectStmts /\ stmt.end = Len(rows) /\ ~(n >= stmt.end)
        /\ using[rf] = stmt.table /\ rf \notin doubt
    BY <1>1 DEF Selecting, SelectTuple, SelectDone
  <2>2. /\ n \in Nat /\ stmt.end \in Nat /\ stmt.diff \in Int /\ stmt.count \in Nat
        /\ stmt.rows \in Seq(Seq(Int))
    BY <2>1 DEF SelectStmts
  <2>3. n < stmt.end
    BY <2>1, <2>2
  <2> QED BY <1>1, <2>1, <2>2, <2>3
<1>3. answer'.rec = rec /\ UNCHANGED <<log, using, doubt, spoiled>>
  BY <1>2 DEF SelectTuple, Log!Found, Log!Answer
<1>4. stmt' = [stmt EXCEPT !.at = n + 1, !.diff = t.diff, !.count = count, !.rows = printed]
  BY <1>3 DEF SelectTuple
<1>5. t.diff \in Int
  BY <1>1, <1>2, TriedInt
<1>6. count \in Nat /\ printed \in Seq(Seq(Int)) /\ n + 1 \in Nat
  <2>1. Printed(attr, rec) \in Seq(Int)
    BY <1>2, PrintedType
  <2> QED BY <1>2, <2>1
<1>7. /\ stmt' \in SelectStmts /\ stmt'.op = "select" /\ stmt'.table = stmt.table
      /\ stmt'.query = stmt.query /\ stmt'.at = n + 1 /\ stmt'.end = stmt.end
      /\ stmt'.count = count /\ stmt'.rows = printed
  <2> DEFINE d == t.diff
             m == n + 1
  <2>1. stmt' = [stmt EXCEPT !.at = m, !.diff = d, !.count = count, !.rows = printed]
    BY <1>4
  <2>2. d \in Int /\ m \in Nat
    BY <1>5, <1>6
  <2> HIDE DEF d, m, count, printed
  <2>3. /\ stmt' \in SelectStmts /\ stmt'.op = "select" /\ stmt'.table = stmt.table
        /\ stmt'.query = stmt.query /\ stmt'.at = m /\ stmt'.end = stmt.end
        /\ stmt'.count = count /\ stmt'.rows = printed
    BY <1>1, <1>2, <1>6, <2>1, <2>2 DEF SelectStmts
  <2> QED BY <2>3 DEF m
<1>8. ASSUME Sensible(conds, rows)
      PROVE  /\ count = Cardinality(Matching(conds, rows, n + 1))
             /\ IF attr \in Columns THEN IsPrinted(stmt.query, rows, n + 1, printed)
                                   ELSE printed = <<>>
  <2>1. t.met <=> Meets(rec, conds)
    <3>1. n + 1 \in 1 .. Len(rows)
      BY <1>2
    <3>2. \A i \in 1 .. Len(conds) :
            /\ conds[i].attr # NoAttribute
            /\ conds[i].attr = KeyColumn => rec.key - conds[i].value \in -MaxInt - 1 .. MaxInt
      BY <1>8, <3>1 DEF Sensible
    <3> HIDE DEF t
    <3> QED BY <1>1, <1>2, <3>2, TriedExactly DEF t
  <2>2. /\ stmt.count = Cardinality(Matching(conds, rows, n))
        /\ IF attr \in Columns THEN IsPrinted(stmt.query, rows, n, stmt.rows)
                              ELSE stmt.rows = <<>>
    BY <1>1, <1>8 DEF Selecting
  <2>3. Cardinality(Matching(conds, rows, n + 1)) =
          Cardinality(Matching(conds, rows, n)) + (IF Meets(rec, conds) THEN 1 ELSE 0)
    BY <1>2, MatchingGrows
  <2>4. count = Cardinality(Matching(conds, rows, n + 1))
    BY <1>2, <2>1, <2>2, <2>3
  <2>5. CASE attr \notin Columns
    BY <2>2, <2>4, <2>5
  <2>6. CASE attr \in Columns
    <3>1. Printed(attr, rec) \in Seq(Int)
      BY <1>2, PrintedType
    <3>2. IsPrinted(stmt.query, rows, n + 1,
                    IF Meets(rec, conds) THEN Append(stmt.rows, Printed(attr, rec))
                                         ELSE stmt.rows)
      BY <1>2, <2>2, <2>6, <3>1, PrintedGrows
    <3>3. printed = IF Meets(rec, conds) THEN Append(stmt.rows, Printed(attr, rec))
                                         ELSE stmt.rows
      BY <2>1, <2>6
    <3> QED BY <2>4, <2>6, <3>2, <3>3
  <2> QED BY <2>5, <2>6
<1>9. Selecting'
  <2> HIDE DEF count, printed
  <2>1. n + 1 <= stmt.end
    BY <1>2
  <2> QED BY <1>2, <1>3, <1>7, <1>8, <2>1 DEF Selecting
<1>10. result' = NoResult
  BY <1>1 DEF SelectTuple
<1>11. SelectAnswers' /\ LoadAdds'
  BY <1>10 DEF NoResult, SelectAnswers, LoadAdds
<1>12. /\ using \in [{rf} -> Tables \cup {NoTable}]
       /\ doubt \in SUBSET {rf} /\ spoiled \in BOOLEAN
  BY DEF EngineInv, TypeOK
<1> QED BY <1>3, <1>9, <1>10, <1>11, <1>12, QuietStep

LEMMA SelectFailsFine ==
  ASSUME EngineInv, SelectFails
  PROVE  EngineInv'
<1>1. Selecting /\ result = NoResult
  BY SelectOver DEF SelectFails
<1>2. UNCHANGED <<log, using>> /\ result' = NoResult
      /\ doubt' \in SUBSET {rf} /\ spoiled' \in BOOLEAN
  BY <1>1, FailedCall DEF SelectFails
<1>3. stmt' = [stmt EXCEPT !.op = "exit_select"]
  BY DEF SelectFails
<1>4. /\ stmt' \in SelectStmts /\ stmt'.table = stmt.table /\ stmt'.query = stmt.query
      /\ stmt'.at = stmt.at /\ stmt'.end = stmt.end /\ stmt'.count = stmt.count
      /\ stmt'.rows = stmt.rows /\ stmt'.op = "exit_select"
  <2>1. stmt \in SelectStmts
    BY <1>1 DEF Selecting
  <2> QED BY <1>3, <2>1 DEF SelectStmts
<1>5. Selecting'
  BY <1>1, <1>2, <1>4 DEF Selecting
<1>6. SelectAnswers' /\ LoadAdds'
  BY <1>2 DEF NoResult, SelectAnswers, LoadAdds
<1>7. using \in [{rf} -> Tables \cup {NoTable}]
  BY DEF EngineInv, TypeOK
<1> QED BY <1>2, <1>5, <1>6, <1>7, QuietStep

LEMMA SelectEndFine ==
  ASSUME EngineInv, SelectEnd
  PROVE  EngineInv'
<1> DEFINE rows == log[stmt.table]
<1>1. Selecting /\ rows \in Seq(Records)
  BY SelectOver DEF SelectEnd
<1>2. /\ UNCHANGED log
      /\ using' \in [{rf} -> Tables \cup {NoTable}] /\ using'[rf] = NoTable
      /\ doubt' \in SUBSET {rf} /\ doubt' = {} /\ spoiled' \in BOOLEAN
  BY EndOfObject DEF SelectEnd
<1>3. PICK rc \in {0, -1} : /\ stmt' = NoStmt /\ result' = Selected(rc)
                            /\ rc = 0 => SelectDone
  BY DEF SelectEnd, Finish
<1>4. LoadAdds'
  BY <1>3 DEF LoadAdds, Selected
<1>5. SelectAnswers'
  <2>1. CASE rc = -1
    BY <1>3, <2>1 DEF SelectAnswers, Selected
  <2>2. CASE rc = 0
    <3>1. stmt.at = Len(rows)
      <4>1. stmt.at \in Nat /\ stmt.end \in Nat /\ stmt.end = Len(rows) /\ stmt.at <= stmt.end
        BY <1>1 DEF Selecting, SelectStmts
      <4> QED BY <1>3, <2>2, <4>1 DEF SelectDone
    <3>2. /\ result'.op = "select" /\ result'.rc = 0 /\ result'.query = stmt.query
          /\ result'.table = stmt.table /\ result'.rows = stmt.rows
          /\ result'.count = IF stmt.query.attr = "count(*)" THEN stmt.count ELSE 0
      BY <1>3, <2>2 DEF Selected
    <3>3. Sensible(stmt.query.conds, rows) =>
            /\ stmt.count = Cardinality(Matching(stmt.query.conds, rows, Len(rows)))
            /\ IF stmt.query.attr \in Columns
               THEN IsPrinted(stmt.query, rows, Len(rows), stmt.rows)
               ELSE stmt.rows = <<>>
      BY <1>1, <3>1 DEF Selecting
    <3> QED BY <1>2, <3>2, <3>3 DEF SelectAnswers
  <2> QED BY <2>1, <2>2
<1> QED BY <1>2, <1>3, <1>4, <1>5, QuietStep

LEMMA RestartFine ==
  ASSUME EngineInv, Restart
  PROVE  EngineInv'
<1>1. /\ UNCHANGED log /\ using' = [h \in {rf} |-> NoTable]
      /\ doubt' = {} /\ spoiled' = FALSE
  BY DEF Restart, Log!Restarted
<1>2. stmt' = NoStmt /\ result' = NoResult
  BY DEF Restart, Finish
<1>3. SelectAnswers' /\ LoadAdds'
  BY <1>2 DEF NoResult, SelectAnswers, LoadAdds
<1> QED BY <1>1, <1>2, <1>3, QuietStep

-----------------------------------------------------------------------------
(* The theorems *)

LEMMA EngineInvNext == EngineInv /\ [Next]_vars => EngineInv'
<1> SUFFICES ASSUME EngineInv, [Next]_vars PROVE EngineInv'
  OBVIOUS
<1>1. CASE UNCHANGED vars
  BY <1>1 DEF vars, logVars, EngineInv, TypeOK, Loading, Selecting, SelectAnswers, LoadAdds
<1>2. CASE Next
  BY <1>2, LoadStartFine, LoadUnreadableFine, LoadLineFine, LoadEndFine, SelectStartFine,
     SelectTupleFine, SelectFailsFine, SelectEndFine, RestartFine DEF Next
<1> QED BY <1>1, <1>2

(* EngineInv is an invariant of the engine. *)
THEOREM EngineInvariant == Spec => []EngineInv
BY EngineInvInit, EngineInvNext, PTL DEF Spec

(* Tables hold records, also when an append() after an error of read(2)    *)
(* has put others in their place, and no RecordFile outlives its statement. *)
THEOREM TypeCorrect == Spec => []TypeOK
<1>1. EngineInv => TypeOK
  BY DEF EngineInv
<1> QED BY <1>1, EngineInvariant, PTL

(* SqlEngine::select: a SELECT that returns 0 has printed the rows that    *)
(* meet all conditions, each once and in the order of the table, or their  *)
(* number, wherever key - atoi(value) does not overflow and all attributes *)
(* of the conditions are known.                                            *)
THEOREM SelectIsExact == Spec => []SelectAnswers
<1>1. EngineInv => SelectAnswers
  BY DEF EngineInv
<1> QED BY <1>1, EngineInvariant, PTL

(* SqlEngine::load: a LOAD has added, behind the rows that were there, the *)
(* rows of just the lines append() accepted, in their order, a line with   *)
(* no comma with the value of the line before; whatever call failed,       *)
(* unless it was read(2).                                                  *)
THEOREM LoadIsExact == Spec => []LoadAdds
<1>1. EngineInv => LoadAdds
  BY DEF EngineInv
<1> QED BY <1>1, EngineInvariant, PTL
=============================================================================
