------------------------------- MODULE SqlEngine -------------------------------
(***************************************************************************)
(* SqlEngine.cc: SELECT and LOAD, on tables that are record files.         *)
(*                                                                         *)
(* The calls into RecordFile are steps of RecordLog, what RecordFile has   *)
(* been shown to implement: each may fail, and the process may end between *)
(* two of them.  A statement has a RecordFile object of its own, which     *)
(* goes away with it; statements are executed one after the other.  The    *)
(* index that WITH INDEX asks for is never built, and never used.          *)
(*                                                                         *)
(* RecordLog promises nothing of a table opened after a close() that has   *)
(* left pages in the cache: no table is, until the process starts again.   *)
(* load() also appends to an object whose open() failed; those calls fail  *)
(* here, which leaves out one case: the close() inside that open() failed  *)
(* too, without giving the descriptor back.                                *)
(*                                                                         *)
(* Values are integers, ordered as strcmp orders the strings; 0 is "".     *)
(***************************************************************************)
EXTENDS Integers, Sequences, FiniteSets

CONSTANTS Tables,    \* the tables
          NoTable,   \* the file of a RecordFile that is not open
          NoRecord,  \* the record of a call that returns none
          MaxInt,    \* the largest int, INT_MAX in the code
          Keys,      \* the keys in load files and conditions
          Values,    \* the values in load files and conditions
          Cut,       \* what is stored of a value: at most 99 characters
          LoadFiles, \* the load files: sequences of lines
          Queries,   \* the queries: an attribute and conditions
          Garbled,   \* bound: the rows an append() may leave after a misread
          MaxRows    \* bound: the rows of a table

ASSUME EngineAssumption ==
  /\ NoTable \notin Tables
  /\ MaxInt \in Nat
  /\ Keys \subseteq -MaxInt - 1 .. MaxInt
  /\ 0 \in Values /\ Values \subseteq Int
  /\ Cut \in [Values -> Values]

Comparators == {"EQ", "NE", "LT", "GT", "LE", "GE"}
NoAttribute == 0  \* neither key nor value: SqlParser.y reports it and goes on
KeyColumn   == 1
ValueColumn == 2
Conditions  == [attr : {NoAttribute, KeyColumn, ValueColumn}, comp : Comparators,
                value : Keys \cup Values]
Columns     == {"key", "value", "*"}
Selections  == Columns \cup {"count(*)", "unknown"}

(* A line of a load file: a key, and a value if there is a comma. *)
Lines   == [key : Keys, comma : BOOLEAN, value : Values]
Records == [key : Keys, value : Values]
Record(k, v) == [key |-> k, value |-> v]

ASSUME InputAssumption ==
  /\ LoadFiles \subseteq Seq(Lines)
  /\ \A q \in Queries : q.attr \in Selections /\ q.conds \in Seq(Conditions)
  /\ Garbled \subseteq Records

VARIABLES log, using, doubt, spoiled, answer, \* see RecordLog
          stmt,   \* the statement being executed, its locals and its history
          result  \* history: what the last statement did, printed and returned

logVars == <<log, using, doubt, spoiled, answer>>
vars    == <<logVars, stmt, result>>

rf  == "rf"
Log == INSTANCE RecordLog WITH
  Handles <- {rf}, Files <- Tables, NoFile <- NoTable, Records <- Garbled,
  Stored <- [r \in Records |-> Record(r.key, Cut[r.value])]

NoStmt   == [op |-> "none"]
NoResult == [op |-> "none"]

Init == /\ Log!LogInit
        /\ stmt = NoStmt
        /\ result = NoResult

-----------------------------------------------------------------------------
(* Slips that the runs must notice *)

Rejects_NotEqual(comp, diff) ==
  CASE comp = "EQ" -> diff # 0 [] comp = "NE" -> diff = 0 [] comp = "GT" -> diff < 0
    [] comp = "LT" -> diff > 0 [] comp = "GE" -> diff < 0 [] comp = "LE" -> diff > 0
ParsedValue_Never(line, value) == value

-----------------------------------------------------------------------------
(* RecordFile calls *)

Fails(op, i) == \E c \in {"RC_FILE_OPEN_FAILED", "RC_FILE_READ_FAILED", "RC_FILE_WRITE_FAILED"} :
                  Log!Failed(op, rf, c, i)

(* close(), whatever it returns, and the end of the object: one that is    *)
(* not open only goes away.                                                *)
CloseAndDestroy ==
  \/ using[rf] # NoTable /\ (Log!Released(rf, "close") \/ Log!CloseFailed(rf))
  \/ using[rf] = NoTable /\ Log!Released(rf, "destroy")

Finish(r) == stmt' = NoStmt /\ result' = r

(* rc is never assigned: what load() returns is undetermined. *)
Loaded(lines) == {[op |-> "load", rc |-> c, table |-> stmt.table, lines |-> lines,
                   base |-> stmt.base, kept |-> stmt.kept, errors |-> stmt.errors] : c \in {0, 1}}

(* A slip: the object outlives the statement. *)
LoadEnd_StaysOpen ==
  /\ stmt.op = "load" /\ stmt.at > Len(stmt.lines)
  /\ \E r \in Loaded(stmt.lines) : Finish(r)
  /\ UNCHANGED logVars

-----------------------------------------------------------------------------
(* load *)

Errors(rc) == IF rc = "OK" THEN {} ELSE {rc}

(* open's result is not looked at.  History: what the table held, the      *)
(* lines append() accepted, the errors the calls returned.                 *)
LoadStart(t, lines) ==
  /\ stmt = NoStmt
  /\ Len(log[t]) + Len(lines) <= MaxRows
  /\ Log!Opened(rf, t) \/ Fails("open", 0)
  /\ stmt' = [op |-> "load", table |-> t, lines |-> lines, at |-> 1, value |-> 0,
              base |-> log[t], kept |-> <<>>, errors |-> Errors(answer'.rc)]
  /\ result' = NoResult

(* The load file cannot be opened: the object goes away, not closed. *)
LoadUnreadable ==
  /\ stmt.op = "load" /\ stmt.at = 1
  /\ Log!Released(rf, "destroy")
  /\ \E r \in Loaded(<<>>) : Finish(r)

(* parseLoadLine leaves the value alone if there is no comma, and load     *)
(* does not look at the error it returns.                                  *)
ParsedValue(line, value) == IF line.comma THEN line.value ELSE value

LoadLine ==
  /\ stmt.op = "load" /\ stmt.at <= Len(stmt.lines)
  /\ LET line == stmt.lines[stmt.at]
         v    == ParsedValue(line, stmt.value)
     IN /\ Log!Appended(rf, Record(line.key, v)) \/ Fails("append", 0)
        /\ stmt' = [stmt EXCEPT !.at = @ + 1, !.value = v,
                      !.kept = IF answer'.rc = "OK" THEN Append(@, stmt.at) ELSE @,
                      !.errors = @ \cup Errors(answer'.rc)]
  /\ UNCHANGED result

LoadEnd ==
  /\ stmt.op = "load" /\ stmt.at > Len(stmt.lines)
  /\ CloseAndDestroy
  /\ \E r \in Loaded(stmt.lines) : Finish(r)

-----------------------------------------------------------------------------
(* select *)

(* Local variables start with whatever the stack held: diff matters. *)
SelectStart(t, q) ==
  /\ stmt = NoStmt
  /\ \/ /\ Log!Opened(rf, t)
        /\ \E d \in {-1, 0, 1} :
             stmt' = [op |-> "select", table |-> t, query |-> q, at |-> 0,
                      end |-> Len(log[t]), diff |-> d, count |-> 0, rows |-> <<>>]
        /\ result' = NoResult
     \/ /\ Fails("open", 0)
        /\ Finish([op |-> "select", rc |-> -1, query |-> q, table |-> t,
                   count |-> 0, rows |-> <<>>])

(* key - atoi(value) is computed in an int; strcmp's result only has a sign. *)
Wrapped(i) == ((i + MaxInt + 1) % (2 * MaxInt + 2)) - MaxInt - 1

Difference(rec, cond) == IF cond.attr = KeyColumn THEN Wrapped(rec.key - cond.value)
                                                  ELSE rec.value - cond.value

Rejects(comp, diff) ==
  CASE comp = "EQ" -> diff # 0 [] comp = "NE" -> diff = 0 [] comp = "GT" -> diff <= 0
    [] comp = "LT" -> diff >= 0 [] comp = "GE" -> diff < 0 [] comp = "LE" -> diff > 0

(* diff when the first i conditions have been tried: an unknown attribute  *)
(* leaves it as it was, as does the next tuple.                            *)
DiffAfter(rec, conds, diff, i) ==
  LET known == {j \in 1 .. i : conds[j].attr # NoAttribute}
  IN IF known = {} THEN diff
     ELSE Difference(rec, conds[CHOOSE j \in known : \A k \in known : k <= j])

(* The conditions are tried in order, up to the first that is not met. *)
Tried(rec, conds, diff) ==
  LET rejecting == {i \in 1 .. Len(conds) :
                      Rejects(conds[i].comp, DiffAfter(rec, conds, diff, i))}
      last == IF rejecting = {} THEN Len(conds)
              ELSE CHOOSE i \in rejecting : \A j \in rejecting : i <= j
  IN [met |-> rejecting = {}, diff |-> DiffAfter(rec, conds, diff, last)]

(* An attribute the parser has reported and passed on prints nothing. *)
Printed(attr, rec) == CASE attr = "key"   -> <<rec.key>>
                        [] attr = "value" -> <<rec.value>>
                        [] attr = "*"     -> <<rec.key, rec.value>>
                        [] OTHER          -> <<>>

SelectDone == stmt.at >= stmt.end

SelectTuple ==
  /\ stmt.op = "select" /\ ~SelectDone
  /\ Log!Found(rf, stmt.at)
  /\ LET rec == answer'.rec
         t   == Tried(rec, stmt.query.conds, stmt.diff)
     IN stmt' = [stmt EXCEPT !.at = @ + 1, !.diff = t.diff,
                   !.count = IF t.met THEN @ + 1 ELSE @,
                   !.rows = IF t.met /\ stmt.query.attr \in Columns
                            THEN Append(@, Printed(stmt.query.attr, rec)) ELSE @]
  /\ UNCHANGED result

Selected(rc) == [op |-> "select", rc |-> rc, query |-> stmt.query, table |-> stmt.table,
                 count |-> IF stmt.query.attr = "count(*)" /\ rc = 0 THEN stmt.count ELSE 0,
                 rows |-> stmt.rows]

(* The tuple cannot be read: rows already printed stay printed. *)
SelectFails ==
  /\ stmt.op = "select" /\ ~SelectDone
  /\ Fails("read", stmt.at)
  /\ stmt' = [stmt EXCEPT !.op = "exit_select"]
  /\ UNCHANGED result

SelectEnd ==
  /\ \/ stmt.op = "select" /\ SelectDone /\ Finish(Selected(0))
     \/ stmt.op = "exit_select" /\ Finish(Selected(-1))
  /\ CloseAndDestroy

-----------------------------------------------------------------------------
(* The process ends at any time, the tables remain. *)
Restart == /\ Log!Restarted
           /\ Finish(NoResult)

Next == \/ \E t \in Tables, lines \in LoadFiles : LoadStart(t, lines)
        \/ LoadUnreadable \/ LoadLine \/ LoadEnd
        \/ \E t \in Tables, q \in Queries : SelectStart(t, q)
        \/ SelectTuple \/ SelectFails \/ SelectEnd
        \/ Restart

Spec == Init /\ [][Next]_vars

-----------------------------------------------------------------------------
(* Properties *)

(* Variables keep their types, and no RecordFile outlives its statement. *)
TypeOK == /\ log \in [Tables -> Seq(Records)]
          /\ using \in [{rf} -> Tables \cup {NoTable}]
          /\ doubt \in SUBSET {rf} /\ spoiled \in BOOLEAN
          /\ stmt.op \in {"none", "load", "select", "exit_select"}
          /\ stmt.op = "none" => using[rf] = NoTable /\ doubt = {}

(* What a condition means: the column, as an integer or a string, compares *)
(* with the value.                                                         *)
Holds(comp, a, b) ==
  CASE comp = "EQ" -> a = b [] comp = "NE" -> a # b [] comp = "GT" -> a > b
    [] comp = "LT" -> a < b [] comp = "GE" -> a >= b [] comp = "LE" -> a <= b
Meets(rec, conds) ==
  \A i \in 1 .. Len(conds) :
    Holds(conds[i].comp, IF conds[i].attr = KeyColumn THEN rec.key ELSE rec.value,
          conds[i].value)

(* The positions, among the first n, of the rows that meet the conditions: *)
(* as many as there are up to a row, as far down its line is printed.      *)
Matching(conds, rows, n) == {i \in 1 .. n : Meets(rows[i], conds)}
IsPrinted(query, rows, n, printed) ==
  /\ Len(printed) = Cardinality(Matching(query.conds, rows, n))
  /\ \A i \in Matching(query.conds, rows, n) :
       printed[Cardinality(Matching(query.conds, rows, i))] = Printed(query.attr, rows[i])

(* SqlParser.y lets no other condition through without an error message,   *)
(* and a key and the number it is compared with differ by an int.          *)
Sensible(conds, rows) ==
  \A i \in 1 .. Len(conds) :
    /\ conds[i].attr # NoAttribute
    /\ conds[i].attr = KeyColumn =>
         \A j \in 1 .. Len(rows) : rows[j].key - conds[i].value \in -MaxInt - 1 .. MaxInt

(* SqlEngine.h:48-49: "executes a SELECT statement.  all conditions in     *)
(* conds must be ANDed together": a SELECT that returns 0 has printed the  *)
(* rows of the table that meet the conditions, or their number, or nothing *)
(* if it asked for an attribute there is not.                              *)
SelectAnswers ==
  result.op = "select" /\ result.rc = 0 /\ Sensible(result.query.conds, log[result.table])
  => LET rows == log[result.table]
     IN /\ result.query.attr = "count(*)" =>
             result.count = Cardinality(Matching(result.query.conds, rows, Len(rows)))
        /\ IF result.query.attr \in Columns
           THEN IsPrinted(result.query, rows, Len(rows), result.rows)
           ELSE result.rows = <<>>

(* The value of a line: its own, or that of the last line before it that   *)
(* has a comma, or "" if there is none.                                    *)
ValueOf(lines, i) ==
  LET given == {j \in 1 .. i : lines[j].comma}
  IN IF given = {} THEN 0 ELSE lines[CHOOSE j \in given : \A k \in given : k <= j].value

RowOf(lines, i) == Record(lines[i].key, Cut[ValueOf(lines, i)])

KeptRows(lines, kept) == [j \in 1 .. Len(kept) |-> RowOf(lines, kept[j])]

(* A LOAD has added to its table, behind what was there, the rows of just  *)
(* the lines that append() accepted, in their order, whatever failed: also *)
(* open() and the lines in between.  They are all lines if nothing failed. *)
(* Only after an error of read(2) may other rows be there.                 *)
LoadAdds ==
  result.op = "load"
  => /\ "RC_FILE_READ_FAILED" \notin result.errors =>
          log[result.table] = result.base \o KeptRows(result.lines, result.kept)
     /\ \A j \in 2 .. Len(result.kept) : result.kept[j - 1] < result.kept[j]
     /\ result.errors = {} => Len(result.kept) = Len(result.lines)
=============================================================================
