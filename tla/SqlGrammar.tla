------------------------------ MODULE SqlGrammar ------------------------------
(***************************************************************************)
(* SqlParser.y: the lines a user may type, as sequences of tokens, and the *)
(* call of SqlEngine that each asks for.  Nothing here knows how a line is *)
(* parsed; SqlParser, which is SqlParser.tab.c, is compared with it.       *)
(*                                                                         *)
(* A token is a record of its symbol and, for ID, INTEGER and STRING, its  *)
(* text.                                                                   *)
(***************************************************************************)
EXTENDS Integers, Sequences, SequencesExt

CONSTANTS Names,    \* the texts of identifiers
          Literals  \* the texts of numbers and strings

NoText == "no text"
Texts  == Names \cup Literals

ASSUME TextAssumption == NoText \notin Texts

WithText    == {"INTEGER", "STRING", "ID"}
Comparators == {"EQUAL", "NEQUAL", "LESS", "LESSEQUAL", "GREATER", "GREATEREQUAL"}
Symbols     == WithText \cup Comparators \cup
               {"SELECT", "FROM", "WHERE", "LOAD", "WITH", "INDEX", "QUIT", "COUNT",
                "AND", "OR", "COMMA", "STAR", "LF"}

(* What the scanner may return; the end of the input is its token 0. *)
Tokens == [sym : {"ID"}, text : Names] \cup
          [sym : WithText \ {"ID"}, text : Literals] \cup
          [sym : (Symbols \ WithText) \cup {"$end"}, text : {NoText}]

-----------------------------------------------------------------------------
(* The grammar has one nonterminal that repeats, conditions, and each of   *)
(* its conditions is four tokens long: the symbols allowed at a place of a *)
(* command depend on the place alone.                                      *)

SelectSymbols(i) ==
  CASE i = 1 -> {"SELECT"}
    [] i = 2 -> {"ID", "STAR", "COUNT"}
    [] i = 3 -> {"FROM"}
    [] i = 4 -> {"ID"}
    [] i = 5 -> {"LF", "WHERE"}
    [] i > 5 /\ i % 4 = 1 -> {"LF", "AND"}
    [] i > 5 /\ i % 4 = 2 -> {"ID"}
    [] i > 5 /\ i % 4 = 3 -> Comparators
    [] i > 5 /\ i % 4 = 0 -> {"INTEGER", "STRING"}

LoadSymbols(i) ==
  IF i <= 7 THEN <<{"LOAD"}, {"ID"}, {"FROM"}, {"STRING"}, {"LF", "WITH"}, {"INDEX"}, {"LF"}>>[i]
  ELSE {}

(* commands: QUIT, a blank line, the end of the input *)
ShortSymbols(i) == IF i = 1 THEN {"QUIT", "LF", "$end"} ELSE {}

Fits(line, Allowed(_)) == \A i \in DOMAIN line : line[i].sym \in Allowed(i)

(* Some command begins like this. *)
Viable(line) ==
  Fits(line, SelectSymbols) \/ Fits(line, LoadSymbols) \/ Fits(line, ShortSymbols)

Ended(line)         == line # <<>> /\ Last(line).sym = "LF"
IsSelect(line)      == Fits(line, SelectSymbols) /\ Len(line) > 1 /\ Ended(line)
IsLoad(line)        == Fits(line, LoadSymbols) /\ Len(line) > 1 /\ Ended(line)

-----------------------------------------------------------------------------
(* The attribute a name stands for: 1 key, 2 value, 3 all, 4 their number; *)
(* 0 for names that are neither, which the parser reports but lets pass.   *)
AttributeOf(tok) == CASE tok.sym = "STAR" -> 3
                      [] tok.sym = "COUNT" -> 4
                      [] tok.sym = "ID" -> IF tok.text = "key" THEN 1
                                           ELSE IF tok.text = "value" THEN 2 ELSE 0

(* SelCond::Comparator *)
ComparatorOf(sym) == CASE sym = "EQUAL" -> 0 [] sym = "NEQUAL" -> 1 [] sym = "LESS" -> 2
                       [] sym = "GREATER" -> 3 [] sym = "LESSEQUAL" -> 4
                       [] sym = "GREATEREQUAL" -> 5

ConditionAt(line, i) == [attr |-> AttributeOf(line[i]), comp |-> ComparatorOf(line[i + 1].sym),
                         value |-> line[i + 2].text]

LoadCall(table, file, index) ==
  [call |-> "load", table |-> table, file |-> file, index |-> index]
SelectCall(attr, table, conds) ==
  [call |-> "select", attr |-> attr, table |-> table, conds |-> conds]

(* The calls that a line asks for: one, or none. *)
Meaning(line) ==
  IF IsSelect(line) THEN
    <<SelectCall(AttributeOf(line[2]), line[4].text,
                 [j \in 1 .. (Len(line) - 5) \div 4 |-> ConditionAt(line, 4 * j + 2)])>>
  ELSE IF IsLoad(line) THEN <<LoadCall(line[2].text, line[4].text, Len(line) = 7)>>
  ELSE <<>>
=============================================================================
