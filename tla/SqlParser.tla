------------------------------- MODULE SqlParser -------------------------------
(***************************************************************************)
(* SqlParser.tab.c: the loop in which bruinbase spends its life, yyparse() *)
(* as bison generated it from SqlParser.y, called by SqlEngine::run().     *)
(*                                                                         *)
(* The tables and the numbers in them are the file's.  A step is one pass  *)
(* from yynewstate to yynewstate, or one call of yylex().  What the user   *)
(* types is any sequence of tokens, in lines of any length.                *)
(*                                                                         *)
(* Semantic values are the ints or addresses that YYSTYPE holds.  A block  *)
(* of the heap that the parser loses (yydestruct is empty) is forgotten,   *)
(* and its address may be given out again: memory has no end here.  (A run *)
(* needs as many blocks as its longest line.)                              *)
(***************************************************************************)
EXTENDS SqlGrammar, FiniteSetsExt

CONSTANT Blocks  \* addresses of the heap

(* The addresses malloc returns are no attributes and no comparators. *)
ASSUME ParserAssumption == Blocks \subseteq Nat /\ \A b \in Blocks : b > 5

-----------------------------------------------------------------------------
(* The tables *)

YYFINAL     == 2
YYLAST      == 33
YYNTOKENS   == 25
YYPACT_NINF == -14
YYTERROR    == 1

From0(seq) == [i \in 0 .. Len(seq) - 1 |-> seq[i + 1]]

yytname == From0(<<"$end", "error", "$undefined", "SELECT", "FROM", "WHERE", "LOAD", "WITH",
  "INDEX", "QUIT", "COUNT", "AND", "OR", "COMMA", "STAR", "LF", "INTEGER", "STRING", "ID",
  "EQUAL", "NEQUAL", "LESS", "LESSEQUAL", "GREATER", "GREATEREQUAL", "$accept", "commands",
  "command", "quit_command", "load_command", "select_command", "conditions", "condition",
  "attributes", "attribute", "value", "table", "comparator">>)

yypact == From0(<<-14, 0, -14, -5, 3, 2, -14, -14, -14, -14, -14, -14, -14, -14, -14, -14, 10,
  -14, -14, 14, 2, 5, -3, 1, 11, -14, 22, -14, -4, -14, 4, 16, 11, -14, -14, -14, -14, -14,
  -14, -14, -12, -14, -14, -14, -14, -14>>)

yydefact == From0(<<3, 0, 1, 0, 0, 0, 9, 8, 2, 6, 4, 5, 7, 19, 18, 20, 0, 17, 23, 0, 0, 0, 0,
  0, 0, 12, 0, 10, 0, 14, 0, 0, 0, 13, 24, 25, 26, 28, 27, 29, 0, 11, 15, 21, 22, 16>>)

yypgoto   == From0(<<-14, -14, -14, -14, -14, -14, -14, -13, -14, 28, -14, 13, -14>>)
yydefgoto == From0(<<-1, 1, 8, 9, 10, 11, 28, 29, 16, 30, 45, 19, 40>>)

yytable == From0(<<2, 3, 24, 4, 43, 44, 5, 32, 26, 6, 12, 33, 25, 13, 20, 7, 27, 14, 21, 42, 18,
  15, 23, 34, 35, 36, 37, 38, 39, 15, 31, 41, 17, 22>>)
yycheck == From0(<<0, 1, 5, 3, 16, 17, 6, 11, 7, 9, 15, 15, 15, 10, 4, 15, 15, 14, 4, 32, 18,
  18, 17, 19, 20, 21, 22, 23, 24, 18, 8, 15, 4, 20>>)

yystos == From0(<<0, 26, 0, 1, 3, 6, 9, 15, 27, 28, 29, 30, 15, 10, 14, 18, 33, 34, 18, 36, 4,
  4, 36, 17, 5, 15, 7, 15, 31, 32, 34, 8, 11, 15, 19, 20, 21, 22, 23, 24, 37, 15, 32, 16, 17,
  35>>)

yyr1 == From0(<<0, 25, 26, 26, 27, 27, 27, 27, 27, 28, 29, 29, 30, 30, 31, 31, 32, 33, 33, 33,
  34, 35, 35, 36, 37, 37, 37, 37, 37, 37>>)
yyr2 == From0(<<0, 2, 2, 0, 1, 1, 1, 2, 1, 1, 5, 7, 5, 7, 1, 3, 3, 1, 1, 1, 1, 1, 1, 1, 1, 1, 1,
  1, 1, 1>>)

yytranslate == [sym \in Symbols \cup {"$end"} |-> CHOOSE n \in 0 .. YYNTOKENS - 1 : yytname[n] = sym]

IsDefault(s) == yypact[s] = YYPACT_NINF

(* The state that shifting symbol n leads to, 0 if the table has no entry. *)
(* (No entry of this yytable is a reduction or an error.)                  *)
ShiftOn(s, n) == LET i == yypact[s] + n
                 IN IF ~IsDefault(s) /\ i \in 0 .. YYLAST /\ yycheck[i] = n THEN yytable[i] ELSE 0

GotoOn(s, n) == LET i == yypgoto[n - YYNTOKENS] + s
                IN IF i \in 0 .. YYLAST /\ yycheck[i] = s THEN yytable[i]
                   ELSE yydefgoto[n - YYNTOKENS]

-----------------------------------------------------------------------------
VARIABLES yyss, yyvs,    \* the stacks of states and of semantic values
          yychar,        \* the lookahead, YYEMPTY if there is none
          yylval,        \* its value; garbage for tokens without one
          yyerrstatus,   \* tokens to shift before errors are reported again
          yyresult,      \* what yyparse returned
          heap,          \* what malloc and new gave out
          line,          \* history: the tokens since the last LF, with the next one;
                         \* of a line that is no command, the last token
          wrongAt,       \* history: the place of its first wrong token; 0 if none is
          excused,       \* history: the last line that was not blank was no command
                         \* either, and of this one no two tokens have been right
          out            \* history: calls of SqlEngine and messages since the last LF

vars == <<yyss, yyvs, yychar, yylval, yyerrstatus, yyresult, heap, line, wrongAt,
          excused, out>>
history == <<line, wrongAt, excused, out>>

YYEMPTY == "YYEMPTY"
Running == -1
Free    == [type |-> "free"]
Garbage == 0  \* uninitialised or left over; nothing looks at it

Prompt      == [call |-> "prompt"]
SyntaxError == [call |-> "syntax error"]
WrongName   == [call |-> "wrong attribute name"]

(* SqlEngine::run and the start of yyparse *)
Init == /\ yyss = <<0>> /\ yyvs = <<Garbage>>
        /\ yychar = YYEMPTY /\ yylval = Garbage
        /\ yyerrstatus = 0
        /\ yyresult = Running
        /\ heap = [b \in Blocks |-> Free]
        /\ line = <<>> /\ wrongAt = 0 /\ excused = FALSE
        /\ out = <<Prompt>>

-----------------------------------------------------------------------------
(* The heap *)

Malloc(h)         == Min({b \in Blocks : h[b] = Free})
Freed(h, bs)      == [b \in Blocks |-> IF b \in bs THEN Free ELSE h[b]]
Has(b, type)      == b \in Blocks /\ heap[b].type = type
StringBlock(text) == [type |-> "string", text |-> text]
CondBlock(cond)   == [type |-> "cond", cond |-> cond]
CondsBlock(conds) == [type |-> "conds", conds |-> conds]

(* What the addresses lead to, whatever it is if they lead nowhere *)
TextAt(b)  == IF Has(b, "string") THEN heap[b].text ELSE NoText
CondAt(b)  == IF Has(b, "cond") THEN heap[b].cond
              ELSE [attr |-> Garbage, comp |-> Garbage, value |-> Garbage]
CondsAt(b) == IF Has(b, "conds") THEN heap[b].conds ELSE <<>>

Values(conds) == {conds[i].value : i \in DOMAIN conds}

(* The blocks a symbol's semantic value v owns, by the symbol's %type. *)
Owns(n, v) ==
  CASE yytname[n] \in WithText \cup {"table", "value"} -> {v}
    [] yytname[n] = "condition"  -> {v, CondAt(v).value}
    [] yytname[n] = "conditions" -> {v} \cup Values(CondsAt(v))
    [] OTHER -> {}

-----------------------------------------------------------------------------
(* Slips that the runs must notice *)

Counted_PastZero(status)  == status - 1
Counted_Never(status)     == status
KeepsLookahead_Always     == TRUE
ComparatorOfRule_Swapped  == [n \in 24 .. 29 |-> <<0, 1, 2, 4, 3, 5>>[n - 23]]
PoppedBy_OneLess(n)       == IF n = 2 THEN 1 ELSE yyr2[n]
Spent_NotTheValues(n)     == IF n \in {10, 11} THEN {yyvs[Len(yyvs) - yyr2[n] + 2],
                                                     yyvs[Len(yyvs) - yyr2[n] + 4]}
                             ELSE {yyvs[Len(yyvs) - yyr2[n] + 4]}
                                    \cup (IF n = 13 THEN {yyvs[Len(yyvs) - 1]} ELSE {})

-----------------------------------------------------------------------------
(* yybackup: what the state and the lookahead say *)

Top     == Last(yyss)
TokenNo == yytranslate[yychar]
Going   == yyresult = Running /\ Top # YYFINAL

(* A lookahead is read only in a state that needs one. *)
Asks == Going /\ ~IsDefault(Top) /\ yychar = YYEMPTY

Shifts     == Going /\ ~IsDefault(Top) /\ yychar # YYEMPTY /\ ShiftOn(Top, TokenNo) # 0
Defaults   == Going /\ (IsDefault(Top) \/ yychar # YYEMPTY) /\ ~Shifts
Reduces(n) == Defaults /\ n # 0 /\ yydefact[Top] = n
Errs       == Defaults /\ yydefact[Top] = 0

(* yychar = yylex(), which copies the text of a token that has one. *)
Read(tok) ==
  /\ Asks
  /\ yychar' = tok.sym
  /\ IF tok.sym \in WithText
     THEN LET b == Malloc(heap)
          IN yylval' = b /\ heap' = [heap EXCEPT ![b] = StringBlock(tok.text)]
     ELSE yylval' = Garbage /\ UNCHANGED heap
  /\ UNCHANGED <<yyss, yyvs, yyerrstatus, yyresult>>

Counted(status) == IF status > 0 THEN status - 1 ELSE 0

Shift ==
  /\ Shifts
  /\ yyss' = Append(yyss, ShiftOn(Top, TokenNo))
  /\ yyvs' = Append(yyvs, yylval)
  /\ yychar' = YYEMPTY
  /\ yyerrstatus' = Counted(yyerrstatus)
  /\ UNCHANGED <<yylval, yyresult, heap, history>>

Accept == /\ yyresult = Running /\ Top = YYFINAL
          /\ yyresult' = 0
          /\ UNCHANGED <<yyss, yyvs, yychar, yylval, yyerrstatus, heap, history>>

-----------------------------------------------------------------------------
(* yyreduce *)

Dollar(n, i) == yyvs[Len(yyvs) - yyr2[n] + i]

(* $$ as the rule's action finds it: $1, or the slot above the stack. *)
DefaultValue(n) == IF yyr2[n] = 0 THEN Garbage ELSE Dollar(n, 1)

PoppedBy(n) == yyr2[n]

Reduce(n, value) ==
  LET rest == Len(yyss) - PoppedBy(n)
  IN /\ Reduces(n)
     /\ yyss' = Append(SubSeq(yyss, 1, rest), GotoOn(yyss[rest], yyr1[n]))
     /\ yyvs' = Append(SubSeq(yyvs, 1, rest), value)
     /\ UNCHANGED <<yychar, yylval, yyerrstatus, yyresult, line, wrongAt, excused>>

(* commands, command: load_command ... , table, value *)
ReduceOnly(n) == /\ n \in {2, 3, 6, 17, 21, 22, 23}
                 /\ Reduce(n, DefaultValue(n))
                 /\ UNCHANGED <<heap, out>>

(* command *)
ReduceCommand(n) == /\ n \in {4, 5, 7, 8}
                    /\ Reduce(n, DefaultValue(n))
                    /\ out' = Append(out, Prompt)
                    /\ UNCHANGED heap

(* quit_command: return 0, before the stacks are touched. *)
ReduceQuit == /\ Reduces(9)
              /\ yyresult' = 0
              /\ UNCHANGED <<yyss, yyvs, yychar, yylval, yyerrstatus, heap, history>>

(* The blocks that the actions of load_command and select_command free *)
Spent(n) == IF n \in {10, 11} THEN {Dollar(n, 2), Dollar(n, 4)}
            ELSE {Dollar(n, 4)} \cup (IF n = 13 THEN Owns(31, Dollar(n, 6)) ELSE {})

ReduceLoad(n) ==
  /\ n \in {10, 11}
  /\ Reduce(n, DefaultValue(n))
  /\ out' = Append(out, LoadCall(TextAt(Dollar(n, 2)), TextAt(Dollar(n, 4)), n = 11))
  /\ heap' = Freed(heap, Spent(n))

(* An address in the place of an attribute is none that select() knows. *)
Known(attr) == IF attr \in Blocks THEN 0 ELSE attr

ReduceSelect(n) ==
  LET conds == IF n = 12 THEN <<>> ELSE CondsAt(Dollar(n, 6))
  IN /\ n \in {12, 13}
     /\ Reduce(n, DefaultValue(n))
     /\ out' = Append(out, SelectCall(Known(Dollar(n, 2)), TextAt(Dollar(n, 4)),
                             [i \in DOMAIN conds |-> [attr |-> Known(conds[i].attr),
                                                      comp |-> conds[i].comp,
                                                      value |-> TextAt(conds[i].value)]]))
     /\ heap' = Freed(heap, Spent(n))

(* conditions: new, push_back, delete; a second condition goes into the    *)
(* vector that is there.                                                   *)
ReduceFirstCondition ==
  LET v == Malloc(heap)
  IN /\ Reduce(14, v)
     /\ heap' = Freed([heap EXCEPT ![v] = CondsBlock(<<CondAt(Dollar(14, 1))>>)], {Dollar(14, 1)})
     /\ UNCHANGED out

ReduceNextCondition ==
  LET v == Dollar(15, 1)
  IN /\ Reduce(15, v)
     /\ heap' = Freed([heap EXCEPT ![v] = CondsBlock(Append(CondsAt(v), CondAt(Dollar(15, 3))))],
                      {Dollar(15, 3)})
     /\ UNCHANGED out

(* condition *)
ReduceCondition ==
  LET c == Malloc(heap)
  IN /\ Reduce(16, c)
     /\ heap' = [heap EXCEPT ![c] = CondBlock([attr |-> Dollar(16, 1), comp |-> Dollar(16, 2),
                                               value |-> Dollar(16, 3)])]
     /\ UNCHANGED out

(* attributes: STAR and COUNT *)
ReduceStar(n) == /\ n \in {18, 19}
                 /\ Reduce(n, IF n = 18 THEN 3 ELSE 4)
                 /\ UNCHANGED <<heap, out>>

(* attribute: a name that is neither leaves $$ at $1, an address. *)
ReduceAttribute ==
  LET name == TextAt(Dollar(20, 1))
  IN /\ Reduce(20, CASE name = "key" -> 1 [] name = "value" -> 2
                     [] OTHER -> DefaultValue(20))
     /\ out' = IF name \in {"key", "value"} THEN out ELSE Append(out, WrongName)
     /\ heap' = Freed(heap, {Dollar(20, 1)})

(* comparator: EQUAL, NEQUAL, LESS, GREATER, LESSEQUAL, GREATEREQUAL *)
ComparatorOfRule == [n \in 24 .. 29 |-> n - 24]

ReduceComparator(n) == /\ n \in 24 .. 29
                       /\ Reduce(n, ComparatorOfRule[n])
                       /\ UNCHANGED <<heap, out>>

-----------------------------------------------------------------------------
(* yyerrlab *)

Report == IF yyerrstatus = 0 THEN Append(out, SyntaxError) ELSE out

(* The lookahead is thrown away if it has been tried after an error. *)
KeepsLookahead == yyerrstatus # 3

AbortAtEnd ==
  /\ Errs /\ ~KeepsLookahead /\ yychar = "$end"
  /\ yyresult' = 1
  /\ UNCHANGED <<yyss, yyvs, yychar, yylval, yyerrstatus, heap, history>>

(* yyerrlab1: pop to the uppermost state that can shift the error token,   *)
(* and shift it.  There is one as soon as a token has been read.           *)
Recover ==
  LET keep    == Max({i \in DOMAIN yyss : ShiftOn(yyss[i], YYTERROR) # 0})
      popped  == UNION {Owns(yystos[yyss[i]], yyvs[i]) : i \in keep + 1 .. Len(yyss)}
      dropped == IF KeepsLookahead THEN {} ELSE Owns(TokenNo, yylval)
  IN /\ Errs /\ (KeepsLookahead \/ yychar # "$end")
     /\ out' = Report
     /\ yychar' = IF KeepsLookahead THEN yychar ELSE YYEMPTY
     /\ heap' = Freed(heap, popped \cup dropped)
     /\ yyss' = Append(SubSeq(yyss, 1, keep), ShiftOn(yyss[keep], YYTERROR))
     /\ yyvs' = Append(SubSeq(yyvs, 1, keep), yylval)
     /\ yyerrstatus' = 3
     /\ UNCHANGED <<yylval, yyresult, line, wrongAt, excused>>

-----------------------------------------------------------------------------
(* The user *)

Begins(tok) ==
  /\ line' = <<tok>>
  /\ wrongAt' = IF Viable(<<tok>>) THEN 0 ELSE 1
  /\ excused' = IF wrongAt = 0 /\ Len(line) < 2 THEN excused ELSE wrongAt # 0
  /\ out' = <<>>

Continues(tok) ==
  /\ IF wrongAt = 0 /\ Viable(Append(line, tok))
     THEN line' = Append(line, tok) /\ UNCHANGED wrongAt
     ELSE line' = <<tok>> /\ wrongAt' = IF wrongAt = 0 THEN Len(line) + 1 ELSE wrongAt
  /\ excused' = (excused /\ IF wrongAt' = 0 THEN Len(line') < 2 ELSE wrongAt' <= 2)
  /\ UNCHANGED out

Remember(tok) == IF line = <<>> \/ Ended(line) THEN Begins(tok) ELSE Continues(tok)

yylex(tok) == Read(tok) /\ Remember(tok)

Steps == \/ Shift \/ Accept \/ ReduceQuit
         \/ ReduceFirstCondition \/ ReduceNextCondition \/ ReduceCondition \/ ReduceAttribute
         \/ AbortAtEnd \/ Recover
         \/ \E n \in DOMAIN yyr2 : \/ ReduceOnly(n) \/ ReduceCommand(n) \/ ReduceLoad(n)
                                   \/ ReduceSelect(n) \/ ReduceStar(n) \/ ReduceComparator(n)

Next == Steps \/ \E tok \in Tokens : yylex(tok)

(* The one thread of the program goes on; nobody has to type.              *)
Spec == Init /\ [][Next]_vars /\ WF_vars(Steps)

-----------------------------------------------------------------------------
Conditions == [attr : 1 .. 4 \cup Blocks, comp : 0 .. 5, value : Blocks]
Contents == {Free} \cup [type : {"string"}, text : Texts] \cup [type : {"cond"}, cond : Conditions]
                   \cup [type : {"conds"}, conds : Seq(Conditions)]

(* Every variable has its type; in particular the stacks grow together,    *)
(* and the count of yyerrstatus stays between 0 and 3.                     *)
TypeOK ==
  /\ yyss \in Seq(DOMAIN yypact) /\ yyvs \in Seq(0 .. 5 \cup Blocks) /\ Len(yyss) = Len(yyvs)
  /\ yychar \in Symbols \cup {"$end", YYEMPTY} /\ yylval \in {Garbage} \cup Blocks
  /\ yyerrstatus \in 0 .. 3 /\ yyresult \in {Running, 0, 1}
  /\ heap \in [Blocks -> Contents]
  /\ line \in Seq(Tokens) /\ wrongAt \in Nat /\ excused \in BOOLEAN

(* A line that was typed has been answered when the parser asks for the    *)
(* next token, and no sooner: the call it asks for and no other has been   *)
(* made, with its arguments, there is one prompt, and no syntax error if   *)
(* it is a command.  That LF is enough is a matter of default reductions   *)
(* (yypact, yydefact): a lookahead would keep the user waiting for the     *)
(* answer until the next line is typed.                                    *)
IsCall(o)   == o.call \in {"load", "select"}
IsPrompt(o) == o = Prompt
Times(Test(_)) == Cardinality({i \in DOMAIN out : Test(out[i])})

LineIsAnswered ==
  LET calls == IF wrongAt = 0 THEN Meaning(line) ELSE <<>>
  IN line # <<>> =>
       IF Ended(line) /\ Asks
       THEN /\ Times(IsCall) = Len(calls) /\ \A o \in Range(out) : IsCall(o) => o = calls[1]
            /\ Times(IsPrompt) = 1 /\ Last(out) = Prompt
            /\ wrongAt = 0 => SyntaxError \notin Range(out)
       ELSE ~Ended(line) => Times(IsCall) = 0 /\ Times(IsPrompt) = 0

(* A line that is no command is reported, unless the line before was none  *)
(* either and the first wrong token is one of the first two: then bison    *)
(* thinks that it has not recovered yet, and the user sees but a prompt.   *)
WrongLinesAreReported ==
  Asks /\ Ended(line) /\ wrongAt # 0 /\ SyntaxError \notin Range(out) => excused

(* The heap and the stacks agree: what the symbols on the stack and the    *)
(* lookahead own is allocated, has the type of its symbol and one owner    *)
(* only, and nothing else is allocated but what an error has thrown away.  *)
(* So no free() of the actions in SqlParser.y comes twice, too soon or     *)
(* never.                                                                  *)
Lookahead   == 0
Owners      == DOMAIN yyss \cup (IF yychar = YYEMPTY THEN {} ELSE {Lookahead})
SymbolAt(k) == IF k = Lookahead THEN TokenNo ELSE yystos[yyss[k]]
ValueAt(k)  == IF k = Lookahead THEN yylval ELSE yyvs[k]
OwnedBy(k)  == Owns(SymbolAt(k), ValueAt(k))

IsString(b) == Has(b, "string")
Leads(n, v) ==
  CASE yytname[n] \in WithText \cup {"table", "value"} -> IsString(v)
    [] yytname[n] = "condition"  -> Has(v, "cond") /\ IsString(CondAt(v).value)
    [] yytname[n] = "conditions" ->
         /\ Has(v, "conds")
         /\ \A i, j \in DOMAIN CondsAt(v) :
              /\ IsString(CondsAt(v)[i].value)
              /\ CondsAt(v)[i].value = CondsAt(v)[j].value => i = j
    [] OTHER -> TRUE

HeapIsOwned ==
  /\ UNION {OwnedBy(k) : k \in Owners} = {b \in Blocks : heap[b] # Free}
  /\ \A k, l \in Owners : k # l => OwnedBy(k) \cap OwnedBy(l) = {}
  /\ \A k \in Owners : Leads(SymbolAt(k), ValueAt(k))

(* However many lines and conditions are typed, the stack is never more    *)
(* than twelve states deep: the 200 of YYINITDEPTH are enough, and neither *)
(* the relocation of the stacks nor yyexhaustedlab is ever reached.        *)
StackIsShallow == Len(yyss) <= 12

(* Whatever token comes, the parser gets over it: it asks for the next one *)
(* or returns.  The recovery from an error, which may try one token again  *)
(* and again, does not go on for ever.                                     *)
Responds == yychar # YYEMPTY ~> Asks \/ yyresult # Running
=============================================================================
