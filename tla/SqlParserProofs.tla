---------------------------- MODULE SqlParserProofs ----------------------------
(***************************************************************************)
(* Proofs about SqlParser, for any tokens in lines of any length: what is  *)
(* on the stacks, who owns the heap, and how each line is answered.        *)
(***************************************************************************)
EXTENDS SqlParser, SequenceTheorems, FiniteSetTheorems, WellFoundedInduction, TLAPS

-----------------------------------------------------------------------------
(* What the proofs need to know of the tables *)

States == 0 .. 45

(* The states that need a lookahead *)
Asking == {1, 3, 4, 5, 16, 19, 20, 21, 22, 23, 24, 26, 28, 30, 31, 32, 40}

(* The states that a state may lie on *)
Below(s) ==
  CASE s = 1 -> {0}
    [] s \in 2 .. 11 -> {1}
    [] s = 12 -> {3}
    [] s \in {13, 14, 16, 17} -> {4}
    [] s = 15 -> {4, 24, 32}
    [] s = 18 -> {5, 20}
    [] s = 19 -> {5}
    [] s = 20 -> {16}
    [] s = 21 -> {19}
    [] s = 22 -> {20}
    [] s = 23 -> {21}
    [] s \in {24, 25} -> {22}
    [] s \in {26, 27} -> {23}
    [] s \in {28, 29} -> {24}
    [] s = 30 -> {24, 32}
    [] s = 31 -> {26}
    [] s \in {32, 33} -> {28}
    [] s \in 34 .. 40 -> {30}
    [] s = 41 -> {31}
    [] s = 42 -> {32}
    [] s \in 43 .. 45 -> {40}
    [] OTHER -> {}

(* The states that may lie i-th from the bottom (quit_command, 9, never    *)
(* does: the action of its rule returns) *)
Level(i) ==
  CASE i = 1 -> {0}
    [] i = 2 -> {1}
    [] i = 3 -> (2 .. 11) \ {9}
    [] i = 4 -> 12 .. 19
    [] i = 5 -> {20, 21}
    [] i = 6 -> {18, 22, 23}
    [] i = 7 -> 24 .. 27
    [] i = 8 -> {15, 28, 29, 30, 31}
    [] i = 9 -> 32 .. 41
    [] i = 10 -> {15, 30, 42, 43, 44, 45}
    [] i = 11 -> 34 .. 40
    [] i = 12 -> 43 .. 45
    [] OTHER -> {}

(* The symbols that a state shifts, but for the error token *)
Expected(s) ==
  CASE s = 1 -> {"$end", "SELECT", "LOAD", "QUIT", "LF"}
    [] s = 4 -> {"ID", "STAR", "COUNT"}
    [] s \in {5, 20, 24, 32} -> {"ID"}
    [] s \in {16, 19} -> {"FROM"}
    [] s = 21 -> {"STRING"}
    [] s = 22 -> {"WHERE", "LF"}
    [] s = 23 -> {"WITH", "LF"}
    [] s = 26 -> {"INDEX"}
    [] s = 28 -> {"AND", "LF"}
    [] s = 30 -> Comparators
    [] s = 40 -> {"INTEGER", "STRING"}
    [] OTHER -> {"LF"}

LEMMA AskingStates == \A s \in States : IsDefault(s) <=> s \notin Asking
BY SMTT(60) DEF yypact, From0, IsDefault, States, Asking, YYPACT_NINF

LEMMA SymbolNames ==
  /\ yytname[0] = "$end" /\ yytname[1] = "error" /\ yytname[2] = "$undefined"
  /\ yytname[3] = "SELECT" /\ yytname[4] = "FROM" /\ yytname[5] = "WHERE"
  /\ yytname[6] = "LOAD" /\ yytname[7] = "WITH" /\ yytname[8] = "INDEX"
  /\ yytname[9] = "QUIT" /\ yytname[10] = "COUNT" /\ yytname[11] = "AND"
  /\ yytname[12] = "OR" /\ yytname[13] = "COMMA" /\ yytname[14] = "STAR"
  /\ yytname[15] = "LF" /\ yytname[16] = "INTEGER" /\ yytname[17] = "STRING"
  /\ yytname[18] = "ID" /\ yytname[19] = "EQUAL" /\ yytname[20] = "NEQUAL"
  /\ yytname[21] = "LESS" /\ yytname[22] = "LESSEQUAL" /\ yytname[23] = "GREATER"
  /\ yytname[24] = "GREATEREQUAL" /\ yytname[25] = "$accept" /\ yytname[26] = "commands"
  /\ yytname[27] = "command" /\ yytname[28] = "quit_command" /\ yytname[29] = "load_command"
  /\ yytname[30] = "select_command" /\ yytname[31] = "conditions" /\ yytname[32] = "condition"
  /\ yytname[33] = "attributes" /\ yytname[34] = "attribute" /\ yytname[35] = "value"
  /\ yytname[36] = "table" /\ yytname[37] = "comparator"
BY SMTT(60) DEF yytname, From0

LEMMA Translated ==
  ASSUME NEW sym \in Symbols \cup {"$end"}
  PROVE  /\ yytranslate[sym] \in 0 .. 24 /\ yytname[yytranslate[sym]] = sym
         /\ \A n \in 0 .. 24 : yytname[n] = sym => n = yytranslate[sym]
<1>1. \E n \in 0 .. 24 : yytname[n] = sym
  BY SMTT(60), SymbolNames DEF Symbols, WithText, Comparators
<1>2. yytranslate[sym] = CHOOSE n \in 0 .. 24 : yytname[n] = sym
  BY DEF yytranslate, YYNTOKENS
<1>3. \A m, n \in 0 .. 24 : yytname[m] = yytname[n] => m = n
  BY SMTT(60) DEF yytname, From0
<1> QED BY <1>1, <1>2, <1>3

LEMMA NamesDiffer ==
  \A n \in 0 .. 24 :
    /\ yytname[n] = "$end" <=> n = 0
    /\ yytname[n] = "error" <=> n = 1
    /\ yytname[n] = "$undefined" <=> n = 2
    /\ yytname[n] = "SELECT" <=> n = 3
    /\ yytname[n] = "FROM" <=> n = 4
    /\ yytname[n] = "WHERE" <=> n = 5
    /\ yytname[n] = "LOAD" <=> n = 6
    /\ yytname[n] = "WITH" <=> n = 7
    /\ yytname[n] = "INDEX" <=> n = 8
    /\ yytname[n] = "QUIT" <=> n = 9
    /\ yytname[n] = "COUNT" <=> n = 10
    /\ yytname[n] = "AND" <=> n = 11
    /\ yytname[n] = "OR" <=> n = 12
    /\ yytname[n] = "COMMA" <=> n = 13
    /\ yytname[n] = "STAR" <=> n = 14
    /\ yytname[n] = "LF" <=> n = 15
    /\ yytname[n] = "INTEGER" <=> n = 16
    /\ yytname[n] = "STRING" <=> n = 17
    /\ yytname[n] = "ID" <=> n = 18
    /\ yytname[n] = "EQUAL" <=> n = 19
    /\ yytname[n] = "NEQUAL" <=> n = 20
    /\ yytname[n] = "LESS" <=> n = 21
    /\ yytname[n] = "LESSEQUAL" <=> n = 22
    /\ yytname[n] = "GREATER" <=> n = 23
    /\ yytname[n] = "GREATEREQUAL" <=> n = 24
BY SMTT(60) DEF yytname, From0

LEMMA ShiftRows ==
  \A n \in 0 .. 24 :
    /\ ShiftOn(1, n) = CASE n = 0 -> 2 [] n = 1 -> 3 [] n = 3 -> 4 [] n = 6 -> 5 [] n = 9 -> 6
                         [] n = 15 -> 7 [] OTHER -> 0
    /\ ShiftOn(3, n) = IF n = 15 THEN 12 ELSE 0
    /\ ShiftOn(4, n) = CASE n = 10 -> 13 [] n = 14 -> 14 [] n = 18 -> 15 [] OTHER -> 0
    /\ ShiftOn(5, n) = IF n = 18 THEN 18 ELSE 0
    /\ ShiftOn(16, n) = IF n = 4 THEN 20 ELSE 0
    /\ ShiftOn(19, n) = IF n = 4 THEN 21 ELSE 0
    /\ ShiftOn(20, n) = IF n = 18 THEN 18 ELSE 0
    /\ ShiftOn(21, n) = IF n = 17 THEN 23 ELSE 0
    /\ ShiftOn(22, n) = CASE n = 5 -> 24 [] n = 15 -> 25 [] OTHER -> 0
    /\ ShiftOn(23, n) = CASE n = 7 -> 26 [] n = 15 -> 27 [] OTHER -> 0
    /\ ShiftOn(24, n) = IF n = 18 THEN 15 ELSE 0
    /\ ShiftOn(26, n) = IF n = 8 THEN 31 ELSE 0
    /\ ShiftOn(28, n) = CASE n = 11 -> 32 [] n = 15 -> 33 [] OTHER -> 0
    /\ ShiftOn(30, n) = IF n \in 19 .. 24 THEN n + 15 ELSE 0
    /\ ShiftOn(31, n) = IF n = 15 THEN 41 ELSE 0
    /\ ShiftOn(32, n) = IF n = 18 THEN 15 ELSE 0
    /\ ShiftOn(40, n) = CASE n = 16 -> 43 [] n = 17 -> 44 [] OTHER -> 0
BY SMTT(120) DEF ShiftOn, yypact, yycheck, yytable, From0, IsDefault, YYPACT_NINF, YYLAST

LEMMA SymbolRows ==
  /\ yystos \in [States -> 0 .. 37]
  /\ yystos[0] = 0 /\ yystos[1] = 26 /\ yystos[2] = 0 /\ yystos[3] = 1 /\ yystos[4] = 3
  /\ yystos[5] = 6 /\ yystos[6] = 9 /\ yystos[7] = 15 /\ yystos[8] = 27 /\ yystos[9] = 28
  /\ yystos[10] = 29 /\ yystos[11] = 30 /\ yystos[12] = 15 /\ yystos[13] = 10
  /\ yystos[14] = 14 /\ yystos[15] = 18 /\ yystos[16] = 33 /\ yystos[17] = 34
  /\ yystos[18] = 18 /\ yystos[19] = 36 /\ yystos[20] = 4 /\ yystos[21] = 4
  /\ yystos[22] = 36 /\ yystos[23] = 17 /\ yystos[24] = 5 /\ yystos[25] = 15
  /\ yystos[26] = 7 /\ yystos[27] = 15 /\ yystos[28] = 31 /\ yystos[29] = 32
  /\ yystos[30] = 34 /\ yystos[31] = 8 /\ yystos[32] = 11 /\ yystos[33] = 15
  /\ yystos[34] = 19 /\ yystos[35] = 20 /\ yystos[36] = 21 /\ yystos[37] = 22
  /\ yystos[38] = 23 /\ yystos[39] = 24 /\ yystos[40] = 37 /\ yystos[41] = 15
  /\ yystos[42] = 32 /\ yystos[43] = 16 /\ yystos[44] = 17 /\ yystos[45] = 35
BY SMTT(60) DEF yystos, From0, States

LEMMA ShiftIs ==
  ASSUME NEW s \in Asking, NEW n \in 0 .. 24, ShiftOn(s, n) # 0
  PROVE  /\ ShiftOn(s, n) \in 2 .. 44 /\ yystos[ShiftOn(s, n)] = n
         /\ ShiftOn(s, n) # 9 /\ s \in Below(ShiftOn(s, n))
<1>1. PICK t : t = ShiftOn(s, n)
  OBVIOUS
<1>2. t \in 2 .. 44 /\ t # 9 /\ yystos[t] = n
  BY SMTT(60), <1>1, ShiftRows, SymbolRows DEF Asking
<1>3. s \in Below(t)
  BY SMTT(60), <1>1, ShiftRows DEF Asking, Below
<1> QED BY <1>1, <1>2, <1>3

LEMMA ShiftLevel ==
  ASSUME NEW s \in Asking, NEW n \in 0 .. 24, ShiftOn(s, n) # 0, NEW i \in 1 .. 12,
         s \in Level(i)
  PROVE  i < 12 /\ ShiftOn(s, n) \in Level(i + 1)
BY SMTT(60), ShiftRows DEF Asking, Level

(* A state shifts what it expects. *)
LEMMA ShiftExpected ==
  ASSUME NEW s \in Asking, NEW sym \in Symbols \cup {"$end"}
  PROVE  ShiftOn(s, yytranslate[sym]) # 0 <=> sym \in Expected(s)
<1>1. PICK n \in 0 .. 24 : n = yytranslate[sym] /\ yytname[n] = sym
  BY Translated
<1>2. n # 1
  BY <1>1, SymbolNames DEF Symbols, WithText, Comparators
<1>3. yytname[n] \in Comparators <=> n \in 19 .. 24
  BY SMTT(60), NamesDiffer DEF Comparators
<1>4. CASE s = 30
  BY <1>1, <1>3, <1>4, ShiftRows DEF Expected
<1>5. CASE s \in {1, 4, 22, 23, 28, 40}
  BY SMTT(60), <1>1, <1>2, <1>5, ShiftRows, NamesDiffer DEF Expected
<1>6. CASE s \in {3, 5, 16, 19, 20, 21, 24, 26, 31, 32}
  BY SMTT(60), <1>1, <1>6, ShiftRows, NamesDiffer DEF Expected
<1> QED BY <1>4, <1>5, <1>6 DEF Asking

LEMMA ErrorShift ==
  ASSUME NEW s \in States
  PROVE  ShiftOn(s, YYTERROR) = IF s = 1 THEN 3 ELSE 0
<1>1. CASE s \in Asking
  BY <1>1, ShiftRows DEF Asking, YYTERROR
<1>2. CASE s \notin Asking
  <2>1. s # 1
    BY <1>2 DEF Asking
  <2> QED BY <1>2, <2>1, AskingStates DEF ShiftOn
<1> QED BY <1>1, <1>2

(* The state in which a rule is reduced *)
LEMMA RuleRows ==
  /\ \A s \in Asking : yydefact[s] = 0
  /\ \A s \in States :
       /\ yydefact[s] = 2 <=> s = 8
       /\ yydefact[s] = 3 <=> s = 0
       /\ yydefact[s] = 4 <=> s = 10
       /\ yydefact[s] = 5 <=> s = 11
       /\ yydefact[s] = 6 <=> s = 9
       /\ yydefact[s] = 7 <=> s = 12
       /\ yydefact[s] = 8 <=> s = 7
       /\ yydefact[s] = 9 <=> s = 6
       /\ yydefact[s] = 10 <=> s = 27
       /\ yydefact[s] = 11 <=> s = 41
       /\ yydefact[s] = 12 <=> s = 25
       /\ yydefact[s] = 13 <=> s = 33
       /\ yydefact[s] = 14 <=> s = 29
       /\ yydefact[s] = 15 <=> s = 42
       /\ yydefact[s] = 16 <=> s = 45
       /\ yydefact[s] = 17 <=> s = 17
       /\ yydefact[s] = 18 <=> s = 14
       /\ yydefact[s] = 19 <=> s = 13
       /\ yydefact[s] = 20 <=> s = 15
       /\ yydefact[s] = 21 <=> s = 43
       /\ yydefact[s] = 22 <=> s = 44
       /\ yydefact[s] = 23 <=> s = 18
       /\ yydefact[s] = 24 <=> s = 34
       /\ yydefact[s] = 25 <=> s = 35
       /\ yydefact[s] = 26 <=> s = 36
       /\ yydefact[s] = 27 <=> s = 38
       /\ yydefact[s] = 28 <=> s = 37
       /\ yydefact[s] = 29 <=> s = 39
       /\ yydefact[s] = 0 <=> s \in Asking
<1>1. \A s \in States : yydefact[s] = 0 <=> s \in Asking
  BY SMTT(60) DEF yydefact, From0, States, Asking
<1> QED BY SMTT(120), <1>1 DEF yydefact, From0, States, Asking

LEMMA RuleLengths ==
  /\ yyr2 \in [0 .. 29 -> 0 .. 7] /\ yyr1 \in [0 .. 29 -> 0 .. 37]
  /\ yyr2[2] = 2 /\ yyr2[3] = 0 /\ yyr2[4] = 1 /\ yyr2[5] = 1 /\ yyr2[6] = 1 /\ yyr2[7] = 2
  /\ yyr2[8] = 1 /\ yyr2[9] = 1 /\ yyr2[10] = 5 /\ yyr2[11] = 7 /\ yyr2[12] = 5 /\ yyr2[13] = 7
  /\ yyr2[14] = 1 /\ yyr2[15] = 3 /\ yyr2[16] = 3
  /\ \A n \in 17 .. 29 : yyr2[n] = 1
  /\ yyr1[2] = 26 /\ yyr1[3] = 26 /\ yyr1[4] = 27 /\ yyr1[5] = 27 /\ yyr1[6] = 27
  /\ yyr1[7] = 27 /\ yyr1[8] = 27 /\ yyr1[9] = 28 /\ yyr1[10] = 29 /\ yyr1[11] = 29
  /\ yyr1[12] = 30 /\ yyr1[13] = 30 /\ yyr1[14] = 31 /\ yyr1[15] = 31 /\ yyr1[16] = 32
  /\ yyr1[17] = 33 /\ yyr1[18] = 33 /\ yyr1[19] = 33 /\ yyr1[20] = 34 /\ yyr1[21] = 35
  /\ yyr1[22] = 35 /\ yyr1[23] = 36 /\ \A n \in 24 .. 29 : yyr1[n] = 37
BY SMTT(60) DEF yyr1, yyr2, From0

LEMMA GotoRows ==
  /\ GotoOn(0, 26) = 1 /\ GotoOn(1, 27) = 8 /\ GotoOn(1, 29) = 10 /\ GotoOn(1, 30) = 11
  /\ GotoOn(4, 33) = 16 /\ GotoOn(4, 34) = 17 /\ GotoOn(5, 36) = 19 /\ GotoOn(20, 36) = 22
  /\ GotoOn(24, 31) = 28 /\ GotoOn(24, 32) = 29 /\ GotoOn(24, 34) = 30
  /\ GotoOn(30, 37) = 40 /\ GotoOn(32, 32) = 42 /\ GotoOn(32, 34) = 30 /\ GotoOn(40, 35) = 45
BY SMTT(60) DEF GotoOn, yypgoto, yydefgoto, yycheck, yytable, From0, YYNTOKENS, YYLAST

-----------------------------------------------------------------------------
(* The stack *)

(* The stack is a path through the states, and no lookahead is read before *)
(* a state needs one: every reduction happens without.                     *)
Height == Len(yyss)

StackInv ==
  /\ yyss \in Seq(States) /\ Height \in 1 .. 12
  /\ \A i \in 1 .. Height : yyss[i] \in Level(i)
  /\ \A i \in 2 .. Height : yyss[i - 1] \in Below(yyss[i])
  /\ yychar \in Symbols \cup {"$end", YYEMPTY}
  /\ yychar # YYEMPTY => Top \in Asking

LEMMA EmptyIsNoSymbol == YYEMPTY \notin Symbols \cup {"$end"}
BY DEF YYEMPTY, Symbols, WithText, Comparators

LEMMA TopIs ==
  ASSUME StackInv
  PROVE  Top = yyss[Height] /\ Top \in States /\ Top \in Level(Height)
BY DEF StackInv, Top, Last, Height

LEMMA BelowRows ==
  /\ \A s \in 2 .. 11 : Below(s) = {1}
  /\ Below(1) = {0} /\ Below(12) = {3} /\ Below(16) = {4} /\ Below(19) = {5}
  /\ Below(20) = {16} /\ Below(21) = {19} /\ Below(22) = {20} /\ Below(23) = {21}
  /\ Below(24) = {22} /\ Below(25) = {22} /\ Below(26) = {23} /\ Below(27) = {23}
  /\ Below(28) = {24} /\ Below(29) = {24} /\ Below(30) = {24, 32} /\ Below(31) = {26}
  /\ Below(15) = {4, 24, 32} /\ Below(18) = {5, 20} /\ Below(32) = {28} /\ Below(33) = {28}
  /\ \A s \in 34 .. 40 : Below(s) = {30}
  /\ Below(41) = {31} /\ Below(42) = {32} /\ \A s \in 43 .. 45 : Below(s) = {40}
BY SMTT(60) DEF Below

LEMMA LevelRows ==
  /\ Level(1) = {0} /\ Level(2) = {1} /\ Level(3) = (2 .. 11) \ {9} /\ Level(4) = 12 .. 19
  /\ Level(5) = {20, 21} /\ Level(6) = {18, 22, 23} /\ Level(7) = 24 .. 27
  /\ Level(8) = {15, 28, 29, 30, 31} /\ Level(9) = 32 .. 41
  /\ Level(10) = {15, 30, 42, 43, 44, 45} /\ Level(11) = 34 .. 40 /\ Level(12) = 43 .. 45
BY SMTT(60) DEF Level

(* The symbols under the top, of whatever depth the stack is *)
LEMMA Shape ==
  ASSUME StackInv
  PROVE  /\ yyss[1] = 0
         /\ Height >= 2 => yyss[2] = 1
         /\ Height >= 5 => \/ yyss[3] = 4 /\ yyss[4] = 16 /\ yyss[5] = 20
                           \/ yyss[3] = 5 /\ yyss[4] = 19 /\ yyss[5] = 21
         /\ Height >= 7 => \/ yyss[5] = 20 /\ yyss[6] = 22
                           \/ yyss[5] = 21 /\ yyss[6] = 23
         /\ Height >= 8 => \/ yyss[6] = 22 /\ yyss[7] = 24
                           \/ yyss[6] = 23 /\ yyss[7] = 26
         /\ Height >= 9 => \/ yyss[7] = 24 /\ yyss[8] \in {28, 30}
                           \/ yyss[7] = 26 /\ yyss[8] = 31
         /\ Height >= 10 => /\ yyss[7] = 24
                            /\ \/ yyss[8] = 28 /\ yyss[9] = 32
                               \/ yyss[8] = 30 /\ yyss[9] = 40
         /\ Height >= 11 => yyss[8] = 28 /\ yyss[9] = 32 /\ yyss[10] = 30
         /\ Height >= 12 => yyss[11] = 40
<1>0. Height \in 1 .. 12
  BY DEF StackInv
<1>1. \A i \in 1 .. Height : yyss[i] \in Level(i)
  BY DEF StackInv
<1>2. \A i \in 1 .. 11 : i + 1 <= Height => yyss[i] \in Below(yyss[i + 1])
  <2> TAKE i \in 1 .. 11
  <2> HAVE i + 1 <= Height
  <2>1. i + 1 \in 2 .. Height /\ (i + 1) - 1 = i
    BY <1>0
  <2> QED BY <2>1 DEF StackInv
<1>3. yyss[1] = 0 /\ (Height >= 2 => yyss[2] = 1) /\ (Height >= 3 => yyss[3] \in (2 .. 11) \ {9})
      /\ (Height >= 4 => yyss[4] \in 12 .. 19) /\ (Height >= 5 => yyss[5] \in {20, 21})
      /\ (Height >= 6 => yyss[6] \in {18, 22, 23})
  BY <1>0, <1>1, LevelRows
<1>4. /\ Height >= 7 => yyss[7] \in 24 .. 27
      /\ Height >= 8 => yyss[8] \in {15, 28, 29, 30, 31}
      /\ Height >= 9 => yyss[9] \in 32 .. 41
      /\ Height >= 10 => yyss[10] \in {15, 30, 42, 43, 44, 45}
      /\ Height >= 11 => yyss[11] \in 34 .. 40
      /\ Height >= 12 => yyss[12] \in 43 .. 45
  BY <1>0, <1>1, LevelRows
<1>5. /\ Height >= 4 => yyss[3] \in Below(yyss[4])
      /\ Height >= 5 => yyss[4] \in Below(yyss[5])
      /\ Height >= 6 => yyss[5] \in Below(yyss[6])
      /\ Height >= 7 => yyss[6] \in Below(yyss[7])
      /\ Height >= 8 => yyss[7] \in Below(yyss[8])
      /\ Height >= 9 => yyss[8] \in Below(yyss[9])
      /\ Height >= 10 => yyss[9] \in Below(yyss[10])
      /\ Height >= 11 => yyss[10] \in Below(yyss[11])
      /\ Height >= 12 => yyss[11] \in Below(yyss[12])
  <2>1. 3 + 1 = 4 /\ 4 + 1 = 5 /\ 5 + 1 = 6 /\ 6 + 1 = 7 /\ 7 + 1 = 8 /\ 8 + 1 = 9 /\ 9 + 1 = 10
        /\ 10 + 1 = 11 /\ 11 + 1 = 12
    OBVIOUS
  <2>2. \A i \in 3 .. 11 : i + 1 <= Height => yyss[i] \in Below(yyss[i + 1])
    BY <1>2
  <2> QED BY <2>1, <2>2, <1>0
<1>6. Height >= 5 => \/ yyss[3] = 4 /\ yyss[4] = 16 /\ yyss[5] = 20
                     \/ yyss[3] = 5 /\ yyss[4] = 19 /\ yyss[5] = 21
  BY <1>0, <1>3, <1>5, BelowRows
<1>7. Height >= 7 => yyss[6] \in {22, 23}
  BY <1>0, <1>4, <1>5, BelowRows
<1>8. Height >= 7 => \/ yyss[5] = 20 /\ yyss[6] = 22
                     \/ yyss[5] = 21 /\ yyss[6] = 23
  BY <1>0, <1>5, <1>7, BelowRows
<1>9. Height >= 8 => yyss[7] \in {24, 26}
  <2>1. Height >= 8 => yyss[7] \in {4, 24, 32, 26}
    BY <1>0, <1>4, <1>5, BelowRows
  <2> QED BY <1>0, <1>4, <2>1
<1>10. Height >= 8 => \/ yyss[6] = 22 /\ yyss[7] = 24
                      \/ yyss[6] = 23 /\ yyss[7] = 26
  BY <1>0, <1>5, <1>9, BelowRows
<1>11. Height >= 9 => yyss[8] \in {28, 30, 31}
  BY <1>0, <1>4, <1>5, BelowRows
<1>12. Height >= 9 => \/ yyss[7] = 24 /\ yyss[8] \in {28, 30}
                      \/ yyss[7] = 26 /\ yyss[8] = 31
  BY <1>0, <1>4, <1>5, <1>11, BelowRows
<1>13. Height >= 10 => yyss[9] \in {32, 40}
  <2>1. Height >= 10 => yyss[9] \in {4, 24, 32, 40}
    BY <1>0, <1>4, <1>5, BelowRows
  <2> QED BY <1>0, <1>4, <2>1
<1>14. Height >= 10 => /\ yyss[7] = 24
                       /\ \/ yyss[8] = 28 /\ yyss[9] = 32
                          \/ yyss[8] = 30 /\ yyss[9] = 40
  <2>1. Height >= 10 => \/ yyss[8] = 28 /\ yyss[9] = 32
                        \/ yyss[8] = 30 /\ yyss[9] = 40
    BY <1>0, <1>5, <1>13, BelowRows
  <2> QED BY <1>0, <1>12, <2>1
<1>15. Height >= 11 => yyss[10] = 30
  BY <1>0, <1>4, <1>5, BelowRows
<1>16. Height >= 11 => yyss[8] = 28 /\ yyss[9] = 32 /\ yyss[10] = 30
  BY <1>0, <1>5, <1>13, <1>14, <1>15, BelowRows
<1>17. Height >= 12 => yyss[11] = 40
  BY <1>0, <1>4, <1>5, BelowRows
<1> QED BY <1>3, <1>6, <1>8, <1>10, <1>12, <1>14, <1>16, <1>17

(* How deep the stack is when a state is on its top *)
LEMMA LevelDepth ==
  ASSUME NEW d \in 1 .. 12, NEW t \in Int, t \in Level(d)
  PROVE  /\ d = 1 <=> t = 0
         /\ d = 2 <=> t = 1
         /\ d = 3 <=> t \in 2 .. 11
         /\ t # 9
         /\ t \in {12, 13, 14, 16, 17, 19} => d = 4
         /\ t = 15 => d \in {4, 8, 10}
         /\ t = 18 => d \in {4, 6}
         /\ t \in {20, 21} => d = 5
         /\ t \in {22, 23} => d = 6
         /\ t \in 24 .. 27 => d = 7
         /\ t \in {28, 29, 31} => d = 8
         /\ t = 30 => d \in {8, 10}
         /\ t \in {32, 33, 41} => d = 9
         /\ t \in 34 .. 40 => d \in {9, 11}
         /\ t = 42 => d = 10
         /\ t \in 43 .. 45 => d \in {10, 12}
<1>1. d = 1 => t = 0
  BY LevelRows
<1>2. d = 2 => t = 1
  BY LevelRows
<1>3. d = 3 => t \in (2 .. 11) \ {9}
  BY LevelRows
<1>4. d = 4 => t \in 12 .. 19
  BY LevelRows
<1>5. d = 5 => t \in {20, 21}
  BY LevelRows
<1>6. d = 6 => t \in {18, 22, 23}
  BY LevelRows
<1>7. d = 7 => t \in 24 .. 27
  BY LevelRows
<1>8. d = 8 => t \in {15, 28, 29, 30, 31}
  BY LevelRows
<1>9. d = 9 => t \in 32 .. 41
  BY LevelRows
<1>10. d = 10 => t \in {15, 30, 42, 43, 44, 45}
  BY LevelRows
<1>11. d = 11 => t \in 34 .. 40
  BY LevelRows
<1>12. d = 12 => t \in 43 .. 45
  BY LevelRows
<1> QED BY <1>1, <1>2, <1>3, <1>4, <1>5, <1>6, <1>7, <1>8, <1>9, <1>10, <1>11, <1>12

LEMMA Depth ==
  ASSUME StackInv
  PROVE  /\ Height = 1 <=> Top = 0
         /\ Height = 2 <=> Top = 1
         /\ Height = 3 <=> Top \in 2 .. 11
         /\ Top # 9
         /\ Top \in {12, 13, 14, 16, 17, 19} => Height = 4
         /\ Top = 15 => Height \in {4, 8, 10}
         /\ Top = 18 => Height \in {4, 6}
         /\ Top \in {20, 21} => Height = 5
         /\ Top \in {22, 23} => Height = 6
         /\ Top \in 24 .. 27 => Height = 7
         /\ Top \in {28, 29, 31} => Height = 8
         /\ Top = 30 => Height \in {8, 10}
         /\ Top \in {32, 33, 41} => Height = 9
         /\ Top \in 34 .. 40 => Height \in {9, 11}
         /\ Top = 42 => Height = 10
         /\ Top \in 43 .. 45 => Height \in {10, 12}
<1>1. Top \in States /\ Top \in Level(Height)
  BY TopIs
<1>2. Top \in Int
  BY <1>1 DEF States
<1>3. Height \in 1 .. 12
  BY DEF StackInv
<1> QED BY <1>1, <1>2, <1>3, LevelDepth

(* What lies under the top *)
LEMMA UnderTop ==
  ASSUME StackInv, Height > 1
  PROVE  yyss[Height - 1] \in Below(Top) /\ yyss[Height - 1] \in States
<1>1. Height \in 2 .. 12 /\ Height - 1 \in 1 .. Height /\ yyss \in Seq(States)
  BY DEF StackInv
<1>2. yyss[Height - 1] \in Below(yyss[Height])
  BY <1>1 DEF StackInv
<1>3. yyss[Height - 1] \in States
  BY <1>1 DEF Height
<1> QED BY <1>2, <1>3, TopIs

(* Push and pop *)
Cut(s, keep, x) == Append(SubSeq(s, 1, keep), x)

LEMMA CutIs ==
  ASSUME NEW S, NEW s \in Seq(S), NEW keep \in 0 .. Len(s), NEW x \in S
  PROVE  /\ Cut(s, keep, x) \in Seq(S) /\ Len(Cut(s, keep, x)) = keep + 1
         /\ Cut(s, keep, x)[keep + 1] = x
         /\ \A i \in 1 .. keep : Cut(s, keep, x)[i] = s[i]
<1>1. SubSeq(s, 1, keep) \in Seq(S) /\ Len(SubSeq(s, 1, keep)) = keep
      /\ \A i \in 1 .. keep : SubSeq(s, 1, keep)[i] = s[i]
  OBVIOUS
<1>2. PICK r \in Seq(S) : r = SubSeq(s, 1, keep)
  BY <1>1
<1> QED BY <1>1, <1>2 DEF Cut

(* The rules, the states in which they are reduced, and how deep these lie *)
LEMMA RuleStates ==
  ASSUME NEW n \in 0 .. 29, NEW t \in 0 .. 45, yydefact[t] = n
  PROVE  /\ n = 0 <=> t \in Asking
         /\ n = 1 <=> t = 2
         /\ n = 2 <=> t = 8
         /\ n = 3 <=> t = 0
         /\ n = 4 <=> t = 10
         /\ n = 5 <=> t = 11
         /\ n = 6 <=> t = 9
         /\ n = 7 <=> t = 12
         /\ n = 8 <=> t = 7
         /\ n = 9 <=> t = 6
         /\ n = 10 <=> t = 27
         /\ n = 11 <=> t = 41
         /\ n = 12 <=> t = 25
         /\ n = 13 <=> t = 33
         /\ n = 14 <=> t = 29
         /\ n = 15 <=> t = 42
         /\ n = 16 <=> t = 45
         /\ n = 17 <=> t = 17
         /\ n = 18 <=> t = 14
         /\ n = 19 <=> t = 13
         /\ n = 20 <=> t = 15
         /\ n = 21 <=> t = 43
         /\ n = 22 <=> t = 44
         /\ n = 23 <=> t = 18
         /\ n = 24 <=> t = 34
         /\ n = 25 <=> t = 35
         /\ n = 26 <=> t = 36
         /\ n = 27 <=> t = 38
         /\ n = 28 <=> t = 37
         /\ n = 29 <=> t = 39
<1>1. t \in States
  BY DEF States
<1>2. n = 0 <=> t \in Asking
  BY <1>1, RuleRows
<1>3. n = 2 <=> t = 8
  BY <1>1, RuleRows
<1>4. n = 3 <=> t = 0
  BY <1>1, RuleRows
<1>5. n = 4 <=> t = 10
  BY <1>1, RuleRows
<1>6. n = 5 <=> t = 11
  BY <1>1, RuleRows
<1>7. n = 6 <=> t = 9
  BY <1>1, RuleRows
<1>8. n = 7 <=> t = 12
  BY <1>1, RuleRows
<1>9. n = 8 <=> t = 7
  BY <1>1, RuleRows
<1>10. n = 9 <=> t = 6
  BY <1>1, RuleRows
<1>11. n = 10 <=> t = 27
  BY <1>1, RuleRows
<1>12. n = 11 <=> t = 41
  BY <1>1, RuleRows
<1>13. n = 12 <=> t = 25
  BY <1>1, RuleRows
<1>14. n = 13 <=> t = 33
  BY <1>1, RuleRows
<1>15. n = 14 <=> t = 29
  BY <1>1, RuleRows
<1>16. n = 15 <=> t = 42
  BY <1>1, RuleRows
<1>17. n = 16 <=> t = 45
  BY <1>1, RuleRows
<1>18. n = 17 <=> t = 17
  BY <1>1, RuleRows
<1>19. n = 18 <=> t = 14
  BY <1>1, RuleRows
<1>20. n = 19 <=> t = 13
  BY <1>1, RuleRows
<1>21. n = 20 <=> t = 15
  BY <1>1, RuleRows
<1>22. n = 21 <=> t = 43
  BY <1>1, RuleRows
<1>23. n = 22 <=> t = 44
  BY <1>1, RuleRows
<1>24. n = 23 <=> t = 18
  BY <1>1, RuleRows
<1>25. n = 24 <=> t = 34
  BY <1>1, RuleRows
<1>26. n = 25 <=> t = 35
  BY <1>1, RuleRows
<1>27. n = 26 <=> t = 36
  BY <1>1, RuleRows
<1>28. n = 27 <=> t = 38
  BY <1>1, RuleRows
<1>29. n = 28 <=> t = 37
  BY <1>1, RuleRows
<1>30. n = 29 <=> t = 39
  BY <1>1, RuleRows
<1>31. \A k \in States : yydefact[k] = 1 <=> k = 2
  BY SMTT(60) DEF yydefact, From0, States
<1> QED BY <1>1, <1>2, <1>3, <1>4, <1>5, <1>6, <1>7, <1>8, <1>9, <1>10, <1>11, <1>12, <1>13,
           <1>14, <1>15, <1>16, <1>17, <1>18, <1>19, <1>20, <1>21, <1>22, <1>23, <1>24,
           <1>25, <1>26, <1>27, <1>28, <1>29, <1>30, <1>31

(* In state t, d deep, rule n cuts the stack down to keep. *)
RuleIs(n, t, d, keep) ==
  /\ n \in 2 .. 29 /\ n # 6
  /\ n = 2 => t = 8 /\ d = 3 /\ keep = 1
  /\ n = 3 => t = 0 /\ d = 1 /\ keep = 1
  /\ n = 4 => t = 10 /\ d = 3 /\ keep = 2
  /\ n = 5 => t = 11 /\ d = 3 /\ keep = 2
  /\ n = 7 => t = 12 /\ d = 4 /\ keep = 2
  /\ n = 8 => t = 7 /\ d = 3 /\ keep = 2
  /\ n = 9 => t = 6 /\ d = 3
  /\ n = 10 => t = 27 /\ d = 7 /\ keep = 2
  /\ n = 11 => t = 41 /\ d = 9 /\ keep = 2
  /\ n = 12 => t = 25 /\ d = 7 /\ keep = 2
  /\ n = 13 => t = 33 /\ d = 9 /\ keep = 2
  /\ n = 14 => t = 29 /\ d = 8 /\ keep = 7
  /\ n = 15 => t = 42 /\ d = 10 /\ keep = 7
  /\ n = 16 => t = 45 /\ d \in {10, 12} /\ keep = d - 3
  /\ n = 17 => t = 17 /\ d = 4 /\ keep = 3
  /\ n = 18 => t = 14 /\ d = 4 /\ keep = 3
  /\ n = 19 => t = 13 /\ d = 4 /\ keep = 3
  /\ n = 20 => t = 15 /\ d \in {4, 8, 10} /\ keep = d - 1
  /\ n = 21 => t = 43 /\ d \in {10, 12} /\ keep = d - 1
  /\ n = 22 => t = 44 /\ d \in {10, 12} /\ keep = d - 1
  /\ n = 23 => t = 18 /\ d \in {4, 6} /\ keep = d - 1
  /\ n \in 24 .. 29 => t \in 34 .. 39 /\ d \in {9, 11} /\ keep = d - 1

LEMMA RuleDepth ==
  ASSUME NEW n \in 0 .. 29, NEW t \in 0 .. 45, NEW d \in 1 .. 12, NEW r \in 0 .. 7,
         yydefact[t] = n, t \in Level(d), r = yyr2[n], t # 2, t \notin Asking
  PROVE  RuleIs(n, t, d, d - r)
<1>0. n \in 2 .. 29
  BY RuleStates
<1> DEFINE keep == d - r
<1> HIDE DEF keep
<1>1. n = 2 => t = 8 /\ d = 3 /\ keep = 1
  BY <1>0, RuleStates, LevelDepth, RuleLengths DEF keep
<1>2. n = 3 => t = 0 /\ d = 1 /\ keep = 1
  BY <1>0, RuleStates, LevelDepth, RuleLengths DEF keep
<1>3. n = 4 => t = 10 /\ d = 3 /\ keep = 2
  BY <1>0, RuleStates, LevelDepth, RuleLengths DEF keep
<1>4. n = 5 => t = 11 /\ d = 3 /\ keep = 2
  BY <1>0, RuleStates, LevelDepth, RuleLengths DEF keep
<1>5. n = 7 => t = 12 /\ d = 4 /\ keep = 2
  BY <1>0, RuleStates, LevelDepth, RuleLengths DEF keep
<1>6. n = 8 => t = 7 /\ d = 3 /\ keep = 2
  BY <1>0, RuleStates, LevelDepth, RuleLengths DEF keep
<1>7. n = 9 => t = 6 /\ d = 3
  BY <1>0, RuleStates, LevelDepth, RuleLengths DEF keep
<1>8. n = 10 => t = 27 /\ d = 7 /\ keep = 2
  BY <1>0, RuleStates, LevelDepth, RuleLengths DEF keep
<1>9. n = 11 => t = 41 /\ d = 9 /\ keep = 2
  BY <1>0, RuleStates, LevelDepth, RuleLengths DEF keep
<1>10. n = 12 => t = 25 /\ d = 7 /\ keep = 2
  BY <1>0, RuleStates, LevelDepth, RuleLengths DEF keep
<1>11. n = 13 => t = 33 /\ d = 9 /\ keep = 2
  BY <1>0, RuleStates, LevelDepth, RuleLengths DEF keep
<1>12. n = 14 => t = 29 /\ d = 8 /\ keep = 7
  BY <1>0, RuleStates, LevelDepth, RuleLengths DEF keep
<1>13. n = 15 => t = 42 /\ d = 10 /\ keep = 7
  BY <1>0, RuleStates, LevelDepth, RuleLengths DEF keep
<1>14. n = 16 => t = 45 /\ d \in {10, 12} /\ keep = d - 3
  BY <1>0, RuleStates, LevelDepth, RuleLengths DEF keep
<1>15. n = 17 => t = 17 /\ d = 4 /\ keep = 3
  BY <1>0, RuleStates, LevelDepth, RuleLengths DEF keep
<1>16. n = 18 => t = 14 /\ d = 4 /\ keep = 3
  BY <1>0, RuleStates, LevelDepth, RuleLengths DEF keep
<1>17. n = 19 => t = 13 /\ d = 4 /\ keep = 3
  BY <1>0, RuleStates, LevelDepth, RuleLengths DEF keep
<1>18. n = 20 => t = 15 /\ d \in {4, 8, 10} /\ keep = d - 1
  BY <1>0, RuleStates, LevelDepth, RuleLengths DEF keep
<1>19. n = 21 => t = 43 /\ d \in {10, 12} /\ keep = d - 1
  BY <1>0, RuleStates, LevelDepth, RuleLengths DEF keep
<1>20. n = 22 => t = 44 /\ d \in {10, 12} /\ keep = d - 1
  BY <1>0, RuleStates, LevelDepth, RuleLengths DEF keep
<1>21. n = 23 => t = 18 /\ d \in {4, 6} /\ keep = d - 1
  BY <1>0, RuleStates, LevelDepth, RuleLengths DEF keep
<1>22. n \in 24 .. 29 => t \in 34 .. 39 /\ d \in {9, 11} /\ keep = d - 1
  BY <1>0, RuleStates, LevelDepth, RuleLengths DEF keep
<1>23. n # 6
  BY RuleStates, LevelDepth
<1>24. RuleIs(n, t, d, keep)
  BY <1>0, <1>1, <1>2, <1>3, <1>4, <1>5, <1>6, <1>7, <1>8, <1>9, <1>10, <1>11, <1>12,
     <1>13, <1>14, <1>15, <1>16, <1>17, <1>18, <1>19, <1>20, <1>21, <1>22, <1>23 DEF RuleIs
<1> QED BY <1>24 DEF keep

(* Why a rule can be reduced *)
LEMMA Reduction ==
  ASSUME StackInv, NEW n \in 0 .. 29, Reduces(n)
  PROVE  /\ yychar = YYEMPTY /\ Top \notin Asking
         /\ RuleIs(n, Top, Height, Height - PoppedBy(n))
<1>1. yydefact[Top] = n /\ n # 0 /\ Top # 2
  BY DEF Reduces, Defaults, Going, YYFINAL
<1>2. Top \in States /\ Top \in Level(Height)
  BY TopIs
<1>3. Top \notin Asking
  BY <1>1, <1>2, RuleRows
<1>4. yychar = YYEMPTY
  BY <1>3 DEF StackInv
<1>5. Height \in 1 .. 12
  BY DEF StackInv
<1>6. Top \in 0 .. 45
  BY <1>2 DEF States
<1>7. yyr2[n] \in 0 .. 7
  BY RuleLengths
<1>8. RuleIs(n, Top, Height, Height - yyr2[n])
  BY <1>1, <1>2, <1>3, <1>5, <1>6, <1>7, RuleDepth
<1> QED BY <1>3, <1>4, <1>8 DEF PoppedBy

(* The state that the cut lays bare, and the one pushed on it *)
BaseIs(n, keep, b, g) ==
  /\ n \in {2, 3} => b = 0 /\ g = 1
  /\ n \in {4, 5, 7, 8} => b = 1 /\ g = 8
  /\ n \in {10, 11} => b = 1 /\ g = 10
  /\ n \in {12, 13} => b = 1 /\ g = 11
  /\ n \in {14, 15} => b = 24 /\ g = 28
  /\ n = 16 => IF keep = 7 THEN b = 24 /\ g = 29 ELSE b = 32 /\ g = 42
  /\ n \in {17, 18, 19} => b = 4 /\ g = 16
  /\ n = 20 => CASE keep = 3 -> b = 4 /\ g = 17
                 [] keep = 7 -> b = 24 /\ g = 30
                 [] OTHER    -> b = 32 /\ g = 30
  /\ n \in {21, 22} => b = 40 /\ g = 45
  /\ n = 23 => IF keep = 3 THEN b = 5 /\ g = 19 ELSE b = 20 /\ g = 22
  /\ n \in 24 .. 29 => b = 30 /\ g = 40

LEMMA BaseFits ==
  ASSUME NEW n \in 2 .. 29, NEW t \in States, NEW d \in 1 .. 12, NEW keep \in Int, NEW b, NEW g,
         RuleIs(n, t, d, keep), BaseIs(n, keep, b, g), n # 9
  PROVE  /\ keep \in 1 .. 11 /\ keep <= d
         /\ g \in States /\ g \in Level(keep + 1) /\ b \in Below(g)
<1>1. CASE n \in 2 .. 8
  BY <1>1, LevelRows, BelowRows DEF RuleIs, BaseIs, States
<1>2. CASE n \in 10 .. 15
  BY <1>2, LevelRows, BelowRows DEF RuleIs, BaseIs, States
<1>3. CASE n = 16
  BY <1>3, LevelRows, BelowRows DEF RuleIs, BaseIs, States
<1>4. CASE n \in {17, 18, 19}
  <2>1. keep = 3 /\ d = 4 /\ b = 4 /\ g = 16
    BY <1>4 DEF RuleIs, BaseIs
  <2> QED BY <2>1, LevelRows, BelowRows DEF States
<1>5. CASE n = 20
  <2>1. d \in {4, 8, 10} /\ keep = d - 1
    BY <1>5 DEF RuleIs
  <2>2. CASE d = 4
    <3>1. keep = 3 /\ b = 4 /\ g = 17
      BY <1>5, <2>1, <2>2 DEF BaseIs
    <3> QED BY <2>2, <3>1, LevelRows DEF States, Below
  <2>3. CASE d = 8
    <3>1. keep = 7 /\ b = 24 /\ g = 30
      BY <1>5, <2>1, <2>3 DEF BaseIs
    <3> QED BY <2>3, <3>1, LevelRows, BelowRows DEF States
  <2>4. CASE d = 10
    <3>1. keep = 9 /\ b = 32 /\ g = 30
      BY <1>5, <2>1, <2>4 DEF BaseIs
    <3> QED BY <2>4, <3>1, LevelRows, BelowRows DEF States
  <2> QED BY <2>1, <2>2, <2>3, <2>4
<1>6. CASE n \in {21, 22}
  <2>1. d \in {10, 12} /\ keep = d - 1 /\ b = 40 /\ g = 45
    BY <1>6 DEF RuleIs, BaseIs
  <2> QED BY <2>1, LevelRows, BelowRows DEF States
<1>7. CASE n = 23
  <2>1. \/ d = 4 /\ keep = 3 /\ b = 5 /\ g = 19
        \/ d = 6 /\ keep = 5 /\ b = 20 /\ g = 22
    BY <1>7 DEF RuleIs, BaseIs
  <2> QED BY <2>1, LevelRows, BelowRows DEF States
<1>8. CASE n \in 24 .. 29
  <2>1. d \in {9, 11} /\ keep = d - 1 /\ b = 30 /\ g = 40
    BY <1>8 DEF RuleIs, BaseIs
  <2> QED BY <2>1, LevelRows, BelowRows DEF States
<1> QED BY <1>1, <1>2, <1>3, <1>4, <1>5, <1>6, <1>7, <1>8

LEMMA RuleKeeps ==
  ASSUME NEW n \in 2 .. 29, NEW t \in States, NEW d \in 1 .. 12, NEW keep \in Int,
         RuleIs(n, t, d, keep), n # 9
  PROVE  keep \in 1 .. 11 /\ keep <= d /\ (n # 3 => d > 1)
<1>1. CASE n \in 2 .. 15
  BY <1>1 DEF RuleIs
<1>2. CASE n \in 16 .. 29
  BY <1>2 DEF RuleIs
<1> QED BY <1>1, <1>2

LEMMA BaseOf ==
  ASSUME NEW n \in 2 .. 29, NEW t \in States, NEW d \in 1 .. 12, NEW keep \in 1 .. 11,
         NEW b \in States, RuleIs(n, t, d, keep), n # 9, b \in Level(keep),
         d > 1 /\ keep = d - 1 => b \in Below(t),
         d = 10 /\ keep = 7 => b = 24, d = 12 /\ keep = 9 => b = 32
  PROVE  BaseIs(n, keep, b, GotoOn(b, yyr1[n]))
<1>1. CASE n \in {2, 3, 4, 5, 7, 8, 10, 11, 12, 13}
  <2>1. /\ n \in {2, 3} => keep = 1
        /\ n \in {4, 5, 7, 8, 10, 11, 12, 13} => keep = 2
    BY <1>1 DEF RuleIs
  <2>2. /\ n \in {2, 3} => b = 0
        /\ n \in {4, 5, 7, 8, 10, 11, 12, 13} => b = 1
    BY <2>1, LevelRows
  <2> QED BY <1>1, <2>2, RuleLengths, GotoRows DEF BaseIs
<1>2. CASE n \in {14, 15}
  <2>1. b = 24
    <3>1. CASE n = 14
      <4>1. keep = 7 /\ d = 8 /\ t = 29
        BY <3>1 DEF RuleIs
      <4> QED BY <4>1, BelowRows
    <3>2. CASE n = 15
      BY <3>2 DEF RuleIs
    <3> QED BY <1>2, <3>1, <3>2
  <2> QED BY <1>2, <2>1, RuleLengths, GotoRows DEF BaseIs
<1>3. CASE n = 16
  <2>1. \/ d = 10 /\ keep = 7
        \/ d = 12 /\ keep = 9
    BY <1>3 DEF RuleIs
  <2>2. IF keep = 7 THEN b = 24 ELSE b = 32
    BY <2>1
  <2> QED BY <1>3, <2>1, <2>2, RuleLengths, GotoRows DEF BaseIs
<1>4. CASE n \in {17, 18, 19}
  <2>1. keep = 3 /\ d = 4 /\ t \in {13, 14, 17}
    BY <1>4 DEF RuleIs
  <2>2. b = 4
    BY <2>1 DEF Below
  <2> QED BY <1>4, <2>2, RuleLengths, GotoRows DEF BaseIs
<1>5. CASE n = 20
  <2>1. d \in {4, 8, 10} /\ keep = d - 1 /\ t = 15
    BY <1>5 DEF RuleIs
  <2>2. b \in {4, 24, 32}
    BY <2>1, BelowRows
  <2>3. \/ keep = 3 /\ b = 4
        \/ keep = 7 /\ b = 24
        \/ keep = 9 /\ b = 32
    BY <2>1, <2>2, LevelRows
  <2> QED BY <1>5, <2>3, RuleLengths, GotoRows DEF BaseIs
<1>6. CASE n \in {21, 22}
  <2>1. keep = d - 1 /\ t \in {43, 44} /\ d > 1
    BY <1>6 DEF RuleIs
  <2>2. b = 40
    BY <2>1, BelowRows
  <2> QED BY <1>6, <2>2, RuleLengths, GotoRows DEF BaseIs
<1>7. CASE n = 23
  <2>1. d \in {4, 6} /\ keep = d - 1 /\ t = 18
    BY <1>7 DEF RuleIs
  <2>2. b \in {5, 20}
    BY <2>1, BelowRows
  <2>3. \/ keep = 3 /\ b = 5
        \/ keep = 5 /\ b = 20
    BY <2>1, <2>2, LevelRows
  <2> QED BY <1>7, <2>3, RuleLengths, GotoRows DEF BaseIs
<1>8. CASE n \in 24 .. 29
  <2>1. d > 1 /\ keep = d - 1 /\ t \in 34 .. 39
    BY <1>8 DEF RuleIs
  <2>2. b = 30
    BY <2>1, BelowRows
  <2> QED BY <1>8, <2>2, RuleLengths, GotoRows DEF BaseIs
<1>9. n # 6
  BY DEF RuleIs
<1>10. CASE n \in 2 .. 13
  BY <1>1, <1>9, <1>10
<1>11. CASE n \in 14 .. 23
  BY <1>2, <1>3, <1>4, <1>5, <1>6, <1>7, <1>11
<1> QED BY <1>8, <1>10, <1>11

LEMMA Bases ==
  ASSUME StackInv, NEW n \in 2 .. 29, NEW keep \in 1 .. 11, keep <= Height,
         RuleIs(n, Top, Height, keep), n # 9
  PROVE  BaseIs(n, keep, yyss[keep], GotoOn(yyss[keep], yyr1[n]))
<1>1. Height \in 1 .. 12 /\ yyss \in Seq(States)
  BY DEF StackInv
<1>2. Top \in States
  BY TopIs
<1>3. keep \in 1 .. Height
  BY <1>1
<1>4. yyss[keep] \in States
  BY <1>1, <1>3 DEF Height
<1>5. yyss[keep] \in Level(keep)
  BY <1>3 DEF StackInv
<1>6. Height > 1 /\ keep = Height - 1 => yyss[keep] \in Below(Top)
  BY UnderTop
<1>7. Height = 10 /\ keep = 7 => yyss[keep] = 24
  BY Shape
<1>8. Height = 12 /\ keep = 9 => yyss[keep] = 32
  BY Shape
<1> QED BY <1>1, <1>2, <1>4, <1>5, <1>6, <1>7, <1>8, BaseOf

LEMMA PathPushed ==
  ASSUME StackInv, NEW keep \in 1 .. 11, keep <= Height, NEW x \in States,
         x \in Level(keep + 1), yyss[keep] \in Below(x),
         yyss' = Append(SubSeq(yyss, 1, keep), x)
  PROVE  /\ yyss' \in Seq(States) /\ Height' = keep + 1 /\ yyss'[keep + 1] = x /\ Top' = x
         /\ \A i \in 1 .. keep : yyss'[i] = yyss[i]
         /\ \A i \in 1 .. Height' : yyss'[i] \in Level(i)
         /\ \A i \in 2 .. Height' : yyss'[i - 1] \in Below(yyss'[i])
<1>1. yyss \in Seq(States) /\ keep \in 0 .. Len(yyss) /\ Height \in 1 .. 12
  BY DEF StackInv, Height
<1>2. yyss' = Cut(yyss, keep, x)
  BY DEF Cut
<1>3. yyss' \in Seq(States) /\ Height' = keep + 1
  BY <1>1, <1>2, CutIs DEF Height
<1>6. yyss'[keep + 1] = x
  BY <1>1, <1>2, CutIs
<1>7. \A i \in 1 .. keep : yyss'[i] = yyss[i]
  BY <1>1, <1>2, CutIs
<1>8. Top' = x
  BY <1>3, <1>6 DEF Top, Last, Height
<1>4. ASSUME NEW i \in 1 .. Height'
      PROVE  yyss'[i] \in Level(i)
  <2>1. CASE i = keep + 1
    BY <1>3, <1>6, <1>7, <2>1
  <2>2. CASE i # keep + 1
    <3>1. i \in 1 .. keep /\ i \in 1 .. Height
      BY <1>1, <1>3, <1>6, <1>7, <2>2
    <3> QED BY <1>3, <1>6, <1>7, <3>1 DEF StackInv
  <2> QED BY <2>1, <2>2
<1>5. ASSUME NEW i \in 2 .. Height'
      PROVE  yyss'[i - 1] \in Below(yyss'[i])
  <2>1. CASE i = keep + 1
    BY <1>3, <1>6, <1>7, <2>1
  <2>2. CASE i # keep + 1
    <3>1. i \in 1 .. keep /\ i \in 2 .. Height /\ i - 1 \in 1 .. keep
      BY <1>1, <1>3, <1>6, <1>7, <2>2
    <3> QED BY <1>3, <1>6, <1>7, <3>1 DEF StackInv
  <2> QED BY <2>1, <2>2
<1> QED BY <1>3, <1>4, <1>5, <1>6, <1>7, <1>8

(* A reduction, whatever it computes *)
LEMMA ReduceStack ==
  ASSUME StackInv, NEW n \in 0 .. 29, NEW value, Reduce(n, value)
  PROVE  LET keep == Height - PoppedBy(n)
             g    == GotoOn(yyss[keep], yyr1[n])
         IN n # 9 => /\ RuleIs(n, Top, Height, keep) /\ BaseIs(n, keep, yyss[keep], g)
                     /\ keep \in 1 .. 11 /\ keep <= Height /\ g \in States
                     /\ Height' = keep + 1 /\ yyss'[keep + 1] = g /\ Top' = g
                     /\ \A i \in 1 .. keep : yyss'[i] = yyss[i]
                     /\ StackInv' /\ yychar = YYEMPTY /\ yychar' = YYEMPTY
<1> SUFFICES ASSUME n # 9
             PROVE  LET keep == Height - PoppedBy(n)
                        g    == GotoOn(yyss[keep], yyr1[n])
                    IN /\ RuleIs(n, Top, Height, keep) /\ BaseIs(n, keep, yyss[keep], g)
                       /\ keep \in 1 .. 11 /\ keep <= Height /\ g \in States
                       /\ Height' = keep + 1 /\ yyss'[keep + 1] = g /\ Top' = g
                       /\ \A i \in 1 .. keep : yyss'[i] = yyss[i]
                       /\ StackInv' /\ yychar = YYEMPTY /\ yychar' = YYEMPTY
  OBVIOUS
<1> DEFINE keep == Height - PoppedBy(n)
           g    == GotoOn(yyss[keep], yyr1[n])
<1>1. Reduces(n) /\ yyss' = Append(SubSeq(yyss, 1, keep), g) /\ yychar' = yychar
  BY DEF Reduce, Height
<1>2. RuleIs(n, Top, Height, keep) /\ yychar = YYEMPTY
  BY <1>1, Reduction
<1>3. n \in 2 .. 29
  BY <1>2 DEF RuleIs
<1>4. Height \in 1 .. 12 /\ Top \in States
  BY TopIs DEF StackInv
<1>5. keep \in Int
  <2>1. yyr2[n] \in Int
    BY <1>3, RuleLengths
  <2> QED BY <1>4, <2>1 DEF PoppedBy
<1> HIDE DEF keep
<1>10. keep \in 1 .. 11 /\ keep <= Height
  BY <1>2, <1>3, <1>4, <1>5, RuleKeeps
<1>6. BaseIs(n, keep, yyss[keep], g)
  BY <1>2, <1>3, <1>10, Bases
<1> HIDE DEF g
<1>7. keep \in 1 .. 11 /\ keep <= Height /\ g \in States /\ g \in Level(keep + 1)
      /\ yyss[keep] \in Below(g)
  BY <1>2, <1>3, <1>4, <1>5, <1>6, BaseFits
<1>8. /\ yyss' \in Seq(States) /\ Height' = keep + 1 /\ yyss'[keep + 1] = g /\ Top' = g
      /\ \A i \in 1 .. keep : yyss'[i] = yyss[i]
      /\ \A i \in 1 .. Height' : yyss'[i] \in Level(i)
      /\ \A i \in 2 .. Height' : yyss'[i - 1] \in Below(yyss'[i])
  <2>1. PICK k \in 1 .. 11 : k = keep
    BY <1>7
  <2>2. /\ k <= Height /\ g \in States /\ g \in Level(k + 1) /\ yyss[k] \in Below(g)
        /\ yyss' = Append(SubSeq(yyss, 1, k), g)
    BY <1>1, <1>7, <2>1
  <2>3. /\ yyss' \in Seq(States) /\ Height' = k + 1 /\ yyss'[k + 1] = g /\ Top' = g
        /\ \A i \in 1 .. k : yyss'[i] = yyss[i]
        /\ \A i \in 1 .. Height' : yyss'[i] \in Level(i)
        /\ \A i \in 2 .. Height' : yyss'[i - 1] \in Below(yyss'[i])
    BY ZenonT(60), <2>2, PathPushed
  <2> QED BY <2>1, <2>3
<1>9. StackInv'
  BY <1>1, <1>2, <1>7, <1>8 DEF StackInv
<1> QED BY <1>1, <1>2, <1>6, <1>7, <1>8, <1>9 DEF keep, g

LEMMA CutAll ==
  ASSUME NEW s \in Seq(States), NEW x \in States
  PROVE  Append(s, x) = Append(SubSeq(s, 1, Len(s)), x)
<1>1. SubSeq(s, 1, Len(s)) = s
  OBVIOUS
<1> QED BY <1>1

(* The only state that shifts the error token lies second. *)
LEMMA ErrorPops ==
  ASSUME StackInv, Top \in Asking
  PROVE  /\ Height \in 2 .. 12
         /\ {i \in DOMAIN yyss : ShiftOn(yyss[i], YYTERROR) # 0} = {2}
         /\ Max({i \in DOMAIN yyss : ShiftOn(yyss[i], YYTERROR) # 0}) = 2
<1>1. Height \in 1 .. 12 /\ yyss \in Seq(States)
  BY DEF StackInv
<1>7. DOMAIN yyss = 1 .. Height
  BY <1>1 DEF Height
<1>2. Height # 1
  <2>1. Top # 0
    BY DEF Asking
  <2> QED BY <2>1, Depth
<1>3. Height \in 2 .. 12
  BY <1>1, <1>2
<1>4. ASSUME NEW i \in DOMAIN yyss
      PROVE  ShiftOn(yyss[i], YYTERROR) # 0 <=> i = 2
  <2>1. i \in 1 .. 12 /\ i \in 1 .. Height /\ yyss[i] \in States
    BY <1>1, <1>7 DEF Height
  <2>2. yyss[i] \in Level(i)
    BY <2>1 DEF StackInv
  <2>3. yyss[i] = 1 <=> i = 2
    <3>0. yyss[i] \in Int
      BY <2>1 DEF States
    <3>1. PICK s \in Int, j \in 1 .. 12 : s = yyss[i] /\ j = i /\ s \in Level(j)
      BY <2>1, <2>2, <3>0
    <3>2. j = 2 <=> s = 1
      BY <3>1, LevelDepth
    <3> QED BY <3>1, <3>2
  <2> QED BY <2>1, <2>3, ErrorShift
<1>5. {i \in DOMAIN yyss : ShiftOn(yyss[i], YYTERROR) # 0} = {2}
  BY <1>3, <1>4, <1>7
<1>6. Max({2}) = 2
  BY DEF Max
<1> QED BY <1>3, <1>5, <1>6

LEMMA InitStack == Init => StackInv
<1> SUFFICES ASSUME Init PROVE StackInv
  OBVIOUS
<1>1. yyss = <<0>> /\ yychar = YYEMPTY
  BY DEF Init
<1>2. yyss \in Seq(States) /\ Height = 1 /\ yyss[1] = 0
  BY <1>1 DEF States, Height
<1> QED BY <1>1, <1>2, LevelRows DEF StackInv

LEMMA ShiftStack ==
  ASSUME StackInv, Shift
  PROVE  LET s == ShiftOn(Top, TokenNo)
         IN /\ Height' = Height + 1 /\ Height < 12 /\ Top' = s /\ yyss'[Height + 1] = s
            /\ \A i \in 1 .. Height : yyss'[i] = yyss[i]
            /\ Top \in Asking /\ s # 0 /\ s \in States /\ TokenNo \in 0 .. 24 /\ yystos[s] = TokenNo
            /\ yychar # YYEMPTY /\ yychar' = YYEMPTY /\ StackInv'
<1> DEFINE s == ShiftOn(Top, TokenNo)
<1>0. Height \in 1 .. 12 /\ yyss \in Seq(States) /\ Top \in States /\ Top \in Level(Height)
  BY TopIs DEF StackInv
<1>1. /\ ~IsDefault(Top) /\ yychar # YYEMPTY /\ s # 0
      /\ yyss' = Append(yyss, s) /\ yychar' = YYEMPTY
  BY DEF Shift, Shifts
<1>2. Top \in Asking
  BY <1>0, <1>1, AskingStates
<1>3. TokenNo \in 0 .. 24
  BY <1>1, Translated DEF StackInv, TokenNo
<1>4. s \in States /\ Top \in Below(s) /\ yystos[s] = TokenNo
  <2>1. s \in 2 .. 44 /\ Top \in Below(s) /\ yystos[s] = TokenNo
    BY <1>1, <1>2, <1>3, ShiftIs
  <2> QED BY <2>1 DEF States
<1>5. Height < 12 /\ s \in Level(Height + 1)
  BY <1>0, <1>1, <1>2, <1>3, ShiftLevel
<1> HIDE DEF s
<1>6. yyss' = Append(SubSeq(yyss, 1, Height), s) /\ yyss[Height] \in Below(s)
  BY <1>0, <1>1, <1>4, CutAll, TopIs DEF Height
<1>7. PICK k \in 1 .. 11 : k = Height /\ k + 1 = Height + 1
  BY <1>0, <1>5
<1>8. /\ yyss' = Append(SubSeq(yyss, 1, k), s) /\ yyss[k] \in Below(s)
      /\ s \in Level(k + 1) /\ k <= Height
  BY <1>5, <1>6, <1>7
<1>9. /\ yyss' \in Seq(States) /\ Height' = k + 1 /\ Top' = s /\ yyss'[k + 1] = s
      /\ \A i \in 1 .. k : yyss'[i] = yyss[i]
      /\ \A i \in 1 .. Height' : yyss'[i] \in Level(i)
      /\ \A i \in 2 .. Height' : yyss'[i - 1] \in Below(yyss'[i])
  BY <1>4, <1>8, PathPushed
<1>10. Height' \in 1 .. 12
  BY <1>7, <1>9
<1>11. StackInv'
  BY <1>1, <1>9, <1>10 DEF StackInv
<1> QED BY <1>1, <1>2, <1>3, <1>4, <1>5, <1>7, <1>9, <1>11 DEF s

LEMMA RecoverStack ==
  ASSUME StackInv, Recover
  PROVE  /\ Top \in Asking /\ Height \in 2 .. 12
         /\ Height' = 3 /\ Top' = 3 /\ yyss'[3] = 3
         /\ \A i \in 1 .. 2 : yyss'[i] = yyss[i]
         /\ StackInv'
<1>0. Height \in 1 .. 12 /\ Top \in States
  BY TopIs DEF StackInv
<1>1. yydefact[Top] = 0
  BY DEF Recover, Errs
<1>2. Top \in Asking
  BY <1>0, <1>1, RuleRows
<1>3. /\ yyss' = Append(SubSeq(yyss, 1, 2), ShiftOn(yyss[2], YYTERROR))
      /\ yychar' \in {yychar, YYEMPTY}
  BY <1>2, ErrorPops DEF Recover
<1>4. Height \in 2 .. 12
  BY <1>2, ErrorPops
<1>5. yyss[2] = 1 /\ ShiftOn(yyss[2], YYTERROR) = 3
  <2>1. yyss[2] = 1
    BY <1>4, Shape
  <2> QED BY <2>1, ErrorShift DEF States
<1>6. 3 \in States /\ 3 \in Level(2 + 1) /\ 3 \in Asking /\ yyss[2] \in Below(3)
  BY <1>5, LevelRows, BelowRows DEF States, Asking
<1>7. yyss' = Append(SubSeq(yyss, 1, 2), 3)
  BY <1>3, <1>5
<1>8. /\ yyss' \in Seq(States) /\ Height' = 2 + 1 /\ Top' = 3 /\ yyss'[2 + 1] = 3
      /\ \A i \in 1 .. 2 : yyss'[i] = yyss[i]
      /\ \A i \in 1 .. Height' : yyss'[i] \in Level(i)
      /\ \A i \in 2 .. Height' : yyss'[i - 1] \in Below(yyss'[i])
  BY <1>4, <1>6, <1>7, PathPushed
<1>9. StackInv'
  BY <1>3, <1>6, <1>8 DEF StackInv
<1> QED BY <1>2, <1>4, <1>8, <1>9

LEMMA StackStep == StackInv /\ [Next]_vars => StackInv'
<1> SUFFICES ASSUME StackInv, [Next]_vars
             PROVE  StackInv'
  OBVIOUS
<1>1. Height \in 1 .. 12 /\ yyss \in Seq(States) /\ Top \in States /\ Top \in Level(Height)
  BY TopIs DEF StackInv
<1>2. Top' = Top \/ yyss' # yyss
  BY DEF Top
<1>3. ASSUME NEW tok \in Tokens, yylex(tok)
      PROVE  StackInv'
  <2>1. yyss' = yyss /\ yychar' = tok.sym /\ ~IsDefault(Top)
    BY <1>3 DEF yylex, Read, Asks
  <2>2. tok.sym \in Symbols \cup {"$end"}
    BY DEF Tokens, Symbols, WithText
  <2>3. Top \in Asking /\ Top' = Top
    BY <1>1, <2>1, AskingStates DEF Top
  <2> QED BY <2>1, <2>2, <2>3 DEF StackInv, Height
<1>4. CASE Shift
  BY <1>4, ShiftStack
<1>5. ASSUME NEW n \in 0 .. 29, NEW value, n # 9, Reduce(n, value)
      PROVE  StackInv'
  BY <1>5, ReduceStack
<1>6. CASE Recover
  BY <1>6, RecoverStack
<1>7. CASE UNCHANGED <<yyss, yychar>>
  BY <1>7 DEF StackInv, Top, Height
<1>8. CASE UNCHANGED vars
  BY <1>7, <1>8 DEF vars
<1>9. CASE Accept \/ ReduceQuit \/ AbortAtEnd
  BY <1>7, <1>9 DEF Accept, ReduceQuit, AbortAtEnd
<1>10. CASE ReduceFirstCondition \/ ReduceNextCondition \/ ReduceCondition \/ ReduceAttribute
  BY <1>5, <1>10
     DEF ReduceFirstCondition, ReduceNextCondition, ReduceCondition, ReduceAttribute
<1>11. ASSUME NEW n \in DOMAIN yyr2,
              ReduceOnly(n) \/ ReduceCommand(n) \/ ReduceLoad(n) \/ ReduceSelect(n)
                \/ ReduceStar(n) \/ ReduceComparator(n)
       PROVE  StackInv'
  <2>1. n \in 0 .. 29
    BY RuleLengths
  <2>2. n # 9 /\ \E value : Reduce(n, value)
    BY <1>11, <2>1
       DEF ReduceOnly, ReduceCommand, ReduceLoad, ReduceSelect, ReduceStar, ReduceComparator
  <2> QED BY <1>5, <2>1, <2>2
<1> QED BY <1>3, <1>4, <1>6, <1>8, <1>9, <1>10, <1>11 DEF Next, Steps

(* However long the lines are, the stacks are never more than twelve deep. *)
THEOREM StackStaysShallow == Spec => []StackIsShallow
<1>1. StackInv => StackIsShallow
  <2> SUFFICES ASSUME StackInv PROVE Height <= 12
    BY DEF StackIsShallow, Height
  <2>1. Height \in 1 .. 12
    BY DEF StackInv
  <2> QED BY <2>1
<1> QED BY <1>1, InitStack, StackStep, PTL DEF Spec

-----------------------------------------------------------------------------
(* The heap *)

(* What the symbols own, by their numbers and in any heap *)
Strings == {16, 17, 18, 35, 36}

StringIn(h, b)    == b \in Blocks /\ h[b].type = "string"
CondValue(h, b)   == IF b \in Blocks /\ h[b].type = "cond" THEN h[b].cond.value ELSE Garbage
CondsIn(h, b)     == IF b \in Blocks /\ h[b].type = "conds" THEN h[b].conds ELSE <<>>

OwnsIn(h, n, v) ==
  CASE n \in Strings -> {v}
    [] n = 32 -> {v, CondValue(h, v)}
    [] n = 31 -> {v} \cup Values(CondsIn(h, v))
    [] OTHER -> {}

LeadsIn(h, n, v) ==
  CASE n \in Strings -> StringIn(h, v)
    [] n = 32 -> v \in Blocks /\ h[v].type = "cond" /\ StringIn(h, CondValue(h, v))
    [] n = 31 -> /\ v \in Blocks /\ h[v].type = "conds"
                 /\ \A i, j \in DOMAIN CondsIn(h, v) :
                      /\ StringIn(h, CondsIn(h, v)[i].value)
                      /\ CondsIn(h, v)[i].value = CondsIn(h, v)[j].value => i = j
    [] OTHER -> TRUE

LEMMA SymbolKinds ==
  ASSUME NEW n \in 0 .. 37
  PROVE  /\ n \in Strings <=> yytname[n] \in WithText \cup {"table", "value"}
         /\ n = 32 <=> yytname[n] = "condition"
         /\ n = 31 <=> yytname[n] = "conditions"
<1>1. CASE n \in 0 .. 15
  BY <1>1, SymbolNames DEF Strings, WithText
<1>2. CASE n \in 16 .. 27
  BY <1>2, SymbolNames DEF Strings, WithText
<1>3. CASE n \in 28 .. 37
  BY <1>3, SymbolNames DEF Strings, WithText
<1> QED BY <1>1, <1>2, <1>3

LEMMA OwnsIs ==
  ASSUME NEW n \in 0 .. 37, NEW v
  PROVE  /\ Owns(n, v) = OwnsIn(heap, n, v) /\ (Leads(n, v) <=> LeadsIn(heap, n, v))
         /\ Owns(n, v)' = OwnsIn(heap', n, v) /\ (Leads(n, v)' <=> LeadsIn(heap', n, v))
<1>1. /\ CondsAt(v) = CondsIn(heap, v) /\ CondAt(v).value = CondValue(heap, v)
      /\ CondsAt(v)' = CondsIn(heap', v) /\ CondAt(v).value' = CondValue(heap', v)
  BY DEF CondsAt, CondAt, CondsIn, CondValue, Has
<1>2. CASE n \in Strings
  <2>1. yytname[n] \in WithText \cup {"table", "value"}
    BY <1>2, SymbolKinds
  <2>2. n # 31 /\ n # 32 /\ yytname[n] # "condition" /\ yytname[n] # "conditions"
    BY <1>2, SymbolKinds DEF Strings
  <2> QED BY <1>2, <2>1, <2>2 DEF Owns, Leads, OwnsIn, LeadsIn, IsString, StringIn, Has
<1>3. CASE n = 32
  <2>1. yytname[n] = "condition" /\ n \notin Strings
    BY <1>3, SymbolKinds DEF Strings
  <2>2. "condition" \notin WithText \cup {"table", "value"}
    BY DEF WithText
  <2> QED BY <1>1, <1>3, <2>1, <2>2 DEF Owns, Leads, OwnsIn, LeadsIn, IsString, StringIn, Has
<1>4. CASE n = 31
  <2>1. yytname[n] = "conditions" /\ n \notin Strings
    BY <1>4, SymbolKinds DEF Strings
  <2>2. "conditions" \notin WithText \cup {"table", "value"}
    BY DEF WithText
  <2> QED BY <1>1, <1>4, <2>1, <2>2 DEF Owns, Leads, OwnsIn, LeadsIn, IsString, StringIn, Has
<1>5. CASE n \notin Strings \cup {31, 32}
  <2>1. /\ yytname[n] \notin WithText \cup {"table", "value"}
        /\ yytname[n] # "condition" /\ yytname[n] # "conditions"
    BY <1>5, SymbolKinds
  <2> QED BY <1>5, <2>1 DEF Owns, Leads, OwnsIn, LeadsIn
<1> QED BY <1>2, <1>3, <1>4, <1>5

LEMMA Frame ==
  ASSUME NEW h, NEW g, NEW n \in 0 .. 37, NEW v, LeadsIn(h, n, v),
         \A b \in OwnsIn(h, n, v) : g[b] = h[b]
  PROVE  OwnsIn(g, n, v) = OwnsIn(h, n, v) /\ LeadsIn(g, n, v)
<1>1. CASE n \in Strings
  <2>1. n # 31 /\ n # 32
    BY <1>1 DEF Strings
  <2>2. OwnsIn(h, n, v) = {v} /\ OwnsIn(g, n, v) = {v} /\ StringIn(h, v)
    BY <1>1, <2>1 DEF OwnsIn, LeadsIn
  <2>3. g[v] = h[v]
    BY <2>2
  <2> QED BY <1>1, <2>1, <2>2, <2>3 DEF LeadsIn, StringIn
<1>2. CASE n = 32
  <2>1. n \notin Strings
    BY <1>2 DEF Strings
  <2>2. v \in OwnsIn(h, n, v) /\ CondValue(h, v) \in OwnsIn(h, n, v)
    BY <1>2, <2>1 DEF OwnsIn
  <2>3. g[v] = h[v] /\ g[CondValue(h, v)] = h[CondValue(h, v)]
    BY <2>2
  <2>4. CondValue(g, v) = CondValue(h, v)
    BY <2>3 DEF CondValue
  <2>5. v \in Blocks /\ h[v].type = "cond" /\ StringIn(h, CondValue(h, v))
    BY <1>2, <2>1 DEF LeadsIn
  <2>6. StringIn(g, CondValue(g, v))
    BY <2>3, <2>4, <2>5 DEF StringIn
  <2> QED BY <1>2, <2>1, <2>3, <2>4, <2>5, <2>6 DEF OwnsIn, LeadsIn
<1>3. CASE n = 31
  <2>1. n \notin Strings
    BY <1>3 DEF Strings
  <2> DEFINE cs == CondsIn(h, v)
  <2>2. v \in OwnsIn(h, n, v) /\ \A i \in DOMAIN cs : cs[i].value \in OwnsIn(h, n, v)
    BY <1>3, <2>1 DEF OwnsIn, Values
  <2>3. g[v] = h[v] /\ \A i \in DOMAIN cs : g[cs[i].value] = h[cs[i].value]
    BY <2>2
  <2>4. CondsIn(g, v) = cs
    BY <2>3 DEF CondsIn
  <2> HIDE DEF cs
  <2>5. /\ v \in Blocks /\ h[v].type = "conds"
        /\ \A i, j \in DOMAIN cs : /\ StringIn(h, cs[i].value)
                                   /\ cs[i].value = cs[j].value => i = j
    BY <1>3, <2>1 DEF LeadsIn, cs
  <2>6. \A i \in DOMAIN cs : StringIn(g, cs[i].value)
    BY <2>3, <2>5 DEF StringIn
  <2>7. LeadsIn(g, n, v)
    BY <1>3, <2>1, <2>3, <2>4, <2>5, <2>6 DEF LeadsIn
  <2>8. OwnsIn(g, n, v) = OwnsIn(h, n, v)
    BY <1>3, <2>1, <2>4 DEF OwnsIn, cs
  <2> QED BY <2>7, <2>8
<1>4. CASE n \notin Strings \cup {31, 32}
  BY <1>4 DEF OwnsIn, LeadsIn
<1> QED BY <1>1, <1>2, <1>3, <1>4

LEMMA OwnedIs ==
  ASSUME NEW k
  PROVE  /\ SymbolAt(k) \in 0 .. 37 =>
              /\ OwnedBy(k) = OwnsIn(heap, SymbolAt(k), ValueAt(k))
              /\ Leads(SymbolAt(k), ValueAt(k)) <=> LeadsIn(heap, SymbolAt(k), ValueAt(k))
         /\ SymbolAt(k)' \in 0 .. 37 =>
              /\ OwnedBy(k)' = OwnsIn(heap', SymbolAt(k)', ValueAt(k)')
              /\ Leads(SymbolAt(k), ValueAt(k))' <=> LeadsIn(heap', SymbolAt(k)', ValueAt(k)')
<1>1. SymbolAt(k) \in 0 .. 37 => 
              /\ OwnedBy(k) = OwnsIn(heap, SymbolAt(k), ValueAt(k))
              /\ Leads(SymbolAt(k), ValueAt(k)) <=> LeadsIn(heap, SymbolAt(k), ValueAt(k))
  BY OwnsIs DEF OwnedBy
<1>2. ASSUME SymbolAt(k)' \in 0 .. 37
      PROVE  /\ OwnedBy(k)' = OwnsIn(heap', SymbolAt(k)', ValueAt(k)')
             /\ Leads(SymbolAt(k), ValueAt(k))' <=> LeadsIn(heap', SymbolAt(k)', ValueAt(k)')
  <2>1. PICK n \in 0 .. 37 : n = SymbolAt(k)'
    BY <1>2
  <2>2. PICK v : v = ValueAt(k)'
    OBVIOUS
  <2>3. Owns(n, v)' = OwnsIn(heap', n, v) /\ (Leads(n, v)' <=> LeadsIn(heap', n, v))
    BY OwnsIs
  <2>4. OwnedBy(k)' = Owns(n, v)' /\ (Leads(SymbolAt(k), ValueAt(k))' <=> Leads(n, v)')
    BY <2>1, <2>2 DEF OwnedBy, Owns, Leads, CondAt, CondsAt, Has, IsString
  <2> QED BY <2>1, <2>2, <2>3, <2>4
<1> QED BY <1>1, <1>2

(* One step replaces the owners outside K by one owner, t, and their       *)
(* blocks R by its blocks: then what the others own stays as it is.        *)
LEMMA Exchange ==
  ASSUME HeapIsOwned, \A k \in Owners : SymbolAt(k) \in 0 .. 37,
         NEW K, NEW t, K \subseteq Owners, t \notin K, Owners' = K \cup {t},
         \A k \in K : SymbolAt(k)' = SymbolAt(k) /\ ValueAt(k)' = ValueAt(k),
         NEW R, \A b : b \in R <=> \E k \in Owners \ K : b \in OwnedBy(k),
         SymbolAt(t)' \in 0 .. 37,
         NEW New, New = OwnsIn(heap', SymbolAt(t)', ValueAt(t)'),
         LeadsIn(heap', SymbolAt(t)', ValueAt(t)'),
         New \subseteq Blocks, \A b \in New : heap'[b] # Free /\ (b \in R \/ heap[b] = Free),
         \A b \in R \ New : heap'[b] = Free,
         \A b \in Blocks : b \notin R /\ b \notin New => heap'[b] = heap[b]
  PROVE  /\ HeapIsOwned'
         /\ \A k \in K : OwnedBy(k)' = OwnedBy(k) /\ \A b \in OwnedBy(k) : heap'[b] = heap[b]
<1>1. \A k \in Owners : OwnedBy(k) \subseteq {b \in Blocks : heap[b] # Free}
  BY DEF HeapIsOwned
<1>2. \A k, l \in Owners : k # l => OwnedBy(k) \cap OwnedBy(l) = {}
  BY DEF HeapIsOwned
<1>3. \A k \in Owners : Leads(SymbolAt(k), ValueAt(k))
  BY DEF HeapIsOwned
<1>4. ASSUME NEW k \in K, NEW b \in OwnedBy(k)
      PROVE  b \in Blocks /\ b \notin R /\ b \notin New /\ heap'[b] = heap[b] /\ heap[b] # Free
  <2>1. k \in Owners /\ b \in Blocks /\ heap[b] # Free
    BY <1>1, <1>4
  <2>2. ASSUME b \in R
        PROVE  FALSE
    <3>1. PICK l \in Owners \ K : b \in OwnedBy(l)
      BY <2>2
    <3>2. k # l
      BY <3>1
    <3> QED BY <1>2, <1>4, <2>1, <3>1, <3>2
  <2>3. b \notin New
    BY <2>1, <2>2
  <2> QED BY <2>1, <2>2, <2>3
<1>5. ASSUME NEW k \in K
      PROVE  /\ OwnedBy(k)' = OwnedBy(k) /\ SymbolAt(k)' \in 0 .. 37
             /\ Leads(SymbolAt(k), ValueAt(k))'
  <2>1. k \in Owners
    OBVIOUS
  <2>0. PICK v : v = ValueAt(k)
    OBVIOUS
  <2>2. PICK n \in 0 .. 37 : n = SymbolAt(k)
    BY <2>1
  <2>3. n = SymbolAt(k)' /\ v = ValueAt(k)'
    BY <2>0, <2>2
  <2>4. OwnedBy(k) = OwnsIn(heap, n, v) /\ LeadsIn(heap, n, v)
    BY <1>3, <2>0, <2>1, <2>2, OwnedIs
  <2>5. \A b \in OwnsIn(heap, n, v) : heap'[b] = heap[b]
    BY <1>4, <2>4
  <2>6. OwnsIn(heap', n, v) = OwnsIn(heap, n, v) /\ LeadsIn(heap', n, v)
    BY <2>4, <2>5, Frame
  <2> QED BY <2>3, <2>4, <2>6, OwnedIs
<1>6. OwnedBy(t)' = New /\ Leads(SymbolAt(t), ValueAt(t))'
  BY OwnedIs
<1>7. {b \in Blocks : heap'[b] # Free} = UNION {OwnedBy(k)' : k \in K \cup {t}}
  <2>1. ASSUME NEW b \in Blocks, heap'[b] # Free
        PROVE  \E k \in K \cup {t} : b \in OwnedBy(k)'
    <3>1. CASE b \in New
      BY <1>6, <3>1
    <3>2. CASE b \notin New
      <4>1. b \notin R /\ heap[b] # Free
        BY <2>1, <3>2
      <4>2. PICK k \in Owners : b \in OwnedBy(k)
        BY <4>1 DEF HeapIsOwned
      <4>3. k \in K
        BY <4>1, <4>2
      <4> QED BY <1>5, <4>2, <4>3
    <3> QED BY <3>1, <3>2
  <2>2. ASSUME NEW k \in K \cup {t}, NEW b \in OwnedBy(k)'
        PROVE  b \in Blocks /\ heap'[b] # Free
    <3>1. CASE k = t
      BY <1>6, <2>2, <3>1
    <3>2. CASE k \in K
      BY <1>4, <1>5, <2>2, <3>2
    <3> QED BY <3>1, <3>2
  <2> QED BY <2>1, <2>2
<1>8. ASSUME NEW k \in K \cup {t}, NEW l \in K \cup {t}, k # l
      PROVE  OwnedBy(k)' \cap OwnedBy(l)' = {}
  <2>1. CASE k \in K /\ l \in K
    BY <1>2, <1>5, <1>8, <2>1
  <2>2. CASE k = t /\ l \in K
    BY <1>4, <1>5, <1>6, <2>2
  <2>3. CASE k \in K /\ l = t
    BY <1>4, <1>5, <1>6, <2>3
  <2> QED BY <1>8, <2>1, <2>2, <2>3
<1>9. HeapIsOwned'
  <2>1. \A k \in Owners' : Leads(SymbolAt(k), ValueAt(k))'
    BY <1>5, <1>6
  <2>2. \A k, l \in Owners' : k # l => OwnedBy(k)' \cap OwnedBy(l)' = {}
    BY <1>8
  <2>3. UNION {OwnedBy(k)' : k \in Owners'} = {b \in Blocks : heap'[b] # Free}
    BY <1>7
  <2> QED BY <2>1, <2>2, <2>3 DEF HeapIsOwned
<1> QED BY <1>4, <1>5, <1>9

Vals == 0 .. 5 \cup Blocks

Allocated == {b \in Blocks : heap[b] # Free}

(* The values of attributes and comparators *)
Suits(n, v) ==
  /\ n \in {33, 34} => v \in 1 .. 4 \cup Blocks
  /\ n = 37 => v \in 0 .. 5

TypeInv ==
  /\ heap \in [Blocks -> Contents] /\ IsFiniteSet(Allocated)
  /\ yyvs \in Seq(Vals) /\ Len(yyvs) = Height
  /\ yylval \in {Garbage} \cup Blocks
  /\ \A k \in 1 .. Height : Suits(SymbolAt(k), ValueAt(k))
  /\ yyerrstatus \in 0 .. 3 /\ yyresult \in {Running, 0, 1}
  /\ line \in Seq(Tokens) /\ wrongAt \in Nat /\ excused \in BOOLEAN

LEMMA OwnersAre ==
  /\ StackInv =>
       /\ Owners = 1 .. Height \cup (IF yychar = YYEMPTY THEN {} ELSE {0})
       /\ \A k \in Owners : SymbolAt(k) \in 0 .. 37
       /\ \A k \in 1 .. Height : SymbolAt(k) = yystos[yyss[k]] /\ ValueAt(k) = yyvs[k]
       /\ SymbolAt(0) = TokenNo /\ ValueAt(0) = yylval
  /\ StackInv' =>
       /\ Owners' = 1 .. Height' \cup (IF yychar' = YYEMPTY THEN {} ELSE {0})
       /\ \A k \in Owners' : SymbolAt(k)' \in 0 .. 37
       /\ \A k \in 1 .. Height' : SymbolAt(k)' = yystos[yyss'[k]] /\ ValueAt(k)' = yyvs'[k]
       /\ SymbolAt(0)' = TokenNo' /\ ValueAt(0)' = yylval'
<1>1. ASSUME StackInv
      PROVE  /\ Owners = 1 .. Height \cup (IF yychar = YYEMPTY THEN {} ELSE {0})
             /\ \A k \in Owners : SymbolAt(k) \in 0 .. 37
             /\ \A k \in 1 .. Height : SymbolAt(k) = yystos[yyss[k]] /\ ValueAt(k) = yyvs[k]
             /\ SymbolAt(0) = TokenNo /\ ValueAt(0) = yylval
  <2>1. yyss \in Seq(States) /\ DOMAIN yyss = 1 .. Height
    BY <1>1 DEF StackInv, Height
  <2>2. Owners = 1 .. Height \cup (IF yychar = YYEMPTY THEN {} ELSE {0})
    BY <2>1 DEF Owners, Lookahead
  <2>3. \A k \in 1 .. Height : SymbolAt(k) = yystos[yyss[k]] /\ ValueAt(k) = yyvs[k]
    BY DEF SymbolAt, ValueAt, Lookahead
  <2>4. SymbolAt(0) = TokenNo /\ ValueAt(0) = yylval
    BY DEF SymbolAt, ValueAt, Lookahead
  <2>5. \A k \in 1 .. Height : yystos[yyss[k]] \in 0 .. 37
    <3>1. \A k \in DOMAIN yyss : yyss[k] \in States
      BY <1>1 DEF StackInv
    <3> QED BY <2>1, <3>1, SymbolRows
  <2>6. yychar # YYEMPTY => TokenNo \in 0 .. 24
    BY <1>1, Translated DEF StackInv, TokenNo
  <2> QED BY <2>2, <2>3, <2>4, <2>5, <2>6
<1>2. ASSUME StackInv'
      PROVE  /\ Owners' = 1 .. Height' \cup (IF yychar' = YYEMPTY THEN {} ELSE {0})
             /\ \A k \in Owners' : SymbolAt(k)' \in 0 .. 37
             /\ \A k \in 1 .. Height' : SymbolAt(k)' = yystos[yyss'[k]] /\ ValueAt(k)' = yyvs'[k]
             /\ SymbolAt(0)' = TokenNo' /\ ValueAt(0)' = yylval'
  <2>1. yyss' \in Seq(States) /\ DOMAIN yyss' = 1 .. Height'
    BY <1>2 DEF StackInv, Height
  <2>2. Owners' = 1 .. Height' \cup (IF yychar' = YYEMPTY THEN {} ELSE {0})
    BY <2>1 DEF Owners, Lookahead
  <2>3. \A k \in 1 .. Height' : SymbolAt(k)' = yystos[yyss'[k]] /\ ValueAt(k)' = yyvs'[k]
    BY DEF SymbolAt, ValueAt, Lookahead
  <2>4. SymbolAt(0)' = TokenNo' /\ ValueAt(0)' = yylval'
    BY DEF SymbolAt, ValueAt, Lookahead
  <2>5. \A k \in 1 .. Height' : yystos[yyss'[k]] \in 0 .. 37
    <3>1. \A k \in DOMAIN yyss' : yyss'[k] \in States
      BY <1>2 DEF StackInv
    <3> QED BY <2>1, <3>1, SymbolRows
  <2>6. yychar' # YYEMPTY => TokenNo' \in 0 .. 24
    BY <1>2, Translated DEF StackInv, TokenNo
  <2> QED BY <2>2, <2>3, <2>4, <2>5, <2>6
<1> QED BY <1>1, <1>2

(* A reduction replaces the owners above keep by the one on top. *)
LEMMA ReduceFrame ==
  ASSUME StackInv, TypeInv, NEW n \in 0 .. 29, n # 9, NEW value \in Vals, Reduce(n, value),
         NEW keep, keep = Height - PoppedBy(n)
  PROVE  /\ keep \in 1 .. 11 /\ keep <= Height /\ Height \in 1 .. 12
         /\ Height' = keep + 1 /\ yyvs' \in Seq(Vals) /\ Len(yyvs') = Height' /\ yychar = YYEMPTY
         /\ Owners = 1 .. Height /\ Owners' = 1 .. keep \cup {keep + 1}
         /\ \A k \in 1 .. keep : SymbolAt(k)' = SymbolAt(k) /\ ValueAt(k)' = ValueAt(k)
         /\ SymbolAt(keep + 1)' = yystos[Top'] /\ ValueAt(keep + 1)' = value
         /\ yystos[Top'] \in 0 .. 37
<1>1. /\ keep \in 1 .. 11 /\ keep <= Height /\ Height' = keep + 1 /\ yyss'[keep + 1] = Top'
      /\ \A i \in 1 .. keep : yyss'[i] = yyss[i]
      /\ StackInv' /\ yychar = YYEMPTY /\ yychar' = YYEMPTY
  BY ReduceStack
<1>2. Height \in 1 .. 12 /\ yyvs \in Seq(Vals) /\ keep \in 0 .. Len(yyvs)
  BY <1>1 DEF StackInv, TypeInv
<1>3. yyvs' = Cut(yyvs, keep, value)
  BY DEF Reduce, Cut, Height
<1>4. yyvs' \in Seq(Vals) /\ Len(yyvs') = keep + 1
  BY <1>2, <1>3, CutIs
<1>5. yyvs'[keep + 1] = value
  BY <1>2, <1>3, CutIs
<1>6. \A i \in 1 .. keep : yyvs'[i] = yyvs[i]
  BY <1>2, <1>3, CutIs
<1>7. Owners = 1 .. Height /\ Owners' = 1 .. Height'
  BY <1>1, OwnersAre
<1>8. 1 .. Height' = 1 .. keep \cup {keep + 1}
  BY <1>1
<1>9. \A k \in 1 .. keep : k \in 1 .. Height /\ k \in 1 .. Height'
  BY <1>1, <1>2
<1>10. \A k \in 1 .. keep : SymbolAt(k)' = SymbolAt(k) /\ ValueAt(k)' = ValueAt(k)
  BY <1>1, <1>6, <1>9, OwnersAre
<1>11. keep + 1 \in 1 .. Height' /\ keep + 1 \in Owners'
  BY <1>7, <1>8
<1>12. SymbolAt(keep + 1)' = yystos[Top'] /\ ValueAt(keep + 1)' = value
  BY <1>1, <1>5, <1>11, OwnersAre
<1>13. yystos[Top'] \in 0 .. 37
  BY <1>1, <1>11, <1>12, OwnersAre
<1> QED BY <1>1, <1>2, <1>4, <1>7, <1>8, <1>10, <1>12, <1>13

LEMMA ReduceOwned ==
  ASSUME StackInv, TypeInv, HeapIsOwned, NEW n \in 0 .. 29, n # 9, NEW value \in Vals,
         Reduce(n, value), NEW keep, keep = Height - PoppedBy(n),
         NEW R, \A b : b \in R <=> \E k \in keep + 1 .. Height : b \in OwnedBy(k),
         NEW New, New = OwnsIn(heap', yystos[Top'], value), LeadsIn(heap', yystos[Top'], value),
         New \subseteq Blocks, \A b \in New : heap'[b] # Free /\ (b \in R \/ heap[b] = Free),
         \A b \in R \ New : heap'[b] = Free,
         \A b \in Blocks : b \notin R /\ b \notin New => heap'[b] = heap[b]
  PROVE  /\ HeapIsOwned'
         /\ \A k \in 1 .. keep : OwnedBy(k)' = OwnedBy(k) /\ \A b \in OwnedBy(k) : heap'[b] = heap[b]
<1>1. /\ keep \in 1 .. 11 /\ keep <= Height /\ Height \in 1 .. 12
      /\ Owners = 1 .. Height /\ Owners' = 1 .. keep \cup {keep + 1}
      /\ \A k \in 1 .. keep : SymbolAt(k)' = SymbolAt(k) /\ ValueAt(k)' = ValueAt(k)
      /\ SymbolAt(keep + 1)' = yystos[Top'] /\ ValueAt(keep + 1)' = value
      /\ yystos[Top'] \in 0 .. 37
  BY ReduceFrame
<1>2. \A k \in Owners : SymbolAt(k) \in 0 .. 37
  BY OwnersAre
<1>3. 1 .. keep \subseteq Owners /\ keep + 1 \notin 1 .. keep /\ Owners \ (1 .. keep) = keep + 1 .. Height
  BY <1>1
<1>4. PICK K, t : K = 1 .. keep /\ t = keep + 1
  OBVIOUS
<1>5. K \subseteq Owners /\ t \notin K /\ Owners' = K \cup {t}
  BY <1>1, <1>3, <1>4
<1>6. \A k \in K : SymbolAt(k)' = SymbolAt(k) /\ ValueAt(k)' = ValueAt(k)
  BY <1>1, <1>4
<1>7. \A b : b \in R <=> \E k \in Owners \ K : b \in OwnedBy(k)
  BY <1>3, <1>4
<1>8. /\ SymbolAt(t)' \in 0 .. 37 /\ New = OwnsIn(heap', SymbolAt(t)', ValueAt(t)')
      /\ LeadsIn(heap', SymbolAt(t)', ValueAt(t)')
  BY <1>1, <1>4
<1>9. /\ HeapIsOwned'
      /\ \A k \in K : OwnedBy(k)' = OwnedBy(k) /\ \A b \in OwnedBy(k) : heap'[b] = heap[b]
  BY <1>2, <1>5, <1>6, <1>7, <1>8, Exchange
<1> QED BY <1>4, <1>9

LEMMA LeastElementExists ==
  ASSUME NEW S \in SUBSET Nat, S # {}
  PROVE  \E i \in S : \A j \in S : i <= j
<1> DEFINE R == {ss \in Nat \X Nat : ss[1] < ss[2]}
<1>1. IsWellFoundedOn(R, Nat)
  BY NatLessThanWellFounded DEF OpToRel
<1>2. PICK i \in S : \A j \in S : <<j, i>> \notin R
  <2> HIDE DEF R
  <2> QED BY <1>1, WFMin
<1>3. \A j \in S : ~(j < i)
  BY <1>2
<1> QED BY <1>3

(* If memory has no end, malloc finds a block. *)
LEMMA MallocIs ==
  ASSUME ~IsFiniteSet(Blocks), TypeInv
  PROVE  Malloc(heap) \in Blocks /\ heap[Malloc(heap)] = Free
<1> DEFINE S == {b \in Blocks : heap[b] = Free}
<1>1. S # {}
  <2> SUFFICES ASSUME S = {}
               PROVE  FALSE
    OBVIOUS
  <2>1. Blocks = Allocated
    BY DEF Allocated
  <2> QED BY <2>1 DEF TypeInv
<1>2. \E i \in S : \A j \in S : i <= j
  <2>1. S \in SUBSET Nat
    BY ParserAssumption
  <2> HIDE DEF S
  <2> QED BY <1>1, <2>1, LeastElementExists
<1>3. Malloc(heap) \in S
  <2> HIDE DEF S
  <2> QED BY <1>2 DEF Malloc, Min, S
<1> QED BY <1>3

LEMMA AllocatedStays ==
  ASSUME IsFiniteSet(Allocated), NEW a,
         \A b \in Blocks : heap'[b] # Free => b = a \/ heap[b] # Free
  PROVE  IsFiniteSet(Allocated')
<1>1. IsFiniteSet(Allocated \cup {a})
  BY FS_AddElement
<1>2. Allocated' \subseteq Allocated \cup {a}
  BY DEF Allocated
<1> QED BY <1>1, <1>2, FS_Subset

(* What the symbols own, number by number *)
LEMMA OwnsRows ==
  ASSUME NEW h, NEW n, NEW v
  PROVE  /\ n \notin {16, 17, 18, 31, 32, 35, 36} => OwnsIn(h, n, v) = {} /\ LeadsIn(h, n, v)
         /\ n \in {16, 17, 18, 35, 36} =>
              OwnsIn(h, n, v) = {v} /\ (LeadsIn(h, n, v) <=> StringIn(h, v))
         /\ n = 32 => /\ OwnsIn(h, n, v) = {v, CondValue(h, v)}
                      /\ LeadsIn(h, n, v) <=> /\ v \in Blocks /\ h[v].type = "cond"
                                              /\ StringIn(h, CondValue(h, v))
         /\ n = 31 => OwnsIn(h, n, v) = {v} \cup Values(CondsIn(h, v))
BY DEF OwnsIn, LeadsIn, Strings

Keeps(keep) == \A k \in 1 .. keep : /\ SymbolAt(k)' = SymbolAt(k) /\ ValueAt(k)' = ValueAt(k)
                                    /\ OwnedBy(k)' = OwnedBy(k)
                                    /\ \A b \in OwnedBy(k) : heap'[b] = heap[b]

LEMMA DollarIs ==
  ASSUME StackInv, TypeInv, NEW n \in 0 .. 29, NEW keep \in 1 .. 11, keep = Height - PoppedBy(n)
  PROVE  \A i \in 1 .. 7 : Dollar(n, i) = yyvs[keep + i]
<1>1. Height \in 1 .. 12 /\ Len(yyvs) = Height
  BY DEF StackInv, TypeInv
<1>2. yyr2[n] \in Int
  BY RuleLengths
<1>3. \A i \in 1 .. 7 : Len(yyvs) - yyr2[n] + i = keep + i
  BY <1>1, <1>2 DEF PoppedBy
<1> QED BY <1>3 DEF Dollar

LEMMA ValueOf ==
  ASSUME StackInv, TypeInv, NEW k \in 1 .. Height
  PROVE  yyvs[k] \in Vals /\ Suits(yystos[yyss[k]], yyvs[k])
<1>1. yyvs[k] \in Vals
  BY DEF StackInv, TypeInv
<1>2. Suits(SymbolAt(k), ValueAt(k))
  BY DEF TypeInv
<1> QED BY <1>1, <1>2, OwnersAre

(* What a reduction does not touch keeps its type. *)
LEMMA ReduceTypes ==
  ASSUME StackInv, TypeInv, NEW n \in 0 .. 29, n # 9, NEW value \in Vals, Reduce(n, value),
         heap' \in [Blocks -> Contents], IsFiniteSet(Allocated'), Suits(yystos[Top'], value)
  PROVE  TypeInv'
<1>1. PICK keep : keep = Height - PoppedBy(n)
  OBVIOUS
<1>2. /\ keep \in 1 .. 11 /\ keep <= Height /\ Height \in 1 .. 12
      /\ Height' = keep + 1 /\ yyvs' \in Seq(Vals) /\ Len(yyvs') = Height'
      /\ \A k \in 1 .. keep : SymbolAt(k)' = SymbolAt(k) /\ ValueAt(k)' = ValueAt(k)
      /\ SymbolAt(keep + 1)' = yystos[Top'] /\ ValueAt(keep + 1)' = value
  BY <1>1, ReduceFrame
<1>3. ASSUME NEW k \in 1 .. Height'
      PROVE  Suits(SymbolAt(k), ValueAt(k))'
  <2>1. CASE k = keep + 1
    BY <1>2, <2>1 DEF Suits
  <2>2. CASE k # keep + 1
    <3>1. k \in 1 .. keep /\ k \in 1 .. Height
      BY <1>2, <2>2
    <3>2. Suits(SymbolAt(k), ValueAt(k))
      BY <3>1 DEF TypeInv
    <3> QED BY <1>2, <3>1, <3>2 DEF Suits
  <2> QED BY <2>1, <2>2
<1>4. UNCHANGED <<yylval, yyerrstatus, yyresult, line, wrongAt, excused>>
  BY DEF Reduce
<1> QED BY <1>2, <1>3, <1>4 DEF TypeInv

(* What lies on the stack owns what its symbol says. *)
LEMMA OwnedAt ==
  ASSUME StackInv, HeapIsOwned, NEW k \in 1 .. Height
  PROVE  /\ OwnedBy(k) = OwnsIn(heap, yystos[yyss[k]], yyvs[k])
         /\ LeadsIn(heap, yystos[yyss[k]], yyvs[k])
         /\ OwnedBy(k) \subseteq Blocks /\ \A b \in OwnedBy(k) : heap[b] # Free
         /\ \A l \in 1 .. Height : k # l => OwnedBy(k) \cap OwnedBy(l) = {}
<1>1. /\ k \in Owners /\ SymbolAt(k) \in 0 .. 37 /\ 1 .. Height \subseteq Owners
      /\ SymbolAt(k) = yystos[yyss[k]] /\ ValueAt(k) = yyvs[k]
  BY OwnersAre
<1>2. OwnedBy(k) = OwnsIn(heap, yystos[yyss[k]], yyvs[k])
  BY <1>1, OwnedIs
<1>3. LeadsIn(heap, yystos[yyss[k]], yyvs[k])
  <2>1. Leads(SymbolAt(k), ValueAt(k))
    BY <1>1 DEF HeapIsOwned
  <2> QED BY <1>1, <2>1, OwnedIs
<1>4. OwnedBy(k) \subseteq {b \in Blocks : heap[b] # Free}
  BY <1>1 DEF HeapIsOwned
<1>5. \A l \in 1 .. Height : k # l => OwnedBy(k) \cap OwnedBy(l) = {}
  BY <1>1 DEF HeapIsOwned
<1> QED BY <1>2, <1>3, <1>4, <1>5

(* The blocks R of the symbols above keep become the blocks New of value. *)
Swapped(R, New, keep, value) ==
  /\ \A b : b \in R <=> \E k \in keep + 1 .. Height : b \in OwnedBy(k)
  /\ New = OwnsIn(heap', yystos[Top'], value) /\ LeadsIn(heap', yystos[Top'], value)
  /\ New \subseteq Blocks /\ \A b \in New : heap'[b] # Free /\ (b \in R \/ heap[b] = Free)
  /\ \A b \in R \ New : heap'[b] = Free
  /\ \A b \in Blocks : b \notin R /\ b \notin New => heap'[b] = heap[b]
  /\ heap' \in [Blocks -> Contents] /\ \E a : New \subseteq R \cup {a}
  /\ Suits(yystos[Top'], value)

LEMMA Reduced ==
  ASSUME StackInv, TypeInv, HeapIsOwned, NEW n \in 0 .. 29, n # 9, NEW value \in Vals,
         Reduce(n, value), NEW keep, keep = Height - PoppedBy(n),
         NEW R, NEW New, Swapped(R, New, keep, value)
  PROVE  HeapIsOwned' /\ TypeInv' /\ Keeps(keep)
<1>0. /\ \A b : b \in R <=> \E k \in keep + 1 .. Height : b \in OwnedBy(k)
      /\ New = OwnsIn(heap', yystos[Top'], value) /\ LeadsIn(heap', yystos[Top'], value)
      /\ New \subseteq Blocks /\ \A b \in New : heap'[b] # Free /\ (b \in R \/ heap[b] = Free)
      /\ \A b \in R \ New : heap'[b] = Free
      /\ \A b \in Blocks : b \notin R /\ b \notin New => heap'[b] = heap[b]
      /\ heap' \in [Blocks -> Contents] /\ \E a : New \subseteq R \cup {a}
      /\ Suits(yystos[Top'], value)
  BY DEF Swapped
<1>1. /\ HeapIsOwned'
      /\ \A k \in 1 .. keep : OwnedBy(k)' = OwnedBy(k) /\ \A b \in OwnedBy(k) : heap'[b] = heap[b]
  BY <1>0, ReduceOwned
<1>2. /\ keep \in 1 .. 11 /\ keep <= Height /\ Height \in 1 .. 12
      /\ \A k \in 1 .. keep : SymbolAt(k)' = SymbolAt(k) /\ ValueAt(k)' = ValueAt(k)
  BY ReduceFrame
<1>3. Keeps(keep)
  BY <1>1, <1>2 DEF Keeps
<1>4. \A b \in R : heap[b] # Free
  <2>1. \A k \in keep + 1 .. Height : k \in 1 .. Height
    BY <1>2
  <2> QED BY <1>0, <2>1, OwnedAt
<1>5. IsFiniteSet(Allocated')
  <2>1. PICK a : New \subseteq R \cup {a}
    BY <1>0
  <2>2. \A b \in Blocks : heap'[b] # Free => b = a \/ heap[b] # Free
    BY <1>0, <1>4, <2>1
  <2> QED BY <2>2, AllocatedStays DEF TypeInv
<1>6. TypeInv'
  BY <1>0, <1>5, ReduceTypes
<1> QED BY <1>1, <1>3, <1>6

(* The new symbol on the stack, and what is under it *)
LEMMA ReduceTop ==
  ASSUME StackInv, NEW n \in 0 .. 29, n # 9, NEW value, Reduce(n, value),
         NEW keep, keep = Height - PoppedBy(n)
  PROVE  /\ n \in 2 .. 29 /\ RuleIs(n, Top, Height, keep) /\ BaseIs(n, keep, yyss[keep], Top')
         /\ keep \in 1 .. 11 /\ keep <= Height /\ Height \in 1 .. 12
<1>1. /\ RuleIs(n, Top, Height, keep) /\ BaseIs(n, keep, yyss[keep], Top')
      /\ keep \in 1 .. 11 /\ keep <= Height
  BY ReduceStack
<1>2. n \in 2 .. 29
  BY <1>1 DEF RuleIs
<1>3. Height \in 1 .. 12
  BY DEF StackInv
<1> QED BY <1>1, <1>2, <1>3

LEMMA NewTop ==
  ASSUME NEW n \in 2 .. 29, n # 9, n # 6, NEW keep \in 1 .. 11, NEW b, NEW g, BaseIs(n, keep, b, g)
  PROVE  /\ n \in {2, 3} => yystos[g] = 26
         /\ n \in {4, 5, 7, 8} => yystos[g] = 27
         /\ n \in {10, 11} => yystos[g] = 29
         /\ n \in {12, 13} => yystos[g] = 30
         /\ n \in {14, 15} => yystos[g] = 31
         /\ n = 16 => yystos[g] = 32
         /\ n \in {17, 18, 19} => yystos[g] = 33
         /\ n = 20 => yystos[g] = 34
         /\ n \in {21, 22} => yystos[g] = 35
         /\ n = 23 => yystos[g] = 36
         /\ n \in 24 .. 29 => yystos[g] = 37
<1>1. CASE n \in 2 .. 15
  BY <1>1, SymbolRows DEF BaseIs
<1>2. CASE n \in 16 .. 29
  BY <1>2, SymbolRows DEF BaseIs
<1> QED BY <1>1, <1>2

(* The rules whose symbols own nothing, before and after *)
LEMMA NothingPopped ==
  ASSUME StackInv, NEW n \in 2 .. 29, NEW keep \in 1 .. 11, RuleIs(n, Top, Height, keep),
         n \in {2, 3, 4, 5, 7, 8, 17, 18, 19} \cup 24 .. 29
  PROVE  \A k \in keep + 1 .. Height : yystos[yyss[k]] \notin {16, 17, 18, 31, 32, 35, 36}
<1>0. Height \in 1 .. 12 /\ Top \in States /\ Top = yyss[Height]
  BY TopIs DEF StackInv
<1>1. CASE n = 3
  BY <1>0, <1>1 DEF RuleIs
<1>2. CASE n = 2
  <2>1. Top = 8 /\ Height = 3 /\ keep = 1 /\ yyss[2] = 1
    BY <1>2, Shape DEF RuleIs
  <2>2. \A k \in keep + 1 .. Height : yyss[k] = 1 \/ yyss[k] = 8
    <3>1. yyss[3] = 8 /\ keep + 1 = 2
      BY <2>1, TopIs
    <3>2. \A k \in 2 .. 3 : k = 2 \/ k = 3
      OBVIOUS
    <3> QED BY <2>1, <3>1, <3>2
  <2> QED BY <2>2, SymbolRows
<1>3. CASE n = 7
  <2>1. Top = 12 /\ Height = 4 /\ keep = 2
    BY <1>3 DEF RuleIs
  <2>2. yyss[3] = 3
    <3>1. Height - 1 = 3 /\ Height > 1
      BY <2>1
    <3> QED BY <2>1, <3>1, UnderTop, BelowRows
  <2>3. \A k \in keep + 1 .. Height : yyss[k] = 3 \/ yyss[k] = 12
    <3>1. yyss[4] = 12 /\ keep + 1 = 3
      BY <2>1, TopIs
    <3>2. \A k \in 3 .. 4 : k = 3 \/ k = 4
      OBVIOUS
    <3> QED BY <2>1, <2>2, <3>1, <3>2
  <2> QED BY <2>3, SymbolRows
<1>4. CASE n \in {4, 5, 8, 17, 18, 19}
  <2>1. Top \in {10, 11, 7, 17, 14, 13} /\ keep = Height - 1
    BY <1>0, <1>4 DEF RuleIs
  <2> QED BY <1>0, <2>1, SymbolRows
<1>5. CASE n \in 24 .. 29
  <2>1. Top \in 34 .. 39 /\ keep = Height - 1
    BY <1>0, <1>5 DEF RuleIs
  <2>2. yystos[Top] \in 19 .. 24
    BY <2>1, SymbolRows
  <2> QED BY <1>0, <2>1, <2>2
<1> QED BY <1>1, <1>2, <1>3, <1>4, <1>5

LEMMA OwnlessReduction ==
  ASSUME StackInv, TypeInv, HeapIsOwned, NEW value \in Vals, NEW n \in 0 .. 29,
         n \in {2, 3, 4, 5, 7, 8, 17, 18, 19} \cup 24 .. 29, Reduce(n, value),
         NEW keep, keep = Height - PoppedBy(n), UNCHANGED heap,
         n = 17 => value = DefaultValue(17), n \in {18, 19} => value \in {3, 4},
         n \in 24 .. 29 => value \in 0 .. 5
  PROVE  HeapIsOwned' /\ TypeInv' /\ Keeps(keep)
<1>0. n # 9 /\ n # 6
  OBVIOUS
<1>1. /\ n \in 2 .. 29 /\ RuleIs(n, Top, Height, keep) /\ BaseIs(n, keep, yyss[keep], Top')
      /\ keep \in 1 .. 11 /\ keep <= Height /\ Height \in 1 .. 12
  BY <1>0, ReduceTop
<1>2. \A k \in keep + 1 .. Height : yystos[yyss[k]] \notin {16, 17, 18, 31, 32, 35, 36}
  BY <1>1, NothingPopped
<1>3. \A b : ~ \E k \in keep + 1 .. Height : b \in OwnedBy(k)
  <2>1. \A k \in keep + 1 .. Height : k \in 1 .. Height
    BY <1>1
  <2>2. \A k \in keep + 1 .. Height : OwnedBy(k) = {}
    BY <1>2, <2>1, OwnedAt, OwnsRows
  <2> QED BY <2>2
<1>4. PICK g : g = Top'
  OBVIOUS
<1>5. yystos[g] \in {26, 27, 33, 37} /\ (yystos[g] = 33 <=> n \in {17, 18, 19})
      /\ (yystos[g] = 37 <=> n \in 24 .. 29)
  BY <1>0, <1>1, <1>4, NewTop
<1>6. OwnsIn(heap', yystos[Top'], value) = {} /\ LeadsIn(heap', yystos[Top'], value)
  BY <1>4, <1>5, OwnsRows
<1>7. Suits(yystos[Top'], value)
  <2>1. CASE n = 17
    <3>1. Top = 17 /\ Height = 4 /\ keep = 3
      BY <1>1, <2>1 DEF RuleIs
    <3>2. value = yyvs[4]
      <4>1. Dollar(17, 1) = yyvs[3 + 1]
        BY <1>1, <2>1, <3>1, DollarIs
      <4>2. yyr2[17] = 1
        BY RuleLengths
      <4> QED BY <2>1, <4>1, <4>2 DEF DefaultValue
    <3>3. yyss[4] = 17 /\ yystos[17] = 34
      BY <3>1, TopIs, SymbolRows
    <3>4. Suits(34, yyvs[4])
      BY <3>1, <3>3, ValueOf
    <3> QED BY <1>4, <1>5, <2>1, <3>2, <3>4 DEF Suits
  <2>2. CASE n \in {18, 19}
    BY <1>4, <1>5, <2>2 DEF Suits
  <2>3. CASE n \in 24 .. 29
    BY <1>4, <1>5, <2>3 DEF Suits
  <2>4. CASE n < 17
    BY <1>4, <1>5, <2>4 DEF Suits
  <2> QED BY <2>1, <2>2, <2>3, <2>4
<1>8. heap' \in [Blocks -> Contents]
  BY DEF TypeInv
<1>9. Swapped({}, {}, keep, value)
  BY <1>3, <1>6, <1>7, <1>8 DEF Swapped
<1> QED BY <1>0, <1>9, Reduced

(* What a block may hold *)
LEMMA ContentKinds ==
  ASSUME NEW x \in Contents
  PROVE  /\ x # Free <=> x.type \in {"string", "cond", "conds"}
         /\ x.type = "string" => x.text \in Texts
         /\ x.type = "cond" => x.cond \in Conditions
         /\ x.type = "conds" => x.conds \in Seq(Conditions)
BY DEF Contents, Free

LEMMA BlocksAre ==
  /\ \A text \in Texts : StringBlock(text) \in Contents /\ StringBlock(text) # Free
                         /\ StringBlock(text).type = "string" /\ StringBlock(text).text = text
  /\ \A c \in Conditions : CondBlock(c) \in Contents /\ CondBlock(c) # Free
                           /\ CondBlock(c).type = "cond" /\ CondBlock(c).cond = c
  /\ \A cs \in Seq(Conditions) : CondsBlock(cs) \in Contents /\ CondsBlock(cs) # Free
                                 /\ CondsBlock(cs).type = "conds" /\ CondsBlock(cs).conds = cs
BY DEF StringBlock, CondBlock, CondsBlock, Contents, Free

LEMMA FreedIs ==
  ASSUME NEW h \in [Blocks -> Contents], NEW bs
  PROVE  /\ Freed(h, bs) \in [Blocks -> Contents]
         /\ \A b \in Blocks : Freed(h, bs)[b] = IF b \in bs THEN Free ELSE h[b]
BY DEF Freed, Contents

(* The states under the top, rule by rule *)
LEMMA ConditionPopped ==
  ASSUME StackInv, NEW keep \in 1 .. 11, RuleIs(16, Top, Height, keep)
  PROVE  /\ keep \in {7, 9} /\ Height = keep + 3
         /\ yyss[keep + 1] = 30 /\ yyss[keep + 2] = 40 /\ yyss[keep + 3] = 45
<1>1. Top = 45 /\ Height \in {10, 12} /\ keep = Height - 3
  BY DEF RuleIs
<1>2. yyss[Height - 1] = 40
  BY <1>1, UnderTop, BelowRows
<1>3. CASE Height = 10
  <2>1. yyss[9] = 40 /\ yyss[10] = 45
    BY <1>1, <1>2, <1>3, TopIs
  <2>2. yyss[8] = 30
    BY <1>3, <2>1, Shape
  <2> QED BY <1>1, <1>3, <2>1, <2>2
<1>4. CASE Height = 12
  <2>1. yyss[11] = 40 /\ yyss[12] = 45
    BY <1>1, <1>2, <1>4, TopIs
  <2>2. yyss[10] = 30
    BY <1>4, Shape
  <2> QED BY <1>1, <1>4, <2>1, <2>2
<1> QED BY <1>1, <1>3, <1>4

LEMMA NextPopped ==
  ASSUME StackInv, NEW keep \in 1 .. 11, RuleIs(15, Top, Height, keep)
  PROVE  keep = 7 /\ Height = 10 /\ yyss[8] = 28 /\ yyss[9] = 32 /\ yyss[10] = 42
<1>1. Top = 42 /\ Height = 10 /\ keep = 7
  BY DEF RuleIs
<1>2. yyss[9] = 32
  <2>1. Height - 1 = 9 /\ Height > 1
    BY <1>1
  <2> QED BY <1>1, <2>1, UnderTop, BelowRows
<1> QED BY <1>1, <1>2, Shape, TopIs

LEMMA LoadPopped ==
  ASSUME StackInv, NEW n \in {10, 11}, NEW keep \in 1 .. 11, RuleIs(n, Top, Height, keep)
  PROVE  /\ keep = 2 /\ yyss[3] = 5 /\ yyss[4] = 19 /\ yyss[5] = 21 /\ yyss[6] = 23
         /\ n = 10 => Height = 7 /\ yyss[7] = 27
         /\ n = 11 => Height = 9 /\ yyss[7] = 26 /\ yyss[8] = 31 /\ yyss[9] = 41
<1>1. /\ keep = 2
      /\ n = 10 => Top = 27 /\ Height = 7
      /\ n = 11 => Top = 41 /\ Height = 9
  BY DEF RuleIs
<1>2. /\ n = 10 => yyss[7] = 27
      /\ n = 11 => yyss[9] = 41
  BY <1>1, TopIs
<1>3. n = 10 => yyss[6] = 23
  <2>1. n = 10 => Height - 1 = 6 /\ Height > 1
    BY <1>1
  <2> QED BY <1>1, <2>1, UnderTop, BelowRows
<1>4. n = 11 => yyss[8] = 31
  <2>1. n = 11 => Height - 1 = 8 /\ Height > 1
    BY <1>1
  <2> QED BY <1>1, <2>1, UnderTop, BelowRows
<1>5. n = 11 => yyss[7] = 26
  BY <1>1, <1>4, Shape
<1>6. yyss[6] = 23
  BY <1>1, <1>3, <1>5, Shape
<1>7. yyss[5] = 21
  BY <1>1, <1>6, Shape
<1>8. yyss[3] = 5 /\ yyss[4] = 19
  BY <1>1, <1>7, Shape
<1> QED BY <1>1, <1>2, <1>4, <1>5, <1>6, <1>7, <1>8

LEMMA SelectPopped ==
  ASSUME StackInv, NEW n \in {12, 13}, NEW keep \in 1 .. 11, RuleIs(n, Top, Height, keep)
  PROVE  /\ keep = 2 /\ yyss[3] = 4 /\ yyss[4] = 16 /\ yyss[5] = 20 /\ yyss[6] = 22
         /\ n = 12 => Height = 7 /\ yyss[7] = 25
         /\ n = 13 => Height = 9 /\ yyss[7] = 24 /\ yyss[8] = 28 /\ yyss[9] = 33
<1>1. /\ keep = 2
      /\ n = 12 => Top = 25 /\ Height = 7
      /\ n = 13 => Top = 33 /\ Height = 9
  BY DEF RuleIs
<1>2. /\ n = 12 => yyss[7] = 25
      /\ n = 13 => yyss[9] = 33
  BY <1>1, TopIs
<1>3. n = 12 => yyss[6] = 22
  <2>1. n = 12 => Height - 1 = 6 /\ Height > 1
    BY <1>1
  <2> QED BY <1>1, <2>1, UnderTop, BelowRows
<1>4. n = 13 => yyss[8] = 28
  <2>1. n = 13 => Height - 1 = 8 /\ Height > 1
    BY <1>1
  <2> QED BY <1>1, <2>1, UnderTop, BelowRows
<1>5. n = 13 => yyss[7] = 24
  BY <1>1, <1>4, Shape
<1>6. yyss[6] = 22
  BY <1>1, <1>3, <1>5, Shape
<1>7. yyss[5] = 20
  BY <1>1, <1>6, Shape
<1>8. yyss[3] = 4 /\ yyss[4] = 16
  BY <1>1, <1>7, Shape
<1> QED BY <1>1, <1>2, <1>4, <1>5, <1>6, <1>7, <1>8

(* value, table: the string changes its symbol. *)
LEMMA PassOwned ==
  ASSUME StackInv, TypeInv, HeapIsOwned, NEW n \in {21, 22, 23}, Reduce(n, DefaultValue(n)),
         NEW keep, keep = Height - PoppedBy(n), UNCHANGED heap
  PROVE  /\ HeapIsOwned' /\ TypeInv' /\ Keeps(keep)
         /\ Height = keep + 1 /\ DefaultValue(n) = yyvs[Height]
         /\ OwnedBy(Height) = {yyvs[Height]} /\ StringIn(heap, yyvs[Height])
<1>0. n \in 0 .. 29 /\ n # 9 /\ n # 6
  OBVIOUS
<1>1. /\ n \in 2 .. 29 /\ RuleIs(n, Top, Height, keep) /\ BaseIs(n, keep, yyss[keep], Top')
      /\ keep \in 1 .. 11 /\ keep <= Height /\ Height \in 1 .. 12
  BY <1>0, ReduceTop
<1>2. Height = keep + 1 /\ Top \in {43, 44, 18}
  BY <1>1 DEF RuleIs
<1>3. DefaultValue(n) = yyvs[Height]
  <2>1. yyr2[n] = 1
    BY RuleLengths
  <2>2. Dollar(n, 1) = yyvs[keep + 1]
    BY <1>0, <1>1, DollarIs
  <2> QED BY <1>2, <2>1, <2>2 DEF DefaultValue
<1>4. PICK v : v = yyvs[Height]
  OBVIOUS
<1>5. yystos[yyss[Height]] \in {16, 17, 18}
  BY <1>2, TopIs, SymbolRows
<1>6. Height \in 1 .. Height
  BY <1>1
<1>7. OwnedBy(Height) = {v} /\ StringIn(heap, v) /\ v \in Blocks /\ heap[v] # Free
  <2>1. OwnsIn(heap, yystos[yyss[Height]], v) = {v}
    BY <1>5, OwnsRows
  <2>2. LeadsIn(heap, yystos[yyss[Height]], v) <=> StringIn(heap, v)
    BY <1>5, OwnsRows
  <2> QED BY <1>4, <1>6, <2>1, <2>2, OwnedAt
<1>8. yystos[Top'] \in {35, 36}
  BY <1>0, <1>1, NewTop
<1>9. OwnsIn(heap', yystos[Top'], v) = {v} /\ LeadsIn(heap', yystos[Top'], v)
  BY <1>7, <1>8, OwnsRows
<1>10. \A b : b \in {v} <=> \E k \in keep + 1 .. Height : b \in OwnedBy(k)
  <2>1. \A k \in keep + 1 .. Height : k = Height
    BY <1>1, <1>2
  <2>2. Height \in keep + 1 .. Height
    BY <1>1, <1>2
  <2> QED BY <1>7, <2>1, <2>2
<1>11. heap' \in [Blocks -> Contents] /\ Suits(yystos[Top'], v)
  BY <1>8 DEF TypeInv, Suits
<1>12. Swapped({v}, {v}, keep, v)
  BY <1>7, <1>9, <1>10, <1>11 DEF Swapped
<1>13. v \in Vals
  BY <1>4, <1>6, ValueOf
<1>14. HeapIsOwned' /\ TypeInv' /\ Keeps(keep)
  BY <1>0, <1>3, <1>4, <1>12, <1>13, Reduced
<1> QED BY <1>2, <1>3, <1>4, <1>7, <1>14

(* attribute: the name is freed; if it stands for nothing, its address     *)
(* stays.                                                                  *)
LEMMA AttributeOwned ==
  ASSUME StackInv, TypeInv, HeapIsOwned, ReduceAttribute,
         NEW keep, keep = Height - PoppedBy(20)
  PROVE  /\ HeapIsOwned' /\ TypeInv' /\ Keeps(keep)
         /\ Height = keep + 1 /\ Dollar(20, 1) = yyvs[Height] /\ StringIn(heap, yyvs[Height])
         /\ OwnedBy(Height) = {yyvs[Height]}
<1>1. PICK value : /\ Reduce(20, value)
                   /\ value = (CASE TextAt(Dollar(20, 1)) = "key" -> 1
                                 [] TextAt(Dollar(20, 1)) = "value" -> 2
                                 [] OTHER -> DefaultValue(20))
                   /\ heap' = Freed(heap, {Dollar(20, 1)})
  BY DEF ReduceAttribute
<1>2. /\ RuleIs(20, Top, Height, keep) /\ BaseIs(20, keep, yyss[keep], Top')
      /\ keep \in 1 .. 11 /\ keep <= Height /\ Height \in 1 .. 12
  BY <1>1, ReduceTop
<1>3. Height = keep + 1 /\ Top = 15
  BY <1>2 DEF RuleIs
<1>4. PICK v : v = yyvs[Height]
  OBVIOUS
<1>5. Dollar(20, 1) = v
  BY <1>2, <1>3, <1>4, DollarIs
<1>6. Height \in 1 .. Height /\ yystos[yyss[Height]] = 18
  BY <1>2, <1>3, TopIs, SymbolRows
<1>7. OwnedBy(Height) = {v} /\ StringIn(heap, v) /\ v \in Blocks /\ heap[v] # Free
  <2>1. OwnsIn(heap, yystos[yyss[Height]], v) = {v}
    BY <1>6, OwnsRows
  <2>2. LeadsIn(heap, yystos[yyss[Height]], v) <=> StringIn(heap, v)
    BY <1>6, OwnsRows
  <2> QED BY <1>4, <1>6, <2>1, <2>2, OwnedAt
<1>8. value \in {1, 2, v}
  <2>1. yyr2[20] = 1
    BY RuleLengths
  <2>2. DefaultValue(20) = v
    BY <1>5, <2>1 DEF DefaultValue
  <2> QED BY <1>1, <2>2
<1>9. yystos[Top'] = 34
  BY <1>2, NewTop
<1>10. OwnsIn(heap', yystos[Top'], value) = {} /\ LeadsIn(heap', yystos[Top'], value)
  BY <1>9, OwnsRows
<1>11. \A b : b \in {v} <=> \E k \in keep + 1 .. Height : b \in OwnedBy(k)
  <2>1. \A k \in keep + 1 .. Height : k = Height
    BY <1>2, <1>3
  <2>2. Height \in keep + 1 .. Height
    BY <1>2, <1>3
  <2> QED BY <1>7, <2>1, <2>2
<1>12. /\ heap' \in [Blocks -> Contents]
       /\ \A b \in Blocks : heap'[b] = IF b \in {v} THEN Free ELSE heap[b]
  BY <1>1, <1>5, FreedIs DEF TypeInv
<1>13. Suits(yystos[Top'], value) /\ value \in Vals
  BY <1>7, <1>8, <1>9 DEF Suits, Vals
<1>14. Swapped({v}, {}, keep, value)
  BY <1>7, <1>10, <1>11, <1>12, <1>13 DEF Swapped
<1>15. HeapIsOwned' /\ TypeInv' /\ Keeps(keep)
  BY <1>1, <1>13, <1>14, Reduced
<1> QED BY <1>3, <1>4, <1>5, <1>7, <1>15

(* condition: its string, and a block for the condition *)
LEMMA ConditionOwned ==
  ASSUME StackInv, TypeInv, HeapIsOwned, ~IsFiniteSet(Blocks), ReduceCondition,
         NEW keep, keep = Height - PoppedBy(16)
  PROVE  /\ HeapIsOwned' /\ TypeInv' /\ Keeps(keep)
         /\ keep \in {7, 9} /\ Height = keep + 3
         /\ yyvs[keep + 3] \in Blocks /\ StringIn(heap, yyvs[keep + 3])
         /\ heap'[yyvs[keep + 3]] = heap[yyvs[keep + 3]]
         /\ LET c == Malloc(heap)
            IN /\ c \in Blocks /\ heap[c] = Free /\ Reduce(16, c)
               /\ heap'[c] = CondBlock([attr |-> yyvs[keep + 1], comp |-> yyvs[keep + 2],
                                        value |-> yyvs[keep + 3]])
               /\ heap'[c].type = "cond"
               /\ heap'[c].cond = [attr |-> yyvs[keep + 1], comp |-> yyvs[keep + 2],
                                   value |-> yyvs[keep + 3]]
<1>1. PICK c : /\ c = Malloc(heap) /\ Reduce(16, c)
               /\ heap' = [heap EXCEPT ![c] =
                             CondBlock([attr |-> Dollar(16, 1), comp |-> Dollar(16, 2),
                                        value |-> Dollar(16, 3)])]
  BY DEF ReduceCondition
<1>2. c \in Blocks /\ heap[c] = Free
  BY <1>1, MallocIs
<1>3. /\ RuleIs(16, Top, Height, keep) /\ BaseIs(16, keep, yyss[keep], Top')
      /\ keep \in 1 .. 11 /\ keep <= Height /\ Height \in 1 .. 12
  BY <1>1, ReduceTop
<1>4. /\ keep \in {7, 9} /\ Height = keep + 3
      /\ yyss[keep + 1] = 30 /\ yyss[keep + 2] = 40 /\ yyss[keep + 3] = 45
  BY <1>3, ConditionPopped
<1>5. PICK a, o, v : a = yyvs[keep + 1] /\ o = yyvs[keep + 2] /\ v = yyvs[keep + 3]
  OBVIOUS
<1>6. Dollar(16, 1) = a /\ Dollar(16, 2) = o /\ Dollar(16, 3) = v
  BY <1>3, <1>5, DollarIs
<1>7. keep + 1 \in 1 .. Height /\ keep + 2 \in 1 .. Height /\ keep + 3 \in 1 .. Height
  BY <1>3, <1>4
<1>8. yystos[30] = 34 /\ yystos[40] = 37 /\ yystos[45] = 35
  BY SymbolRows
<1>9. Suits(34, a) /\ Suits(37, o)
  BY <1>4, <1>5, <1>7, <1>8, ValueOf
<1>10. OwnedBy(keep + 3) = {v} /\ StringIn(heap, v) /\ v \in Blocks /\ heap[v] # Free
  <2>1. OwnsIn(heap, 35, v) = {v} /\ (LeadsIn(heap, 35, v) <=> StringIn(heap, v))
    BY OwnsRows
  <2> QED BY <1>4, <1>5, <1>7, <1>8, <2>1, OwnedAt
<1>11. OwnedBy(keep + 1) = {} /\ OwnedBy(keep + 2) = {}
  <2>1. OwnsIn(heap, 34, a) = {} /\ OwnsIn(heap, 37, o) = {}
    BY OwnsRows
  <2>2. OwnedBy(keep + 1) = OwnsIn(heap, 34, a)
    BY <1>4, <1>5, <1>7, <1>8, OwnedAt
  <2>3. OwnedBy(keep + 2) = OwnsIn(heap, 37, o)
    BY <1>4, <1>5, <1>7, <1>8, OwnedAt
  <2> QED BY <2>1, <2>2, <2>3
<1>12. \A b : b \in {v} <=> \E k \in keep + 1 .. Height : b \in OwnedBy(k)
  <2>1. \A k \in keep + 1 .. Height : k = keep + 1 \/ k = keep + 2 \/ k = keep + 3
    BY <1>3, <1>4
  <2>2. keep + 3 \in keep + 1 .. Height
    BY <1>3, <1>4
  <2> QED BY <1>10, <1>11, <2>1, <2>2
<1>13. PICK cond : cond = [attr |-> a, comp |-> o, value |-> v]
  OBVIOUS
<1>14. cond \in Conditions
  BY <1>9, <1>10, <1>13 DEF Suits, Conditions
<1>15. /\ CondBlock(cond) \in Contents /\ CondBlock(cond) # Free
       /\ CondBlock(cond).type = "cond" /\ CondBlock(cond).cond = cond
  BY <1>14, BlocksAre
<1>16. heap' = [heap EXCEPT ![c] = CondBlock(cond)]
  BY <1>1, <1>6, <1>13
<1>17. /\ heap' \in [Blocks -> Contents] /\ heap'[c] = CondBlock(cond)
       /\ \A b \in Blocks : b # c => heap'[b] = heap[b]
  BY <1>2, <1>15, <1>16 DEF TypeInv
<1>18. c # v
  BY <1>2, <1>10
<1>19. CondValue(heap', c) = v
  BY <1>2, <1>13, <1>15, <1>17 DEF CondValue
<1>20. StringIn(heap', v)
  BY <1>10, <1>17, <1>18 DEF StringIn
<1>21. yystos[Top'] = 32
  BY <1>3, NewTop
<1>22. OwnsIn(heap', 32, c) = {c, v} /\ LeadsIn(heap', 32, c)
  BY <1>2, <1>15, <1>17, <1>19, <1>20, OwnsRows
<1>23. \A b \in {c, v} : heap'[b] # Free /\ (b \in {v} \/ heap[b] = Free)
  BY <1>2, <1>10, <1>15, <1>17, <1>18
<1>24. Swapped({v}, {c, v}, keep, c)
  BY <1>2, <1>10, <1>12, <1>17, <1>21, <1>22, <1>23 DEF Swapped, Suits
<1>25. c \in Vals
  BY <1>2 DEF Vals
<1>26. HeapIsOwned' /\ TypeInv' /\ Keeps(keep)
  BY <1>1, <1>24, <1>25, Reduced
<1> QED BY <1>1, <1>2, <1>4, <1>5, <1>10, <1>13, <1>15, <1>17, <1>18, <1>26

(* conditions: a block for the vector, in exchange for the condition's *)
LEMMA FirstOwned ==
  ASSUME StackInv, TypeInv, HeapIsOwned, ~IsFiniteSet(Blocks), ReduceFirstCondition
  PROVE  /\ HeapIsOwned' /\ TypeInv' /\ Keeps(7) /\ 7 = Height - PoppedBy(14)
         /\ Height = 8 /\ yyss[8] = 29 /\ yyvs[8] \in Blocks /\ heap[yyvs[8]].type = "cond"
         /\ CondValue(heap, yyvs[8]) \in Blocks /\ StringIn(heap, CondValue(heap, yyvs[8]))
         /\ heap'[CondValue(heap, yyvs[8])] = heap[CondValue(heap, yyvs[8])]
         /\ LET v == Malloc(heap)
            IN /\ v \in Blocks /\ heap[v] = Free /\ Reduce(14, v)
               /\ CondsIn(heap', v) = <<heap[yyvs[8]].cond>>
<1>1. PICK v : /\ v = Malloc(heap) /\ Reduce(14, v)
               /\ heap' = Freed([heap EXCEPT ![v] = CondsBlock(<<CondAt(Dollar(14, 1))>>)],
                                {Dollar(14, 1)})
  BY DEF ReduceFirstCondition
<1>2. v \in Blocks /\ heap[v] = Free
  BY <1>1, MallocIs
<1>3. PICK keep : keep = Height - PoppedBy(14)
  OBVIOUS
<1>4. /\ RuleIs(14, Top, Height, keep) /\ BaseIs(14, keep, yyss[keep], Top')
      /\ keep \in 1 .. 11 /\ Height \in 1 .. 12
  BY <1>1, <1>3, ReduceTop
<1>5. keep = 7 /\ Height = 8 /\ Top = 29
  BY <1>4 DEF RuleIs
<1>6. yyss[8] = 29 /\ yystos[29] = 32 /\ 8 \in 1 .. Height
  BY <1>5, TopIs, SymbolRows
<1>7. PICK c, val : c = yyvs[8] /\ val = CondValue(heap, c)
  OBVIOUS
<1>8. Dollar(14, 1) = c
  <2>1. Dollar(14, 1) = yyvs[keep + 1]
    BY <1>3, <1>4, DollarIs
  <2> QED BY <1>5, <1>7, <2>1
<1>9. OwnedBy(8) = {c, val} /\ c \in Blocks /\ heap[c].type = "cond" /\ StringIn(heap, val)
      /\ val \in Blocks /\ heap[c] # Free /\ heap[val] # Free
  <2>1. /\ OwnsIn(heap, 32, c) = {c, val}
        /\ LeadsIn(heap, 32, c) <=> c \in Blocks /\ heap[c].type = "cond" /\ StringIn(heap, val)
    BY <1>7, OwnsRows
  <2>2. OwnedBy(8) = OwnsIn(heap, 32, c) /\ LeadsIn(heap, 32, c)
    BY <1>6, <1>7, OwnedAt
  <2>3. OwnedBy(8) \subseteq Blocks /\ \A b \in OwnedBy(8) : heap[b] # Free
    BY <1>6, OwnedAt
  <2> QED BY <2>1, <2>2, <2>3
<1>10. PICK cond : cond = heap[c].cond
  OBVIOUS
<1>11. CondAt(c) = cond /\ cond.value = val
  BY <1>7, <1>9, <1>10 DEF CondAt, Has, CondValue
<1>12. cond \in Conditions
  <2>1. heap[c] \in Contents
    BY <1>9 DEF TypeInv
  <2> QED BY <1>9, <1>10, <2>1, ContentKinds
<1>13. PICK cs : cs = <<cond>>
  OBVIOUS
<1>14. cs \in Seq(Conditions) /\ DOMAIN cs = {1} /\ cs[1] = cond
  BY <1>12, <1>13
<1>15. /\ CondsBlock(cs) \in Contents /\ CondsBlock(cs) # Free
       /\ CondsBlock(cs).type = "conds" /\ CondsBlock(cs).conds = cs
  BY <1>14, BlocksAre
<1>16. PICK h : h = [heap EXCEPT ![v] = CondsBlock(cs)]
  OBVIOUS
<1>17. /\ h \in [Blocks -> Contents] /\ h[v] = CondsBlock(cs)
       /\ \A b \in Blocks : b # v => h[b] = heap[b]
  BY <1>2, <1>15, <1>16 DEF TypeInv
<1>18. heap' = Freed(h, {c})
  BY <1>1, <1>8, <1>11, <1>13, <1>16
<1>19. heap' \in [Blocks -> Contents] /\ \A b \in Blocks : heap'[b] = IF b = c THEN Free ELSE h[b]
  BY <1>17, <1>18, FreedIs
<1>20. v # c /\ v # val /\ val # c
  <2>1. heap[val].type = "string"
    BY <1>9 DEF StringIn
  <2> QED BY <1>2, <1>9, <2>1
<1>21. heap'[v] = CondsBlock(cs) /\ heap'[val] = heap[val] /\ heap'[c] = Free
  BY <1>2, <1>9, <1>17, <1>19, <1>20
<1>22. CondsIn(heap', v) = cs
  BY <1>2, <1>15, <1>21 DEF CondsIn
<1>23. yystos[Top'] = 31
  BY <1>4, NewTop
<1>24. OwnsIn(heap', 31, v) = {v, val}
  <2>1. Values(cs) = {val}
    BY <1>11, <1>14 DEF Values
  <2> QED BY <1>22, <2>1, OwnsRows
<1>25. LeadsIn(heap', 31, v)
  <2>1. StringIn(heap', val)
    BY <1>9, <1>21 DEF StringIn
  <2> QED BY <1>2, <1>11, <1>14, <1>15, <1>21, <1>22, <2>1 DEF LeadsIn, Strings
<1>26. \A b : b \in {c, val} <=> \E k \in keep + 1 .. Height : b \in OwnedBy(k)
  <2>1. \A k : k \in keep + 1 .. Height <=> k = 8
    BY <1>5
  <2> QED BY <1>9, <2>1
<1>27. Swapped({c, val}, {v, val}, keep, v)
  <2>1. \A b \in {v, val} : heap'[b] # Free /\ (b \in {c, val} \/ heap[b] = Free)
    BY <1>2, <1>9, <1>15, <1>21
  <2>2. \A b \in {c, val} \ {v, val} : heap'[b] = Free
    BY <1>21
  <2>3. \A b \in Blocks : b \notin {c, val} /\ b \notin {v, val} => heap'[b] = heap[b]
    BY <1>17, <1>19
  <2> QED BY <1>2, <1>9, <1>19, <1>23, <1>24, <1>25, <1>26, <2>1, <2>2, <2>3 DEF Swapped, Suits
<1>28. v \in Vals
  BY <1>2 DEF Vals
<1>29. HeapIsOwned' /\ TypeInv' /\ Keeps(keep)
  BY <1>1, <1>3, <1>27, <1>28, Reduced
<1> QED BY <1>1, <1>2, <1>3, <1>5, <1>6, <1>7, <1>9, <1>10, <1>13, <1>21, <1>22, <1>29

LEMMA AppendedValues ==
  ASSUME NEW cs \in Seq(Conditions), NEW cond \in Conditions
  PROVE  /\ Append(cs, cond) \in Seq(Conditions)
         /\ DOMAIN Append(cs, cond) = 1 .. Len(cs) + 1 /\ DOMAIN cs = 1 .. Len(cs)
         /\ Append(cs, cond)[Len(cs) + 1] = cond
         /\ \A i \in 1 .. Len(cs) : Append(cs, cond)[i] = cs[i]
         /\ Values(Append(cs, cond)) = Values(cs) \cup {cond.value}
<1>1. /\ Append(cs, cond) \in Seq(Conditions)
      /\ DOMAIN Append(cs, cond) = 1 .. Len(cs) + 1 /\ DOMAIN cs = 1 .. Len(cs)
      /\ Append(cs, cond)[Len(cs) + 1] = cond
      /\ \A i \in 1 .. Len(cs) : Append(cs, cond)[i] = cs[i]
  OBVIOUS
<1>2. PICK r, len : r = Append(cs, cond) /\ len = Len(cs)
  OBVIOUS
<1>3. len \in Nat
  BY <1>2
<1>4. Values(r) = Values(cs) \cup {cond.value}
  <2>1. \A i : i \in 1 .. len + 1 <=> i \in 1 .. len \/ i = len + 1
    BY <1>3
  <2> QED BY <1>1, <1>2, <2>1 DEF Values
<1> QED BY <1>1, <1>2, <1>4

(* conditions: one more, in the block that is there *)
LEMMA NextOwned ==
  ASSUME StackInv, TypeInv, HeapIsOwned, ReduceNextCondition
  PROVE  /\ HeapIsOwned' /\ TypeInv' /\ Keeps(7) /\ 7 = Height - PoppedBy(15)
         /\ Height = 10 /\ yyss[8] = 28 /\ yyss[9] = 32 /\ yyss[10] = 42
         /\ yyvs[8] \in Blocks /\ CondsIn(heap, yyvs[8]) \in Seq(Conditions)
         /\ Reduce(15, yyvs[8])
         /\ yyvs[10] \in Blocks /\ heap[yyvs[10]].type = "cond" /\ heap[yyvs[10]].cond \in Conditions
         /\ CondsIn(heap', yyvs[8]) = Append(CondsIn(heap, yyvs[8]), heap[yyvs[10]].cond)
         /\ \A b \in Values(CondsIn(heap, yyvs[8])) \cup {heap[yyvs[10]].cond.value} :
              StringIn(heap, b) /\ heap'[b] = heap[b]
<1>1. PICK v : /\ v = Dollar(15, 1) /\ Reduce(15, v)
               /\ heap' = Freed([heap EXCEPT ![v] =
                                   CondsBlock(Append(CondsAt(v), CondAt(Dollar(15, 3))))],
                                {Dollar(15, 3)})
  BY DEF ReduceNextCondition
<1>3. PICK keep : keep = Height - PoppedBy(15)
  OBVIOUS
<1>4. /\ RuleIs(15, Top, Height, keep) /\ BaseIs(15, keep, yyss[keep], Top')
      /\ keep \in 1 .. 11 /\ Height \in 1 .. 12
  BY <1>1, <1>3, ReduceTop
<1>5. keep = 7 /\ Height = 10 /\ yyss[8] = 28 /\ yyss[9] = 32 /\ yyss[10] = 42
  BY <1>4, NextPopped
<1>6. /\ yystos[28] = 31 /\ yystos[32] = 11 /\ yystos[42] = 32
      /\ 8 \in 1 .. Height /\ 9 \in 1 .. Height /\ 10 \in 1 .. Height
  BY <1>5, SymbolRows
<1>7. PICK c, val : c = yyvs[10] /\ val = CondValue(heap, c)
  OBVIOUS
<1>8. v = yyvs[8] /\ Dollar(15, 3) = c
  <2>1. Dollar(15, 1) = yyvs[keep + 1] /\ Dollar(15, 3) = yyvs[keep + 3]
    BY <1>3, <1>4, DollarIs
  <2> QED BY <1>1, <1>5, <1>7, <2>1
<1>9. OwnedBy(10) = {c, val} /\ c \in Blocks /\ heap[c].type = "cond" /\ StringIn(heap, val)
      /\ val \in Blocks /\ heap[c] # Free /\ heap[val] # Free
  <2>1. /\ OwnsIn(heap, 32, c) = {c, val}
        /\ LeadsIn(heap, 32, c) <=> c \in Blocks /\ heap[c].type = "cond" /\ StringIn(heap, val)
    BY <1>7, OwnsRows
  <2>2. OwnedBy(10) = OwnsIn(heap, 32, c) /\ LeadsIn(heap, 32, c)
    BY <1>5, <1>6, <1>7, OwnedAt
  <2>3. OwnedBy(10) \subseteq Blocks /\ \A b \in OwnedBy(10) : heap[b] # Free
    BY <1>6, OwnedAt
  <2> QED BY <2>1, <2>2, <2>3
<1>10. PICK cond, cs : cond = heap[c].cond /\ cs = CondsIn(heap, v)
  OBVIOUS
<1>11. CondAt(c) = cond /\ cond.value = val
  BY <1>7, <1>9, <1>10 DEF CondAt, Has, CondValue
<1>12. cond \in Conditions
  <2>1. heap[c] \in Contents
    BY <1>9 DEF TypeInv
  <2> QED BY <1>9, <1>10, <2>1, ContentKinds
<1>13. /\ v \in Blocks /\ heap[v].type = "conds"
       /\ \A i, j \in DOMAIN cs : /\ StringIn(heap, cs[i].value)
                                  /\ cs[i].value = cs[j].value => i = j
  <2>1. LeadsIn(heap, 31, v)
    BY <1>5, <1>6, <1>8, OwnedAt
  <2> QED BY <1>10, <2>1 DEF LeadsIn, Strings
<1>14. OwnedBy(8) = {v} \cup Values(cs)
  <2>1. OwnedBy(8) = OwnsIn(heap, 31, v)
    BY <1>5, <1>6, <1>8, OwnedAt
  <2> QED BY <1>10, <2>1, OwnsRows
<1>15. CondsAt(v) = cs /\ cs \in Seq(Conditions)
  <2>1. heap[v] \in Contents
    BY <1>13 DEF TypeInv
  <2> QED BY <1>10, <1>13, <2>1, ContentKinds DEF CondsAt, CondsIn, Has
<1>16. {v} \cup Values(cs) \subseteq Blocks /\ \A b \in {v} \cup Values(cs) : heap[b] # Free
  BY <1>6, <1>14, OwnedAt
<1>17. ({v} \cup Values(cs)) \cap {c, val} = {}
  <2>1. OwnedBy(8) \cap OwnedBy(10) = {}
    BY <1>6, OwnedAt
  <2> QED BY <1>9, <1>14, <2>1
<1>18. OwnedBy(9) = {}
  <2>1. OwnedBy(9) = OwnsIn(heap, 11, yyvs[9])
    BY <1>5, <1>6, OwnedAt
  <2> QED BY <2>1, OwnsRows
<1>20. PICK r, len : r = Append(cs, cond) /\ len = Len(cs)
  OBVIOUS
<1>21. /\ r \in Seq(Conditions) /\ len \in Nat
       /\ DOMAIN r = 1 .. len + 1 /\ DOMAIN cs = 1 .. len
       /\ r[len + 1] = cond /\ \A i \in 1 .. len : r[i] = cs[i]
       /\ Values(r) = Values(cs) \cup {val}
  <2>1. len \in Nat
    BY <1>15, <1>20
  <2> QED BY <1>11, <1>12, <1>15, <1>20, <2>1, AppendedValues
<1>22. /\ CondsBlock(r) \in Contents /\ CondsBlock(r) # Free
       /\ CondsBlock(r).type = "conds" /\ CondsBlock(r).conds = r
  BY <1>21, BlocksAre
<1>23. PICK h : h = [heap EXCEPT ![v] = CondsBlock(r)]
  OBVIOUS
<1>24. /\ h \in [Blocks -> Contents] /\ h[v] = CondsBlock(r)
       /\ \A b \in Blocks : b # v => h[b] = heap[b]
  BY <1>13, <1>22, <1>23 DEF TypeInv
<1>25. heap' = Freed(h, {c})
  BY <1>1, <1>8, <1>11, <1>15, <1>20, <1>23
<1>26. heap' \in [Blocks -> Contents] /\ \A b \in Blocks : heap'[b] = IF b = c THEN Free ELSE h[b]
  BY <1>24, <1>25, FreedIs
<1>27. heap'[v] = CondsBlock(r) /\ heap'[c] = Free
  BY <1>9, <1>13, <1>17, <1>24, <1>26
<1>28. \A b \in Values(cs) \cup {val} : StringIn(heap, b) /\ b \in Blocks /\ b # v /\ b # c
  <2>1. \A b \in Values(cs) \cup {val} : StringIn(heap, b)
    BY <1>9, <1>13 DEF Values
  <2>2. \A b \in Values(cs) \cup {val} : b \in Blocks /\ heap[b].type = "string"
    BY <2>1 DEF StringIn
  <2> QED BY <1>9, <1>13, <2>1, <2>2
<1>29. \A b \in Values(cs) \cup {val} : heap'[b] = heap[b] /\ StringIn(heap', b)
  <2>1. \A b \in Values(cs) \cup {val} : heap'[b] = heap[b]
    BY <1>24, <1>26, <1>28
  <2> QED BY <1>28, <2>1 DEF StringIn
<1>30. CondsIn(heap', v) = r
  BY <1>13, <1>22, <1>27 DEF CondsIn
<1>31. yystos[Top'] = 31
  BY <1>4, NewTop
<1>32. OwnsIn(heap', 31, v) = {v} \cup Values(cs) \cup {val}
  BY <1>21, <1>30, OwnsRows
<1>33. LeadsIn(heap', 31, v)
  <2>1. \A i \in 1 .. len + 1 : r[i].value \in Values(cs) \cup {val}
    BY <1>21 DEF Values
  <2>2. \A i \in 1 .. len + 1 : StringIn(heap', r[i].value)
    BY <1>29, <2>1
  <2>3. \A i \in 1 .. len : r[i].value # val
    BY <1>17, <1>21 DEF Values
  <2>4. \A i, j \in 1 .. len + 1 : r[i].value = r[j].value => i = j
    <3>1. \A i \in 1 .. len + 1 : i \in 1 .. len \/ i = len + 1
      BY <1>21
    <3>2. \A i, j \in 1 .. len : r[i].value = r[j].value => i = j
      BY <1>13, <1>21
    <3> QED BY <1>11, <1>21, <2>3, <3>1, <3>2
  <2> QED BY <1>13, <1>21, <1>22, <1>27, <1>30, <2>2, <2>4 DEF LeadsIn, Strings
<1>34. \A b : b \in {v} \cup Values(cs) \cup {c, val} <=>
              \E k \in keep + 1 .. Height : b \in OwnedBy(k)
  <2>1. \A k : k \in keep + 1 .. Height <=> k = 8 \/ k = 9 \/ k = 10
    BY <1>5
  <2> QED BY <1>9, <1>14, <1>18, <2>1
<1>35. Swapped({v} \cup Values(cs) \cup {c, val}, {v} \cup Values(cs) \cup {val}, keep, v)
  <2> DEFINE R == {v} \cup Values(cs) \cup {c, val}
             N == {v} \cup Values(cs) \cup {val}
  <2>1. \A b \in N : heap'[b] # Free /\ b \in R
    BY <1>9, <1>16, <1>22, <1>27, <1>29
  <2>2. \A b \in R \ N : heap'[b] = Free
    BY <1>27
  <2>3. \A b \in Blocks : b \notin R /\ b \notin N => heap'[b] = heap[b]
    BY <1>24, <1>26
  <2>4. N \subseteq Blocks /\ N \subseteq R \cup {0}
    BY <1>9, <1>16
  <2>5. N = OwnsIn(heap', yystos[Top'], v) /\ LeadsIn(heap', yystos[Top'], v)
    BY <1>31, <1>32, <1>33
  <2>6. Suits(yystos[Top'], v)
    BY <1>31 DEF Suits
  <2>7. \A b : b \in R <=> \E k \in keep + 1 .. Height : b \in OwnedBy(k)
    BY <1>34
  <2> HIDE DEF R, N
  <2>8. Swapped(R, N, keep, v)
    BY <1>26, <2>1, <2>2, <2>3, <2>4, <2>5, <2>6, <2>7 DEF Swapped
  <2> QED BY <2>8 DEF R, N
<1>36. v \in Vals
  BY <1>13 DEF Vals
<1>37. HeapIsOwned' /\ TypeInv' /\ Keeps(keep)
  BY <1>1, <1>3, <1>35, <1>36, Reduced
<1>38. CondsIn(heap', v) = Append(cs, cond)
  BY <1>20, <1>30
<1>39. \A b \in Values(cs) \cup {cond.value} : StringIn(heap, b) /\ heap'[b] = heap[b]
  BY <1>11, <1>28, <1>29
<1>40. Keeps(7) /\ 7 = Height - PoppedBy(15)
  BY <1>3, <1>5, <1>37
<1> QED BY <1>1, <1>5, <1>7, <1>8, <1>9, <1>10, <1>12, <1>13, <1>15, <1>37, <1>38, <1>39, <1>40

(* A reduction that frees all it pops, for a symbol that owns nothing *)
LEMMA FreeingOwned ==
  ASSUME StackInv, TypeInv, HeapIsOwned, NEW n \in 10 .. 13, Reduce(n, DefaultValue(n)),
         NEW keep, keep = Height - PoppedBy(n), NEW R,
         \A b : b \in R <=> \E k \in keep + 1 .. Height : b \in OwnedBy(k),
         heap' = Freed(heap, R)
  PROVE  HeapIsOwned' /\ TypeInv' /\ Keeps(keep)
<1>0. n \in 0 .. 29 /\ n # 9 /\ n # 6 /\ n \in {10, 11, 12, 13}
  OBVIOUS
<1>1. /\ n \in 2 .. 29 /\ RuleIs(n, Top, Height, keep) /\ BaseIs(n, keep, yyss[keep], Top')
      /\ keep \in 1 .. 11 /\ keep <= Height /\ Height \in 1 .. 12
  BY <1>0, ReduceTop
<1>2. yystos[Top'] \in {29, 30}
  BY <1>0, <1>1, NewTop
<1>3. keep = 2 /\ Height \in {7, 9}
  BY <1>0, <1>1 DEF RuleIs
<1>4. DefaultValue(n) \in Vals
  <2>1. yyr2[n] # 0
    BY <1>0, RuleLengths
  <2>2. Dollar(n, 1) = yyvs[3]
    <3>1. Dollar(n, 1) = yyvs[keep + 1]
      BY <1>0, <1>1, DollarIs
    <3> QED BY <1>3, <3>1
  <2>3. 3 \in 1 .. Height
    BY <1>3
  <2> QED BY <2>1, <2>2, <2>3, ValueOf DEF DefaultValue
<1>5. /\ OwnsIn(heap', yystos[Top'], DefaultValue(n)) = {}
      /\ LeadsIn(heap', yystos[Top'], DefaultValue(n))
  BY <1>2, OwnsRows
<1>6. heap' \in [Blocks -> Contents] /\ \A b \in Blocks : heap'[b] = IF b \in R THEN Free ELSE heap[b]
  BY FreedIs DEF TypeInv
<1>7. R \subseteq Blocks
  <2>1. \A k \in keep + 1 .. Height : k \in 1 .. Height
    BY <1>1
  <2> QED BY <2>1, OwnedAt
<1>8. Swapped(R, {}, keep, DefaultValue(n))
  BY <1>2, <1>5, <1>6, <1>7 DEF Swapped, Suits
<1> QED BY <1>0, <1>4, <1>8, Reduced

LEMMA LoadOwned ==
  ASSUME StackInv, TypeInv, HeapIsOwned, NEW n, ReduceLoad(n)
  PROVE  /\ HeapIsOwned' /\ TypeInv' /\ n \in {10, 11}
         /\ Height \in {7, 9} /\ (Height = 9 <=> n = 11)
         /\ yyss[3] = 5 /\ yyss[4] = 19 /\ yyss[6] = 23 /\ yyss[Height] \in {27, 41}
         /\ Dollar(n, 2) = yyvs[4] /\ Dollar(n, 4) = yyvs[6]
         /\ StringIn(heap, yyvs[4]) /\ StringIn(heap, yyvs[6])
<1>1. n \in {10, 11} /\ Reduce(n, DefaultValue(n)) /\ heap' = Freed(heap, Spent(n))
  BY DEF ReduceLoad
<1>0. n \in 0 .. 29 /\ n # 9 /\ n # 6 /\ n \in 10 .. 13
  BY <1>1
<1>2. PICK keep : keep = Height - PoppedBy(n)
  OBVIOUS
<1>3. RuleIs(n, Top, Height, keep) /\ keep \in 1 .. 11 /\ Height \in 1 .. 12
  BY <1>0, <1>1, <1>2, ReduceTop
<1>4. /\ keep = 2 /\ yyss[3] = 5 /\ yyss[4] = 19 /\ yyss[5] = 21 /\ yyss[6] = 23
      /\ n = 10 => Height = 7 /\ yyss[7] = 27
      /\ n = 11 => Height = 9 /\ yyss[7] = 26 /\ yyss[8] = 31 /\ yyss[9] = 41
  BY <1>1, <1>3, LoadPopped
<1>5. Dollar(n, 2) = yyvs[4] /\ Dollar(n, 4) = yyvs[6]
  <2>1. Dollar(n, 2) = yyvs[keep + 2] /\ Dollar(n, 4) = yyvs[keep + 4]
    BY <1>0, <1>2, <1>3, DollarIs
  <2> QED BY <1>4, <2>1
<1>6. Height \in {7, 9}
  BY <1>1, <1>4
<1>7. 1 .. 7 \subseteq 1 .. Height
  BY <1>6
<1>8. yystos[19] = 36 /\ yystos[23] = 17
  BY SymbolRows
<1>9. OwnedBy(4) = {yyvs[4]} /\ StringIn(heap, yyvs[4])
  <2>1. OwnedBy(4) = OwnsIn(heap, 36, yyvs[4]) /\ LeadsIn(heap, 36, yyvs[4])
    BY <1>4, <1>7, <1>8, OwnedAt
  <2> QED BY <2>1, OwnsRows
<1>10. OwnedBy(6) = {yyvs[6]} /\ StringIn(heap, yyvs[6])
  <2>1. OwnedBy(6) = OwnsIn(heap, 17, yyvs[6]) /\ LeadsIn(heap, 17, yyvs[6])
    BY <1>4, <1>7, <1>8, OwnedAt
  <2> QED BY <2>1, OwnsRows
<1>11. ASSUME NEW k \in 3 .. Height, k # 4, k # 6
       PROVE  OwnedBy(k) = {}
  <2>1. k \in 1 .. Height /\ k \in {3, 5, 7, 8, 9} /\ (k > 7 => n = 11)
    <3>1. k \in Int /\ 3 <= k /\ k <= Height
      BY <1>6
    <3>2. k <= 9 /\ k \in 1 .. Height
      BY <1>6, <3>1
    <3>3. k \in {3, 5, 7, 8, 9}
      BY <1>11, <3>1, <3>2
    <3>4. n # 11 => Height = 7
      BY <1>1, <1>4
    <3> QED BY <3>1, <3>2, <3>3, <3>4
  <2>2. yyss[k] \in {5, 21, 26, 27, 31, 41}
    BY <1>1, <1>4, <2>1
  <2>3. yystos[yyss[k]] \in {4, 6, 7, 8, 15}
    BY <2>2, SymbolRows
  <2>4. OwnsIn(heap, yystos[yyss[k]], yyvs[k]) = {}
    BY <2>3, OwnsRows
  <2> QED BY <2>1, <2>4, OwnedAt
<1>12. PICK R : R = {yyvs[4], yyvs[6]}
  OBVIOUS
<1>13. \A b : b \in R <=> \E k \in keep + 1 .. Height : b \in OwnedBy(k)
  <2>1. keep + 1 = 3 /\ 4 \in 3 .. Height /\ 6 \in 3 .. Height
    BY <1>4, <1>6
  <2> QED BY <1>9, <1>10, <1>11, <1>12, <2>1
<1>14. heap' = Freed(heap, R)
  BY <1>1, <1>5, <1>12 DEF Spent
<1>15. HeapIsOwned' /\ TypeInv'
  BY <1>0, <1>1, <1>2, <1>13, <1>14, FreeingOwned
<1> QED BY <1>1, <1>4, <1>5, <1>6, <1>9, <1>10, <1>15

LEMMA SelectOwned ==
  ASSUME StackInv, TypeInv, HeapIsOwned, NEW n, ReduceSelect(n)
  PROVE  /\ HeapIsOwned' /\ TypeInv' /\ n \in {12, 13}
         /\ Height \in {7, 9} /\ (Height = 9 <=> n = 13)
         /\ yyss[3] = 4 /\ yyss[4] = 16 /\ yyss[6] = 22 /\ yyss[Height] \in {25, 33}
         /\ Dollar(n, 2) = yyvs[4] /\ Dollar(n, 4) = yyvs[6] /\ StringIn(heap, yyvs[6])
         /\ n = 13 => /\ Dollar(n, 6) = yyvs[8] /\ yyss[8] = 28 /\ LeadsIn(heap, 31, yyvs[8])
<1>1. n \in {12, 13} /\ Reduce(n, DefaultValue(n)) /\ heap' = Freed(heap, Spent(n))
  BY DEF ReduceSelect
<1>0. n \in 0 .. 29 /\ n # 9 /\ n # 6 /\ n \in 10 .. 13
  BY <1>1
<1>2. PICK keep : keep = Height - PoppedBy(n)
  OBVIOUS
<1>3. RuleIs(n, Top, Height, keep) /\ keep \in 1 .. 11 /\ Height \in 1 .. 12
  BY <1>0, <1>1, <1>2, ReduceTop
<1>4. /\ keep = 2 /\ yyss[3] = 4 /\ yyss[4] = 16 /\ yyss[5] = 20 /\ yyss[6] = 22
      /\ n = 12 => Height = 7 /\ yyss[7] = 25
      /\ n = 13 => Height = 9 /\ yyss[7] = 24 /\ yyss[8] = 28 /\ yyss[9] = 33
  BY <1>1, <1>3, SelectPopped
<1>5. Dollar(n, 2) = yyvs[4] /\ Dollar(n, 4) = yyvs[6] /\ Dollar(n, 6) = yyvs[8]
  <2>1. Dollar(n, 2) = yyvs[keep + 2] /\ Dollar(n, 4) = yyvs[keep + 4] /\ Dollar(n, 6) = yyvs[keep + 6]
    BY <1>0, <1>2, <1>3, DollarIs
  <2> QED BY <1>4, <2>1
<1>6. Height \in {7, 9}
  BY <1>1, <1>4
<1>7. 1 .. 7 \subseteq 1 .. Height
  BY <1>6
<1>8. yystos[22] = 36 /\ yystos[28] = 31
  BY SymbolRows
<1>9. OwnedBy(6) = {yyvs[6]} /\ StringIn(heap, yyvs[6])
  <2>1. OwnedBy(6) = OwnsIn(heap, 36, yyvs[6]) /\ LeadsIn(heap, 36, yyvs[6])
    BY <1>4, <1>7, <1>8, OwnedAt
  <2> QED BY <2>1, OwnsRows
<1>10. n = 13 => OwnedBy(8) = OwnsIn(heap, 31, yyvs[8]) /\ LeadsIn(heap, 31, yyvs[8])
  <2>1. n = 13 => 8 \in 1 .. Height
    BY <1>4
  <2> QED BY <1>4, <1>8, <2>1, OwnedAt
<1>11. ASSUME NEW k \in 3 .. Height, k # 6, k # 8
       PROVE  OwnedBy(k) = {}
  <2>1. k \in 1 .. Height /\ k \in {3, 4, 5, 7, 9} /\ (k = 9 => n = 13)
    <3>1. k \in Int /\ 3 <= k /\ k <= Height
      BY <1>6
    <3>2. k <= 9 /\ k \in 1 .. Height
      BY <1>6, <3>1
    <3>3. k \in {3, 4, 5, 7, 9}
      BY <1>11, <3>1, <3>2
    <3>4. n # 13 => Height = 7
      BY <1>1, <1>4
    <3> QED BY <3>1, <3>2, <3>3, <3>4
  <2>2. yyss[k] \in {4, 16, 20, 24, 25, 33}
    BY <1>1, <1>4, <2>1
  <2>3. yystos[yyss[k]] \in {3, 33, 4, 5, 15}
    BY <2>2, SymbolRows
  <2>4. OwnsIn(heap, yystos[yyss[k]], yyvs[k]) = {}
    BY <2>3, OwnsRows
  <2> QED BY <2>1, <2>4, OwnedAt
<1>12. PICK R : R = {yyvs[6]} \cup (IF n = 13 THEN OwnsIn(heap, 31, yyvs[8]) ELSE {})
  OBVIOUS
<1>13. \A b : b \in R <=> \E k \in keep + 1 .. Height : b \in OwnedBy(k)
  <2>1. keep + 1 = 3 /\ 6 \in 3 .. Height
    BY <1>4, <1>6
  <2>2. 8 \in 3 .. Height <=> n = 13
    BY <1>1, <1>4
  <2> QED BY <1>9, <1>10, <1>11, <1>12, <2>1, <2>2
<1>14. heap' = Freed(heap, R)
  <2>1. Owns(31, yyvs[8]) = OwnsIn(heap, 31, yyvs[8])
    BY OwnsIs
  <2> QED BY <1>1, <1>5, <1>12, <2>1 DEF Spent
<1>15. HeapIsOwned' /\ TypeInv'
  BY <1>0, <1>1, <1>2, <1>13, <1>14, FreeingOwned
<1> QED BY <1>1, <1>4, <1>5, <1>6, <1>9, <1>10, <1>15

LEMMA TokenKinds ==
  ASSUME NEW tok \in Tokens
  PROVE  LET n == yytranslate[tok.sym]
         IN /\ tok.sym \in Symbols \cup {"$end"} /\ n \in 0 .. 24 /\ yytname[n] = tok.sym
            /\ tok.sym \in WithText <=> n \in {16, 17, 18}
            /\ tok.sym \in WithText => tok.text \in Texts
<1>1. tok.sym \in Symbols \cup {"$end"} /\ (tok.sym \in WithText => tok.text \in Texts)
  BY DEF Tokens, Symbols, WithText, Texts, Comparators
<1>2. PICK n \in 0 .. 24 : n = yytranslate[tok.sym] /\ yytname[n] = tok.sym
  BY <1>1, Translated
<1>3. tok.sym \in WithText <=> n \in {16, 17, 18}
  BY <1>2, NamesDiffer DEF WithText
<1> QED BY <1>1, <1>2, <1>3

LEMMA ReadOwned ==
  ASSUME StackInv, TypeInv, HeapIsOwned, ~IsFiniteSet(Blocks), NEW tok \in Tokens, yylex(tok)
  PROVE  /\ HeapIsOwned' /\ TypeInv' /\ Height' = Height /\ yychar = YYEMPTY /\ Top \in Asking
         /\ \A k \in 1 .. Height : /\ SymbolAt(k)' = SymbolAt(k) /\ ValueAt(k)' = ValueAt(k)
                                   /\ \A b \in OwnedBy(k) : heap'[b] = heap[b]
         /\ tok.sym \in WithText => TextAt(yylval)' = tok.text
<1>1. /\ yychar = YYEMPTY /\ yychar' = tok.sym /\ ~IsDefault(Top)
      /\ UNCHANGED <<yyss, yyvs, yyerrstatus, yyresult>>
  BY DEF yylex, Read, Asks
<1>2. StackInv' /\ Height' = Height /\ Height \in 1 .. 12 /\ Top \in Asking
  <2>1. StackInv'
    BY StackStep DEF Next
  <2>2. Top \in Asking
    BY <1>1, TopIs, AskingStates
  <2> QED BY <1>1, <2>1, <2>2 DEF StackInv, Height
<1>3. PICK n \in 0 .. 24 : /\ n = yytranslate[tok.sym] /\ (tok.sym \in WithText <=> n \in {16, 17, 18})
                           /\ tok.sym \in Symbols \cup {"$end"}
                           /\ tok.sym \in WithText => tok.text \in Texts
  BY TokenKinds
<1>4. PICK K : K = 1 .. Height
  OBVIOUS
<1>5. /\ K \subseteq Owners /\ 0 \notin K /\ Owners' = K \cup {0} /\ Owners \ K = {}
      /\ \A k \in Owners : SymbolAt(k) \in 0 .. 37
      /\ \A k \in K : SymbolAt(k) = yystos[yyss[k]] /\ ValueAt(k) = yyvs[k]
      /\ \A k \in K : SymbolAt(k)' = yystos[yyss'[k]] /\ ValueAt(k)' = yyvs'[k]
  <2>1. yychar' # YYEMPTY
    BY <1>1, <1>3, EmptyIsNoSymbol
  <2> QED BY <1>1, <1>2, <1>4, <2>1, OwnersAre
<1>6. \A k \in K : SymbolAt(k)' = SymbolAt(k) /\ ValueAt(k)' = ValueAt(k)
  BY <1>1, <1>5
<1>7. SymbolAt(0)' = n /\ ValueAt(0)' = yylval' /\ n \in 0 .. 37
  BY <1>1, <1>2, <1>3, OwnersAre DEF TokenNo
<1>8. PICK New : New = OwnsIn(heap', n, yylval')
  OBVIOUS
<1>9. /\ LeadsIn(heap', n, yylval') /\ New \subseteq Blocks
      /\ \A b \in New : heap'[b] # Free /\ heap[b] = Free
      /\ \A b \in Blocks : b \notin New => heap'[b] = heap[b]
      /\ \E a : New \subseteq {a}
      /\ heap' \in [Blocks -> Contents] /\ yylval' \in {Garbage} \cup Blocks
      /\ tok.sym \in WithText => TextAt(yylval)' = tok.text
  <2>1. CASE tok.sym \in WithText
    <3>1. PICK b : b = Malloc(heap) /\ yylval' = b
                   /\ heap' = [heap EXCEPT ![b] = StringBlock(tok.text)]
      BY <2>1 DEF yylex, Read
    <3>2. b \in Blocks /\ heap[b] = Free
      BY <3>1, MallocIs
    <3>3. /\ StringBlock(tok.text) \in Contents /\ StringBlock(tok.text) # Free
          /\ StringBlock(tok.text).type = "string" /\ StringBlock(tok.text).text = tok.text
      BY <1>3, <2>1, BlocksAre
    <3>4. /\ heap' \in [Blocks -> Contents] /\ heap'[b] = StringBlock(tok.text)
          /\ \A c \in Blocks : c # b => heap'[c] = heap[c]
      BY <3>1, <3>2, <3>3 DEF TypeInv
    <3>5. OwnsIn(heap', n, b) = {b} /\ LeadsIn(heap', n, b)
      <4>1. StringIn(heap', b)
        BY <3>2, <3>3, <3>4 DEF StringIn
      <4> QED BY <1>3, <2>1, <4>1, OwnsRows
    <3>6. TextAt(yylval)' = tok.text
      BY <3>1, <3>2, <3>3, <3>4 DEF TextAt, Has
    <3> QED BY <1>8, <3>1, <3>2, <3>3, <3>4, <3>5, <3>6
  <2>2. CASE tok.sym \notin WithText
    <3>1. yylval' = Garbage /\ heap' = heap
      BY <2>2 DEF yylex, Read
    <3>2. n \notin {16, 17, 18, 31, 32, 35, 36}
      BY <1>3, <2>2
    <3>3. New = {} /\ LeadsIn(heap', n, yylval')
      BY <1>8, <3>2, OwnsRows
    <3> QED BY <2>2, <3>1, <3>3 DEF TypeInv
  <2> QED BY <2>1, <2>2
<1>10. PICK R : R = {}
  OBVIOUS
<1>11. /\ HeapIsOwned'
       /\ \A k \in K : OwnedBy(k)' = OwnedBy(k) /\ \A b \in OwnedBy(k) : heap'[b] = heap[b]
  <2>1. \A b : b \in R <=> \E k \in Owners \ K : b \in OwnedBy(k)
    BY <1>5, <1>10
  <2>2. /\ SymbolAt(0)' \in 0 .. 37 /\ New = OwnsIn(heap', SymbolAt(0)', ValueAt(0)')
        /\ LeadsIn(heap', SymbolAt(0)', ValueAt(0)')
    BY <1>7, <1>8, <1>9
  <2>3. /\ New \subseteq Blocks /\ \A b \in New : heap'[b] # Free /\ (b \in R \/ heap[b] = Free)
        /\ \A b \in R \ New : heap'[b] = Free
        /\ \A b \in Blocks : b \notin R /\ b \notin New => heap'[b] = heap[b]
    BY <1>9, <1>10
  <2> QED BY <1>5, <1>6, <2>1, <2>2, <2>3, Exchange
<1>12. IsFiniteSet(Allocated')
  <2>1. PICK a : New \subseteq {a}
    BY <1>9
  <2>2. \A b \in Blocks : heap'[b] # Free => b = a \/ heap[b] # Free
    BY <1>9, <2>1
  <2> QED BY <2>2, AllocatedStays DEF TypeInv
<1>13. line' \in Seq(Tokens) /\ wrongAt' \in Nat /\ excused' \in BOOLEAN
  <2>1. line \in Seq(Tokens) /\ wrongAt \in Nat /\ excused \in BOOLEAN
    BY DEF TypeInv
  <2>2. Begins(tok) \/ Continues(tok)
    BY DEF yylex, Remember
  <2>3. line' \in Seq(Tokens)
    <3>1. line' = <<tok>> \/ line' = Append(line, tok)
      BY <2>2 DEF Begins, Continues
    <3>2. <<tok>> \in Seq(Tokens) /\ Append(line, tok) \in Seq(Tokens)
      BY <2>1
    <3> QED BY <3>1, <3>2
  <2>4. wrongAt' \in Nat
    BY <2>1, <2>2 DEF Begins, Continues
  <2>5. excused' \in BOOLEAN
    <3>1. CASE Begins(tok)
      BY <2>1, <3>1 DEF Begins
    <3>2. CASE Continues(tok)
      <4>1. excused' \in {TRUE, FALSE}
        BY <3>2, Zenon DEF Continues
      <4> QED BY <4>1
    <3> QED BY <2>2, <3>1, <3>2
  <2> QED BY <2>3, <2>4, <2>5
<1>14. \A k \in 1 .. Height' : Suits(SymbolAt(k), ValueAt(k))'
  BY <1>2, <1>4, <1>6 DEF TypeInv, Suits
<1>15. TypeInv'
  BY <1>1, <1>2, <1>9, <1>12, <1>13, <1>14 DEF TypeInv
<1> QED BY <1>1, <1>2, <1>4, <1>6, <1>9, <1>11, <1>15

(* The symbol of the lookahead *)
LEMMA LookaheadOwned ==
  ASSUME StackInv, HeapIsOwned, yychar # YYEMPTY
  PROVE  /\ Lookahead \in Owners /\ TokenNo \in 0 .. 24
         /\ OwnedBy(0) = OwnsIn(heap, TokenNo, yylval) /\ LeadsIn(heap, TokenNo, yylval)
         /\ OwnedBy(0) \subseteq Blocks /\ \A b \in OwnedBy(0) : heap[b] # Free
         /\ \A l \in 1 .. Height : OwnedBy(0) \cap OwnedBy(l) = {}
<1>1. 0 \in Owners /\ 1 .. Height \subseteq Owners /\ SymbolAt(0) = TokenNo /\ ValueAt(0) = yylval
  BY OwnersAre
<1>2. TokenNo \in 0 .. 24
  BY Translated DEF StackInv, TokenNo
<1>3. OwnedBy(0) = OwnsIn(heap, TokenNo, yylval) /\ LeadsIn(heap, TokenNo, yylval)
  <2>1. Leads(SymbolAt(0), ValueAt(0))
    BY <1>1 DEF HeapIsOwned
  <2>2. SymbolAt(0) \in 0 .. 37
    BY <1>1, <1>2
  <2> QED BY <1>1, <2>1, <2>2, OwnedIs
<1>4. OwnedBy(0) \subseteq {b \in Blocks : heap[b] # Free}
  BY <1>1 DEF HeapIsOwned
<1>5. \A l \in 1 .. Height : OwnedBy(0) \cap OwnedBy(l) = {}
  <2>1. \A l \in 1 .. Height : l # 0 /\ l \in Owners
    BY <1>1
  <2> QED BY <1>1, <2>1 DEF HeapIsOwned
<1> QED BY <1>1, <1>2, <1>3, <1>4, <1>5 DEF Lookahead

(* Values pushed on the stack that is kept up to keep *)
LEMMA ValuePushed ==
  ASSUME TypeInv, NEW keep \in 1 .. 12, keep <= Height, NEW value \in Vals,
         yyvs' = Append(SubSeq(yyvs, 1, keep), value)
  PROVE  /\ yyvs' \in Seq(Vals) /\ Len(yyvs') = keep + 1 /\ yyvs'[keep + 1] = value
         /\ \A i \in 1 .. keep : yyvs'[i] = yyvs[i]
<1>1. yyvs \in Seq(Vals) /\ keep \in 0 .. Len(yyvs)
  BY DEF TypeInv
<1>2. yyvs' = Cut(yyvs, keep, value)
  BY DEF Cut
<1>3. PICK c : c = Cut(yyvs, keep, value)
  OBVIOUS
<1>4. /\ c \in Seq(Vals) /\ Len(c) = keep + 1 /\ c[keep + 1] = value
      /\ \A i \in 1 .. keep : c[i] = yyvs[i]
  BY <1>1, <1>3, CutIs
<1> QED BY <1>2, <1>3, <1>4

LEMMA ShiftOwned ==
  ASSUME StackInv, TypeInv, HeapIsOwned, Shift
  PROVE  /\ HeapIsOwned' /\ TypeInv' /\ Height' = Height + 1
         /\ \A k \in 1 .. Height : SymbolAt(k)' = SymbolAt(k) /\ ValueAt(k)' = ValueAt(k)
         /\ yyvs'[Height + 1] = yylval
<1>1. /\ yychar # YYEMPTY /\ yychar' = YYEMPTY /\ yyvs' = Append(yyvs, yylval)
      /\ yyerrstatus' = Counted(yyerrstatus) /\ UNCHANGED <<yylval, yyresult, heap, history>>
  BY DEF Shift, Shifts
<1>2. PICK s : s = ShiftOn(Top, TokenNo)
  OBVIOUS
<1>3. /\ Height' = Height + 1 /\ yyss'[Height + 1] = s /\ yystos[s] = TokenNo /\ StackInv'
      /\ \A i \in 1 .. Height : yyss'[i] = yyss[i]
      /\ TokenNo \in 0 .. 24 /\ Height < 12
  BY <1>2, ShiftStack
<1>4. Height \in 1 .. 12
  BY DEF StackInv
<1>5. PICK h \in 1 .. 11 : h = Height
  BY <1>3, <1>4
<1>6. yylval \in Vals
  BY DEF TypeInv, Vals, Garbage
<1>7. /\ yyvs' \in Seq(Vals) /\ Len(yyvs') = h + 1 /\ yyvs'[h + 1] = yylval
      /\ \A i \in 1 .. h : yyvs'[i] = yyvs[i]
  <2>1. yyvs' = Append(SubSeq(yyvs, 1, h), yylval)
    <3>1. yyvs \in Seq(Vals) /\ h = Len(yyvs)
      BY <1>5 DEF TypeInv
    <3>2. SubSeq(yyvs, 1, h) = yyvs
      BY <3>1
    <3> QED BY <1>1, <3>2
  <2>2. h \in 1 .. 12 /\ h <= Height
    BY <1>5
  <2> QED BY <1>6, <2>1, <2>2, ValuePushed
<1>8. PICK K, t : K = 1 .. h /\ t = h + 1
  OBVIOUS
<1>9. /\ K \subseteq Owners /\ t \notin K /\ Owners' = K \cup {t} /\ Owners \ K = {0}
      /\ \A k \in Owners : SymbolAt(k) \in 0 .. 37
  <2>1. Owners = 1 .. h \cup {0} /\ Owners' = 1 .. h + 1
    BY <1>1, <1>3, <1>5, OwnersAre
  <2>2. 1 .. h + 1 = 1 .. h \cup {h + 1}
    OBVIOUS
  <2> QED BY <1>8, <2>1, <2>2, OwnersAre
<1>10. \A k \in K : SymbolAt(k)' = SymbolAt(k) /\ ValueAt(k)' = ValueAt(k)
  <2>1. \A k \in 1 .. h : k \in 1 .. Height /\ k \in 1 .. Height'
    BY <1>3, <1>5
  <2> QED BY <1>3, <1>5, <1>7, <1>8, <2>1, OwnersAre
<1>11. SymbolAt(t)' = TokenNo /\ ValueAt(t)' = yylval
  <2>1. t \in 1 .. Height'
    BY <1>3, <1>5, <1>8
  <2> QED BY <1>3, <1>5, <1>7, <1>8, <2>1, OwnersAre
<1>12. PICK R : R = OwnsIn(heap, TokenNo, yylval)
  OBVIOUS
<1>13. R = OwnedBy(0) /\ LeadsIn(heap, TokenNo, yylval) /\ R \subseteq Blocks /\ \A b \in R : heap[b] # Free
  BY <1>1, <1>12, LookaheadOwned
<1>14. /\ HeapIsOwned'
       /\ \A k \in K : OwnedBy(k)' = OwnedBy(k) /\ \A b \in OwnedBy(k) : heap'[b] = heap[b]
  <2>1. \A b : b \in R <=> \E k \in Owners \ K : b \in OwnedBy(k)
    BY <1>9, <1>13
  <2>2. /\ SymbolAt(t)' \in 0 .. 37 /\ R = OwnsIn(heap', SymbolAt(t)', ValueAt(t)')
        /\ LeadsIn(heap', SymbolAt(t)', ValueAt(t)')
    BY <1>1, <1>3, <1>11, <1>12, <1>13
  <2>3. /\ \A b \in R : heap'[b] # Free /\ (b \in R \/ heap[b] = Free)
        /\ \A b \in R \ R : heap'[b] = Free
        /\ \A b \in Blocks : b \notin R /\ b \notin R => heap'[b] = heap[b]
    BY <1>1, <1>13
  <2> QED BY <1>9, <1>10, <1>13, <2>1, <2>2, <2>3, Exchange
<1>15. \A k \in 1 .. Height' : Suits(SymbolAt(k), ValueAt(k))'
  <2>1. ASSUME NEW k \in 1 .. Height'
        PROVE  Suits(SymbolAt(k), ValueAt(k))'
    <3>1. k \in 1 .. h \/ k = t
      BY <1>3, <1>5, <1>8
    <3>2. CASE k \in 1 .. h
      BY <1>5, <1>8, <1>10, <3>2 DEF TypeInv, Suits
    <3>3. CASE k = t
      BY <1>3, <1>11, <3>3 DEF Suits
    <3> QED BY <3>1, <3>2, <3>3
  <2> QED BY <2>1
<1>16. TypeInv'
  <2>1. yyerrstatus' \in 0 .. 3
    BY <1>1 DEF Counted, TypeInv
  <2>2. IsFiniteSet(Allocated')
    BY <1>1 DEF TypeInv, Allocated
  <2>3. Len(yyvs') = Height'
    BY <1>3, <1>5, <1>7
  <2> QED BY <1>1, <1>7, <1>15, <2>1, <2>2, <2>3 DEF TypeInv, history
<1> QED BY <1>3, <1>5, <1>7, <1>8, <1>10, <1>14, <1>16

(* What an error throws away is nobody's any more, and free. *)
LEMMA RecoverOwned ==
  ASSUME StackInv, TypeInv, HeapIsOwned, Recover
  PROVE  /\ HeapIsOwned' /\ TypeInv' /\ Height' = 3 /\ Height >= 2 /\ yychar # YYEMPTY
         /\ Top \in Asking /\ ShiftOn(Top, TokenNo) = 0
<1>0. /\ Top \in Asking /\ Height \in 2 .. 12 /\ Height' = 3 /\ yyss'[3] = 3 /\ StackInv'
      /\ \A i \in 1 .. 2 : yyss'[i] = yyss[i]
  BY RecoverStack
<1>1. yychar # YYEMPTY /\ ShiftOn(Top, TokenNo) = 0
  <2>1. ~IsDefault(Top)
    BY <1>0, AskingStates DEF Asking, States
  <2> QED BY <2>1 DEF Recover, Errs, Defaults, Shifts
<1>2. PICK popped, dropped :
        /\ popped = UNION {Owns(yystos[yyss[i]], yyvs[i]) : i \in 3 .. Len(yyss)}
        /\ dropped = (IF KeepsLookahead THEN {} ELSE Owns(TokenNo, yylval))
        /\ heap' = Freed(heap, popped \cup dropped)
        /\ yyvs' = Append(SubSeq(yyvs, 1, 2), yylval)
  <2>1. 2 + 1 = 3
    OBVIOUS
  <2> QED BY <1>0, <2>1, ErrorPops DEF Recover
<1>3. /\ yychar' = IF KeepsLookahead THEN yychar ELSE YYEMPTY
      /\ yyerrstatus' = 3 /\ UNCHANGED <<yylval, yyresult, line, wrongAt, excused>>
  BY DEF Recover
<1>4. /\ yyvs' \in Seq(Vals) /\ Len(yyvs') = 3 /\ yyvs'[3] = yylval
      /\ \A i \in 1 .. 2 : yyvs'[i] = yyvs[i]
  <2>1. yylval \in Vals /\ 2 \in 1 .. 12 /\ 2 <= Height /\ 2 + 1 = 3
    BY <1>0 DEF TypeInv, Vals, Garbage
  <2> QED BY <1>2, <2>1, ValuePushed
<1>5. PICK K : K = {1, 2} \cup (IF KeepsLookahead THEN {0} ELSE {})
  OBVIOUS
<1>6. /\ K \subseteq Owners /\ 3 \notin K /\ Owners' = K \cup {3}
      /\ \A k \in Owners : SymbolAt(k) \in 0 .. 37
  <2>1. Owners = 1 .. Height \cup {0}
    BY <1>1, OwnersAre
  <2>2. Owners' = 1 .. Height' \cup (IF KeepsLookahead THEN {0} ELSE {})
    BY <1>0, <1>1, <1>3, OwnersAre
  <2>3. 1 .. 3 = {1, 2, 3} /\ 1 \in 1 .. Height /\ 2 \in 1 .. Height
    BY <1>0
  <2> QED BY <1>0, <1>5, <2>1, <2>2, <2>3, OwnersAre
<1>7. \A k \in K : SymbolAt(k)' = SymbolAt(k) /\ ValueAt(k)' = ValueAt(k)
  <2>1. \A k \in {1, 2} : SymbolAt(k)' = SymbolAt(k) /\ ValueAt(k)' = ValueAt(k)
    <3>1. \A k \in {1, 2} : k \in 1 .. Height /\ k \in 1 .. Height' /\ k \in 1 .. 2
      BY <1>0
    <3> QED BY <1>0, <1>4, <3>1, OwnersAre
  <2>2. KeepsLookahead => SymbolAt(0)' = SymbolAt(0) /\ ValueAt(0)' = ValueAt(0)
    BY <1>0, <1>3, OwnersAre DEF TokenNo
  <2> QED BY <1>5, <2>1, <2>2
<1>8. SymbolAt(3)' = 1
  <2>1. 3 \in 1 .. Height'
    BY <1>0
  <2> QED BY <1>0, <2>1, OwnersAre, SymbolRows
<1>9. OwnsIn(heap', 1, ValueAt(3)') = {} /\ LeadsIn(heap', 1, ValueAt(3)')
  BY OwnsRows
<1>10. PICK R : R = popped \cup dropped
  OBVIOUS
<1>11. \A b : b \in R <=> \E k \in Owners \ K : b \in OwnedBy(k)
  <2>1. \A k : k \in Owners \ K <=> k \in 3 .. Height \/ (k = 0 /\ ~KeepsLookahead)
    <3>1. Owners = 1 .. Height \cup {0}
      BY <1>1, OwnersAre
    <3>2. \A k : k \in 1 .. Height <=> k = 1 \/ k = 2 \/ k \in 3 .. Height
      BY <1>0
    <3>3. \A k \in 3 .. Height : k # 0 /\ k # 1 /\ k # 2
      OBVIOUS
    <3> QED BY <1>5, <3>1, <3>2, <3>3
  <2>2. \A b : b \in popped <=> \E k \in 3 .. Height : b \in OwnedBy(k)
    <3>1. \A k \in 3 .. Height : OwnedBy(k) = Owns(yystos[yyss[k]], yyvs[k])
      <4>1. \A k \in 3 .. Height : k \in 1 .. Height
        BY <1>0
      <4> QED BY <4>1, OwnersAre DEF OwnedBy
    <3> QED BY <1>2, <3>1 DEF Height
  <2>3. dropped = IF KeepsLookahead THEN {} ELSE OwnedBy(0)
    BY <1>2, OwnersAre DEF OwnedBy
  <2> QED BY <1>10, <2>1, <2>2, <2>3
<1>12. R \subseteq Blocks
  <2>1. \A k \in Owners : OwnedBy(k) \subseteq Blocks
    BY DEF HeapIsOwned
  <2> QED BY <1>11, <2>1
<1>13. heap' \in [Blocks -> Contents] /\ \A b \in Blocks : heap'[b] = IF b \in R THEN Free ELSE heap[b]
  <2>1. heap \in [Blocks -> Contents]
    BY DEF TypeInv
  <2>2. heap' = Freed(heap, R)
    BY <1>2, <1>10
  <2>3. PICK g : g = Freed(heap, R)
    OBVIOUS
  <2>4. g \in [Blocks -> Contents] /\ \A b \in Blocks : g[b] = IF b \in R THEN Free ELSE heap[b]
    BY <2>1, <2>3, FreedIs
  <2> QED BY <2>2, <2>3, <2>4
<1>14. HeapIsOwned'
  <2>1. PICK New, t : New = {} /\ t = 3
    OBVIOUS
  <2>2. /\ SymbolAt(t)' \in 0 .. 37 /\ New = OwnsIn(heap', SymbolAt(t)', ValueAt(t)')
        /\ LeadsIn(heap', SymbolAt(t)', ValueAt(t)')
    BY <1>8, <1>9, <2>1
  <2>3. /\ New \subseteq Blocks /\ \A b \in New : heap'[b] # Free /\ (b \in R \/ heap[b] = Free)
        /\ \A b \in R \ New : heap'[b] = Free
        /\ \A b \in Blocks : b \notin R /\ b \notin New => heap'[b] = heap[b]
    BY <1>12, <1>13, <2>1
  <2>4. t \notin K /\ Owners' = K \cup {t}
    BY <1>6, <2>1
  <2> QED BY <1>6, <1>7, <1>11, <2>2, <2>3, <2>4, Exchange
<1>15. \A k \in 1 .. Height' : Suits(SymbolAt(k), ValueAt(k))'
  <2>1. \A k \in 1 .. Height' : k = 3 \/ (k \in K /\ k \in 1 .. Height)
    BY <1>0, <1>5
  <2>2. \A k \in 1 .. Height : Suits(SymbolAt(k), ValueAt(k))
    BY DEF TypeInv
  <2> QED BY <1>7, <1>8, <2>1, <2>2 DEF Suits
<1>16. TypeInv'
  <2>1. IsFiniteSet(Allocated')
    <3>1. \A b \in Blocks : heap'[b] # Free => b = 0 \/ heap[b] # Free
      BY <1>13
    <3> QED BY <3>1, AllocatedStays DEF TypeInv
  <2> QED BY <1>0, <1>3, <1>4, <1>13, <1>15, <2>1 DEF TypeInv
<1> QED BY <1>0, <1>1, <1>14, <1>16

OwnInv == StackInv /\ TypeInv /\ HeapIsOwned

LEMMA InitOwned == Init => OwnInv
<1> SUFFICES ASSUME Init PROVE OwnInv
  OBVIOUS
<1>1. /\ yyss = <<0>> /\ yyvs = <<Garbage>> /\ yychar = YYEMPTY /\ yylval = Garbage
      /\ yyerrstatus = 0 /\ yyresult = Running /\ heap = [b \in Blocks |-> Free]
      /\ line = <<>> /\ wrongAt = 0 /\ excused = FALSE
  BY DEF Init
<1>2. StackInv
  BY InitStack
<1>3. Height = 1 /\ yyss[1] = 0
  BY <1>1 DEF Height
<1>4. Owners = {1} /\ SymbolAt(1) = 0 /\ \A k \in 1 .. Height : k = 1
  <2>1. 1 .. 1 = {1}
    OBVIOUS
  <2> QED BY <1>1, <1>2, <1>3, <2>1, OwnersAre, SymbolRows
<1>5. OwnedBy(1) = {} /\ Leads(SymbolAt(1), ValueAt(1))
  BY <1>4, OwnedIs, OwnsRows
<1>6. Allocated = {}
  BY <1>1 DEF Allocated
<1>7. HeapIsOwned
  BY <1>4, <1>5, <1>6 DEF HeapIsOwned, Allocated
<1>8. TypeInv
  <2>1. IsFiniteSet(Allocated)
    BY <1>6, FS_EmptySet
  <2>2. heap \in [Blocks -> Contents]
    BY <1>1 DEF Contents
  <2>3. yyvs \in Seq(Vals) /\ Len(yyvs) = Height
    <3>1. <<Garbage>> \in Seq(Vals) /\ Len(<<Garbage>>) = 1
      BY DEF Vals, Garbage
    <3> QED BY <1>1, <1>3, <3>1
  <2>4. \A k \in 1 .. Height : Suits(SymbolAt(k), ValueAt(k))
    BY <1>4 DEF Suits
  <2>5. line \in Seq(Tokens)
    BY <1>1
  <2>6. yylval \in {Garbage} \cup Blocks /\ yyresult \in {Running, 0, 1}
    BY <1>1
  <2>7. yyerrstatus \in 0 .. 3 /\ wrongAt \in Nat
    BY <1>1
  <2>8. excused \in BOOLEAN
    BY <1>1
  <2> QED BY <2>1, <2>2, <2>3, <2>4, <2>5, <2>6, <2>7, <2>8 DEF TypeInv
<1> QED BY <1>2, <1>7, <1>8 DEF OwnInv

LEMMA DefaultIs ==
  ASSUME StackInv, TypeInv, NEW n \in 0 .. 29, n # 9, Reduce(n, DefaultValue(n))
  PROVE  DefaultValue(n) \in Vals
<1>1. PICK keep : keep = Height - PoppedBy(n)
  OBVIOUS
<1>2. keep \in 1 .. 11 /\ keep <= Height /\ Height \in 1 .. 12
  BY <1>1, ReduceTop
<1>3. CASE yyr2[n] = 0
  BY <1>3 DEF DefaultValue, Vals, Garbage
<1>4. CASE yyr2[n] # 0
  <2>1. keep + 1 \in 1 .. Height
    <3>1. yyr2[n] \in 1 .. 7
      BY <1>4, RuleLengths
    <3> QED BY <1>1, <1>2, <3>1 DEF PoppedBy
  <2>2. Dollar(n, 1) = yyvs[keep + 1]
    BY <1>1, <1>2, DollarIs
  <2> QED BY <1>4, <2>1, <2>2, ValueOf DEF DefaultValue
<1> QED BY <1>3, <1>4

LEMMA OnlyOwned ==
  ASSUME StackInv, TypeInv, HeapIsOwned, NEW n \in 0 .. 29, ReduceOnly(n)
  PROVE  HeapIsOwned' /\ TypeInv' /\ Keeps(Height - PoppedBy(n))
<1>1. n \in {2, 3, 6, 17, 21, 22, 23} /\ Reduce(n, DefaultValue(n)) /\ UNCHANGED <<heap, out>>
  BY DEF ReduceOnly
<1>2. n # 9 /\ n # 6
  BY <1>1, ReduceTop DEF RuleIs
<1>3. CASE n \in {21, 22, 23}
  BY <1>1, <1>3, PassOwned
<1>4. CASE n \in {2, 3, 17}
  <2>1. DefaultValue(n) \in Vals
    BY <1>1, <1>2, DefaultIs
  <2> QED BY <1>1, <1>2, <1>4, <2>1, OwnlessReduction
<1> QED BY <1>1, <1>2, <1>3, <1>4

LEMMA OtherOwned ==
  ASSUME StackInv, TypeInv, HeapIsOwned, NEW n \in 0 .. 29,
         ReduceCommand(n) \/ ReduceStar(n) \/ ReduceComparator(n)
  PROVE  HeapIsOwned' /\ TypeInv' /\ Keeps(Height - PoppedBy(n))
<1>1. CASE ReduceCommand(n)
  <2>1. n \in {4, 5, 7, 8} /\ Reduce(n, DefaultValue(n)) /\ UNCHANGED heap /\ n # 9
    BY <1>1 DEF ReduceCommand
  <2>2. DefaultValue(n) \in Vals
    BY <2>1, DefaultIs
  <2> QED BY <2>1, <2>2, OwnlessReduction
<1>2. CASE ReduceStar(n)
  <2>1. PICK value : /\ n \in {18, 19} /\ Reduce(n, value) /\ UNCHANGED heap /\ value \in {3, 4}
                     /\ value = IF n = 18 THEN 3 ELSE 4
    BY <1>2 DEF ReduceStar
  <2>2. value \in Vals
    BY <2>1 DEF Vals
  <2> QED BY <2>1, <2>2, OwnlessReduction
<1>3. CASE ReduceComparator(n)
  <2>1. PICK value : /\ n \in 24 .. 29 /\ Reduce(n, value) /\ UNCHANGED heap /\ value \in 0 .. 5
    BY <1>3 DEF ReduceComparator, ComparatorOfRule
  <2>2. value \in Vals
    BY <2>1 DEF Vals
  <2> QED BY <2>1, <2>2, OwnlessReduction
<1> QED BY <1>1, <1>2, <1>3

LEMMA SameOwned ==
  ASSUME HeapIsOwned, UNCHANGED <<yyss, yyvs, yychar, yylval, heap>>
  PROVE  HeapIsOwned'
<1>1. Owners' = Owners
  BY DEF Owners
<1>2. \A k : OwnedBy(k)' = OwnedBy(k)
  BY DEF OwnedBy, SymbolAt, ValueAt, TokenNo, Owns, CondAt, CondsAt, Has
<1>3. \A k : Leads(SymbolAt(k), ValueAt(k))' <=> Leads(SymbolAt(k), ValueAt(k))
  <2> TAKE k
  <2>1. SymbolAt(k)' = SymbolAt(k) /\ ValueAt(k)' = ValueAt(k)
    BY DEF SymbolAt, ValueAt, TokenNo
  <2> QED BY <2>1 DEF Leads, CondAt, CondsAt, Has, IsString
<1> QED BY <1>1, <1>2, <1>3 DEF HeapIsOwned

LEMMA OwnStep == ASSUME ~IsFiniteSet(Blocks) PROVE OwnInv /\ [Next]_vars => OwnInv'
<1> SUFFICES ASSUME OwnInv, [Next]_vars
             PROVE  OwnInv'
  OBVIOUS
<1>0. StackInv /\ TypeInv /\ HeapIsOwned /\ StackInv'
  BY StackStep DEF OwnInv
<1>1. ASSUME NEW tok \in Tokens, yylex(tok)
      PROVE  OwnInv'
  BY <1>0, <1>1, ReadOwned DEF OwnInv
<1>2. CASE Shift
  BY <1>0, <1>2, ShiftOwned DEF OwnInv
<1>3. CASE Recover
  BY <1>0, <1>3, RecoverOwned DEF OwnInv
<1>4. CASE UNCHANGED vars
  <2>1. HeapIsOwned'
    BY <1>0, <1>4, SameOwned DEF vars
  <2>2. TypeInv'
    BY <1>0, <1>4 DEF vars, TypeInv, Allocated, Height, SymbolAt, ValueAt, TokenNo
  <2> QED BY <1>0, <2>1, <2>2 DEF OwnInv
<1>5. CASE Accept \/ ReduceQuit \/ AbortAtEnd
  <2>1. /\ UNCHANGED <<yyss, yyvs, yychar, yylval, yyerrstatus, heap, history>>
        /\ yyresult' \in {0, 1}
    BY <1>5 DEF Accept, ReduceQuit, AbortAtEnd
  <2>2. HeapIsOwned'
    BY <1>0, <2>1, SameOwned
  <2>3. TypeInv'
    BY <1>0, <2>1 DEF TypeInv, Allocated, Height, SymbolAt, ValueAt, TokenNo, history
  <2> QED BY <1>0, <2>2, <2>3 DEF OwnInv
<1>6. CASE ReduceFirstCondition
  BY <1>0, <1>6, FirstOwned DEF OwnInv
<1>7. CASE ReduceNextCondition
  BY <1>0, <1>7, NextOwned DEF OwnInv
<1>8. CASE ReduceCondition
  BY <1>0, <1>8, ConditionOwned DEF OwnInv
<1>9. CASE ReduceAttribute
  BY <1>0, <1>9, AttributeOwned DEF OwnInv
<1>10. ASSUME NEW n \in DOMAIN yyr2,
              ReduceOnly(n) \/ ReduceCommand(n) \/ ReduceLoad(n) \/ ReduceSelect(n)
                \/ ReduceStar(n) \/ ReduceComparator(n)
       PROVE  OwnInv'
  <2>0. n \in 0 .. 29
    BY RuleLengths
  <2>1. CASE ReduceLoad(n)
    BY <1>0, <2>1, LoadOwned DEF OwnInv
  <2>2. CASE ReduceSelect(n)
    BY <1>0, <2>2, SelectOwned DEF OwnInv
  <2>3. CASE ReduceOnly(n)
    BY <1>0, <2>0, <2>3, OnlyOwned DEF OwnInv
  <2>4. CASE ReduceCommand(n) \/ ReduceStar(n) \/ ReduceComparator(n)
    BY <1>0, <2>0, <2>4, OtherOwned DEF OwnInv
  <2> QED BY <1>10, <2>1, <2>2, <2>3, <2>4
<1> QED BY <1>1, <1>2, <1>3, <1>4, <1>5, <1>6, <1>7, <1>8, <1>9, <1>10 DEF Next, Steps

(* If memory has no end, what is on the heap has one owner, whatever is    *)
(* typed: no action of SqlParser.y frees a block twice, too soon or never. *)
THEOREM HeapStaysOwned == ~IsFiniteSet(Blocks) => (Spec => []HeapIsOwned)
<1> SUFFICES ASSUME ~IsFiniteSet(Blocks) PROVE Spec => []HeapIsOwned
  OBVIOUS
<1>1. OwnInv => HeapIsOwned
  BY DEF OwnInv
<1>2. OwnInv /\ [Next]_vars => OwnInv'
  BY OwnStep
<1> QED BY <1>1, <1>2, InitOwned, PTL DEF Spec

(* The variables keep their types, and the two stacks grow together.       *)
THEOREM TypesStay == ~IsFiniteSet(Blocks) => (Spec => []TypeOK)
<1> SUFFICES ASSUME ~IsFiniteSet(Blocks) PROVE Spec => []TypeOK
  OBVIOUS
<1>1. OwnInv => TypeOK
  <2> SUFFICES ASSUME OwnInv PROVE TypeOK
    OBVIOUS
  <2>1. DOMAIN yypact = States
    BY SMTT(60) DEF yypact, From0, States
  <2>2. yyvs \in Seq(0 .. 5 \cup Blocks)
    BY DEF OwnInv, TypeInv, Vals
  <2>3. Len(yyss) = Len(yyvs)
    BY DEF OwnInv, TypeInv, Height
  <2> QED BY <2>1, <2>2, <2>3 DEF OwnInv, StackInv, TypeInv, TypeOK
<1>2. OwnInv /\ [Next]_vars => OwnInv'
  BY OwnStep
<1> QED BY <1>1, <1>2, InitOwned, PTL DEF Spec

-----------------------------------------------------------------------------
(* The lines *)

TextIn(h, b) == IF b \in Blocks /\ h[b].type = "string" THEN h[b].text ELSE NoText

(* Condition c is the one that is typed at place p of line l. *)
Meant(h, l, c, p) ==
  /\ p \in DOMAIN l /\ p + 1 \in DOMAIN l /\ p + 2 \in DOMAIN l
  /\ Known(c.attr) = AttributeOf(l[p])
  /\ c.comp = ComparatorOf(l[p + 1].sym)
  /\ TextIn(h, c.value) = l[p + 2].text

(* Value v of symbol n says what is typed from place p on. *)
Stands(h, l, n, v, p) ==
  /\ p \in DOMAIN l
  /\ n \in {33, 34} => Known(v) = AttributeOf(l[p])
  /\ n \in {35, 36} => TextIn(h, v) = l[p].text
  /\ n = 37 => v = ComparatorOf(l[p].sym)
  /\ n = 32 => Meant(h, l, h[v].cond, p)
  /\ n = 31 => /\ CondsIn(h, v) # <<>>
               /\ \A j \in DOMAIN CondsIn(h, v) : Meant(h, l, CondsIn(h, v)[j], p + 4 * (j - 1))
  /\ n \in 0 .. 24 => l[p].sym = yytname[n]
  /\ n \in {16, 17, 18} => TextIn(h, v) = l[p].text

(* The conditions that are in the vector, the place of the i-th symbol of  *)
(* the stack, the tokens it took, and the tokens that all of them took     *)
Listed   == Len(CondsIn(heap, yyvs[8]))
Place(i) == IF i > 8 /\ yyss[8] = 28 THEN 4 * Listed + i - 4 ELSE i - 2
Width(t) == CASE t \in {29, 42} -> 3 [] t = 28 -> 4 * Listed - 1 [] OTHER -> 1
Taken    == IF Height >= 3 THEN Place(Height) + Width(Top) - 1 ELSE 0
Typed    == Len(line)

SelectFits(l) == \A i \in DOMAIN l : l[i].sym \in SelectSymbols(i)
LoadFits(l)   == \A i \in DOMAIN l : l[i].sym \in LoadSymbols(i)

NoCall     == \A i \in DOMAIN out : ~IsCall(out[i])
NoPrompt   == \A i \in DOMAIN out : out[i] # Prompt
NoError    == \A i \in DOMAIN out : out[i] # SyntaxError
OneCall(c) == \E k \in DOMAIN out : /\ out[k] = c
                                    /\ \A i \in DOMAIN out : IsCall(out[i]) <=> i = k
Prompted   == /\ Last(out) = Prompt
              /\ \E k \in DOMAIN out : \A i \in DOMAIN out : out[i] = Prompt <=> i = k
Calls      == IF wrongAt = 0 THEN Meaning(line) ELSE <<>>
Answered   == \/ Calls = <<>> /\ NoCall
              \/ Calls # <<>> /\ Calls = <<Calls[1]>> /\ OneCall(Calls[1])
IsSeq(s)   == \E S : s \in Seq(S)

Idle     == Height <= 2 /\ yychar = YYEMPTY
Done     == Height = 3 /\ Top \in {8, 10, 11}
InError  == Height >= 3 /\ yyss[3] = 3
UnderWay == (Height = 2 /\ yychar # YYEMPTY) \/ (Height >= 3 /\ yyss[3] \in {2, 4, 5, 6, 7})

(* The line has been parsed. *)
ParsedInv ==
  Idle \/ Done =>
    /\ line # <<>> => Ended(line) /\ Answered /\ (wrongAt = 0 => NoError)
    /\ line # <<>> /\ Top \notin {10, 11} => Prompted
    /\ Top \in {10, 11} => NoPrompt /\ wrongAt = 0
    /\ Done => line # <<>>
    /\ line = <<>> => wrongAt = 0
    /\ wrongAt # 0 /\ NoError => excused
    /\ yyerrstatus <= 2
    /\ yyerrstatus # 0 => wrongAt # 0 \/ (Typed < 2 /\ excused)

(* What is on the stack says what has been typed. *)
StackStands == \A i \in 3 .. Height : Stands(heap, line, yystos[yyss[i]], yyvs[i], Place(i))

LineFits == /\ Height >= 3 /\ yyss[3] = 4 => SelectFits(line)
            /\ Height >= 3 /\ yyss[3] = 5 => LoadFits(line)

(* The states that an LF leads to, in lines that are right *)
AtEnd == {7, 25, 27, 33, 41}

(* The line is right so far, and its tokens are on the stack. *)
Spotless ==
  /\ Typed = IF yychar = YYEMPTY THEN Taken ELSE Taken + 1
  /\ LineFits /\ StackStands /\ NoError
  /\ yyerrstatus # 0 /\ Typed < 2 => excused
  /\ yychar # YYEMPTY => /\ yychar \in Expected(Top) /\ line[Typed].sym = yychar
                         /\ yychar \in WithText => TextIn(heap, yylval) = line[Typed].text
  /\ yychar = YYEMPTY => (line[Typed].sym = "LF" <=> Top \in AtEnd)

(* Its first wrong token is the lookahead. *)
Spotted ==
  /\ yychar # YYEMPTY /\ yychar \notin Expected(Top)
  /\ wrongAt = Taken + 1 /\ Typed = 1 /\ line[1].sym = yychar
  /\ yyerrstatus # 0 => excused

UnderWayInv ==
  UnderWay =>
    /\ NoCall /\ NoPrompt
    /\ yyerrstatus # 0 => yyerrstatus + Taken <= 2
    /\ IF wrongAt = 0 THEN Spotless ELSE Spotted

(* The rest of a wrong line is being skipped. *)
ErrorInv ==
  InError =>
    /\ wrongAt # 0 /\ Typed = 1 /\ NoCall /\ NoPrompt
    /\ NoError => excused /\ wrongAt <= 2
    /\ Height = 3 => yyerrstatus = 3
    /\ Height # 3 => yyerrstatus = 2
    /\ yychar # YYEMPTY => line[1].sym = yychar
    /\ yychar = YYEMPTY => (Ended(line) <=> Height # 3)

LineInv == ParsedInv /\ UnderWayInv /\ ErrorInv /\ IsSeq(out)

Extends(l, k) == \A q \in DOMAIN l : q \in DOMAIN k /\ k[q] = l[q]

LEMMA MeantOn ==
  ASSUME NEW h, NEW g, NEW l, NEW k, Extends(l, k), NEW c, NEW p, Meant(h, l, c, p),
         TextIn(g, c.value) = TextIn(h, c.value)
  PROVE  Meant(g, k, c, p)
<1>1. p \in DOMAIN l /\ p + 1 \in DOMAIN l /\ p + 2 \in DOMAIN l
  BY DEF Meant
<1>2. /\ p \in DOMAIN k /\ p + 1 \in DOMAIN k /\ p + 2 \in DOMAIN k
      /\ k[p] = l[p] /\ k[p + 1] = l[p + 1] /\ k[p + 2] = l[p + 2]
  BY <1>1 DEF Extends
<1> QED BY <1>2 DEF Meant

(* What a value says stays true as long as its blocks and its tokens do.   *)
LEMMA StandsOn ==
  ASSUME NEW h, NEW g, NEW l, NEW k, Extends(l, k), NEW n \in 0 .. 37, NEW v, NEW p,
         LeadsIn(h, n, v), \A b \in OwnsIn(h, n, v) : g[b] = h[b], Stands(h, l, n, v, p)
  PROVE  Stands(g, k, n, v, p)
<1>1. p \in DOMAIN l /\ p \in DOMAIN k /\ k[p] = l[p]
  BY DEF Stands, Extends
<1>2. CASE n \in Strings
  <2>1. g[v] = h[v] /\ n # 31 /\ n # 32
    BY <1>2 DEF OwnsIn, Strings
  <2>2. TextIn(g, v) = TextIn(h, v)
    BY <2>1 DEF TextIn
  <2> QED BY <1>1, <2>1, <2>2 DEF Stands
<1>3. CASE n = 32
  <2>0. n \notin Strings
    BY <1>3 DEF Strings
  <2>1. v \in OwnsIn(h, n, v) /\ CondValue(h, v) \in OwnsIn(h, n, v)
    BY <1>3, <2>0 DEF OwnsIn
  <2>2. v \in Blocks /\ h[v].type = "cond"
    BY <1>3, <2>0 DEF LeadsIn
  <2>3. CondValue(h, v) = h[v].cond.value
    BY <2>2 DEF CondValue
  <2>4. g[v] = h[v] /\ g[h[v].cond.value] = h[h[v].cond.value]
    BY <2>1, <2>3
  <2>5. TextIn(g, h[v].cond.value) = TextIn(h, h[v].cond.value)
    BY <2>4 DEF TextIn
  <2>6. Meant(h, l, h[v].cond, p)
    BY <1>3 DEF Stands
  <2>7. Meant(g, k, h[v].cond, p)
    BY <2>5, <2>6, MeantOn
  <2> QED BY <1>1, <1>3, <2>4, <2>7 DEF Stands
<1>4. CASE n = 31
  <2>0. n \notin Strings
    BY <1>4 DEF Strings
  <2>1. OwnsIn(h, n, v) = {v} \cup Values(CondsIn(h, v))
    BY <1>4, OwnsRows
  <2>2. g[v] = h[v]
    BY <2>1
  <2>3. CondsIn(g, v) = CondsIn(h, v)
    BY <2>2 DEF CondsIn
  <2>4. ASSUME NEW j \in DOMAIN CondsIn(h, v)
        PROVE  Meant(g, k, CondsIn(h, v)[j], p + 4 * (j - 1))
    <3>1. CondsIn(h, v)[j].value \in OwnsIn(h, n, v)
      BY <2>1 DEF Values
    <3>2. TextIn(g, CondsIn(h, v)[j].value) = TextIn(h, CondsIn(h, v)[j].value)
      BY <3>1 DEF TextIn
    <3>3. Meant(h, l, CondsIn(h, v)[j], p + 4 * (j - 1))
      BY <1>4 DEF Stands
    <3> QED BY <3>2, <3>3, MeantOn
  <2> QED BY <1>1, <1>4, <2>3, <2>4 DEF Stands
<1>5. CASE n \notin Strings \cup {31, 32}
  BY <1>1, <1>5 DEF Stands, Strings
<1> QED BY <1>2, <1>3, <1>4, <1>5

LEMMA AppendIs ==
  ASSUME NEW s, IsSeq(s), NEW x
  PROVE  /\ IsSeq(Append(s, x)) /\ Last(Append(s, x)) = x
         /\ \E k : /\ k \notin DOMAIN s /\ DOMAIN Append(s, x) = DOMAIN s \cup {k}
                   /\ Append(s, x)[k] = x
                   /\ \A i \in DOMAIN s : Append(s, x)[i] = s[i]
<1>1. PICK S : s \in Seq(S)
  BY DEF IsSeq
<1>2. PICK T : T = S \cup {x}
  OBVIOUS
<1>3. s \in Seq(T) /\ x \in T
  BY <1>1, <1>2
<1>4. Append(s, x) \in Seq(T)
  BY <1>3
<1>5. PICK n \in Nat : n = Len(s)
  BY <1>3
<1>6. DOMAIN s = 1 .. n /\ DOMAIN Append(s, x) = 1 .. n + 1 /\ Append(s, x)[n + 1] = x
      /\ \A i \in 1 .. n : Append(s, x)[i] = s[i]
  BY <1>3, <1>5
<1>7. 1 .. n + 1 = 1 .. n \cup {n + 1} /\ n + 1 \notin 1 .. n
  OBVIOUS
<1>8. Last(Append(s, x)) = x
  <2>1. Len(Append(s, x)) = n + 1
    BY <1>3, <1>5
  <2> QED BY <1>6, <2>1 DEF Last
<1> QED BY <1>4, <1>6, <1>7, <1>8 DEF IsSeq

(* One more message, call or prompt *)
LEMMA OutGrows ==
  ASSUME IsSeq(out), NEW x, out' = Append(out, x)
  PROVE  /\ IsSeq(out')
         /\ NoCall /\ ~IsCall(x) => NoCall'
         /\ NoPrompt /\ x # Prompt => NoPrompt'
         /\ NoError /\ x # SyntaxError => NoError'
         /\ x = SyntaxError => ~NoError'
         /\ ~NoError => ~NoError'
         /\ NoCall /\ IsCall(x) => OneCall(x)'
         /\ \A c : OneCall(c) /\ ~IsCall(x) => OneCall(c)'
         /\ NoPrompt /\ x = Prompt => Prompted'
<1>1. PICK k : /\ k \notin DOMAIN out /\ DOMAIN out' = DOMAIN out \cup {k} /\ out'[k] = x
               /\ \A i \in DOMAIN out : out'[i] = out[i]
  BY AppendIs
<1>2. IsSeq(out') /\ Last(out') = x
  BY AppendIs
<1>3. NoCall /\ ~IsCall(x) => NoCall'
  BY <1>1 DEF NoCall, IsCall
<1>4. NoPrompt /\ x # Prompt => NoPrompt'
  BY <1>1 DEF NoPrompt
<1>5. NoError /\ x # SyntaxError => NoError'
  BY <1>1 DEF NoError
<1>6. (x = SyntaxError => ~NoError') /\ (~NoError => ~NoError')
  BY <1>1 DEF NoError
<1>7. NoCall /\ IsCall(x) => OneCall(x)'
  BY <1>1 DEF NoCall, OneCall, IsCall
<1>8. ASSUME NEW c, OneCall(c), ~IsCall(x)
      PROVE  OneCall(c)'
  BY <1>1, <1>8 DEF OneCall, IsCall
<1>9. NoPrompt /\ x = Prompt => Prompted'
  BY <1>1, <1>2 DEF NoPrompt, Prompted
<1> QED BY <1>2, <1>3, <1>4, <1>5, <1>6, <1>7, <1>8, <1>9

LEMMA Messages ==
  /\ ~IsCall(Prompt) /\ ~IsCall(SyntaxError) /\ ~IsCall(WrongName)
  /\ Prompt # SyntaxError /\ Prompt # WrongName /\ SyntaxError # WrongName
  /\ \A t, f, i : /\ IsCall(LoadCall(t, f, i)) /\ LoadCall(t, f, i) # Prompt
                  /\ LoadCall(t, f, i) # SyntaxError
  /\ \A a, t, c : /\ IsCall(SelectCall(a, t, c)) /\ SelectCall(a, t, c) # Prompt
                  /\ SelectCall(a, t, c) # SyntaxError
BY DEF IsCall, Prompt, SyntaxError, WrongName, LoadCall, SelectCall

-----------------------------------------------------------------------------
(* Where a line is: to be typed, under way, wrong or parsed *)
LEMMA Phases ==
  ASSUME StackInv
  PROVE  /\ Idle \/ Done \/ InError \/ UnderWay
         /\ Idle => ~Done /\ ~InError /\ ~UnderWay
         /\ Done => ~InError /\ ~UnderWay /\ yyss[3] = Top
         /\ InError => ~UnderWay
         /\ InError => \/ Height = 3 /\ Top = 3
                       \/ Height = 4 /\ Top = 12
         /\ Height = 1 => Idle
<1>1. /\ Height \in 1 .. 12 /\ Top = yyss[Height] /\ Top \in States /\ Top \in Level(Height)
      /\ yychar # YYEMPTY => Top \in Asking
  BY TopIs DEF StackInv
<1>2. Height >= 3 => yyss[3] \in 2 .. 11 /\ yyss[3] # 9
  <2>1. Height >= 3 => yyss[3] \in Level(3)
    BY <1>1 DEF StackInv
  <2> QED BY <2>1, LevelRows
<1>3. Height = 4 => (yyss[3] = 3 /\ Top = 12) \/ yyss[3] = 4 \/ yyss[3] = 5
  <2> SUFFICES ASSUME Height = 4
               PROVE  (yyss[3] = 3 /\ Top = 12) \/ yyss[3] = 4 \/ yyss[3] = 5
    OBVIOUS
  <2>1. PICK t, b : t = Top /\ b = yyss[3]
    OBVIOUS
  <2>2. b \in Below(t) /\ t \in 12 .. 19 /\ b \in 2 .. 11
    <3>1. yyss[Height - 1] \in Below(Top)
      BY UnderTop
    <3>2. Height - 1 = 3
      OBVIOUS
    <3> QED BY <1>1, <1>2, <2>1, <3>1, <3>2, LevelRows
  <2>3. (b = 3 /\ t = 12) \/ b = 4 \/ b = 5
    BY <2>2 DEF Below
  <2> QED BY <2>1, <2>3
<1>4. Height >= 5 => yyss[3] = 4 \/ yyss[3] = 5
  BY Shape
<1>5. Height = 1 => yychar = YYEMPTY
  BY <1>1, Depth DEF Asking
<1>6. Height = 3 => yyss[3] = Top
  BY <1>1
<1>7. PICK h \in 1 .. 12 : h = Height
  BY <1>1
<1>8. h = 1 \/ h = 2 \/ h = 3 \/ h = 4 \/ h >= 5
  OBVIOUS
<1>9. Idle \/ Done \/ InError \/ UnderWay
  BY <1>2, <1>3, <1>4, <1>5, <1>6, <1>7, <1>8 DEF Idle, Done, InError, UnderWay
<1>10. Idle => ~Done /\ ~InError /\ ~UnderWay
  BY <1>7 DEF Idle, Done, InError, UnderWay
<1>11. Done => ~InError /\ ~UnderWay /\ yyss[3] = Top
  BY <1>6, <1>7 DEF Done, InError, UnderWay
<1>12. InError => ~UnderWay
  BY <1>7 DEF InError, UnderWay
<1>13. InError => (Height = 3 /\ Top = 3) \/ (Height = 4 /\ Top = 12)
  BY <1>3, <1>4, <1>6, <1>7, <1>8 DEF InError
<1>14. Height = 1 => Idle
  BY <1>5 DEF Idle
<1> QED BY <1>9, <1>10, <1>11, <1>12, <1>13, <1>14

-----------------------------------------------------------------------------
(* What a step leaves on the stack, it leaves as it was. *)
Holds(keep) == \A k \in 1 .. keep : /\ yyss'[k] = yyss[k] /\ yyvs'[k] = yyvs[k]
                                    /\ \A b \in OwnedBy(k) : heap'[b] = heap[b]

LEMMA ListIs ==
  ASSUME StackInv, TypeInv, HeapIsOwned, Height >= 8, yyss[8] = 28
  PROVE  /\ CondsIn(heap, yyvs[8]) \in Seq(Conditions) /\ Listed \in Nat
         /\ DOMAIN CondsIn(heap, yyvs[8]) = 1 .. Listed
         /\ CondsIn(heap, yyvs[8]) # <<>> => Listed >= 1
<1>0. Height \in Nat
  BY DEF StackInv
<1>a. 8 \in 1 .. Height
  BY <1>0
<1>b. yystos[28] = 31
  BY SymbolRows
<1>1. 8 \in 1 .. Height /\ yystos[28] = 31
  BY <1>a, <1>b
<1>2. LeadsIn(heap, 31, yyvs[8])
  BY <1>1, OwnedAt
<1>3. PICK v : v = yyvs[8]
  OBVIOUS
<1>4. v \in Blocks /\ heap[v].type = "conds"
  BY <1>2, <1>3 DEF LeadsIn, Strings
<1>5. heap[v] \in Contents
  BY <1>4 DEF TypeInv
<1>6. PICK cs : cs = CondsIn(heap, v)
  OBVIOUS
<1>7. cs \in Seq(Conditions)
  BY <1>4, <1>5, <1>6, ContentKinds DEF CondsIn
<1>8. PICK m : m = Listed
  OBVIOUS
<1>9. m = Len(cs)
  BY <1>3, <1>6, <1>8 DEF Listed
<1>10. m \in Nat /\ DOMAIN cs = 1 .. m
  BY <1>7, <1>9
<1>11. cs # <<>> => m # 0
  BY <1>7, <1>9, EmptySeq
<1> QED BY <1>3, <1>6, <1>7, <1>8, <1>10, <1>11

LEMMA ListKept ==
  ASSUME StackInv, TypeInv, HeapIsOwned, NEW keep \in 8 .. 12, keep <= Height, Holds(keep),
         yyss[8] = 28
  PROVE  yyss'[8] = 28 /\ CondsIn(heap', yyvs'[8]) = CondsIn(heap, yyvs[8]) /\ Listed' = Listed
<1>0. Height \in Nat
  BY DEF StackInv
<1>a. 8 \in 1 .. Height /\ 8 \in 1 .. keep
  BY <1>0
<1>b. yystos[28] = 31
  BY SymbolRows
<1>1. 8 \in 1 .. Height /\ 8 \in 1 .. keep /\ yystos[28] = 31
  BY <1>a, <1>b
<1>2. OwnedBy(8) = OwnsIn(heap, 31, yyvs[8])
  BY <1>1, OwnedAt
<1>3. yyvs[8] \in OwnedBy(8)
  BY <1>2, OwnsRows
<1>4. heap'[yyvs[8]] = heap[yyvs[8]] /\ yyvs'[8] = yyvs[8] /\ yyss'[8] = yyss[8]
  BY <1>1, <1>3 DEF Holds
<1>5. CondsIn(heap', yyvs'[8]) = CondsIn(heap, yyvs[8])
  BY <1>4 DEF CondsIn
<1> QED BY <1>4, <1>5 DEF Listed

LEMMA PlaceKept ==
  ASSUME StackInv, TypeInv, HeapIsOwned, NEW keep \in 1 .. 12, keep <= Height, Holds(keep),
         NEW i \in Int, i <= 8 \/ keep >= 8
  PROVE  Place(i)' = Place(i)
<1>1. CASE i <= 8
  BY <1>1 DEF Place
<1>2. CASE keep >= 8 /\ yyss[8] = 28
  <2>1. keep \in 8 .. 12
    BY <1>2
  <2>2. yyss'[8] = 28 /\ Listed' = Listed
    BY <1>2, <2>1, ListKept
  <2> QED BY <1>2, <2>2 DEF Place
<1>3. CASE keep >= 8 /\ yyss[8] # 28
  <2>1. 8 \in 1 .. keep
    BY <1>3
  <2>2. yyss'[8] = yyss[8]
    BY <2>1 DEF Holds
  <2> QED BY <1>3, <2>2 DEF Place
<1> QED BY <1>1, <1>2, <1>3

LEMMA StandsKept ==
  ASSUME StackInv, TypeInv, HeapIsOwned, NEW keep \in 1 .. 12, keep <= Height, Holds(keep),
         Extends(line, line'), StackStands, NEW i \in 3 .. keep
  PROVE  Stands(heap', line', yystos[yyss'[i]], yyvs'[i], Place(i)')
<1>1. i \in 1 .. Height /\ i \in 3 .. Height /\ i \in 1 .. keep /\ (i <= 8 \/ keep >= 8)
  BY DEF StackInv
<1>2. PICK n, v, p : n = yystos[yyss[i]] /\ v = yyvs[i] /\ p = Place(i)
  OBVIOUS
<1>3. n \in 0 .. 37
  <2>1. yyss[i] \in States
    BY <1>1 DEF StackInv, Height
  <2> QED BY <1>2, <2>1, SymbolRows
<1>4. OwnedBy(i) = OwnsIn(heap, n, v) /\ LeadsIn(heap, n, v)
  BY <1>1, <1>2, OwnedAt
<1>5. yyss'[i] = yyss[i] /\ yyvs'[i] = v /\ \A b \in OwnsIn(heap, n, v) : heap'[b] = heap[b]
  BY <1>1, <1>2, <1>4 DEF Holds
<1>6. Place(i)' = p
  BY <1>1, <1>2, PlaceKept
<1>7. Stands(heap, line, n, v, p)
  BY <1>1, <1>2 DEF StackStands
<1>8. Stands(heap', line', n, v, p)
  BY <1>3, <1>4, <1>5, <1>7, StandsOn
<1> QED BY <1>2, <1>5, <1>6, <1>8

(* The symbol that a step puts on top says what was typed, and so do those *)
(* below it.                                                               *)
LEMMA StackStandsOn ==
  ASSUME StackInv, TypeInv, HeapIsOwned, NEW keep \in 1 .. 12, keep <= Height, Holds(keep),
         Extends(line, line'), StackStands,
         \/ Height' = keep
         \/ /\ Height' = keep + 1
            /\ Stands(heap', line', yystos[yyss'[keep + 1]], yyvs'[keep + 1], Place(keep + 1)')
  PROVE  StackStands'
<1>1. ASSUME NEW i \in 3 .. Height'
      PROVE  Stands(heap', line', yystos[yyss'[i]], yyvs'[i], Place(i)')
  <2>1. CASE i \in 3 .. keep
    BY <2>1, StandsKept
  <2>2. CASE i \notin 3 .. keep
    <3>1. i = keep + 1 /\ Height' = keep + 1
      BY <1>1, <2>2
    <3> QED BY <3>1
  <2> QED BY <2>1, <2>2
<1> QED BY <1>1 DEF StackStands

(* The tokens that the stack stands for *)
LEMMA TakenIs ==
  /\ Height \in 1 .. 2 => Taken = 0
  /\ Height >= 3 /\ Place(Height) \in Int /\ Top \notin {28, 29, 42} => Taken = Place(Height)
  /\ Height >= 3 /\ Place(Height) \in Int /\ Top \in {29, 42} => Taken = Place(Height) + 2
  /\ Height = 8 /\ Top = 28 /\ Listed \in Int => Taken = 4 * Listed + 4
  /\ Height' \in 1 .. 2 => Taken' = 0
  /\ Height' >= 3 /\ Place(Height)' \in Int /\ Top' \notin {28, 29, 42} => Taken' = Place(Height)'
  /\ Height' >= 3 /\ Place(Height)' \in Int /\ Top' \in {29, 42} => Taken' = Place(Height)' + 2
  /\ Height' = 8 /\ Top' = 28 /\ Listed' \in Int => Taken' = 4 * Listed' + 4
<1>1. Height \in 1 .. 2 => Taken = 0
  BY DEF Taken
<1>2. Height' \in 1 .. 2 => Taken' = 0
  BY DEF Taken
<1>3. ASSUME Height >= 3, Place(Height) \in Int, Top \notin {28, 29, 42}
      PROVE  Taken = Place(Height)
  <2>1. Width(Top) = 1 
    BY <1>3 DEF Width
  <2> QED BY <1>3, <2>1 DEF Taken
<1>4. ASSUME Height >= 3, Place(Height) \in Int, Top \in {29, 42}
      PROVE  Taken = Place(Height) + 2
  <2>1. Width(Top) = 3 
    BY <1>4 DEF Width
  <2> QED BY <1>4, <2>1 DEF Taken
<1>5. ASSUME Height = 8, Top = 28, Listed \in Int
      PROVE  Taken = 4 * Listed + 4
  <2>1. Width(Top) = 4 * Listed - 1 /\ Place(Height) = 6
    BY <1>5 DEF Width, Place
  <2> QED BY <1>5, <2>1 DEF Taken
<1>6. ASSUME Height' >= 3, Place(Height)' \in Int, Top' \notin {28, 29, 42}
      PROVE  Taken' = Place(Height)'
  <2>1. Width(Top)' = 1 
    BY <1>6 DEF Width
  <2> QED BY <1>6, <2>1 DEF Taken
<1>7. ASSUME Height' >= 3, Place(Height)' \in Int, Top' \in {29, 42}
      PROVE  Taken' = Place(Height)' + 2
  <2>1. Width(Top)' = 3 
    BY <1>7 DEF Width
  <2> QED BY <1>7, <2>1 DEF Taken
<1>8. ASSUME Height' = 8, Top' = 28, Listed' \in Int
      PROVE  Taken' = 4 * Listed' + 4
  <2>1. Width(Top)' = 4 * Listed' - 1 /\ Place(Height)' = 6
    BY <1>8 DEF Width, Place
  <2> QED BY <1>8, <2>1 DEF Taken
<1> QED BY <1>1, <1>2, <1>3, <1>4, <1>5, <1>6, <1>7, <1>8

LEMMA PlaceIs ==
  ASSUME StackInv, TypeInv, HeapIsOwned, NEW i \in 1 .. 13
  PROVE  /\ i <= 8 \/ yyss[8] # 28 => Place(i) = i - 2
         /\ i > 8 /\ yyss[8] = 28 => Place(i) = 4 * Listed + i - 4
         /\ i <= 8 \/ yyss'[8] # 28 => Place(i)' = i - 2
         /\ i > 8 /\ yyss'[8] = 28 => Place(i)' = 4 * Listed' + i - 4
         /\ i <= Height => Place(i) \in Nat \/ i < 2
<1>1. i <= 8 \/ yyss[8] # 28 => Place(i) = i - 2
  BY DEF Place
<1>2. i > 8 /\ yyss[8] = 28 => Place(i) = 4 * Listed + i - 4
  BY DEF Place
<1>3. i <= 8 \/ yyss'[8] # 28 => Place(i)' = i - 2
  BY DEF Place
<1>4. i > 8 /\ yyss'[8] = 28 => Place(i)' = 4 * Listed' + i - 4
  BY DEF Place
<1>5. ASSUME i <= Height, i >= 2
      PROVE  Place(i) \in Nat
  <2>1. CASE i > 8 /\ yyss[8] = 28
    <3>1. Height >= 8
      BY <1>5, <2>1 DEF StackInv
    <3>2. Listed \in Nat
      BY <2>1, <3>1, ListIs
    <3>3. 4 * Listed \in Nat /\ i - 4 \in Nat
      BY <2>1, <3>2
    <3>4. Place(i) = 4 * Listed + (i - 4)
      BY <1>2, <2>1, <3>2
    <3> QED BY <3>3, <3>4
  <2>2. CASE i <= 8 \/ yyss[8] # 28
    BY <1>1, <1>5, <2>2
  <2> QED BY <2>1, <2>2
<1> QED BY <1>1, <1>2, <1>3, <1>4, <1>5

LEMMA ShiftTaken ==
  ASSUME StackInv, TypeInv, HeapIsOwned, NEW h \in 2 .. 11, h = Height, Height' = h + 1,
         Top \in Asking, Top' \notin {28, 29, 42}, Holds(h)
  PROVE  Taken \in Nat /\ Taken' = Taken + 1 /\ Place(h + 1)' = Taken + 1
<1>1. Top = yyss[h] /\ Top \notin {29, 42} /\ h \in 1 .. 13 /\ h + 1 \in 1 .. 13
  BY TopIs DEF Asking
<1>2. Place(h + 1)' = Taken + 1 /\ Taken \in Nat
  <2>1. CASE h = 2
    <3>1. Taken = 0
      BY <2>1, TakenIs
    <3>2. Place(3)' = 1
      BY PlaceIs
    <3> QED BY <2>1, <3>1, <3>2
  <2>2. CASE h > 2 /\ Top = 28
    <3>0. Top \in {28, 29, 31}
      BY <2>2
    <3>1. h = 8
      BY <3>0, Depth
    <3>5. Height = 8
      BY <3>1
    <3>6. yyss[8] = 28
      BY <1>1, <2>2, <3>1
    <3>7. Height >= 8 /\ 8 \in 8 .. 12 /\ 8 <= Height
      BY <3>5
    <3>8. Holds(8)
      BY <3>1 DEF Holds
    <3>2. Listed \in Nat /\ Listed' = Listed /\ yyss'[8] = 28
      BY <3>6, <3>7, <3>8, ListIs, ListKept
    <3>3. Taken = 4 * Listed + 4
      BY <2>2, <3>1, <3>2, TakenIs
    <3>4. Place(9)' = 4 * Listed' + 9 - 4
      BY <3>2, PlaceIs
    <3> QED BY <3>1, <3>2, <3>3, <3>4
  <2>3. CASE h > 2 /\ Top # 28
    <3>1. Place(h) \in Nat
      BY <1>1, <2>3, PlaceIs
    <3>2. Taken = Place(h)
      BY <1>1, <2>3, <3>1, TakenIs
    <3>3. CASE h <= 7
      <4>1. Place(h) = h - 2 /\ Place(h + 1)' = h + 1 - 2
        BY <1>1, <3>3, PlaceIs
      <4> QED BY <3>1, <3>2, <4>1
    <3>4. CASE h >= 8 /\ yyss[8] # 28
      <4>1. 8 \in 1 .. h
        BY <3>4
      <4>2. yyss'[8] # 28
        BY <3>4, <4>1 DEF Holds
      <4>3. Place(h) = h - 2 /\ Place(h + 1)' = h + 1 - 2
        BY <1>1, <3>4, <4>2, PlaceIs
      <4> QED BY <3>1, <3>2, <4>3
    <3>5. CASE h >= 8 /\ yyss[8] = 28
      <4>1. h # 8 /\ h \in 8 .. 12
        BY <1>1, <2>3, <3>5
      <4>2. Listed \in Nat /\ Listed' = Listed /\ yyss'[8] = 28
        BY <3>5, <4>1, ListIs, ListKept
      <4>3. Place(h) = 4 * Listed + h - 4 /\ Place(h + 1)' = 4 * Listed' + (h + 1) - 4
        BY <1>1, <3>5, <4>1, <4>2, PlaceIs
      <4> QED BY <3>1, <3>2, <4>2, <4>3
    <3> QED BY <3>3, <3>4, <3>5
  <2> QED BY <2>1, <2>2, <2>3
<1>3. Place(Height)' = Place(h + 1)'
  BY DEF Place
<1>4. Taken' = Place(h + 1)'
  BY <1>2, <1>3, TakenIs
<1> QED BY <1>2, <1>4

(* A reduction of one symbol *)
LEMMA OneTaken ==
  ASSUME StackInv, TypeInv, HeapIsOwned, NEW h \in 3 .. 12, h = Height, Height' = h,
         Top \notin {28, 29, 42}, Top' \notin {28, 29, 42}, Holds(h - 1)
  PROVE  Taken' = Taken /\ Place(h)' = Place(h) /\ Taken = Place(h) /\ Taken \in Nat
<1>1. h - 1 \in 1 .. 12 /\ h - 1 <= Height /\ (h <= 8 \/ h - 1 >= 8) /\ h \in 1 .. 13
  OBVIOUS
<1>2. Place(h)' = Place(h)
  BY <1>1, PlaceKept
<1>3. Place(h) \in Nat
  BY <1>1, PlaceIs
<1>4. Taken = Place(h)
  BY <1>3, TakenIs
<1>5. Place(Height)' = Place(h)'
  BY DEF Place
<1>6. Taken' = Place(h)'
  BY <1>2, <1>3, <1>5, TakenIs
<1> QED BY <1>2, <1>3, <1>4, <1>6

-----------------------------------------------------------------------------
(* What a state expects is what the grammar allows at that place. *)
LEMMA AskingBelow ==
  /\ Below(16) = {4} /\ Below(19) = {5} /\ Below(22) = {20} /\ Below(23) = {21}
  /\ Below(24) = {22} /\ Below(26) = {23} /\ Below(28) = {24} /\ Below(30) = {24, 32}
  /\ Below(31) = {26} /\ Below(32) = {28} /\ Below(40) = {30}
BY DEF Below

LEMMA AskingShape ==
  ASSUME StackInv, Top \in Asking, Height >= 3
  PROVE  /\ yyss[3] = 4 => \/ Height = 3 /\ Top = 4
                           \/ Height = 4 /\ Top = 16
                           \/ Height = 5 /\ Top = 20
                           \/ Height = 6 /\ Top = 22
                           \/ Height = 7 /\ Top = 24
                           \/ Height = 8 /\ Top \in {28, 30} /\ yyss[8] = Top
                           \/ Height = 9 /\ Top = 32 /\ yyss[8] = 28
                           \/ Height = 9 /\ Top = 40 /\ yyss[8] = 30
                           \/ Height = 10 /\ Top = 30 /\ yyss[8] = 28
                           \/ Height = 11 /\ Top = 40 /\ yyss[8] = 28
         /\ yyss[3] = 5 => \/ Height = 3 /\ Top = 5
                           \/ Height = 4 /\ Top = 19
                           \/ Height = 5 /\ Top = 21
                           \/ Height = 6 /\ Top = 23
                           \/ Height = 7 /\ Top = 26
                           \/ Height = 8 /\ Top = 31
         /\ yyss[3] \notin {4, 5} => Height = 3 /\ Top = 3
<1>1. PICK h, t, b : h = Height /\ t = Top /\ b = yyss[Height - 1]
  OBVIOUS
<1>2. h \in 3 .. 12 /\ t = yyss[h] /\ t \in Level(h) /\ t \in Asking
  BY <1>1, TopIs DEF StackInv
<1>3. b \in Below(t) /\ b = yyss[h - 1]
  BY <1>1, <1>2, UnderTop
<1>4. /\ h >= 5 => \/ yyss[3] = 4 /\ yyss[5] = 20
                   \/ yyss[3] = 5 /\ yyss[5] = 21
      /\ h >= 7 => \/ yyss[5] = 20 /\ yyss[6] = 22
                   \/ yyss[5] = 21 /\ yyss[6] = 23
      /\ h >= 8 => \/ yyss[6] = 22 /\ yyss[7] = 24
                   \/ yyss[6] = 23 /\ yyss[7] = 26
      /\ h >= 9 => \/ yyss[7] = 24 /\ yyss[8] \in {28, 30}
                   \/ yyss[7] = 26 /\ yyss[8] = 31
      /\ h >= 10 => /\ yyss[7] = 24
                    /\ \/ yyss[8] = 28 /\ yyss[9] = 32
                       \/ yyss[8] = 30 /\ yyss[9] = 40
      /\ h >= 11 => yyss[8] = 28 /\ yyss[9] = 32 /\ yyss[10] = 30
  BY <1>1, Shape
<1>5. CASE h = 3
  <2>1. t \in {3, 4, 5} /\ t = yyss[3]
    BY <1>2, <1>5, LevelRows DEF Asking
  <2> QED BY <1>1, <1>5, <2>1
<1>6. CASE h = 4
  <2>0. h - 1 = 3
    BY <1>6
  <2>3. t \in {16, 19}
    BY <1>2, <1>6, LevelRows DEF Asking
  <2>1. t \in {16, 19} /\ b = yyss[3]
    BY <1>2, <1>3, <1>6, <2>0, <2>3
  <2>2. (t = 16 /\ b = 4) \/ (t = 19 /\ b = 5)
    BY <1>3, <2>3, AskingBelow
  <2> QED BY <1>1, <1>6, <2>1, <2>2
<1>7. CASE h = 5
  BY <1>1, <1>2, <1>4, <1>7
<1>8. CASE h = 6
  <2>0. h - 1 = 5
    BY <1>8
  <2>3. t \in {22, 23}
    BY <1>2, <1>8, LevelRows DEF Asking
  <2>1. t \in {22, 23} /\ b = yyss[5]
    BY <1>2, <1>3, <1>8, <2>0, <2>3
  <2>2. (t = 22 /\ b = 20) \/ (t = 23 /\ b = 21)
    BY <1>3, <2>3, AskingBelow
  <2> QED BY <1>1, <1>4, <1>8, <2>1, <2>2
<1>9. CASE h = 7
  <2>0. h - 1 = 6
    BY <1>9
  <2>3. t \in {24, 26}
    BY <1>2, <1>9, LevelRows DEF Asking
  <2>1. t \in {24, 26} /\ b = yyss[6]
    BY <1>2, <1>3, <1>9, <2>0, <2>3
  <2>2. (t = 24 /\ b = 22) \/ (t = 26 /\ b = 23)
    BY <1>3, <2>3, AskingBelow
  <2> QED BY <1>1, <1>4, <1>9, <2>1, <2>2
<1>10. CASE h = 8
  <2>0. h - 1 = 7
    BY <1>10
  <2>3. t \in {28, 30, 31}
    BY <1>2, <1>10, LevelRows DEF Asking
  <2>1. t \in {28, 30, 31} /\ b = yyss[7] /\ t = yyss[8]
    BY <1>2, <1>3, <1>10, <2>0, <2>3
  <2>2. (t \in {28, 30} /\ b \in {24, 32}) \/ (t = 31 /\ b = 26)
    BY <1>3, <2>3, AskingBelow
  <2> QED BY <1>1, <1>4, <1>10, <2>1, <2>2
<1>11. CASE h = 9
  <2>0. h - 1 = 8
    BY <1>11
  <2>3. t \in {32, 40}
    BY <1>2, <1>11, LevelRows DEF Asking
  <2>1. t \in {32, 40} /\ b = yyss[8]
    BY <1>2, <1>3, <1>11, <2>0, <2>3
  <2>2. (t = 32 /\ b = 28) \/ (t = 40 /\ b = 30)
    BY <1>3, <2>3, AskingBelow
  <2> QED BY <1>1, <1>4, <1>11, <2>1, <2>2
<1>12. CASE h = 10
  <2>0. h - 1 = 9
    BY <1>12
  <2>3. t = 30
    BY <1>2, <1>12, LevelRows DEF Asking
  <2>1. t = 30 /\ b = yyss[9]
    BY <1>3, <2>0, <2>3
  <2>2. b \in {24, 32}
    BY <1>3, <2>3, AskingBelow
  <2> QED BY <1>1, <1>4, <1>12, <2>1, <2>2
<1>13. CASE h = 11
  <2>1. t = 40
    BY <1>2, <1>13, LevelRows DEF Asking
  <2> QED BY <1>1, <1>4, <1>13, <2>1
<1>14. h # 12
  BY <1>2, LevelRows DEF Asking
<1> QED BY <1>2, <1>5, <1>6, <1>7, <1>8, <1>9, <1>10, <1>11, <1>12, <1>13, <1>14

LEMMA ExpectedRows ==
  /\ Expected(1) = {"$end", "SELECT", "LOAD", "QUIT", "LF"} /\ Expected(3) = {"LF"}
  /\ Expected(4) = {"ID", "STAR", "COUNT"} /\ Expected(5) = {"ID"} /\ Expected(20) = {"ID"}
  /\ Expected(24) = {"ID"} /\ Expected(32) = {"ID"} /\ Expected(16) = {"FROM"}
  /\ Expected(19) = {"FROM"} /\ Expected(21) = {"STRING"} /\ Expected(22) = {"WHERE", "LF"}
  /\ Expected(23) = {"WITH", "LF"} /\ Expected(26) = {"INDEX"} /\ Expected(28) = {"AND", "LF"}
  /\ Expected(30) = Comparators /\ Expected(40) = {"INTEGER", "STRING"} /\ Expected(31) = {"LF"}
BY DEF Expected

LEMMA SelectRows ==
  /\ SelectSymbols(1) = {"SELECT"} /\ SelectSymbols(2) = {"ID", "STAR", "COUNT"}
  /\ SelectSymbols(3) = {"FROM"} /\ SelectSymbols(4) = {"ID"}
  /\ SelectSymbols(5) = {"LF", "WHERE"}
  /\ \A m \in Nat : m >= 1 => /\ SelectSymbols(4 * m + 2) = {"ID"}
                              /\ SelectSymbols(4 * m + 3) = Comparators
                              /\ SelectSymbols(4 * m + 4) = {"INTEGER", "STRING"}
                              /\ SelectSymbols(4 * m + 5) = {"LF", "AND"}
<1>1. /\ SelectSymbols(1) = {"SELECT"} /\ SelectSymbols(2) = {"ID", "STAR", "COUNT"}
      /\ SelectSymbols(3) = {"FROM"} /\ SelectSymbols(4) = {"ID"}
      /\ SelectSymbols(5) = {"LF", "WHERE"}
  BY DEF SelectSymbols
<1>2. ASSUME NEW m \in Nat, m >= 1
      PROVE  /\ SelectSymbols(4 * m + 2) = {"ID"}
             /\ SelectSymbols(4 * m + 3) = Comparators
             /\ SelectSymbols(4 * m + 4) = {"INTEGER", "STRING"}
             /\ SelectSymbols(4 * m + 5) = {"LF", "AND"}
  <2>1. ASSUME NEW i \in Int, i = 4 * m + 2
        PROVE  SelectSymbols(i) = {"ID"}
    <3>1. i > 5 /\ i % 4 = 2
      BY <1>2, <2>1
    <3> QED BY <3>1 DEF SelectSymbols
  <2>2. ASSUME NEW i \in Int, i = 4 * m + 3
        PROVE  SelectSymbols(i) = Comparators
    <3>1. i > 5 /\ i % 4 = 3
      BY <1>2, <2>2
    <3> QED BY <3>1 DEF SelectSymbols
  <2>3. ASSUME NEW i \in Int, i = 4 * m + 4
        PROVE  SelectSymbols(i) = {"INTEGER", "STRING"}
    <3>1. i > 5 /\ i % 4 = 0
      BY <1>2, <2>3
    <3> QED BY <3>1 DEF SelectSymbols
  <2>4. ASSUME NEW i \in Int, i = 4 * m + 5
        PROVE  SelectSymbols(i) = {"LF", "AND"}
    <3>1. i > 5 /\ i % 4 = 1
      BY <1>2, <2>4
    <3> QED BY <3>1 DEF SelectSymbols
  <2>5. 4 * m + 2 \in Int /\ 4 * m + 3 \in Int /\ 4 * m + 4 \in Int /\ 4 * m + 5 \in Int
    OBVIOUS
  <2> QED BY <2>1, <2>2, <2>3, <2>4, <2>5
<1> QED BY <1>1, <1>2

LEMMA LoadRows ==
  /\ LoadSymbols(1) = {"LOAD"} /\ LoadSymbols(2) = {"ID"} /\ LoadSymbols(3) = {"FROM"}
  /\ LoadSymbols(4) = {"STRING"} /\ LoadSymbols(5) = {"LF", "WITH"} /\ LoadSymbols(6) = {"INDEX"}
  /\ LoadSymbols(7) = {"LF"}
BY DEF LoadSymbols

LEMMA NextSelect ==
  ASSUME StackInv, TypeInv, HeapIsOwned, StackStands, Top \in Asking, Height >= 3, yyss[3] = 4
  PROVE  SelectSymbols(Taken + 1) = Expected(Top) /\ Taken \in Nat
<1>1. PICK h \in 3 .. 12 : h = Height
  BY DEF StackInv
<1>2. yyss[8] = 28 /\ h >= 8 => Listed \in Nat /\ Listed >= 1
  <2> SUFFICES ASSUME yyss[8] = 28, h >= 8
               PROVE  Listed \in Nat /\ Listed >= 1
    OBVIOUS
  <2>1. 8 \in 3 .. Height /\ Height >= 8
    BY <1>1
  <2>2. Stands(heap, line, 31, yyvs[8], Place(8))
    BY <2>1, SymbolRows DEF StackStands
  <2>3. CondsIn(heap, yyvs[8]) # <<>>
    BY <2>2 DEF Stands
  <2> QED BY <2>1, <2>3, ListIs
<1>3. h \in 1 .. 13 /\ Place(h) \in Nat
  BY <1>1, PlaceIs
<1>4. Top # 28 => Taken = Place(h)
  BY <1>1, <1>3, TakenIs DEF Asking
<1>5. CASE h <= 7
  <2>1. Taken = h - 2
    <3>1. Top # 28
      BY <1>1, <1>5, AskingShape
    <3> QED BY <1>3, <1>4, <1>5, <3>1, PlaceIs
  <2>2. /\ h = 3 => Top = 4
        /\ h = 4 => Top = 16
        /\ h = 5 => Top = 20
        /\ h = 6 => Top = 22
        /\ h = 7 => Top = 24
    BY <1>1, AskingShape
  <2>3. SelectSymbols(6) = {"ID"}
    <3>1. 4 * 1 + 2 = 6
      OBVIOUS
    <3> QED BY <3>1, SelectRows
  <2>4. h = 3 \/ h = 4 \/ h = 5 \/ h = 6 \/ h = 7
    BY <1>5
  <2>5. Taken \in Nat
    BY <2>1, <2>4
  <2>6. CASE h = 3
    <3>1. Taken + 1 = 2 /\ Top = 4
      BY <2>1, <2>2, <2>6
    <3> QED BY <2>5, <3>1, SelectRows, ExpectedRows
  <2>7. CASE h = 4
    <3>1. Taken + 1 = 3 /\ Top = 16
      BY <2>1, <2>2, <2>7
    <3> QED BY <2>5, <3>1, SelectRows, ExpectedRows
  <2>8. CASE h = 5
    <3>1. Taken + 1 = 4 /\ Top = 20
      BY <2>1, <2>2, <2>8
    <3> QED BY <2>5, <3>1, SelectRows, ExpectedRows
  <2>9. CASE h = 6
    <3>1. Taken + 1 = 5 /\ Top = 22
      BY <2>1, <2>2, <2>9
    <3> QED BY <2>5, <3>1, SelectRows, ExpectedRows
  <2>10. CASE h = 7
    <3>1. Taken + 1 = 6 /\ Top = 24
      BY <2>1, <2>2, <2>10
    <3> QED BY <2>3, <2>5, <3>1, ExpectedRows
  <2> QED BY <2>4, <2>6, <2>7, <2>8, <2>9, <2>10
<1>6. CASE Top = 28
  <2>1. h = 8 /\ yyss[8] = 28
    BY <1>1, <1>6, AskingShape
  <2>2. Taken = 4 * Listed + 4 /\ Listed \in Nat /\ Listed >= 1
    BY <1>1, <1>2, <1>6, <2>1, TakenIs
  <2>3. PICK m \in Nat : m = Listed
    BY <2>2
  <2>4. SelectSymbols(4 * m + 5) = {"LF", "AND"} /\ Taken + 1 = 4 * m + 5
    BY <2>2, <2>3, SelectRows
  <2> QED BY <1>6, <2>2, <2>4, ExpectedRows
<1>7. CASE Top = 30 /\ h = 8
  <2>1. Taken = 6
    BY <1>3, <1>4, <1>7, PlaceIs
  <2>2. 4 * 1 + 3 = 7 /\ 6 + 1 = 7
    OBVIOUS
  <2>3. SelectSymbols(7) = Comparators
    BY <2>2, SelectRows
  <2> QED BY <1>7, <2>1, <2>2, <2>3, ExpectedRows
<1>8. CASE Top = 40 /\ h = 9
  <2>0. yyss[8] = 30
    BY <1>1, <1>8, AskingShape
  <2>1. Taken = 7
    BY <1>3, <1>4, <1>8, <2>0, PlaceIs
  <2>2. 4 * 1 + 4 = 8 /\ 7 + 1 = 8
    OBVIOUS
  <2>3. SelectSymbols(8) = {"INTEGER", "STRING"}
    BY <2>2, SelectRows
  <2> QED BY <1>8, <2>1, <2>2, <2>3, ExpectedRows
<1>9. CASE (Top = 32 /\ h = 9) \/ h = 10 \/ h = 11
  <2>0. yyss[8] = 28 /\ Top # 28 /\ (h = 9 => Top = 32) /\ (h = 10 => Top = 30) /\ (h = 11 => Top = 40)
    BY <1>1, <1>9, AskingShape
  <2>1. PICK m \in Nat : m = Listed /\ m >= 1
    BY <1>2, <1>9, <2>0
  <2>2. Taken = 4 * m + h - 4
    BY <1>3, <1>4, <1>9, <2>0, <2>1, PlaceIs
  <2>3. h = 9 => Taken + 1 = 4 * (m + 1) + 2
    BY <2>1, <2>2
  <2>4. h = 10 => Taken + 1 = 4 * (m + 1) + 3
    BY <2>1, <2>2
  <2>5. h = 11 => Taken + 1 = 4 * (m + 1) + 4
    BY <2>1, <2>2
  <2>6. Taken \in Nat /\ m + 1 \in Nat /\ m + 1 >= 1
    BY <1>9, <2>1, <2>2
  <2>7. PICK k \in Nat : k = m + 1 /\ k >= 1
    BY <2>6
  <2>8. CASE h = 9
    <3>1. Taken + 1 = 4 * k + 2 /\ Top = 32
      BY <2>0, <2>3, <2>7, <2>8
    <3>2. SelectSymbols(4 * k + 2) = {"ID"}
      BY <2>7, SelectRows
    <3> QED BY <2>6, <3>1, <3>2, ExpectedRows
  <2>9. CASE h = 10
    <3>1. Taken + 1 = 4 * k + 3 /\ Top = 30
      BY <2>0, <2>4, <2>7, <2>9
    <3>2. SelectSymbols(4 * k + 3) = Comparators
      BY <2>7, SelectRows
    <3> QED BY <2>6, <3>1, <3>2, ExpectedRows
  <2>10. CASE h = 11
    <3>1. Taken + 1 = 4 * k + 4 /\ Top = 40
      BY <2>0, <2>5, <2>7, <2>10
    <3>2. SelectSymbols(4 * k + 4) = {"INTEGER", "STRING"}
      BY <2>7, SelectRows
    <3> QED BY <2>6, <3>1, <3>2, ExpectedRows
  <2> QED BY <1>9, <2>8, <2>9, <2>10
<1>10. h \in 3 .. 7 \/ (h = 8 /\ (Top = 28 \/ Top = 30)) \/ (h = 9 /\ (Top = 32 \/ Top = 40))
       \/ h = 10 \/ h = 11
  BY <1>1, AskingShape
<1> QED BY <1>5, <1>6, <1>7, <1>8, <1>9, <1>10

LEMMA NextLoad ==
  ASSUME StackInv, TypeInv, HeapIsOwned, Top \in Asking, Height >= 3, yyss[3] = 5
  PROVE  LoadSymbols(Taken + 1) = Expected(Top) /\ Taken \in Nat
<1>1. PICK h \in 3 .. 12 : h = Height
  BY DEF StackInv
<1>2. /\ h = 3 \/ h = 4 \/ h = 5 \/ h = 6 \/ h = 7 \/ h = 8
      /\ h = 3 => Top = 5
      /\ h = 4 => Top = 19
      /\ h = 5 => Top = 21
      /\ h = 6 => Top = 23
      /\ h = 7 => Top = 26
      /\ h = 8 => Top = 31
  BY <1>1, AskingShape
<1>3. Place(h) = h - 2 /\ h \in 1 .. 13
  BY <1>2, PlaceIs
<1>4. Taken = h - 2
  BY <1>1, <1>2, <1>3, TakenIs
<1>5. Taken \in Nat
  BY <1>2, <1>4
<1>6. /\ h = 3 => Taken + 1 = 2
      /\ h = 4 => Taken + 1 = 3
      /\ h = 5 => Taken + 1 = 4
      /\ h = 6 => Taken + 1 = 5
      /\ h = 7 => Taken + 1 = 6
      /\ h = 8 => Taken + 1 = 7
  BY <1>4
<1>7. PICK t, n : t = Top /\ n = Taken + 1
  OBVIOUS
<1>8. LoadSymbols(n) = Expected(t)
  <2>1. \/ n = 2 /\ t = 5
        \/ n = 3 /\ t = 19
        \/ n = 4 /\ t = 21
        \/ n = 5 /\ t = 23
        \/ n = 6 /\ t = 26
        \/ n = 7 /\ t = 31
    BY <1>2, <1>6, <1>7
  <2> QED BY <2>1, LoadRows, ExpectedRows
<1> QED BY <1>5, <1>7, <1>8

LEMMA LineOf ==
  ASSUME NEW l \in Seq(Tokens), NEW n, n = Len(l)
  PROVE  /\ n \in Nat /\ DOMAIN l = 1 .. n /\ (l # <<>> <=> n # 0)
         /\ n # 0 => Last(l) = l[n] /\ (Ended(l) <=> l[n].sym = "LF")
         /\ Ended(l) => n # 0
<1>1. n \in Nat /\ DOMAIN l = 1 .. n
  OBVIOUS
<1>2. l = <<>> <=> n = 0
  BY EmptySeq
<1>3. Last(l) = l[n]
  BY DEF Last
<1>4. Ended(l) <=> l # <<>> /\ l[n].sym = "LF"
  BY <1>3 DEF Ended
<1> QED BY <1>1, <1>2, <1>3, <1>4

LEMMA LineIs ==
  ASSUME TypeInv
  PROVE  /\ line \in Seq(Tokens) /\ Typed \in Nat /\ DOMAIN line = 1 .. Typed
         /\ line # <<>> <=> Typed # 0
         /\ Typed # 0 => (Ended(line) <=> line[Typed].sym = "LF")
         /\ Ended(line) => Typed # 0
BY LineOf DEF TypeInv, Typed

LEMMA TokenAdded ==
  ASSUME NEW l \in Seq(Tokens), NEW tok \in Tokens, NEW n \in Nat, n = Len(l)
  PROVE  LET k == Append(l, tok)
         IN /\ k \in Seq(Tokens) /\ Len(k) = n + 1 /\ DOMAIN k = 1 .. n + 1 /\ DOMAIN l = 1 .. n
            /\ k[n + 1] = tok /\ \A i \in 1 .. n : k[i] = l[i]
            /\ Extends(l, k)
<1>1. PICK k : k = Append(l, tok)
  OBVIOUS
<1>2. k \in Seq(Tokens) /\ Len(k) = n + 1 /\ k[n + 1] = tok /\ \A i \in 1 .. n : k[i] = l[i]
  BY <1>1
<1>3. PICK m : m = Len(k)
  OBVIOUS
<1>4. DOMAIN k = 1 .. m /\ DOMAIN l = 1 .. n
  BY <1>2, <1>3
<1>5. DOMAIN k = 1 .. n + 1
  <2>1. m = n + 1
    BY <1>2, <1>3
  <2> QED BY <1>4, <2>1
<1>6. Extends(l, k)
  <2>1. \A i \in 1 .. n : k[i] = l[i]
    BY <1>2
  <2>2. \A i \in 1 .. n : i \in 1 .. n + 1
    OBVIOUS
  <2> QED BY <1>4, <1>5, <2>1, <2>2 DEF Extends
<1> QED BY <1>1, <1>2, <1>4, <1>5, <1>6

LEMMA TokenAlone ==
  ASSUME NEW tok \in Tokens
  PROVE  /\ <<tok>> \in Seq(Tokens) /\ Len(<<tok>>) = 1 /\ DOMAIN <<tok>> = {1} /\ <<tok>>[1] = tok
         /\ <<tok>> # <<>>
OBVIOUS

(* A line that begins like a SELECT or a LOAD goes on like one. *)
LEMMA GoesOn ==
  ASSUME NEW l \in Seq(Tokens), NEW tok \in Tokens, NEW n \in Nat, n = Len(l), n >= 1
  PROVE  /\ l[1].sym = "SELECT" /\ SelectFits(l) =>
              /\ Viable(Append(l, tok)) <=> tok.sym \in SelectSymbols(n + 1)
              /\ tok.sym \in SelectSymbols(n + 1) => SelectFits(Append(l, tok))
         /\ l[1].sym = "LOAD" /\ LoadFits(l) =>
              /\ Viable(Append(l, tok)) <=> tok.sym \in LoadSymbols(n + 1)
              /\ tok.sym \in LoadSymbols(n + 1) => LoadFits(Append(l, tok))
<1>1. PICK k : k = Append(l, tok)
  OBVIOUS
<1>2. /\ DOMAIN k = 1 .. n + 1 /\ DOMAIN l = 1 .. n
      /\ k[n + 1] = tok /\ \A i \in 1 .. n : k[i] = l[i]
  BY <1>1, TokenAdded
<1>3. Viable(k) <=> \/ SelectFits(k) \/ LoadFits(k)
                    \/ \A i \in DOMAIN k : k[i].sym \in ShortSymbols(i)
  BY DEF Viable, Fits, SelectFits, LoadFits
<1>4. SelectFits(k) <=> SelectFits(l) /\ tok.sym \in SelectSymbols(n + 1)
  <2>1. \A i : i \in 1 .. n + 1 <=> i \in 1 .. n \/ i = n + 1
    OBVIOUS
  <2> QED BY <1>2, <2>1 DEF SelectFits
<1>5. LoadFits(k) <=> LoadFits(l) /\ tok.sym \in LoadSymbols(n + 1)
  <2>1. \A i : i \in 1 .. n + 1 <=> i \in 1 .. n \/ i = n + 1
    OBVIOUS
  <2> QED BY <1>2, <2>1 DEF LoadFits
<1>6. 1 \in DOMAIN k /\ 1 \in DOMAIN l /\ k[1] = l[1]
  BY <1>2
<1>7. l[1].sym = "SELECT" => /\ ~LoadFits(k)
                             /\ ~\A i \in DOMAIN k : k[i].sym \in ShortSymbols(i)
  BY <1>6, LoadRows DEF LoadFits, ShortSymbols
<1>8. l[1].sym = "LOAD" => /\ ~SelectFits(k)
                           /\ ~\A i \in DOMAIN k : k[i].sym \in ShortSymbols(i)
  BY <1>6, SelectRows DEF SelectFits, ShortSymbols
<1> QED BY <1>1, <1>3, <1>4, <1>5, <1>7, <1>8

LEMMA BeginsWell ==
  ASSUME NEW tok \in Tokens
  PROVE  /\ Viable(<<tok>>) <=> tok.sym \in Expected(1)
         /\ tok.sym = "SELECT" => SelectFits(<<tok>>)
         /\ tok.sym = "LOAD" => LoadFits(<<tok>>)
<1>1. PICK k : k = <<tok>>
  OBVIOUS
<1>2. DOMAIN k = {1} /\ k[1] = tok
  BY <1>1, TokenAlone
<1>3. Viable(k) <=> \/ SelectFits(k) \/ LoadFits(k)
                    \/ \A i \in DOMAIN k : k[i].sym \in ShortSymbols(i)
  BY DEF Viable, Fits, SelectFits, LoadFits
<1>4. SelectFits(k) <=> tok.sym = "SELECT"
  BY <1>2, SelectRows DEF SelectFits
<1>5. LoadFits(k) <=> tok.sym = "LOAD"
  BY <1>2, LoadRows DEF LoadFits
<1>6. (\A i \in DOMAIN k : k[i].sym \in ShortSymbols(i)) <=> tok.sym \in {"QUIT", "LF", "$end"}
  BY <1>2 DEF ShortSymbols
<1> QED BY <1>1, <1>3, <1>4, <1>5, <1>6, ExpectedRows

-----------------------------------------------------------------------------
(* What a reduction leaves alone *)
LEMMA ReduceHolds ==
  ASSUME StackInv, TypeInv, NEW n \in 0 .. 29, n # 9, NEW value \in Vals, Reduce(n, value),
         NEW keep, keep = Height - PoppedBy(n), Keeps(keep)
  PROVE  /\ keep \in 1 .. 11 /\ keep <= Height /\ Height \in 1 .. 12 /\ Holds(keep)
         /\ Height' = keep + 1 /\ yyss'[keep + 1] = Top' /\ yyvs'[keep + 1] = value
         /\ StackInv' /\ yychar = YYEMPTY /\ yychar' = YYEMPTY
         /\ line' = line /\ wrongAt' = wrongAt /\ excused' = excused /\ yyerrstatus' = yyerrstatus
         /\ Extends(line, line')
<1>1. /\ keep \in 1 .. 11 /\ keep <= Height /\ Height \in 1 .. 12 /\ Height' = keep + 1
      /\ yychar = YYEMPTY /\ ValueAt(keep + 1)' = value
      /\ \A k \in 1 .. keep : SymbolAt(k)' = SymbolAt(k) /\ ValueAt(k)' = ValueAt(k)
  BY ReduceFrame
<1>2. /\ yyss'[keep + 1] = Top' /\ \A i \in 1 .. keep : yyss'[i] = yyss[i]
      /\ StackInv' /\ yychar' = YYEMPTY
  BY ReduceStack
<1>3. /\ \A k \in 1 .. Height : ValueAt(k) = yyvs[k]
      /\ \A k \in 1 .. Height' : ValueAt(k)' = yyvs'[k]
  BY <1>2, OwnersAre
<1>4. /\ line' = line /\ wrongAt' = wrongAt /\ excused' = excused /\ yyerrstatus' = yyerrstatus
  BY DEF Reduce
<1>5. keep + 1 \in 1 .. Height' /\ \A k \in 1 .. keep : k \in 1 .. Height /\ k \in 1 .. Height'
  BY <1>1
<1>6. yyvs'[keep + 1] = value
  BY <1>1, <1>3, <1>5
<1>7. Holds(keep)
  BY <1>1, <1>2, <1>3, <1>5 DEF Holds, Keeps
<1>8. Extends(line, line')
  BY <1>4 DEF Extends
<1> QED BY <1>1, <1>2, <1>4, <1>6, <1>7, <1>8

(* A reduction within a line *)
LEMMA ReduceLine ==
  ASSUME TypeInv, LineInv, Height >= 3, Height' >= 3, yyss[3] \in {4, 5}, yyss'[3] = yyss[3],
         yychar = YYEMPTY, yychar' = YYEMPTY,
         line' = line, wrongAt' = wrongAt, excused' = excused, yyerrstatus' = yyerrstatus,
         out' = out \/ out' = Append(out, WrongName), Height \in Nat, Height' \in Nat,
         Top' \notin {8, 10, 11}, Top \notin AtEnd, Top' \notin AtEnd,
         Taken' = Taken, StackStands => StackStands'
  PROVE  LineInv'
<1>1. UnderWay /\ UnderWay' /\ ~Idle' /\ ~Done' /\ ~InError'
  BY DEF UnderWay, Idle, Done, InError
<1>2. /\ NoCall /\ NoPrompt /\ wrongAt = 0 /\ Spotless /\ IsSeq(out)
      /\ yyerrstatus # 0 => yyerrstatus + Taken <= 2
  BY <1>1 DEF LineInv, UnderWayInv, Spotted
<1>3. NoCall' /\ NoPrompt' /\ NoError' /\ IsSeq(out')
  <2>0. NoError
    BY <1>2 DEF Spotless
  <2>1. CASE out' = out
    BY <1>2, <2>0, <2>1 DEF NoCall, NoPrompt, NoError
  <2>2. CASE out' = Append(out, WrongName)
    BY <1>2, <2>0, <2>2, OutGrows, Messages
  <2> QED BY <2>1, <2>2
<1>4. Typed' = Typed /\ line'[Typed'] = line[Typed]
  BY DEF Typed
<1>5. LineFits'
  BY <1>2 DEF Spotless, LineFits
<1>6. Spotless'
  BY <1>2, <1>3, <1>4, <1>5 DEF Spotless
<1>7. UnderWayInv'
  BY <1>2, <1>3, <1>6 DEF UnderWayInv
<1>8. ParsedInv' /\ ErrorInv'
  BY <1>1 DEF ParsedInv, ErrorInv
<1> QED BY <1>3, <1>7, <1>8 DEF LineInv

LEMMA NewStands ==
  ASSUME NEW h, NEW l, NEW n \in 33 .. 37, NEW v, NEW p \in DOMAIN l,
         n \in {33, 34} => Known(v) = AttributeOf(l[p]),
         n \in {35, 36} => TextIn(h, v) = l[p].text,
         n = 37 => v = ComparatorOf(l[p].sym)
  PROVE  Stands(h, l, n, v, p)
<1>1. n # 32 /\ n # 31 /\ n \notin 0 .. 24 /\ n \notin {16, 17, 18}
  OBVIOUS
<1> QED BY Zenon, <1>1 DEF Stands

(* A rule with one symbol on its right-hand side *)
LEMMA OneSymbolLine ==
  ASSUME OwnInv, LineInv, NEW n \in 17 .. 29, NEW value \in Vals, Reduce(n, value),
         NEW keep, keep = Height - PoppedBy(n), Keeps(keep),
         out' = out \/ out' = Append(out, WrongName),
         NEW m, m = yystos[Top], NEW v, v = yyvs[Height], NEW p, p = Place(Height),
         Stands(heap, line, m, v, p) => Stands(heap', line, yystos[Top'], value, p)
  PROVE  LineInv'
<1>0. StackInv /\ TypeInv /\ HeapIsOwned /\ n \in 0 .. 29 /\ n # 9 /\ n \in 2 .. 29
  BY DEF OwnInv
<1>1. /\ keep \in 1 .. 11 /\ keep <= Height /\ Height \in 1 .. 12 /\ Holds(keep)
      /\ Height' = keep + 1 /\ yyss'[keep + 1] = Top' /\ yyvs'[keep + 1] = value
      /\ StackInv' /\ yychar = YYEMPTY /\ yychar' = YYEMPTY
      /\ line' = line /\ wrongAt' = wrongAt /\ excused' = excused /\ yyerrstatus' = yyerrstatus
      /\ Extends(line, line')
  BY <1>0, ReduceHolds
<1>2. RuleIs(n, Top, Height, keep) /\ BaseIs(n, keep, yyss[keep], Top')
  BY <1>0, ReduceTop
<1>3. Top \notin {28, 29, 42} \cup AtEnd \cup {3, 12} /\ Height >= 4 /\ keep = Height - 1
  <2>1. Height >= 4 /\ keep = Height - 1
    BY <1>0, <1>2 DEF RuleIs
  <2>2. Top \in {13, 14, 15, 17, 18, 43, 44} \cup 34 .. 39
    BY <1>0, <1>2 DEF RuleIs
  <2> QED BY <2>1, <2>2 DEF AtEnd
<1>4. Top' \notin {28, 29, 42} \cup AtEnd \cup {8, 10, 11}
  <2>1. Top' \in {16, 17, 30, 45, 19, 22, 40}
    BY <1>0, <1>2 DEF BaseIs
  <2> QED BY <2>1 DEF AtEnd
<1>5. PICK h \in 4 .. 12 : h = Height /\ keep = h - 1 /\ Height' = h
  BY <1>1, <1>3
<1>6. Taken' = Taken /\ Place(h)' = Place(h)
  <2>1. Holds(h - 1) /\ h \in 3 .. 12
    BY <1>1, <1>5
  <2> QED BY <1>0, <1>3, <1>4, <1>5, <2>1, OneTaken
<1>7. yyss[3] \in {4, 5}
  <2>1. ~InError /\ UnderWay
    <3>1. ~Idle /\ ~Done /\ ~InError
      BY <1>0, <1>3, <1>5, Phases DEF Idle, Done
    <3> QED BY <1>0, <3>1, Phases
  <2>2. CASE h = 4
    <3>1. yyss[Height - 1] \in Below(Top)
      BY <1>0, <1>5, UnderTop
    <3>2. Height - 1 = 3 /\ n \in {17, 18, 19, 20, 23}
      BY <1>2, <1>5, <2>2 DEF RuleIs
    <3>4. Top \in {17, 14, 13, 15, 18}
      BY <1>2, <3>2 DEF RuleIs
    <3>5. yyss[3] \in {4, 5, 24, 32, 20}
      <4>1. PICK t, b : t = Top /\ b = yyss[3]
        OBVIOUS
      <4>2. t \in {17, 14, 13, 15, 18} /\ b \in Below(t)
        BY <3>1, <3>2, <3>4, <4>1
      <4>3. Below(17) = {4} /\ Below(14) = {4} /\ Below(13) = {4} /\ Below(15) = {4, 24, 32}
            /\ Below(18) = {5, 20}
        BY DEF Below
      <4>4. b \in {4, 5, 24, 32, 20}
        BY <4>2, <4>3
      <4> QED BY <4>1, <4>4
    <3>6. yyss[3] \in Level(3)
      BY <1>0, <1>1, <1>5 DEF StackInv
    <3> QED BY <3>5, <3>6, LevelRows
  <2>3. CASE h >= 5
    BY <1>0, <1>5, <2>3, Shape
  <2> QED BY <2>2, <2>3
<1>8. yyss'[3] = yyss[3]
  BY <1>1, <1>5 DEF Holds
<1>9. ASSUME StackStands
      PROVE  StackStands'
  <2>1. h \in 3 .. Height /\ Top = yyss[h]
    BY <1>0, <1>5, TopIs
  <2>2. Stands(heap, line, m, v, p)
    BY <1>5, <1>9, <2>1 DEF StackStands
  <2>3. Stands(heap', line', yystos[Top'], value, p)
    BY <1>1, <2>2
  <2>4. Place(keep + 1)' = p
    <3>1. keep + 1 = h
      BY <1>5
    <3> QED BY <1>5, <1>6, <3>1
  <2>5. Stands(heap', line', yystos[yyss'[keep + 1]], yyvs'[keep + 1], Place(keep + 1)')
    BY <1>1, <2>3, <2>4
  <2>6. keep \in 1 .. 12
    BY <1>1
  <2> QED BY <1>0, <1>1, <1>9, <2>5, <2>6, StackStandsOn
<1>10. Height \in Nat /\ Height' \in Nat /\ Height >= 3 /\ Height' >= 3
  BY <1>5
<1>11. Top' \notin {8, 10, 11} /\ Top \notin AtEnd /\ Top' \notin AtEnd
  BY <1>3, <1>4
<1> QED BY <1>0, <1>1, <1>6, <1>7, <1>8, <1>9, <1>10, <1>11, ReduceLine

LEMMA AttributeStands ==
  ASSUME NEW h, NEW l, NEW n \in {33, 34}, NEW v, NEW p \in DOMAIN l,
         Known(v) = AttributeOf(l[p])
  PROVE  Stands(h, l, n, v, p)
BY NewStands

-----------------------------------------------------------------------------
(* attributes, value, table *)
LEMMA PassLine ==
  ASSUME OwnInv, LineInv, NEW n \in {17, 21, 22, 23}, ReduceOnly(n)
  PROVE  LineInv'
<1>0. StackInv /\ TypeInv /\ HeapIsOwned /\ n \in 0 .. 29 /\ n # 9 /\ n \in 2 .. 29
      /\ n \in 17 .. 29
  BY DEF OwnInv
<1>1. Reduce(n, DefaultValue(n)) /\ heap' = heap /\ out' = out
  BY DEF ReduceOnly
<1>2. PICK keep : keep = Height - PoppedBy(n)
  OBVIOUS
<1>3. Keeps(keep) /\ DefaultValue(n) \in Vals
  BY <1>0, <1>1, <1>2, OnlyOwned, DefaultIs
<1>4. /\ RuleIs(n, Top, Height, keep) /\ BaseIs(n, keep, yyss[keep], Top')
      /\ keep \in 1 .. 11 /\ keep <= Height /\ Height \in 1 .. 12
  BY <1>0, <1>1, <1>2, ReduceTop
<1>5. keep + 1 = Height
  BY <1>0, <1>4 DEF RuleIs
<1>6. DefaultValue(n) = yyvs[Height]
  <2>1. Dollar(n, 1) = yyvs[keep + 1]
    BY <1>0, <1>2, <1>4, DollarIs
  <2>2. yyr2[n] # 0
    BY <1>0, RuleLengths
  <2> QED BY <1>5, <2>1, <2>2 DEF DefaultValue
<1>7. PICK m, v, p : m = yystos[Top] /\ v = yyvs[Height] /\ p = Place(Height)
  OBVIOUS
<1>8. n # 6
  OBVIOUS
<1>9. CASE n = 17
  <2>1. Top = 17 /\ yystos[Top'] = 33
    BY <1>0, <1>4, <1>8, <1>9, NewTop DEF RuleIs
  <2>2. m = 34
    BY <1>7, <2>1, SymbolRows
  <2>3. Stands(heap, line, m, v, p) => p \in DOMAIN line /\ Known(v) = AttributeOf(line[p])
    BY <2>2 DEF Stands
  <2>4. Stands(heap, line, m, v, p) => Stands(heap', line, yystos[Top'], v, p)
    BY <2>1, <2>3, AttributeStands
  <2> QED BY <1>0, <1>1, <1>2, <1>3, <1>6, <1>7, <2>4, OneSymbolLine
<1>10. CASE n \in {21, 22, 23}
  <2>1. Top \in {43, 44, 18} /\ yystos[Top'] \in {35, 36}
    BY <1>0, <1>4, <1>8, <1>10, NewTop DEF RuleIs
  <2>2. m \in {16, 17, 18}
    BY <1>7, <2>1, SymbolRows
  <2>3. Stands(heap, line, m, v, p) => p \in DOMAIN line /\ TextIn(heap, v) = line[p].text
    BY <2>2 DEF Stands
  <2>4. Stands(heap, line, m, v, p) => Stands(heap', line, yystos[Top'], v, p)
    BY <1>1, <2>1, <2>3, NewStands
  <2> QED BY <1>0, <1>1, <1>2, <1>3, <1>6, <1>7, <2>4, OneSymbolLine
<1> QED BY <1>9, <1>10

LEMMA AttributesAre ==
  /\ Known(1) = 1 /\ Known(2) = 2 /\ Known(3) = 3 /\ Known(4) = 4
  /\ \A b \in Blocks : Known(b) = 0
  /\ \A tok : tok.sym = "STAR" => AttributeOf(tok) = 3
  /\ \A tok : tok.sym = "COUNT" => AttributeOf(tok) = 4
  /\ \A tok : tok.sym = "ID" => AttributeOf(tok) = IF tok.text = "key" THEN 1
                                                   ELSE IF tok.text = "value" THEN 2 ELSE 0
<1>1. 1 \notin Blocks /\ 2 \notin Blocks /\ 3 \notin Blocks /\ 4 \notin Blocks
  BY ParserAssumption
<1>2. Known(1) = 1 /\ Known(2) = 2 /\ Known(3) = 3 /\ Known(4) = 4
  BY <1>1 DEF Known
<1>3. \A b \in Blocks : Known(b) = 0
  BY DEF Known
<1> QED BY <1>2, <1>3 DEF AttributeOf

(* attributes: all, and their number *)
LEMMA StarLine ==
  ASSUME OwnInv, LineInv, NEW n \in {18, 19}, ReduceStar(n)
  PROVE  LineInv'
<1>0. StackInv /\ TypeInv /\ HeapIsOwned /\ n \in 0 .. 29 /\ n # 9 /\ n \in 2 .. 29
      /\ n \in 17 .. 29 /\ n # 6
  BY DEF OwnInv
<1>a. PICK x : x = IF n = 18 THEN 3 ELSE 4
  OBVIOUS
<1>1. Reduce(n, x) /\ heap' = heap /\ out' = out /\ x \in Vals
  BY <1>a DEF ReduceStar, Vals
<1>2. PICK keep : keep = Height - PoppedBy(n)
  OBVIOUS
<1>3. Keeps(keep)
  BY <1>0, <1>2, OtherOwned
<1>4. /\ RuleIs(n, Top, Height, keep) /\ BaseIs(n, keep, yyss[keep], Top')
      /\ keep \in 1 .. 11 /\ keep <= Height /\ Height \in 1 .. 12
  BY <1>0, <1>1, <1>2, ReduceTop
<1>5. PICK m, v, p : m = yystos[Top] /\ v = yyvs[Height] /\ p = Place(Height)
  OBVIOUS
<1>6. yystos[Top'] = 33
  BY <1>0, <1>4, NewTop
<1>7. (n = 18 => Top = 14) /\ (n = 19 => Top = 13)
  BY <1>4 DEF RuleIs
<1>8. (n = 18 => m = 14) /\ (n = 19 => m = 10)
  BY <1>5, <1>7, SymbolRows
<1>9. m \in 0 .. 24 /\ (n = 18 => yytname[m] = "STAR") /\ (n = 19 => yytname[m] = "COUNT")
  BY <1>8, SymbolNames
<1>10. Stands(heap, line, m, v, p) => p \in DOMAIN line /\ line[p].sym = yytname[m]
  BY <1>9 DEF Stands
<1>11. ASSUME Stands(heap, line, m, v, p)
       PROVE  Known(x) = AttributeOf(line[p])
  <2>1. PICK tok : tok = line[p]
    OBVIOUS
  <2>2. CASE n = 18
    BY <1>a, <1>9, <1>10, <1>11, <2>1, <2>2, AttributesAre
  <2>3. CASE n = 19
    BY <1>a, <1>9, <1>10, <1>11, <2>1, <2>3, AttributesAre
  <2> QED BY <2>2, <2>3
<1>12. Stands(heap, line, m, v, p) => Stands(heap', line, yystos[Top'], x, p)
  BY <1>6, <1>10, <1>11, AttributeStands
<1> QED BY <1>0, <1>1, <1>2, <1>3, <1>5, <1>12, OneSymbolLine

(* attribute: a name, with a message if it is neither of the two *)
LEMMA AttributeLine ==
  ASSUME OwnInv, LineInv, ReduceAttribute
  PROVE  LineInv'
<1>0. StackInv /\ TypeInv /\ HeapIsOwned /\ 20 \in 0 .. 29 /\ 20 # 9 /\ 20 \in 2 .. 29
      /\ 20 \in 17 .. 29 /\ 20 # 6
  BY DEF OwnInv
<1>1. PICK keep : keep = Height - PoppedBy(20)
  OBVIOUS
<1>2. /\ Keeps(keep) /\ Height = keep + 1 /\ Dollar(20, 1) = yyvs[Height]
      /\ StringIn(heap, yyvs[Height])
  BY <1>0, <1>1, AttributeOwned
<1>3. PICK m, v, p : m = yystos[Top] /\ v = yyvs[Height] /\ p = Place(Height)
  OBVIOUS
<1>4. v \in Blocks /\ heap[v].type = "string"
  BY <1>2, <1>3 DEF StringIn
<1>5. TextAt(Dollar(20, 1)) = TextIn(heap, v)
  BY <1>2, <1>3, <1>4 DEF TextAt, Has, TextIn
<1>6. DefaultValue(20) = v
  <2>1. yyr2[20] = 1
    BY <1>0, RuleLengths
  <2> QED BY <1>2, <1>3, <2>1 DEF DefaultValue
<1>7. PICK name : name = TextIn(heap, v)
  OBVIOUS
<1>8. PICK x : x = CASE name = "key" -> 1 [] name = "value" -> 2 [] OTHER -> v
  OBVIOUS
<1>9. Reduce(20, x) /\ (out' = out \/ out' = Append(out, WrongName))
  BY <1>5, <1>6, <1>7, <1>8 DEF ReduceAttribute
<1>10. x = IF name = "key" THEN 1 ELSE IF name = "value" THEN 2 ELSE v
  BY <1>8
<1>11. x \in Vals
  BY <1>4, <1>10 DEF Vals
<1>12. /\ RuleIs(20, Top, Height, keep) /\ BaseIs(20, keep, yyss[keep], Top')
       /\ keep \in 1 .. 11 /\ keep <= Height /\ Height \in 1 .. 12
  BY <1>0, <1>1, <1>9, ReduceTop
<1>13. yystos[Top'] = 34
  BY <1>0, <1>12, NewTop
<1>14. Top = 15
  BY <1>12 DEF RuleIs
<1>15. m = 18 /\ yytname[18] = "ID"
  BY <1>3, <1>14, SymbolRows, SymbolNames
<1>16. Stands(heap, line, m, v, p) =>
         p \in DOMAIN line /\ line[p].sym = "ID" /\ line[p].text = name
  BY <1>7, <1>15 DEF Stands
<1>17. Stands(heap, line, m, v, p) => Known(x) = AttributeOf(line[p])
  BY <1>4, <1>10, <1>16, AttributesAre
<1>18. Stands(heap, line, m, v, p) => Stands(heap', line, yystos[Top'], x, p)
  BY <1>13, <1>16, <1>17, AttributeStands
<1> QED BY <1>0, <1>1, <1>2, <1>3, <1>9, <1>11, <1>18, OneSymbolLine

(* comparator *)
LEMMA ComparatorRows ==
  /\ ComparatorOf("EQUAL") = 0 /\ ComparatorOf("NEQUAL") = 1 /\ ComparatorOf("LESS") = 2
  /\ ComparatorOf("GREATER") = 3 /\ ComparatorOf("LESSEQUAL") = 4
  /\ ComparatorOf("GREATEREQUAL") = 5
BY DEF ComparatorOf

LEMMA ComparatorLine ==
  ASSUME OwnInv, LineInv, NEW n \in 24 .. 29, ReduceComparator(n)
  PROVE  LineInv'
<1>0. StackInv /\ TypeInv /\ HeapIsOwned /\ n \in 0 .. 29 /\ n # 9 /\ n \in 2 .. 29
      /\ n \in 17 .. 29 /\ n # 6
  BY DEF OwnInv
<1>a. PICK x : x = n - 24
  OBVIOUS
<1>b. x = ComparatorOfRule[n]
  BY <1>a DEF ComparatorOfRule
<1>c. x \in Vals
  BY <1>a DEF Vals
<1>1. Reduce(n, x) /\ heap' = heap /\ out' = out
  BY <1>b DEF ReduceComparator
<1>2. PICK keep : keep = Height - PoppedBy(n)
  OBVIOUS
<1>3. Keeps(keep)
  BY <1>0, <1>2, OtherOwned
<1>4. /\ RuleIs(n, Top, Height, keep) /\ BaseIs(n, keep, yyss[keep], Top')
      /\ keep \in 1 .. 11 /\ keep <= Height /\ Height \in 1 .. 12
  BY <1>0, <1>1, <1>2, ReduceTop
<1>5. PICK m, v, p : m = yystos[Top] /\ v = yyvs[Height] /\ p = Place(Height)
  OBVIOUS
<1>6. yystos[Top'] = 37
  BY <1>0, <1>4, NewTop
<1>7. /\ n = 24 => Top = 34
      /\ n = 25 => Top = 35
      /\ n = 26 => Top = 36
      /\ n = 27 => Top = 38
      /\ n = 28 => Top = 37
      /\ n = 29 => Top = 39
  <2>1. Top \in 0 .. 45 /\ yydefact[Top] = n
    BY <1>0, <1>1, TopIs DEF Reduce, Reduces, States
  <2> QED BY <1>0, <2>1, RuleStates
<1>8. /\ n = 24 => yytname[m] = "EQUAL"
      /\ n = 25 => yytname[m] = "NEQUAL"
      /\ n = 26 => yytname[m] = "LESS"
      /\ n = 27 => yytname[m] = "GREATER"
      /\ n = 28 => yytname[m] = "LESSEQUAL"
      /\ n = 29 => yytname[m] = "GREATEREQUAL"
      /\ m \in 0 .. 24
  BY <1>5, <1>7, SymbolRows, SymbolNames
<1>10. Stands(heap, line, m, v, p) => p \in DOMAIN line /\ line[p].sym = yytname[m]
  BY <1>8 DEF Stands
<1>11. Stands(heap, line, m, v, p) => x = ComparatorOf(line[p].sym)
  BY <1>a, <1>8, <1>10, ComparatorRows
<1>12. Stands(heap, line, m, v, p) => Stands(heap', line, yystos[Top'], x, p)
  BY <1>6, <1>10, <1>11, NewStands
<1> QED BY <1>0, <1>1, <1>2, <1>3, <1>5, <1>12, <1>c, OneSymbolLine

-----------------------------------------------------------------------------
(* condition: its attribute, comparator and value are typed next to each   *)
(* other.                                                                  *)
LEMMA ConditionLine ==
  ASSUME OwnInv, LineInv, ~IsFiniteSet(Blocks), ReduceCondition
  PROVE  LineInv'
<1>0. StackInv /\ TypeInv /\ HeapIsOwned /\ 16 \in 0 .. 29 /\ 16 \in 2 .. 29 /\ 16 # 9 /\ 16 # 6
  BY DEF OwnInv
<1>1. PICK keep : keep = Height - PoppedBy(16)
  OBVIOUS
<1>2. PICK c, x : /\ c = Malloc(heap)
                  /\ x = [attr |-> yyvs[keep + 1], comp |-> yyvs[keep + 2],
                          value |-> yyvs[keep + 3]]
  OBVIOUS
<1>3. /\ Keeps(keep) /\ keep \in {7, 9} /\ Height = keep + 3
      /\ heap'[yyvs[keep + 3]] = heap[yyvs[keep + 3]]
      /\ c \in Blocks /\ Reduce(16, c) /\ heap'[c].cond = x
  BY <1>0, <1>1, <1>2, ConditionOwned
<1>4. c \in Vals /\ out' = out
  BY <1>3 DEF ReduceCondition, Vals
<1>5. /\ keep \in 1 .. 11 /\ keep <= Height /\ Height \in 1 .. 12 /\ Holds(keep)
      /\ Height' = keep + 1 /\ yyss'[keep + 1] = Top' /\ yyvs'[keep + 1] = c
      /\ StackInv' /\ yychar = YYEMPTY /\ yychar' = YYEMPTY
      /\ line' = line /\ wrongAt' = wrongAt /\ excused' = excused /\ yyerrstatus' = yyerrstatus
      /\ Extends(line, line')
  BY <1>0, <1>1, <1>3, <1>4, ReduceHolds
<1>6. RuleIs(16, Top, Height, keep) /\ BaseIs(16, keep, yyss[keep], Top')
  BY <1>0, <1>1, <1>3, ReduceTop
<1>7. Top = 45 /\ Top' \in {29, 42} /\ yystos[Top'] = 32
  <2>1. Top = 45 /\ Top' \in {29, 42}
    BY <1>6 DEF RuleIs, BaseIs
  <2>2. yystos[Top'] = 32
    BY <1>0, <1>5, <1>6, NewTop
  <2> QED BY <2>1, <2>2
<1>8. yyss[keep + 1] = 30 /\ yyss[keep + 2] = 40 /\ yyss[keep + 3] = 45
  BY <1>0, <1>5, <1>6, ConditionPopped
<1>9. PICK p : p = Place(keep + 1)
  OBVIOUS
<1>10. p \in Nat /\ Place(keep + 2) = p + 1 /\ Place(keep + 3) = p + 2
  <2>1. CASE keep = 7
    <3>1. yyss[8] # 28
      <4>1. keep + 1 = 8
        BY <2>1
      <4> QED BY <1>8, <4>1
    <3>2. Place(8) = 6 /\ Place(9) = 7 /\ Place(10) = 8
      BY <1>0, <3>1, PlaceIs
    <3>3. keep + 1 = 8 /\ keep + 2 = 9 /\ keep + 3 = 10
      BY <2>1
    <3> QED BY <1>9, <3>2, <3>3
  <2>2. CASE keep = 9
    <3>1. Height >= 8 /\ yyss[8] = 28
      BY <1>0, <1>3, <2>2, Shape
    <3>2. Listed \in Nat
      BY <1>0, <3>1, ListIs
    <3>3. Place(10) = 4 * Listed + 10 - 4 /\ Place(11) = 4 * Listed + 11 - 4
          /\ Place(12) = 4 * Listed + 12 - 4
      BY <1>0, <3>1, PlaceIs
    <3>4. keep + 1 = 10 /\ keep + 2 = 11 /\ keep + 3 = 12
      BY <2>2
    <3> QED BY <1>9, <3>2, <3>3, <3>4
  <2> QED BY <1>3, <2>1, <2>2
<1>11. Place(keep + 1)' = p
  <2>1. keep \in 1 .. 12 /\ keep + 1 \in Int /\ (keep + 1 <= 8 \/ keep >= 8)
    BY <1>3
  <2> QED BY <1>0, <1>5, <1>9, <2>1, PlaceKept
<1>12. Taken = p + 2 /\ Taken' = p + 2
  <2>1. Place(Height) = p + 2 /\ Place(Height) \in Int /\ Height >= 3
    BY <1>3, <1>10
  <2>2. Taken = p + 2
    BY <1>7, <2>1, TakenIs
  <2>3. Place(Height)' = p
    <3>1. Place(Height)' = Place(keep + 1)'
      BY <1>5 DEF Place
    <3> QED BY <1>11, <3>1
  <2>4. Height' >= 3
    BY <1>3, <1>5
  <2>5. Taken' = Place(Height)' + 2
    BY <1>7, <1>10, <2>3, <2>4, TakenIs
  <2> QED BY <2>2, <2>3, <2>5
<1>13. ASSUME StackStands
       PROVE  StackStands'
  <2>1. /\ keep + 1 \in 3 .. Height /\ keep + 2 \in 3 .. Height /\ keep + 3 \in 3 .. Height
    BY <1>3
  <2>2. /\ Stands(heap, line, 34, yyvs[keep + 1], p)
        /\ Stands(heap, line, 37, yyvs[keep + 2], p + 1)
        /\ Stands(heap, line, 35, yyvs[keep + 3], p + 2)
    BY <1>8, <1>9, <1>10, <1>13, <2>1, SymbolRows DEF StackStands
  <2>3. p \in DOMAIN line /\ Known(yyvs[keep + 1]) = AttributeOf(line[p])
    BY <2>2 DEF Stands
  <2>4. p + 1 \in DOMAIN line /\ yyvs[keep + 2] = ComparatorOf(line[p + 1].sym)
    BY <2>2 DEF Stands
  <2>5. p + 2 \in DOMAIN line /\ TextIn(heap, yyvs[keep + 3]) = line[p + 2].text
    BY <2>2 DEF Stands
  <2>6. TextIn(heap', yyvs[keep + 3]) = line[p + 2].text
    BY <1>3, <2>5 DEF TextIn
  <2>7. x.attr = yyvs[keep + 1] /\ x.comp = yyvs[keep + 2] /\ x.value = yyvs[keep + 3]
    BY <1>2
  <2>8. Meant(heap', line, x, p)
    BY Zenon, <2>3, <2>4, <2>5, <2>6, <2>7 DEF Meant
  <2>9. Stands(heap', line', 32, c, p)
    BY <1>3, <1>5, <2>3, <2>8 DEF Stands
  <2>10. Stands(heap', line', yystos[yyss'[keep + 1]], yyvs'[keep + 1], Place(keep + 1)')
    BY <1>5, <1>7, <1>11, <2>9
  <2>11. keep \in 1 .. 12
    BY <1>3
  <2> QED BY <1>0, <1>5, <1>13, <2>10, <2>11, StackStandsOn
<1>14. yyss[3] \in {4, 5} /\ yyss'[3] = yyss[3]
  <2>1. Height >= 5 /\ 3 \in 1 .. keep
    BY <1>3
  <2> QED BY <1>0, <1>5, <2>1, Shape DEF Holds
<1>15. Height >= 3 /\ Height' >= 3 /\ Height \in Nat /\ Height' \in Nat
  BY <1>3, <1>5
<1>16. Top' \notin {8, 10, 11} /\ Top \notin AtEnd /\ Top' \notin AtEnd
  BY <1>7 DEF AtEnd
<1> QED BY <1>0, <1>4, <1>5, <1>12, <1>13, <1>14, <1>15, <1>16, ReduceLine

LEMMA ExtendsItself == \A l : Extends(l, l)
BY DEF Extends

(* conditions: the first of a list *)
LEMMA FirstLine ==
  ASSUME OwnInv, LineInv, ~IsFiniteSet(Blocks), ReduceFirstCondition
  PROVE  LineInv'
<1>0. StackInv /\ TypeInv /\ HeapIsOwned /\ 14 \in 0 .. 29 /\ 14 \in 2 .. 29 /\ 14 # 9 /\ 14 # 6
  BY DEF OwnInv
<1>1. PICK v, x : v = Malloc(heap) /\ x = heap[yyvs[8]].cond
  OBVIOUS
<1>2. /\ Keeps(7) /\ 7 = Height - PoppedBy(14) /\ Height = 8 /\ yyss[8] = 29
      /\ yyvs[8] \in Blocks /\ heap[yyvs[8]].type = "cond"
      /\ heap'[CondValue(heap, yyvs[8])] = heap[CondValue(heap, yyvs[8])]
      /\ v \in Blocks /\ Reduce(14, v) /\ CondsIn(heap', v) = <<x>>
  BY <1>0, <1>1, FirstOwned
<1>3. v \in Vals /\ out' = out
  BY <1>2 DEF ReduceFirstCondition, Vals
<1>4. /\ Height \in 1 .. 12 /\ Holds(7)
      /\ Height' = 7 + 1 /\ yyss'[7 + 1] = Top' /\ yyvs'[7 + 1] = v
      /\ StackInv' /\ yychar = YYEMPTY /\ yychar' = YYEMPTY
      /\ line' = line /\ wrongAt' = wrongAt /\ excused' = excused /\ yyerrstatus' = yyerrstatus
      /\ Extends(line, line')
  BY <1>0, <1>2, <1>3, ReduceHolds
<1>5. Height' = 8 /\ yyss'[8] = Top' /\ yyvs'[8] = v
  <2>1. 7 + 1 = 8
    OBVIOUS
  <2> QED BY <1>4, <2>1
<1>6. Top = 29 /\ Top' = 28 /\ yystos[Top'] = 31
  <2>1. Top = 29
    BY <1>0, <1>2, TopIs
  <2>2. BaseIs(14, 7, yyss[7], Top')
    BY <1>0, <1>2, ReduceTop
  <2> QED BY <2>1, <2>2, SymbolRows DEF BaseIs
<1>7. Place(8) = 6 /\ Place(8)' = 6
  BY <1>0, PlaceIs
<1>8. Taken = 8 /\ Taken' = 8
  <2>1. Place(Height) = 6 /\ Height >= 3
    BY <1>2, <1>7
  <2>2. Taken = 6 + 2
    BY <1>6, <2>1, TakenIs
  <2>3. Listed' = 1
    BY <1>2, <1>5 DEF Listed
  <2>4. Taken' = 4 * 1 + 4
    BY <1>5, <1>6, <2>3, TakenIs
  <2> QED BY <2>2, <2>4
<1>9. ASSUME StackStands
      PROVE  StackStands'
  <2>1. Stands(heap, line, 32, yyvs[8], 6)
    BY <1>2, <1>7, <1>9, SymbolRows DEF StackStands
  <2>2. 6 \in DOMAIN line /\ Meant(heap, line, x, 6)
    BY <1>1, <2>1 DEF Stands
  <2>3. CondValue(heap, yyvs[8]) = x.value
    BY <1>1, <1>2 DEF CondValue
  <2>4. TextIn(heap', x.value) = TextIn(heap, x.value)
    BY <1>2, <2>3 DEF TextIn
  <2>5. Meant(heap', line, x, 6)
    BY <2>2, <2>4, MeantOn, ExtendsItself
  <2>6. \A j \in DOMAIN <<x>> : Meant(heap', line, <<x>>[j], 6 + 4 * (j - 1))
    <3> TAKE j \in DOMAIN <<x>>
    <3>1. j = 1 /\ <<x>>[j] = x
      OBVIOUS
    <3>2. 6 + 4 * (j - 1) = 6
      BY <3>1
    <3> QED BY <2>5, <3>1, <3>2
  <2>7. CondsIn(heap', v) # <<>>
    BY <1>2
  <2>8. Stands(heap', line', 31, v, 6)
    BY <1>2, <1>4, <2>2, <2>6, <2>7 DEF Stands
  <2>9. Stands(heap', line', yystos[yyss'[7 + 1]], yyvs'[7 + 1], Place(7 + 1)')
    <3>1. Place(7 + 1)' = 6
      BY <1>7
    <3> QED BY <1>4, <1>6, <2>8, <3>1
  <2>10. 7 \in 1 .. 12 /\ 7 <= Height
    BY <1>2
  <2> QED BY <1>0, <1>4, <1>9, <2>9, <2>10, StackStandsOn
<1>10. yyss[3] \in {4, 5} /\ yyss'[3] = yyss[3]
  <2>1. Height >= 5 /\ 3 \in 1 .. 7
    BY <1>2
  <2> QED BY <1>0, <1>4, <2>1, Shape DEF Holds
<1>11. Height >= 3 /\ Height' >= 3 /\ Height \in Nat /\ Height' \in Nat
  BY <1>2, <1>5
<1>12. Top' \notin {8, 10, 11} /\ Top \notin AtEnd /\ Top' \notin AtEnd
  BY <1>6 DEF AtEnd
<1> QED BY <1>0, <1>3, <1>4, <1>8, <1>9, <1>10, <1>11, <1>12, ReduceLine

(* conditions: one more, which stands where the list ends *)
LEMMA NextLine ==
  ASSUME OwnInv, LineInv, ReduceNextCondition
  PROVE  LineInv'
<1>0. StackInv /\ TypeInv /\ HeapIsOwned /\ 15 \in 0 .. 29 /\ 15 \in 2 .. 29 /\ 15 # 9 /\ 15 # 6
  BY DEF OwnInv
<1>1. PICK v, x, cs, ds : /\ v = yyvs[8] /\ x = heap[yyvs[10]].cond /\ cs = CondsIn(heap, v)
                          /\ ds = Append(cs, x)
  OBVIOUS
<1>2. /\ Keeps(7) /\ 7 = Height - PoppedBy(15)
      /\ Height = 10 /\ yyss[8] = 28 /\ yyss[9] = 32 /\ yyss[10] = 42
      /\ v \in Blocks /\ cs \in Seq(Conditions) /\ Reduce(15, v)
      /\ x \in Conditions /\ CondsIn(heap', v) = ds
      /\ \A b \in Values(cs) \cup {x.value} : heap'[b] = heap[b]
  BY <1>0, <1>1, NextOwned
<1>3. v \in Vals /\ out' = out
  BY <1>2 DEF ReduceNextCondition, Vals
<1>4. /\ Height \in 1 .. 12 /\ Holds(7)
      /\ Height' = 7 + 1 /\ yyss'[7 + 1] = Top' /\ yyvs'[7 + 1] = v
      /\ StackInv' /\ yychar = YYEMPTY /\ yychar' = YYEMPTY
      /\ line' = line /\ wrongAt' = wrongAt /\ excused' = excused /\ yyerrstatus' = yyerrstatus
      /\ Extends(line, line')
  BY <1>0, <1>2, <1>3, ReduceHolds
<1>5. Height' = 8 /\ yyss'[8] = Top' /\ yyvs'[8] = v
  <2>1. 7 + 1 = 8
    OBVIOUS
  <2> QED BY <1>4, <2>1
<1>6. Top = 42 /\ Top' = 28 /\ yystos[Top'] = 31
  <2>1. Top = 42
    BY <1>0, <1>2, TopIs
  <2>2. BaseIs(15, 7, yyss[7], Top')
    BY <1>0, <1>2, ReduceTop
  <2> QED BY <2>1, <2>2, SymbolRows DEF BaseIs
<1>7. PICK m \in Nat : m = Len(cs)
  BY <1>2
<1>8. /\ DOMAIN ds = 1 .. m + 1 /\ DOMAIN cs = 1 .. m /\ ds[m + 1] = x /\ ds \in Seq(Conditions)
      /\ \A i \in 1 .. m : ds[i] = cs[i]
  BY <1>1, <1>2, <1>7, AppendedValues
<1>9. Len(ds) = m + 1
  BY <1>7, <1>8
<1>10. Listed = m /\ Listed' = m + 1
  BY <1>1, <1>2, <1>5, <1>7, <1>9 DEF Listed
<1>11. Place(8) = 6 /\ Place(8)' = 6 /\ Place(10) = 4 * m + 6
  <2>1. Place(10) = 4 * Listed + 10 - 4
    BY <1>0, <1>2, PlaceIs
  <2>2. Place(8) = 6 /\ Place(8)' = 6
    BY <1>0, PlaceIs
  <2> QED BY <1>10, <2>1, <2>2
<1>12. Taken = 4 * m + 8 /\ Taken' = 4 * m + 8
  <2>1. Place(Height) = 4 * m + 6 /\ Place(Height) \in Int /\ Height >= 3
    BY <1>2, <1>11
  <2>2. Taken = 4 * m + 6 + 2
    BY <1>6, <2>1, TakenIs
  <2>3. Taken' = 4 * (m + 1) + 4
    BY <1>5, <1>6, <1>10, TakenIs
  <2> QED BY <2>2, <2>3
<1>13. ASSUME StackStands
       PROVE  StackStands'
  <2>1. Stands(heap, line, 31, v, 6) /\ Stands(heap, line, 32, yyvs[10], 4 * m + 6)
    <3>1. 8 \in 3 .. Height /\ 10 \in 3 .. Height
      BY <1>2
    <3>2. /\ Stands(heap, line, yystos[yyss[8]], yyvs[8], Place(8))
          /\ Stands(heap, line, yystos[yyss[10]], yyvs[10], Place(10))
      BY <1>13, <3>1 DEF StackStands
    <3>3. yystos[yyss[8]] = 31 /\ yystos[yyss[10]] = 32
      BY <1>2, SymbolRows
    <3> QED BY <1>1, <1>11, <3>2, <3>3
  <2>2. 6 \in DOMAIN line /\ \A j \in 1 .. m : Meant(heap, line, cs[j], 6 + 4 * (j - 1))
    BY <1>1, <1>8, <2>1 DEF Stands
  <2>3. Meant(heap, line, x, 4 * m + 6)
    BY <1>1, <2>1 DEF Stands
  <2>4. ASSUME NEW j \in 1 .. m + 1
        PROVE  Meant(heap', line, ds[j], 6 + 4 * (j - 1))
    <3>1. CASE j \in 1 .. m
      <4>1. ds[j] = cs[j] /\ cs[j].value \in Values(cs)
        BY <1>8, <3>1 DEF Values
      <4>2. TextIn(heap', cs[j].value) = TextIn(heap, cs[j].value)
        BY <1>2, <4>1 DEF TextIn
      <4>3. Meant(heap, line, cs[j], 6 + 4 * (j - 1))
        BY <2>2, <3>1
      <4>4. Meant(heap', line, cs[j], 6 + 4 * (j - 1))
        BY <4>2, <4>3, MeantOn, ExtendsItself
      <4> QED BY <4>1, <4>4
    <3>2. CASE j = m + 1
      <4>1. TextIn(heap', x.value) = TextIn(heap, x.value)
        BY <1>2 DEF TextIn
      <4>2. Meant(heap', line, x, 4 * m + 6)
        BY <2>3, <4>1, MeantOn, ExtendsItself
      <4>3. 6 + 4 * (j - 1) = 4 * m + 6
        BY <3>2
      <4> QED BY <1>8, <3>2, <4>2, <4>3
    <3> QED BY <3>1, <3>2
  <2>5. ds # <<>>
    BY <1>8, <1>9
  <2>6. Stands(heap', line', 31, v, 6)
    BY <1>2, <1>4, <1>8, <2>2, <2>4, <2>5 DEF Stands
  <2>7. Stands(heap', line', yystos[yyss'[7 + 1]], yyvs'[7 + 1], Place(7 + 1)')
    <3>1. Place(7 + 1)' = 6
      BY <1>11
    <3> QED BY <1>4, <1>6, <2>6, <3>1
  <2>8. 7 \in 1 .. 12 /\ 7 <= Height
    BY <1>2
  <2> QED BY <1>0, <1>4, <1>13, <2>7, <2>8, StackStandsOn
<1>14. yyss[3] \in {4, 5} /\ yyss'[3] = yyss[3]
  <2>1. Height >= 5 /\ 3 \in 1 .. 7
    BY <1>2
  <2> QED BY <1>0, <1>4, <2>1, Shape DEF Holds
<1>15. Height >= 3 /\ Height' >= 3 /\ Height \in Nat /\ Height' \in Nat
  BY <1>2, <1>5
<1>16. Top' \notin {8, 10, 11} /\ Top \notin AtEnd /\ Top' \notin AtEnd
  BY <1>6 DEF AtEnd
<1> QED BY <1>0, <1>3, <1>4, <1>12, <1>13, <1>14, <1>15, <1>16, ReduceLine

-----------------------------------------------------------------------------
(* A token is shifted. *)
LEMMA FeedStates == \A s \in 2 .. 44 : yystos[s] = 15 <=> s \in AtEnd \cup {12}
BY SMTT(60) DEF yystos, From0, AtEnd

LEMMA NowUnderWay ==
  ASSUME Height' \in 3 .. 12, yyss'[3] \in {2, 4, 5, 6, 7}, Top' = yyss'[Height']
  PROVE  UnderWay' /\ ~Idle' /\ ~Done' /\ ~InError'
BY DEF UnderWay, Idle, Done, InError

LEMMA ShiftHolds ==
  ASSUME StackInv, TypeInv, HeapIsOwned, Shift, NEW s, s = ShiftOn(Top, TokenNo)
  PROVE  /\ StackInv' /\ Height \in 2 .. 11 /\ Height' = Height + 1 /\ Holds(Height)
         /\ Top' = s /\ yyss'[Height + 1] = s /\ yyvs'[Height + 1] = yylval
         /\ Top \in Asking /\ s \in 2 .. 44 /\ TokenNo \in 0 .. 24 /\ yystos[s] = TokenNo
         /\ Top \in Below(s) /\ s # 0
         /\ yychar \in Symbols \cup {"$end"} /\ yychar # YYEMPTY /\ yychar' = YYEMPTY
         /\ yychar \in Expected(Top) /\ yytname[TokenNo] = yychar /\ TokenNo # 1
         /\ heap' = heap /\ line' = line /\ wrongAt' = wrongAt /\ excused' = excused /\ out' = out
         /\ yyerrstatus' = IF yyerrstatus > 0 THEN yyerrstatus - 1 ELSE 0
<1>1. /\ Height' = Height + 1 /\ Height < 12 /\ Top' = s /\ yyss'[Height + 1] = s
      /\ \A i \in 1 .. Height : yyss'[i] = yyss[i]
      /\ Top \in Asking /\ s # 0 /\ s \in States /\ TokenNo \in 0 .. 24 /\ yystos[s] = TokenNo
      /\ yychar # YYEMPTY /\ yychar' = YYEMPTY /\ StackInv'
  BY ShiftStack
<1>2. /\ \A k \in 1 .. Height : SymbolAt(k)' = SymbolAt(k) /\ ValueAt(k)' = ValueAt(k)
      /\ yyvs'[Height + 1] = yylval
  BY ShiftOwned
<1>3. /\ heap' = heap /\ line' = line /\ wrongAt' = wrongAt /\ excused' = excused /\ out' = out
      /\ yyerrstatus' = IF yyerrstatus > 0 THEN yyerrstatus - 1 ELSE 0
  BY DEF Shift, history, Counted
<1>4. Height \in 2 .. 11
  <2>1. Height \in 1 .. 12 /\ Top # 0
    BY <1>1 DEF StackInv, Asking
  <2>2. Height # 1
    BY <2>1, Depth
  <2> QED BY <1>1, <2>1, <2>2
<1>5. \A k \in 1 .. Height : ValueAt(k) = yyvs[k] /\ ValueAt(k)' = yyvs'[k]
  <2>1. \A k \in 1 .. Height : k \in 1 .. Height'
    BY <1>1, <1>4
  <2> QED BY <1>1, <2>1, OwnersAre
<1>6. Holds(Height)
  BY <1>1, <1>2, <1>3, <1>5 DEF Holds
<1>7. s \in 2 .. 44 /\ Top \in Below(s)
  BY <1>1, ShiftIs
<1>8. yychar \in Symbols \cup {"$end"}
  BY <1>1 DEF StackInv
<1>9. yychar \in Expected(Top)
  BY <1>1, <1>8, ShiftExpected DEF TokenNo
<1>10. yytname[TokenNo] = yychar
  BY <1>8, Translated DEF TokenNo
<1>11. TokenNo # 1
  BY <1>8, <1>10, SymbolNames DEF Symbols, WithText, Comparators
<1> QED BY <1>1, <1>2, <1>3, <1>4, <1>6, <1>7, <1>8, <1>9, <1>10, <1>11

(* The end of a wrong line *)
LEMMA ShiftInError ==
  ASSUME OwnInv, LineInv, Shift, InError
  PROVE  LineInv'
<1>0. StackInv /\ TypeInv /\ HeapIsOwned
  BY DEF OwnInv
<1>a. PICK s : s = ShiftOn(Top, TokenNo)
  OBVIOUS
<1>1. /\ StackInv' /\ Height \in 2 .. 11 /\ Height' = Height + 1 /\ Holds(Height)
      /\ Top \in Asking /\ yychar \in Expected(Top) /\ yychar # YYEMPTY /\ yychar' = YYEMPTY
      /\ line' = line /\ wrongAt' = wrongAt /\ excused' = excused /\ out' = out
      /\ yyerrstatus' = IF yyerrstatus > 0 THEN yyerrstatus - 1 ELSE 0
  BY <1>0, <1>a, ShiftHolds
<1>2. Height = 3 /\ Top = 3
  <2>1. Top # 12
    BY <1>1 DEF Asking
  <2> QED BY <1>0, <2>1, Phases
<1>3. Height' = 4 /\ yyss'[3] = 3
  <2>1. yyss[3] = 3
    BY DEF InError
  <2>2. 3 \in 1 .. Height
    BY <1>2
  <2> QED BY <1>1, <1>2, <2>1, <2>2 DEF Holds
<1>4. InError' /\ ~Idle' /\ ~Done' /\ ~UnderWay'
  BY <1>3 DEF InError, Idle, Done, UnderWay
<1>5. /\ wrongAt # 0 /\ Typed = 1 /\ NoCall /\ NoPrompt /\ IsSeq(out)
      /\ NoError => excused /\ wrongAt <= 2
      /\ yyerrstatus = 3 /\ line[1].sym = yychar
  BY <1>1, <1>2 DEF LineInv, ErrorInv
<1>6. yychar = "LF"
  BY <1>1, <1>2, ExpectedRows
<1>7. Ended(line)
  BY <1>0, <1>5, <1>6, LineIs
<1>8. ErrorInv'
  <2>1. wrongAt' # 0 /\ Typed' = 1 /\ NoCall' /\ NoPrompt'
    BY <1>1, <1>5 DEF Typed, NoCall, NoPrompt
  <2>2. NoError' => excused' /\ wrongAt' <= 2
    BY <1>1, <1>5 DEF NoError
  <2>3. yyerrstatus' = 2 /\ Height' # 3 /\ Ended(line')
    BY <1>1, <1>3, <1>5, <1>7
  <2> QED BY <1>1, <2>1, <2>2, <2>3 DEF ErrorInv
<1>9. ParsedInv' /\ UnderWayInv' /\ IsSeq(out')
  BY <1>1, <1>4, <1>5 DEF ParsedInv, UnderWayInv
<1> QED BY <1>8, <1>9 DEF LineInv

(* The next token of a line that is right *)
LEMMA ShiftUnderWay ==
  ASSUME OwnInv, LineInv, Shift, UnderWay
  PROVE  LineInv'
<1>0. StackInv /\ TypeInv /\ HeapIsOwned
  BY DEF OwnInv
<1>a. PICK s, n : s = ShiftOn(Top, TokenNo) /\ n = TokenNo
  OBVIOUS
<1>1. /\ StackInv' /\ Height \in 2 .. 11 /\ Height' = Height + 1 /\ Holds(Height)
      /\ Top' = s /\ yyss'[Height + 1] = s /\ yyvs'[Height + 1] = yylval
      /\ Top \in Asking /\ s \in 2 .. 44 /\ n \in 0 .. 24 /\ yystos[s] = n
      /\ Top \in Below(s) /\ s # 0
      /\ yychar \in Symbols \cup {"$end"} /\ yychar # YYEMPTY /\ yychar' = YYEMPTY
      /\ yychar \in Expected(Top) /\ yytname[n] = yychar /\ n # 1
      /\ heap' = heap /\ line' = line /\ wrongAt' = wrongAt /\ excused' = excused /\ out' = out
      /\ yyerrstatus' = IF yyerrstatus > 0 THEN yyerrstatus - 1 ELSE 0
  BY <1>0, <1>a, ShiftHolds
<1>2. /\ NoCall /\ NoPrompt /\ wrongAt = 0 /\ Spotless /\ IsSeq(out)
      /\ yyerrstatus # 0 => yyerrstatus + Taken <= 2
  BY <1>1 DEF LineInv, UnderWayInv, Spotted
<1>3. PICK h \in 2 .. 11 : h = Height
  BY <1>1
<1>4. Holds(h) /\ Height' = h + 1 /\ yyss'[h + 1] = s /\ yyvs'[h + 1] = yylval
  BY <1>1, <1>3 DEF Holds
<1>5. s \notin {28, 29, 42}
  BY <1>1, SymbolRows
<1>6. Taken \in Nat /\ Taken' = Taken + 1 /\ Place(h + 1)' = Taken + 1
  BY <1>0, <1>1, <1>3, <1>4, <1>5, ShiftTaken
<1>7. /\ Typed = Taken + 1 /\ LineFits /\ StackStands /\ NoError
      /\ line[Typed].sym = yychar
      /\ yychar \in WithText => TextIn(heap, yylval) = line[Typed].text
      /\ yyerrstatus # 0 /\ Typed < 2 => excused
  BY <1>1, <1>2 DEF Spotless
<1>8. Typed \in DOMAIN line /\ DOMAIN line = 1 .. Typed
  <2>1. DOMAIN line = 1 .. Typed
    BY <1>0, LineIs
  <2> QED BY <1>6, <1>7, <2>1
<1>9. h = 2 => Top = 1 /\ Taken = 0
  BY <1>0, <1>3, Depth, TakenIs
<1>10. h >= 3 => yyss[3] \in {2, 4, 5, 6, 7} /\ yyss'[3] = yyss[3]
  <2>1. h >= 3 => 3 \in 1 .. h
    OBVIOUS
  <2> QED BY <1>3, <1>4, <2>1 DEF UnderWay, Holds
<1>11. ASSUME h = 2
       PROVE  /\ yyss'[3] \in {2, 4, 5, 6, 7}
              /\ yyss'[3] = 4 => yychar = "SELECT"
              /\ yyss'[3] = 5 => yychar = "LOAD"
  <2>1. yyss'[3] = s
    BY <1>4, <1>11
  <2>2. s = ShiftOn(1, n)
    BY <1>a, <1>9, <1>11
  <2>3. s \in {2, 4, 5, 6, 7} /\ (s = 4 => n = 3) /\ (s = 5 => n = 6)
    BY <1>1, <2>2, ShiftRows
  <2> QED BY <1>1, <2>1, <2>3, SymbolNames
<1>12. yyss'[3] \in {2, 4, 5, 6, 7}
  BY <1>10, <1>11
<1>13. UnderWay' /\ ~Idle' /\ ~Done' /\ ~InError'
  <2>1. Height' \in 3 .. 12 /\ Top' = yyss'[Height']
    BY <1>1, <1>4
  <2> QED BY <1>12, <2>1, NowUnderWay
<1>14. StackStands'
  <2>1. PICK q : q = Taken + 1
    OBVIOUS
  <2>2. q \in DOMAIN line /\ line[q].sym = yytname[n]
        /\ (n \in {16, 17, 18} => TextIn(heap, yylval) = line[q].text)
    <3>1. n \in {16, 17, 18} => yychar \in WithText
      BY <1>1, SymbolNames DEF WithText
    <3> QED BY <1>1, <1>7, <1>8, <2>1, <3>1
  <2>3. Stands(heap', line', n, yylval, q)
    <3>1. n \notin 31 .. 37 /\ n # 31 /\ n # 32 /\ n \notin {33, 34} /\ n \notin {35, 36} /\ n # 37
      BY <1>1
    <3> QED BY <1>1, <2>2, <3>1 DEF Stands
  <2>4. Stands(heap', line', yystos[yyss'[h + 1]], yyvs'[h + 1], Place(h + 1)')
    BY <1>1, <1>4, <1>6, <2>1, <2>3
  <2>5. h \in 1 .. 12 /\ h <= Height /\ Extends(line, line')
    BY <1>1, <1>3 DEF Extends
  <2> QED BY <1>0, <1>4, <1>7, <2>4, <2>5, StackStandsOn
<1>15. LineFits'
  <2>1. CASE h >= 3
    BY <1>1, <1>3, <1>7, <1>10, <2>1 DEF LineFits
  <2>2. CASE h = 2
    <3>1. DOMAIN line = {1} /\ line[1].sym = yychar
      BY <1>7, <1>8, <1>9, <2>2
    <3>2. yychar = "SELECT" => SelectFits(line')
      BY <1>1, <3>1, SelectRows DEF SelectFits
    <3>3. yychar = "LOAD" => LoadFits(line')
      BY <1>1, <3>1, LoadRows DEF LoadFits
    <3> QED BY <1>11, <2>2, <3>2, <3>3 DEF LineFits
  <2> QED BY <2>1, <2>2
<1>16. yychar = "LF" <=> s \in AtEnd
  <2>1. Top # 3
    <3>1. Top = 3 => Height = 3
      BY <1>0, Depth
    <3>2. Height = 3 => yyss[3] = Top
      BY <1>0, TopIs
    <3> QED BY <1>3, <1>10, <3>1, <3>2
  <2>2. s # 12
    BY <1>1, <2>1, BelowRows
  <2>3. yychar = "LF" <=> n = 15
    BY <1>1, SymbolNames, NamesDiffer
  <2> QED BY <1>1, <2>2, <2>3, FeedStates
<1>17. Typed' = Typed
  BY <1>1 DEF Typed
<1>18. yyerrstatus' # 0 => yyerrstatus # 0 /\ yyerrstatus' + Taken' <= 2
  <2>1. yyerrstatus \in 0 .. 3
    BY <1>0 DEF TypeInv
  <2>2. PICK e \in 0 .. 3 : e = yyerrstatus
    BY <2>1
  <2> QED BY <1>1, <1>2, <1>6, <2>2
<1>19. NoCall' /\ NoPrompt' /\ NoError' /\ IsSeq(out')
  BY <1>1, <1>2, <1>7 DEF NoCall, NoPrompt, NoError
<1>20. Spotless'
  <2>1. Typed' = Taken' /\ (yyerrstatus' # 0 /\ Typed' < 2 => excused')
    BY <1>1, <1>6, <1>7, <1>17, <1>18
  <2>2. line'[Typed'].sym = "LF" <=> Top' \in AtEnd
    BY <1>1, <1>7, <1>16, <1>17
  <2> QED BY <1>1, <1>14, <1>15, <1>19, <2>1, <2>2 DEF Spotless
<1>21. UnderWayInv'
  BY <1>1, <1>2, <1>18, <1>19, <1>20 DEF UnderWayInv
<1>22. ParsedInv' /\ ErrorInv'
  BY <1>13 DEF ParsedInv, ErrorInv
<1> QED BY <1>19, <1>21, <1>22 DEF LineInv

LEMMA ShiftLine ==
  ASSUME OwnInv, LineInv, Shift
  PROVE  LineInv'
<1>1. StackInv /\ yychar # YYEMPTY /\ Top \in Asking
  BY ShiftStack DEF OwnInv
<1>2. ~Idle /\ ~Done
  BY <1>1 DEF Idle, Done, Asking
<1>3. InError \/ UnderWay
  BY <1>1, <1>2, Phases
<1> QED BY <1>3, ShiftInError, ShiftUnderWay

-----------------------------------------------------------------------------
(* A token is read. *)
LEMMA ReadHolds ==
  ASSUME StackInv, TypeInv, HeapIsOwned, ~IsFiniteSet(Blocks), NEW tok \in Tokens, yylex(tok)
  PROVE  /\ Height \in 2 .. 12 /\ Height' = Height /\ Top' = Top /\ Holds(Height) /\ yyss' = yyss
         /\ Top \in Asking /\ yychar = YYEMPTY /\ yychar' = tok.sym /\ yychar' # YYEMPTY
         /\ yyerrstatus' = yyerrstatus
         /\ tok.sym \in WithText => TextIn(heap', yylval') = tok.text
<1>1. /\ Height' = Height /\ yychar = YYEMPTY /\ Top \in Asking
      /\ \A k \in 1 .. Height : \A b \in OwnedBy(k) : heap'[b] = heap[b]
      /\ tok.sym \in WithText => TextAt(yylval)' = tok.text
  BY ReadOwned
<1>2. /\ yyss' = yyss /\ yyvs' = yyvs /\ yychar' = tok.sym /\ yyerrstatus' = yyerrstatus
  BY DEF yylex, Read
<1>3. Height \in 2 .. 12
  <2>1. Height \in 1 .. 12 /\ Top # 0
    BY <1>1 DEF StackInv, Asking
  <2>2. Height # 1
    BY <2>1, Depth
  <2> QED BY <2>1, <2>2
<1>4. Holds(Height)
  BY <1>1, <1>2 DEF Holds
<1>5. yychar' # YYEMPTY
  <2>1. tok.sym \in Symbols \cup {"$end"}
    BY TokenKinds
  <2> QED BY <1>2, <2>1, EmptyIsNoSymbol
<1>6. tok.sym \in WithText => TextIn(heap', yylval') = tok.text
  BY <1>1 DEF TextAt, Has, TextIn
<1>7. Top' = Top
  BY <1>2 DEF Top
<1> QED BY <1>1, <1>2, <1>3, <1>4, <1>5, <1>6, <1>7

LEMMA SameTaken ==
  ASSUME StackInv, TypeInv, HeapIsOwned, Height' = Height, Top' = Top, Holds(Height)
  PROVE  Taken' = Taken
<1>1. PICK h \in 1 .. 12 : h = Height
  BY DEF StackInv
<1>2. Place(h)' = Place(h)
  <2>1. Holds(h) /\ h <= Height /\ h \in Int /\ (h <= 8 \/ h >= 8)
    BY <1>1 DEF Holds
  <2> QED BY <2>1, PlaceKept
<1>3. Place(Height)' = Place(Height)
  <2>1. Place(Height)' = Place(h)'
    BY <1>1 DEF Place
  <2> QED BY <1>1, <1>2, <2>1
<1>4. Width(Top)' = Width(Top)
  <2>1. CASE Top = 28
    <3>1. Height = 8
      BY <2>1, Depth
    <3>2. yyss[8] = 28 /\ Holds(8) /\ 8 \in 8 .. 12 /\ 8 <= Height
      BY <2>1, <3>1, TopIs DEF Holds
    <3>3. Listed' = Listed
      BY <3>2, ListKept
    <3> QED BY <3>3 DEF Width
  <2>2. CASE Top # 28
    BY <2>2 DEF Width
  <2> QED BY <2>1, <2>2
<1> QED BY <1>3, <1>4 DEF Taken

(* The first token of a line *)
LEMMA ReadFirst ==
  ASSUME OwnInv, LineInv, ~IsFiniteSet(Blocks), NEW tok \in Tokens, yylex(tok), Idle
  PROVE  LineInv'
<1>0. StackInv /\ TypeInv /\ HeapIsOwned
  BY DEF OwnInv
<1>1. /\ Height \in 2 .. 12 /\ Height' = Height /\ Top' = Top
      /\ Top \in Asking /\ yychar' = tok.sym /\ yychar' # YYEMPTY /\ yyerrstatus' = yyerrstatus
      /\ tok.sym \in WithText => TextIn(heap', yylval') = tok.text
  BY <1>0, ReadHolds
<1>2. Height = 2 /\ Height' = 2 /\ Top = 1
  <2>1. Height = 2
    BY <1>1 DEF Idle
  <2> QED BY <1>0, <1>1, <2>1, Depth
<1>3. /\ line # <<>> => Ended(line)
      /\ yyerrstatus <= 2
      /\ yyerrstatus # 0 => wrongAt # 0 \/ (Typed < 2 /\ excused)
  BY DEF LineInv, ParsedInv
<1>4. Begins(tok)
  BY <1>3 DEF yylex, Remember
<1>5. /\ line' = <<tok>> /\ out' = <<>>
      /\ wrongAt' = IF Viable(<<tok>>) THEN 0 ELSE 1
      /\ excused' = IF wrongAt = 0 /\ Typed < 2 THEN excused ELSE wrongAt # 0
  BY <1>4 DEF Begins, Typed
<1>6. Taken' = 0
  BY <1>2, TakenIs
<1>7. Typed' = 1 /\ line'[Typed'] = tok /\ line'[1] = tok
  BY <1>5, TokenAlone DEF Typed
<1>8. yyerrstatus' # 0 => excused'
  <2>1. yyerrstatus # 0 => excused'
    <3>1. CASE wrongAt # 0
      BY <1>5, <3>1
    <3>2. CASE wrongAt = 0
      BY <1>3, <1>5, <3>2
    <3> QED BY <3>1, <3>2
  <2> QED BY <1>1, <2>1
<1>9. UnderWay' /\ ~Idle' /\ ~Done' /\ ~InError'
  BY <1>1, <1>2 DEF UnderWay, Idle, Done, InError
<1>10. NoCall' /\ NoPrompt' /\ NoError' /\ IsSeq(out')
  <2>1. DOMAIN out' = {} /\ out' \in Seq({})
    BY <1>5
  <2> QED BY <2>1 DEF NoCall, NoPrompt, NoError, IsSeq
<1>11. yyerrstatus' # 0 => yyerrstatus' + Taken' <= 2
  <2>1. yyerrstatus \in 0 .. 3
    BY <1>0 DEF TypeInv
  <2> QED BY <1>1, <1>3, <1>6, <2>1
<1>12. tok.sym \in Expected(Top') <=> Viable(<<tok>>)
  BY <1>1, <1>2, BeginsWell
<1>13. CASE Viable(<<tok>>)
  <2>1. wrongAt' = 0
    BY <1>5, <1>13
  <2>2. LineFits' /\ StackStands'
    BY <1>2 DEF LineFits, StackStands
  <2>3. Typed' = Taken' + 1
    BY <1>6, <1>7
  <2>4. Spotless'
    BY <1>1, <1>7, <1>8, <1>10, <1>12, <1>13, <2>2, <2>3 DEF Spotless
  <2>5. UnderWayInv'
    BY <1>10, <1>11, <2>1, <2>4 DEF UnderWayInv
  <2> QED BY <1>9, <1>10, <2>5 DEF LineInv, ParsedInv, ErrorInv
<1>14. CASE ~Viable(<<tok>>)
  <2>1. wrongAt' = 1 /\ wrongAt' = Taken' + 1
    BY <1>5, <1>6, <1>14
  <2>2. Spotted'
    BY <1>1, <1>7, <1>8, <1>12, <1>14, <2>1 DEF Spotted
  <2>3. UnderWayInv'
    BY <1>10, <1>11, <2>1, <2>2 DEF UnderWayInv
  <2> QED BY <1>9, <1>10, <2>3 DEF LineInv, ParsedInv, ErrorInv
<1> QED BY <1>13, <1>14

(* What a line that is right so far may go on with *)
LEMMA NextToken ==
  ASSUME OwnInv, Spotless, yychar = YYEMPTY, Top \in Asking, Height >= 3, yyss[3] # 3,
         NEW tok \in Tokens
  PROVE  /\ Typed = Taken /\ Typed \in Nat /\ Typed >= 1 /\ ~Ended(line) /\ line # <<>>
         /\ yyss[3] \in {4, 5}
         /\ Viable(Append(line, tok)) <=> tok.sym \in Expected(Top)
         /\ yyss[3] = 4 /\ tok.sym \in Expected(Top) => SelectFits(Append(line, tok))
         /\ yyss[3] = 5 /\ tok.sym \in Expected(Top) => LoadFits(Append(line, tok))
<1>0. StackInv /\ TypeInv /\ HeapIsOwned
  BY DEF OwnInv
<1>1. Typed = Taken /\ LineFits /\ StackStands /\ (line[Typed].sym = "LF" <=> Top \in AtEnd)
  BY DEF Spotless
<1>2. yyss[3] \in {4, 5}
  <2>1. ASSUME yyss[3] \notin {4, 5}
        PROVE  FALSE
    <3>1. Height = 3 /\ Top = 3
      BY <1>0, <2>1, AskingShape
    <3> QED BY <1>0, <3>1, TopIs
  <2> QED BY <2>1
<1>3. /\ line \in Seq(Tokens) /\ Typed \in Nat /\ DOMAIN line = 1 .. Typed
      /\ line # <<>> <=> Typed # 0
      /\ Typed # 0 => (Ended(line) <=> line[Typed].sym = "LF")
  BY <1>0, LineIs
<1>4. 1 \in DOMAIN line /\ (yyss[3] = 4 => line[1].sym = "SELECT")
      /\ (yyss[3] = 5 => line[1].sym = "LOAD")
  <2>1. 3 \in 3 .. Height /\ Place(3) = 1
    <3>1. Height \in 1 .. 12
      BY <1>0 DEF StackInv
    <3> QED BY <1>0, <3>1, PlaceIs
  <2>2. Stands(heap, line, yystos[yyss[3]], yyvs[3], 1)
    BY <1>1, <2>1 DEF StackStands
  <2>3. /\ yyss[3] = 4 => yystos[yyss[3]] = 3 /\ yytname[3] = "SELECT"
        /\ yyss[3] = 5 => yystos[yyss[3]] = 6 /\ yytname[6] = "LOAD"
    BY SymbolRows, SymbolNames
  <2>4. 1 \in DOMAIN line
    BY <2>2 DEF Stands
  <2>5. CASE yyss[3] = 4
    <3>1. Stands(heap, line, 3, yyvs[3], 1) /\ 3 \in 0 .. 24
      BY <2>2, <2>3, <2>5
    <3> QED BY <2>3, <2>4, <2>5, <3>1 DEF Stands
  <2>6. CASE yyss[3] = 5
    <3>1. Stands(heap, line, 6, yyvs[3], 1) /\ 6 \in 0 .. 24
      BY <2>2, <2>3, <2>6
    <3> QED BY <2>3, <2>4, <2>6, <3>1 DEF Stands
  <2> QED BY <1>2, <2>4, <2>5, <2>6
<1>5. Typed >= 1 /\ line # <<>>
  BY <1>3, <1>4
<1>6. ~Ended(line)
  <2>1. Top \notin AtEnd
    BY DEF Asking, AtEnd
  <2> QED BY <1>1, <1>3, <1>5, <2>1
<1>7. PICK n \in Nat : n = Len(line) /\ n >= 1 /\ n = Typed
  BY <1>3, <1>5 DEF Typed
<1>8. CASE yyss[3] = 4
  <2>1. SelectSymbols(n + 1) = Expected(Top)
    BY <1>0, <1>1, <1>7, <1>8, NextSelect
  <2>2. SelectFits(line)
    BY <1>1, <1>8 DEF LineFits
  <2>3. /\ Viable(Append(line, tok)) <=> tok.sym \in SelectSymbols(n + 1)
        /\ tok.sym \in SelectSymbols(n + 1) => SelectFits(Append(line, tok))
    BY <1>3, <1>4, <1>7, <1>8, <2>2, GoesOn
  <2> QED BY <1>1, <1>3, <1>5, <1>6, <1>8, <2>1, <2>3
<1>9. CASE yyss[3] = 5
  <2>1. LoadSymbols(n + 1) = Expected(Top)
    BY <1>0, <1>1, <1>7, <1>9, NextLoad
  <2>2. LoadFits(line)
    BY <1>1, <1>9 DEF LineFits
  <2>3. /\ Viable(Append(line, tok)) <=> tok.sym \in LoadSymbols(n + 1)
        /\ tok.sym \in LoadSymbols(n + 1) => LoadFits(Append(line, tok))
    BY <1>3, <1>4, <1>7, <1>9, <2>2, GoesOn
  <2> QED BY <1>1, <1>3, <1>5, <1>6, <1>9, <2>1, <2>3
<1> QED BY <1>2, <1>8, <1>9

(* A token that goes on with a line *)
LEMMA ReadNext ==
  ASSUME OwnInv, LineInv, ~IsFiniteSet(Blocks), NEW tok \in Tokens, yylex(tok), UnderWay
  PROVE  LineInv'
<1>0. StackInv /\ TypeInv /\ HeapIsOwned
  BY DEF OwnInv
<1>1. /\ Height \in 2 .. 12 /\ Height' = Height /\ Top' = Top /\ Holds(Height) /\ yyss' = yyss
      /\ Top \in Asking /\ yychar = YYEMPTY /\ yychar' = tok.sym /\ yychar' # YYEMPTY
      /\ yyerrstatus' = yyerrstatus
      /\ tok.sym \in WithText => TextIn(heap', yylval') = tok.text
  BY <1>0, ReadHolds
<1>2. /\ NoCall /\ NoPrompt /\ wrongAt = 0 /\ Spotless /\ IsSeq(out)
      /\ yyerrstatus # 0 => yyerrstatus + Taken <= 2
  BY <1>1 DEF LineInv, UnderWayInv, Spotted
<1>3. Height >= 3 /\ yyss[3] \in {2, 4, 5, 6, 7} /\ yyss[3] # 3
  BY <1>1 DEF UnderWay
<1>4. /\ Typed = Taken /\ Typed \in Nat /\ Typed >= 1 /\ ~Ended(line) /\ line # <<>>
      /\ Viable(Append(line, tok)) <=> tok.sym \in Expected(Top)
      /\ yyss[3] = 4 /\ tok.sym \in Expected(Top) => SelectFits(Append(line, tok))
      /\ yyss[3] = 5 /\ tok.sym \in Expected(Top) => LoadFits(Append(line, tok))
  BY <1>1, <1>2, <1>3, NextToken
<1>5. Continues(tok)
  BY <1>4 DEF yylex, Remember
<1>6. /\ out' = out
      /\ Viable(Append(line, tok)) => line' = Append(line, tok) /\ wrongAt' = 0
      /\ ~Viable(Append(line, tok)) => /\ line' = <<tok>> /\ wrongAt' = Typed + 1
                                       /\ excused' = (excused /\ wrongAt' <= 2)
  <2>1. wrongAt = 0
    BY <1>2
  <2>2. out' = out
    BY <1>5 DEF Continues
  <2>3. Viable(Append(line, tok)) => line' = Append(line, tok) /\ wrongAt' = 0
    BY <1>5, <2>1 DEF Continues
  <2>4. ~Viable(Append(line, tok)) => line' = <<tok>> /\ wrongAt' = Typed + 1
    BY <1>5, <2>1 DEF Continues, Typed
  <2>5. ASSUME ~Viable(Append(line, tok))
        PROVE  excused' = (excused /\ wrongAt' <= 2)
    <3>1. wrongAt' # 0
      BY <1>4, <2>4, <2>5
    <3> QED BY <1>5, <3>1 DEF Continues
  <2> QED BY <2>2, <2>3, <2>4, <2>5
<1>7. Taken' = Taken
  <2>1. Height' = Height /\ Top' = Top /\ Holds(Height)
    BY <1>1
  <2> QED BY ZenonT(60), <1>0, <2>1, SameTaken
<1>8. UnderWay' /\ ~Idle' /\ ~Done' /\ ~InError'
  <2>1. Height' \in 3 .. 12 /\ yyss'[3] \in {2, 4, 5, 6, 7} /\ Top' = yyss'[Height']
    BY <1>0, <1>1, <1>3, TopIs
  <2> QED BY <2>1, NowUnderWay
<1>9. NoCall' /\ NoPrompt' /\ NoError' /\ IsSeq(out')
  BY <1>2, <1>6 DEF Spotless, NoCall, NoPrompt, NoError
<1>10. yyerrstatus' # 0 => yyerrstatus' + Taken' <= 2
  BY <1>1, <1>2, <1>7
<1>11. CASE tok.sym \in Expected(Top)
  <2>1. line' = Append(line, tok) /\ wrongAt' = 0
    BY <1>4, <1>6, <1>11
  <2>2. line \in Seq(Tokens) /\ Typed = Len(line)
    BY <1>0, LineIs DEF Typed
  <2>3. /\ Len(line') = Typed + 1 /\ line'[Typed + 1] = tok /\ Extends(line, line')
    BY <1>4, <2>1, <2>2, TokenAdded
  <2>4. Typed' = Typed + 1 /\ line'[Typed'] = tok
    BY <2>3 DEF Typed
  <2>5. StackStands'
    <3>1. Height \in 1 .. 12 /\ Height <= Height
      BY <1>1
    <3>2. StackStands
      BY <1>2 DEF Spotless
    <3> QED BY <1>0, <1>1, <2>3, <3>1, <3>2, StackStandsOn
  <2>6. LineFits'
    BY <1>1, <1>4, <1>11, <2>1 DEF LineFits
  <2>7. Typed' = Taken' + 1 /\ ~(Typed' < 2)
    BY <1>4, <1>7, <2>4
  <2>8. Spotless'
    BY <1>1, <1>9, <1>11, <2>4, <2>5, <2>6, <2>7 DEF Spotless
  <2>9. UnderWayInv'
    BY <1>9, <1>10, <2>1, <2>8 DEF UnderWayInv
  <2> QED BY <1>8, <1>9, <2>9 DEF LineInv, ParsedInv, ErrorInv
<1>12. CASE tok.sym \notin Expected(Top)
  <2>1. /\ line' = <<tok>> /\ wrongAt' = Typed + 1 /\ excused' = (excused /\ wrongAt' <= 2)
    BY <1>4, <1>6, <1>12
  <2>2. Typed' = 1 /\ line'[1] = tok
    BY <2>1, TokenAlone DEF Typed
  <2>3. wrongAt' = Taken' + 1 /\ wrongAt' # 0
    BY <1>4, <1>7, <2>1
  <2>4. yyerrstatus' # 0 => excused'
    <3>1. yyerrstatus \in 0 .. 3 /\ yyerrstatus' = yyerrstatus
      BY <1>0, <1>1 DEF TypeInv
    <3>2. yyerrstatus # 0 => Typed < 2 /\ wrongAt' <= 2
      BY <1>2, <1>4, <2>1, <3>1
    <3>3. yyerrstatus # 0 => excused
      BY <1>2, <3>2 DEF Spotless
    <3> QED BY <2>1, <3>1, <3>2, <3>3
  <2>5. Spotted'
    BY <1>1, <1>12, <2>2, <2>3, <2>4 DEF Spotted
  <2>6. UnderWayInv'
    BY <1>9, <1>10, <2>3, <2>5 DEF UnderWayInv
  <2> QED BY <1>8, <1>9, <2>6 DEF LineInv, ParsedInv, ErrorInv
<1> QED BY <1>11, <1>12

(* A token of the rest of a wrong line *)
LEMMA ReadInError ==
  ASSUME OwnInv, LineInv, ~IsFiniteSet(Blocks), NEW tok \in Tokens, yylex(tok), InError
  PROVE  LineInv'
<1>0. StackInv /\ TypeInv /\ HeapIsOwned
  BY DEF OwnInv
<1>1. /\ Height' = Height /\ Top' = Top /\ yyss' = yyss
      /\ Top \in Asking /\ yychar = YYEMPTY /\ yychar' = tok.sym /\ yychar' # YYEMPTY
      /\ yyerrstatus' = yyerrstatus
  BY <1>0, ReadHolds
<1>2. Height = 3 /\ Top = 3
  <2>1. Top # 12
    BY <1>1 DEF Asking
  <2> QED BY <1>0, <2>1, Phases
<1>3. /\ wrongAt # 0 /\ Typed = 1 /\ NoCall /\ NoPrompt /\ IsSeq(out)
      /\ NoError => excused /\ wrongAt <= 2
      /\ yyerrstatus = 3 /\ ~Ended(line)
  BY <1>1, <1>2 DEF LineInv, ErrorInv
<1>4. line # <<>>
  BY <1>0, <1>3, LineIs
<1>5. Continues(tok)
  BY <1>3, <1>4 DEF yylex, Remember
<1>6. /\ line' = <<tok>> /\ wrongAt' = wrongAt /\ out' = out
      /\ excused' = (excused /\ wrongAt' <= 2)
  <2>1. wrongAt # 0 /\ ~(wrongAt = 0 /\ Viable(Append(line, tok)))
    BY <1>3
  <2>2. line' = <<tok>> /\ wrongAt' = wrongAt /\ out' = out
    BY <1>5, <2>1 DEF Continues
  <2> QED BY <1>5, <2>1, <2>2 DEF Continues
<1>7. InError' /\ ~Idle' /\ ~Done' /\ ~UnderWay'
  BY <1>1, <1>2 DEF InError, Idle, Done, UnderWay
<1>8. Typed' = 1 /\ line'[1] = tok
  BY <1>6, TokenAlone DEF Typed
<1>9. NoCall' /\ NoPrompt' /\ IsSeq(out') /\ (NoError' => NoError)
  BY <1>3, <1>6 DEF NoCall, NoPrompt, NoError
<1>10. Height' = 3 /\ yyerrstatus' = 3
  BY <1>1, <1>2, <1>3
<1>11. ErrorInv'
  BY <1>1, <1>3, <1>6, <1>8, <1>9, <1>10 DEF ErrorInv
<1> QED BY <1>7, <1>9, <1>11 DEF LineInv, ParsedInv, UnderWayInv

LEMMA ReadLine ==
  ASSUME OwnInv, LineInv, ~IsFiniteSet(Blocks), NEW tok \in Tokens, yylex(tok)
  PROVE  LineInv'
<1>1. StackInv /\ TypeInv /\ HeapIsOwned
  BY DEF OwnInv
<1>2. Top \in Asking
  BY <1>1, ReadHolds
<1>3. ~Done
  BY <1>2 DEF Done, Asking
<1>4. Idle \/ InError \/ UnderWay
  BY <1>1, <1>3, Phases
<1> QED BY <1>4, ReadFirst, ReadNext, ReadInError

-----------------------------------------------------------------------------
(* The recovery from an error *)
LEMMA TakenType ==
  ASSUME StackInv, TypeInv, HeapIsOwned, Top \in Asking
  PROVE  Taken \in Nat
<1>1. PICK h \in 1 .. 12 : h = Height
  BY DEF StackInv
<1>2. Top = yyss[h] /\ Top \notin {29, 42} /\ h # 1
  <2>1. Top \notin {29, 42} /\ Top # 0
    BY DEF Asking
  <2> QED BY <1>1, <2>1, TopIs, Depth
<1>3. CASE h = 2
  BY <1>1, <1>3, TakenIs
<1>4. CASE h >= 3 /\ Top # 28
  <2>1. Place(h) \in Nat
    BY <1>1, <1>4, PlaceIs
  <2>2. Taken = Place(Height)
    BY <1>1, <1>2, <1>4, <2>1, TakenIs
  <2> QED BY <1>1, <2>1, <2>2
<1>5. CASE h >= 3 /\ Top = 28
  <2>1. Height = 8
    BY <1>5, Depth
  <2>2. yyss[8] = 28
    BY <1>1, <1>2, <1>5, <2>1
  <2>3. Listed \in Nat
    BY <2>1, <2>2, ListIs
  <2>4. Taken = 4 * Listed + 4
    BY <1>5, <2>1, <2>3, TakenIs
  <2> QED BY <2>3, <2>4
<1> QED BY <1>1, <1>2, <1>3, <1>4, <1>5

LEMMA RecoverLine ==
  ASSUME OwnInv, LineInv, Recover
  PROVE  LineInv'
<1>0. StackInv /\ TypeInv /\ HeapIsOwned
  BY DEF OwnInv
<1>1. /\ Top \in Asking /\ Height' = 3 /\ Top' = 3 /\ yyss'[3] = 3
      /\ yychar # YYEMPTY /\ ShiftOn(Top, TokenNo) = 0
  BY <1>0, RecoverStack, RecoverOwned
<1>2. /\ out' = IF yyerrstatus = 0 THEN Append(out, SyntaxError) ELSE out
      /\ yychar' = IF yyerrstatus # 3 THEN yychar ELSE YYEMPTY
      /\ yyerrstatus' = 3 /\ line' = line /\ wrongAt' = wrongAt /\ excused' = excused
  BY DEF Recover, Report, KeepsLookahead
<1>3. yychar \notin Expected(Top)
  <2>1. yychar \in Symbols \cup {"$end"}
    BY <1>0, <1>1 DEF StackInv
  <2> QED BY <1>1, <2>1, ShiftExpected DEF TokenNo
<1>4. InError' /\ ~Idle' /\ ~Done' /\ ~UnderWay'
  BY <1>1 DEF InError, Idle, Done, UnderWay
<1>5. Typed' = Typed /\ line'[1] = line[1]
  BY <1>2 DEF Typed
<1>6. CASE UnderWay
  <2>1. /\ NoCall /\ NoPrompt /\ IsSeq(out) /\ Spotted /\ wrongAt # 0
        /\ yyerrstatus # 0 => yyerrstatus + Taken <= 2
    BY <1>1, <1>3, <1>6 DEF LineInv, UnderWayInv, Spotless
  <2>2. /\ wrongAt = Taken + 1 /\ Typed = 1 /\ line[1].sym = yychar
        /\ yyerrstatus # 0 => excused
    BY <2>1 DEF Spotted
  <2>3. Taken \in Nat /\ yyerrstatus \in 0 .. 3
    BY <1>0, <1>1, TakenType DEF TypeInv
  <2>4. yyerrstatus # 3 /\ (yyerrstatus # 0 => wrongAt <= 2)
    BY <2>1, <2>2, <2>3
  <2>5. yychar' = yychar
    BY <1>2, <2>4
  <2>6. CASE yyerrstatus = 0
    <3>1. out' = Append(out, SyntaxError)
      BY <1>2, <2>6
    <3>2. NoCall' /\ NoPrompt' /\ ~NoError' /\ IsSeq(out')
      BY <2>1, <3>1, OutGrows, Messages
    <3>3. ErrorInv'
      BY <1>1, <1>2, <1>5, <2>1, <2>2, <2>5, <3>2 DEF ErrorInv
    <3> QED BY <1>4, <3>2, <3>3 DEF LineInv, ParsedInv, UnderWayInv
  <2>7. CASE yyerrstatus # 0
    <3>1. out' = out
      BY <1>2, <2>7
    <3>2. NoCall' /\ NoPrompt' /\ IsSeq(out')
      BY <2>1, <3>1 DEF NoCall, NoPrompt
    <3>3. excused' /\ wrongAt' <= 2
      BY <1>2, <2>2, <2>4, <2>7
    <3>4. ErrorInv'
      BY <1>1, <1>2, <1>5, <2>1, <2>2, <2>5, <3>2, <3>3 DEF ErrorInv
    <3> QED BY <1>4, <3>2, <3>4 DEF LineInv, ParsedInv, UnderWayInv
  <2> QED BY <2>6, <2>7
<1>7. CASE InError
  <2>1. Height = 3 /\ Top = 3
    <3>1. Top # 12
      BY <1>1 DEF Asking
    <3> QED BY <1>0, <1>7, <3>1, Phases
  <2>2. /\ wrongAt # 0 /\ Typed = 1 /\ NoCall /\ NoPrompt /\ IsSeq(out)
        /\ NoError => excused /\ wrongAt <= 2
        /\ yyerrstatus = 3 /\ line[1].sym = yychar
    BY <1>1, <1>7, <2>1 DEF LineInv, ErrorInv
  <2>3. ~Ended(line)
    <3>1. yychar # "LF"
      BY <1>3, <2>1, ExpectedRows
    <3> QED BY <1>0, <2>2, <3>1, LineIs
  <2>4. out' = out /\ yychar' = YYEMPTY
    BY <1>2, <2>2
  <2>5. NoCall' /\ NoPrompt' /\ IsSeq(out') /\ (NoError' => NoError)
    BY <2>2, <2>4 DEF NoCall, NoPrompt, NoError
  <2>6. ~Ended(line')
    BY <1>2, <2>3
  <2>7. ErrorInv'
    BY <1>1, <1>2, <1>5, <2>2, <2>4, <2>5, <2>6 DEF ErrorInv
  <2> QED BY <1>4, <2>5, <2>7 DEF LineInv, ParsedInv, UnderWayInv
<1>8. ~Idle /\ ~Done
  BY <1>1 DEF Idle, Done, Asking
<1> QED BY <1>0, <1>6, <1>7, <1>8, Phases

-----------------------------------------------------------------------------
(* The ends of the lines *)
LEMMA NowDone ==
  ASSUME Height' = 3, Top' \in {8, 10, 11}, yyss'[3] = Top'
  PROVE  Done' /\ ~Idle' /\ ~InError' /\ ~UnderWay'
BY DEF UnderWay, Idle, Done, InError

LEMMA NowIdle ==
  ASSUME Height' = 2, yychar' = YYEMPTY
  PROVE  Idle' /\ ~Done' /\ ~InError' /\ ~UnderWay'
BY DEF UnderWay, Idle, Done, InError

(* What comes of a line once it has been parsed *)
LEMMA CallsSame ==
  ASSUME line' = line, wrongAt' = wrongAt
  PROVE  Calls' = Calls
BY DEF Calls

LEMMA AnsweredStill ==
  ASSUME IsSeq(out), NEW x, ~IsCall(x), out' = Append(out, x), line' = line, wrongAt' = wrongAt,
         Answered
  PROVE  Answered'
<1>1. Calls' = Calls
  BY CallsSame
<1>2. NoCall => NoCall'
  BY OutGrows
<1>3. OneCall(Calls[1]) => OneCall(Calls[1])'
  BY <1>1, OutGrows DEF OneCall
<1> QED BY <1>1, <1>2, <1>3 DEF Answered

(* The reductions that end a line, and what they leave on the stack *)
LEMMA EndHolds ==
  ASSUME StackInv, TypeInv, HeapIsOwned, NEW n \in {4, 5, 7, 8, 10, 11, 12, 13},
         Reduce(n, DefaultValue(n)), NEW keep, keep = Height - PoppedBy(n)
  PROVE  /\ Height' = 3 /\ yyss'[3] = Top' /\ StackInv' /\ yychar = YYEMPTY /\ yychar' = YYEMPTY
         /\ line' = line /\ wrongAt' = wrongAt /\ excused' = excused /\ yyerrstatus' = yyerrstatus
         /\ n \in {4, 5, 7, 8} => Top' = 8
         /\ n \in {10, 11} => Top' = 10
         /\ n \in {12, 13} => Top' = 11
         /\ RuleIs(n, Top, Height, keep) /\ Typed' = Typed
<1>0. n \in 0 .. 29 /\ n \in 2 .. 29 /\ n # 9
  OBVIOUS
<1>1. RuleIs(n, Top, Height, keep) /\ BaseIs(n, keep, yyss[keep], Top')
  BY <1>0, ReduceTop
<1>2. keep = 2
  BY <1>0, <1>1 DEF RuleIs
<1>3. /\ n \in {4, 5, 7, 8} => Top' = 8
      /\ n \in {10, 11} => Top' = 10
      /\ n \in {12, 13} => Top' = 11
  BY <1>0, <1>1 DEF BaseIs
<1>4. Height' = keep + 1 /\ yyss'[keep + 1] = Top' /\ StackInv' /\ yychar = YYEMPTY
      /\ yychar' = YYEMPTY
  BY <1>0, ReduceStack
<1>5. keep + 1 = 3
  BY <1>2
<1>6. line' = line /\ wrongAt' = wrongAt /\ excused' = excused /\ yyerrstatus' = yyerrstatus
  BY DEF Reduce
<1>7. Typed' = Typed
  BY <1>6 DEF Typed
<1> QED BY <1>1, <1>3, <1>4, <1>5, <1>6, <1>7

(* The prompt after a call *)
LEMMA PromptAfterCall ==
  ASSUME OwnInv, LineInv, NEW n \in {4, 5}, ReduceCommand(n)
  PROVE  LineInv'
<1>0. StackInv /\ TypeInv /\ HeapIsOwned
  BY DEF OwnInv
<1>1. Reduce(n, DefaultValue(n)) /\ out' = Append(out, Prompt)
  BY DEF ReduceCommand
<1>2. PICK keep : keep = Height - PoppedBy(n)
  OBVIOUS
<1>3. /\ Height' = 3 /\ yyss'[3] = Top' /\ Top' = 8
      /\ line' = line /\ wrongAt' = wrongAt /\ excused' = excused /\ yyerrstatus' = yyerrstatus
      /\ RuleIs(n, Top, Height, keep) /\ Typed' = Typed
  BY <1>0, <1>1, <1>2, EndHolds
<1>4. Height = 3 /\ Top \in {10, 11}
  BY <1>3 DEF RuleIs
<1>5. Done
  BY <1>4 DEF Done
<1>6. /\ line # <<>> /\ Ended(line) /\ Answered /\ NoError /\ NoPrompt /\ wrongAt = 0
      /\ yyerrstatus <= 2 /\ IsSeq(out)
      /\ yyerrstatus # 0 => Typed < 2 /\ excused
  BY <1>4, <1>5 DEF LineInv, ParsedInv
<1>7. Prompted' /\ NoError' /\ IsSeq(out')
  BY <1>1, <1>6, OutGrows, Messages
<1>8. Answered'
  BY <1>1, <1>3, <1>6, AnsweredStill, Messages
<1>9. Done' /\ ~Idle' /\ ~InError' /\ ~UnderWay'
  BY <1>3, NowDone
<1>10. line' # <<>> /\ Ended(line') /\ wrongAt' = 0 /\ Top' \notin {10, 11}
       /\ yyerrstatus' <= 2 /\ (yyerrstatus' # 0 => Typed' < 2 /\ excused')
  BY <1>3, <1>6
<1>11. ParsedInv'
  BY <1>7, <1>8, <1>10 DEF ParsedInv
<1> QED BY <1>7, <1>9, <1>11 DEF LineInv, UnderWayInv, ErrorInv

(* The prompt after a wrong line *)
LEMMA PromptAfterError ==
  ASSUME OwnInv, LineInv, ReduceCommand(7)
  PROVE  LineInv'
<1>0. StackInv /\ TypeInv /\ HeapIsOwned
  BY DEF OwnInv
<1>1. Reduce(7, DefaultValue(7)) /\ out' = Append(out, Prompt)
  BY DEF ReduceCommand
<1>2. PICK keep : keep = Height - PoppedBy(7)
  OBVIOUS
<1>3. /\ Height' = 3 /\ yyss'[3] = Top' /\ Top' = 8 /\ yychar = YYEMPTY
      /\ line' = line /\ wrongAt' = wrongAt /\ excused' = excused /\ yyerrstatus' = yyerrstatus
      /\ RuleIs(7, Top, Height, keep) /\ Typed' = Typed
  BY <1>0, <1>1, <1>2, EndHolds
<1>4. Height = 4 /\ Top = 12
  BY <1>3 DEF RuleIs
<1>5. InError
  <2>1. ~Idle /\ ~Done
    BY <1>4 DEF Idle, Done
  <2>2. yyss[Height - 1] \in Below(Top) /\ Height - 1 = 3
    BY <1>0, <1>4, UnderTop
  <2>3. yyss[3] = 3
    BY <1>4, <2>2, BelowRows
  <2> QED BY <1>4, <2>3 DEF InError
<1>6. /\ wrongAt # 0 /\ NoCall /\ NoPrompt /\ IsSeq(out) /\ Typed = 1
      /\ NoError => excused
      /\ yyerrstatus = 2 /\ Ended(line)
  BY <1>3, <1>4, <1>5 DEF LineInv, ErrorInv
<1>7. Prompted' /\ NoCall' /\ (NoError' => NoError) /\ IsSeq(out')
  BY <1>1, <1>6, OutGrows, Messages
<1>8. Calls' = <<>>
  BY <1>3, <1>6 DEF Calls
<1>9. Done' /\ ~Idle' /\ ~InError' /\ ~UnderWay'
  BY <1>3, NowDone
<1>10. line # <<>>
  BY <1>0, <1>6, LineIs
<1>11. line' # <<>> /\ Ended(line') /\ wrongAt' # 0 /\ Top' \notin {10, 11}
       /\ yyerrstatus' <= 2 /\ (NoError' => excused')
  BY <1>3, <1>6, <1>7, <1>10
<1>12. Answered'
  BY <1>7, <1>8 DEF Answered
<1>13. ParsedInv'
  BY <1>7, <1>11, <1>12 DEF ParsedInv
<1> QED BY <1>7, <1>9, <1>13 DEF LineInv, UnderWayInv, ErrorInv

(* The prompt after a blank line *)
LEMMA PromptAfterBlank ==
  ASSUME OwnInv, LineInv, ReduceCommand(8)
  PROVE  LineInv'
<1>0. StackInv /\ TypeInv /\ HeapIsOwned
  BY DEF OwnInv
<1>1. Reduce(8, DefaultValue(8)) /\ out' = Append(out, Prompt)
  BY DEF ReduceCommand
<1>2. PICK keep : keep = Height - PoppedBy(8)
  OBVIOUS
<1>3. /\ Height' = 3 /\ yyss'[3] = Top' /\ Top' = 8 /\ yychar = YYEMPTY
      /\ line' = line /\ wrongAt' = wrongAt /\ excused' = excused /\ yyerrstatus' = yyerrstatus
      /\ RuleIs(8, Top, Height, keep) /\ Typed' = Typed
  BY <1>0, <1>1, <1>2, EndHolds
<1>4. Height = 3 /\ Top = 7 /\ yyss[3] = 7
  <2>1. Height = 3 /\ Top = 7
    BY <1>3 DEF RuleIs
  <2> QED BY <1>0, <2>1, TopIs
<1>5. UnderWay
  BY <1>4 DEF UnderWay
<1>6. /\ NoCall /\ NoPrompt /\ wrongAt = 0 /\ Spotless /\ IsSeq(out)
      /\ yyerrstatus # 0 => yyerrstatus + Taken <= 2
  BY <1>3, <1>5 DEF LineInv, UnderWayInv, Spotted
<1>7. Taken = 1
  <2>1. Place(3) = 1
    BY <1>0, PlaceIs
  <2>2. Place(Height) = 1 /\ Height >= 3 /\ Top \notin {28, 29, 42}
    BY <1>4, <2>1
  <2> QED BY <2>2, TakenIs
<1>8. /\ Typed = 1 /\ NoError /\ line[1].sym = "LF"
      /\ yyerrstatus # 0 => excused
  BY <1>3, <1>4, <1>6, <1>7 DEF Spotless, AtEnd
<1>9. Ended(line) /\ line # <<>>
  BY <1>0, <1>8, LineIs
<1>10. Meaning(line) = <<>>
  <2>1. ~(Len(line) > 1)
    BY <1>8 DEF Typed
  <2> QED BY <2>1 DEF Meaning, IsSelect, IsLoad
<1>11. Prompted' /\ NoCall' /\ NoError' /\ IsSeq(out')
  BY <1>1, <1>6, <1>8, OutGrows, Messages
<1>12. Calls' = <<>>
  BY <1>3, <1>6, <1>10 DEF Calls
<1>13. Done' /\ ~Idle' /\ ~InError' /\ ~UnderWay'
  BY <1>3, NowDone
<1>14. yyerrstatus' <= 2
  <2>1. yyerrstatus \in 0 .. 3
    BY <1>0 DEF TypeInv
  <2> QED BY <1>3, <1>6, <1>7, <2>1
<1>15. line' # <<>> /\ Ended(line') /\ wrongAt' = 0 /\ Top' \notin {10, 11}
       /\ (yyerrstatus' # 0 => Typed' < 2 /\ excused')
  BY <1>3, <1>6, <1>8, <1>9
<1>16. Answered'
  BY <1>11, <1>12 DEF Answered
<1>17. ParsedInv'
  BY <1>11, <1>14, <1>15, <1>16 DEF ParsedInv
<1> QED BY <1>11, <1>13, <1>17 DEF LineInv, UnderWayInv, ErrorInv

-----------------------------------------------------------------------------
(* The calls *)
LEMMA MeaningIs ==
  ASSUME TypeInv, Typed >= 2, line[Typed].sym = "LF"
  PROVE  /\ SelectFits(line) =>
              Meaning(line) = <<SelectCall(AttributeOf(line[2]), line[4].text,
                                           [j \in 1 .. (Typed - 5) \div 4 |->
                                              ConditionAt(line, 4 * j + 2)])>>
         /\ LoadFits(line) =>
              Meaning(line) = <<LoadCall(line[2].text, line[4].text, Typed = 7)>>
<1>1. Typed \in Nat /\ DOMAIN line = 1 .. Typed /\ Ended(line)
  BY LineIs
<1>2. 1 \in DOMAIN line
  BY <1>1
<1>3. Typed = Len(line) /\ Len(line) > 1
  BY <1>1 DEF Typed
<1>4. ASSUME SelectFits(line)
      PROVE  IsSelect(line)
  BY <1>1, <1>3, <1>4 DEF IsSelect, Fits, SelectFits
<1>5. ASSUME LoadFits(line)
      PROVE  IsLoad(line) /\ ~IsSelect(line)
  <2>1. IsLoad(line)
    BY <1>1, <1>3, <1>5 DEF IsLoad, Fits, LoadFits
  <2>2. line[1].sym \in {"LOAD"}
    BY <1>2, <1>5, LoadRows DEF LoadFits
  <2>3. ~(line[1].sym \in SelectSymbols(1))
    BY <2>2, SelectRows
  <2>4. ~IsSelect(line)
    BY <1>2, <2>3 DEF IsSelect, Fits
  <2> QED BY <2>1, <2>4
<1> QED BY <1>3, <1>4, <1>5 DEF Meaning

LEMMA RightSoFar ==
  ASSUME OwnInv, LineInv, yychar = YYEMPTY, Height >= 3, yyss[3] \in {4, 5}
  PROVE  /\ wrongAt = 0 /\ NoCall /\ NoPrompt /\ NoError /\ IsSeq(out)
         /\ Typed = Taken /\ LineFits /\ StackStands
         /\ yyerrstatus # 0 => yyerrstatus + Taken <= 2
         /\ Top \in AtEnd => line[Typed].sym = "LF"
<1>1. UnderWay
  BY DEF UnderWay
<1>2. /\ NoCall /\ NoPrompt /\ wrongAt = 0 /\ Spotless /\ IsSeq(out)
      /\ yyerrstatus # 0 => yyerrstatus + Taken <= 2
  BY <1>1 DEF LineInv, UnderWayInv, Spotted
<1> QED BY <1>2 DEF Spotless

LEMMA MadeCall ==
  ASSUME OwnInv, LineInv, NEW n \in 10 .. 13, Reduce(n, DefaultValue(n)), Height >= 3,
         yyss[3] \in {4, 5}, Top \in AtEnd, Taken \in Nat, Taken >= 3,
         NEW c, IsCall(c), c # Prompt, c # SyntaxError, out' = Append(out, c),
         Meaning(line) = <<c>>
  PROVE  LineInv'
<1>0. StackInv /\ TypeInv /\ HeapIsOwned /\ n \in {4, 5, 7, 8, 10, 11, 12, 13}
  BY DEF OwnInv
<1>2. PICK keep : keep = Height - PoppedBy(n)
  OBVIOUS
<1>3. /\ Height' = 3 /\ yyss'[3] = Top' /\ Top' \in {10, 11} /\ yychar = YYEMPTY
      /\ line' = line /\ wrongAt' = wrongAt /\ excused' = excused /\ yyerrstatus' = yyerrstatus
      /\ Typed' = Typed
  <2>1. n \in {10, 11} \/ n \in {12, 13}
    OBVIOUS
  <2> QED BY <1>0, <1>2, <2>1, EndHolds
<1>4. /\ wrongAt = 0 /\ NoCall /\ NoPrompt /\ NoError /\ IsSeq(out)
      /\ Typed = Taken /\ line[Typed].sym = "LF"
      /\ yyerrstatus # 0 => yyerrstatus + Taken <= 2
  BY <1>3, RightSoFar
<1>5. yyerrstatus = 0
  <2>1. yyerrstatus \in 0 .. 3
    BY <1>0 DEF TypeInv
  <2> QED BY <1>4, <2>1
<1>6. Ended(line) /\ line # <<>>
  BY <1>0, <1>4, LineIs
<1>7. OneCall(c)' /\ NoPrompt' /\ NoError' /\ IsSeq(out')
  BY <1>4, OutGrows
<1>8. Calls' = <<c>>
  BY <1>3, <1>4 DEF Calls
<1>9. Calls[1]' = c /\ Calls' # <<>> /\ Calls' = <<Calls[1]'>>
  BY <1>8
<1>10. Answered'
  <2>1. OneCall(Calls[1])'
    BY <1>7, <1>9 DEF OneCall
  <2> QED BY <1>9, <2>1 DEF Answered
<1>11. Done' /\ ~Idle' /\ ~InError' /\ ~UnderWay'
  BY <1>3, NowDone
<1>12. line' # <<>> /\ Ended(line') /\ wrongAt' = 0 /\ yyerrstatus' = 0
  BY <1>3, <1>4, <1>5, <1>6
<1>13. ParsedInv'
  BY <1>3, <1>7, <1>10, <1>12 DEF ParsedInv
<1> QED BY <1>7, <1>11, <1>13 DEF LineInv, UnderWayInv, ErrorInv

LEMMA LoadLine ==
  ASSUME OwnInv, LineInv, NEW n, ReduceLoad(n)
  PROVE  LineInv'
<1>0. StackInv /\ TypeInv /\ HeapIsOwned
  BY DEF OwnInv
<1>1. /\ n \in {10, 11} /\ Height \in {7, 9} /\ (Height = 9 <=> n = 11)
      /\ yyss[3] = 5 /\ yyss[4] = 19 /\ yyss[6] = 23 /\ yyss[Height] \in {27, 41}
      /\ Dollar(n, 2) = yyvs[4] /\ Dollar(n, 4) = yyvs[6]
      /\ StringIn(heap, yyvs[4]) /\ StringIn(heap, yyvs[6])
  BY <1>0, LoadOwned
<1>2. /\ Reduce(n, DefaultValue(n))
      /\ out' = Append(out, LoadCall(TextAt(Dollar(n, 2)), TextAt(Dollar(n, 4)), n = 11))
  BY DEF ReduceLoad
<1>3. yychar = YYEMPTY
  <2>1. n \in 0 .. 29 /\ Reduces(n)
    BY <1>1, <1>2 DEF Reduce
  <2> QED BY <1>0, <2>1, Reduction
<1>4. /\ Typed = Taken /\ LineFits /\ StackStands
      /\ Top \in AtEnd => line[Typed].sym = "LF"
  BY <1>1, <1>3, RightSoFar
<1>5. Top \in {27, 41} /\ Top \in AtEnd /\ Top \notin {28, 29, 42}
  BY <1>0, <1>1, TopIs DEF AtEnd
<1>6. Taken = IF n = 11 THEN 7 ELSE 5
  <2>1. CASE Height = 7
    <3>1. Place(7) = 5
      BY <1>0, PlaceIs
    <3>2. Place(Height) = 5
      BY <2>1, <3>1
    <3>3. Taken = 5
      BY <1>5, <2>1, <3>2, TakenIs
    <3> QED BY <1>1, <2>1, <3>3
  <2>2. CASE Height = 9
    <3>1. yyss[7] # 24
      BY <1>0, <1>1, <2>2, Shape
    <3>2. yyss[8] # 28
      BY <1>0, <2>2, <3>1, Shape
    <3>3. Place(9) = 7
      BY <1>0, <3>2, PlaceIs
    <3>4. Place(Height) = 7
      BY <2>2, <3>3
    <3>5. Taken = 7
      BY <1>5, <2>2, <3>4, TakenIs
    <3> QED BY <1>1, <2>2, <3>5
  <2> QED BY <1>1, <2>1, <2>2
<1>7. Typed >= 2 /\ Taken \in Nat /\ Taken >= 3 /\ (Typed = 7 <=> n = 11)
  BY <1>4, <1>6
<1>8. LoadFits(line)
  BY <1>1, <1>4 DEF LineFits
<1>9. Meaning(line) = <<LoadCall(line[2].text, line[4].text, Typed = 7)>>
  BY <1>0, <1>4, <1>5, <1>7, <1>8, MeaningIs
<1>10. Place(4) = 2 /\ Place(6) = 4
  BY <1>0, PlaceIs
<1>11. TextIn(heap, yyvs[4]) = line[2].text /\ TextIn(heap, yyvs[6]) = line[4].text
  <2>1. 4 \in 3 .. Height /\ 6 \in 3 .. Height
    BY <1>1
  <2>2. Stands(heap, line, yystos[yyss[4]], yyvs[4], 2)
        /\ Stands(heap, line, yystos[yyss[6]], yyvs[6], 4)
    BY <1>4, <1>10, <2>1 DEF StackStands
  <2>3. yystos[yyss[4]] = 36 /\ yystos[yyss[6]] = 17
    BY <1>1, SymbolRows
  <2>4. Stands(heap, line, 36, yyvs[4], 2) /\ Stands(heap, line, 17, yyvs[6], 4)
    BY <2>2, <2>3
  <2>5. TextIn(heap, yyvs[4]) = line[2].text
    BY <2>4 DEF Stands
  <2>6. TextIn(heap, yyvs[6]) = line[4].text
    BY <2>4 DEF Stands
  <2> QED BY <2>5, <2>6
<1>12. TextAt(Dollar(n, 2)) = line[2].text /\ TextAt(Dollar(n, 4)) = line[4].text
  BY <1>1, <1>11 DEF TextAt, Has, TextIn
<1>13. PICK c : c = LoadCall(line[2].text, line[4].text, Typed = 7)
  OBVIOUS
<1>14. out' = Append(out, c)
  <2>1. (Typed = 7) = (n = 11)
    BY <1>7
  <2> QED BY <1>2, <1>12, <1>13, <2>1
<1>15. IsCall(c) /\ c # Prompt /\ c # SyntaxError
  BY <1>13, Messages
<1>16. n \in 10 .. 13 /\ Height >= 3 /\ yyss[3] \in {4, 5}
  BY <1>1
<1> QED BY <1>2, <1>5, <1>7, <1>9, <1>13, <1>14, <1>15, <1>16, MadeCall

(* The conditions of a call are the ones of the line. *)
LEMMA CallConditions ==
  ASSUME NEW m \in Nat, NEW cs, DOMAIN cs = 1 .. m,
         \A j \in 1 .. m : Meant(heap, line, cs[j], 6 + 4 * (j - 1))
  PROVE  [i \in DOMAIN cs |-> [attr |-> Known(cs[i].attr), comp |-> cs[i].comp,
                               value |-> TextIn(heap, cs[i].value)]]
         = [j \in 1 .. m |-> ConditionAt(line, 4 * j + 2)]
<1>1. ASSUME NEW j \in 1 .. m
      PROVE  [attr |-> Known(cs[j].attr), comp |-> cs[j].comp,
              value |-> TextIn(heap, cs[j].value)] = ConditionAt(line, 4 * j + 2)
  <2>1. PICK p : p = 4 * j + 2
    OBVIOUS
  <2>2. 6 + 4 * (j - 1) = p
    BY <2>1
  <2>3. Meant(heap, line, cs[j], p)
    BY <2>2
  <2>4. /\ Known(cs[j].attr) = AttributeOf(line[p])
        /\ cs[j].comp = ComparatorOf(line[p + 1].sym)
        /\ TextIn(heap, cs[j].value) = line[p + 2].text
    BY <2>3 DEF Meant
  <2> QED BY <2>1, <2>4 DEF ConditionAt
<1> QED BY <1>1

LEMMA SelectLine ==
  ASSUME OwnInv, LineInv, NEW n, ReduceSelect(n)
  PROVE  LineInv'
<1>0. StackInv /\ TypeInv /\ HeapIsOwned
  BY DEF OwnInv
<1>1. /\ n \in {12, 13} /\ Height \in {7, 9} /\ (Height = 9 <=> n = 13)
      /\ yyss[3] = 4 /\ yyss[4] = 16 /\ yyss[6] = 22 /\ yyss[Height] \in {25, 33}
      /\ Dollar(n, 2) = yyvs[4] /\ Dollar(n, 4) = yyvs[6] /\ StringIn(heap, yyvs[6])
      /\ n = 13 => Dollar(n, 6) = yyvs[8] /\ yyss[8] = 28
  BY <1>0, SelectOwned
<1>2. PICK cs : cs = IF n = 12 THEN <<>> ELSE CondsAt(Dollar(n, 6))
  OBVIOUS
<1>3. PICK ds : ds = [i \in DOMAIN cs |-> [attr |-> Known(cs[i].attr), comp |-> cs[i].comp,
                                           value |-> TextAt(cs[i].value)]]
  OBVIOUS
<1>4. /\ Reduce(n, DefaultValue(n))
      /\ out' = Append(out, SelectCall(Known(Dollar(n, 2)), TextAt(Dollar(n, 4)), ds))
  BY <1>2, <1>3 DEF ReduceSelect
<1>5. yychar = YYEMPTY
  <2>1. n \in 0 .. 29 /\ Reduces(n)
    BY <1>1, <1>4 DEF Reduce
  <2> QED BY <1>0, <2>1, Reduction
<1>6. /\ Typed = Taken /\ LineFits /\ StackStands
      /\ Top \in AtEnd => line[Typed].sym = "LF"
  BY <1>1, <1>5, RightSoFar
<1>7. Top \in {25, 33} /\ Top \in AtEnd /\ Top \notin {28, 29, 42}
  BY <1>0, <1>1, TopIs DEF AtEnd
<1>8. \E m \in Nat : /\ Taken = 4 * m + 5 /\ DOMAIN cs = 1 .. m
                     /\ \A j \in 1 .. m : Meant(heap, line, cs[j], 6 + 4 * (j - 1))
  <2>1. CASE n = 12
    <3>1. cs = <<>> /\ DOMAIN cs = 1 .. 0
      BY <1>2, <2>1
    <3>2. Place(7) = 5 /\ Height = 7
      BY <1>0, <1>1, <2>1, PlaceIs
    <3>3. Place(Height) = 5
      BY <3>2
    <3>4. Taken = 4 * 0 + 5
      BY <1>7, <3>2, <3>3, TakenIs
    <3> QED BY <3>1, <3>4
  <2>2. CASE n = 13
    <3>1. Height = 9 /\ yyss[8] = 28
      BY <1>1, <2>2
    <3>2. PICK m \in Nat : m = Listed /\ DOMAIN CondsIn(heap, yyvs[8]) = 1 .. m
      BY <1>0, <3>1, ListIs
    <3>3. cs = CondsIn(heap, yyvs[8])
      BY <1>1, <1>2, <2>2 DEF CondsAt, Has, CondsIn
    <3>4. Place(9) = 4 * m + 9 - 4
      BY <1>0, <3>1, <3>2, PlaceIs
    <3>5. Place(Height) = 4 * m + 5
      BY <3>1, <3>2, <3>4
    <3>6. Taken = 4 * m + 5
      BY <1>7, <3>1, <3>2, <3>5, TakenIs
    <3>7. Stands(heap, line, 31, yyvs[8], 6)
      <4>1. 8 \in 3 .. Height
        BY <3>1
      <4>2. Place(8) = 6 /\ yystos[28] = 31
        BY <1>0, PlaceIs, SymbolRows
      <4> QED BY <1>6, <3>1, <4>1, <4>2 DEF StackStands
    <3>8. \A j \in 1 .. m : Meant(heap, line, cs[j], 6 + 4 * (j - 1))
      BY <3>2, <3>3, <3>7 DEF Stands
    <3> QED BY <3>2, <3>3, <3>6, <3>8
  <2> QED BY <1>1, <2>1, <2>2
<1>9. PICK m \in Nat : /\ Taken = 4 * m + 5 /\ DOMAIN cs = 1 .. m
                       /\ \A j \in 1 .. m : Meant(heap, line, cs[j], 6 + 4 * (j - 1))
  BY <1>8
<1>10. Typed >= 2 /\ Taken \in Nat /\ Taken >= 3 /\ (Typed - 5) \div 4 = m
  BY <1>6, <1>9
<1>11. SelectFits(line)
  BY <1>1, <1>6 DEF LineFits
<1>12. PICK fs : fs = [j \in 1 .. m |-> ConditionAt(line, 4 * j + 2)]
  OBVIOUS
<1>13. Meaning(line) = <<SelectCall(AttributeOf(line[2]), line[4].text, fs)>>
  BY <1>0, <1>6, <1>7, <1>10, <1>11, <1>12, MeaningIs
<1>14. ds = fs
  <2>1. \A b : TextAt(b) = TextIn(heap, b)
    BY DEF TextAt, Has, TextIn
  <2>2. ds = [i \in DOMAIN cs |-> [attr |-> Known(cs[i].attr), comp |-> cs[i].comp,
                                   value |-> TextIn(heap, cs[i].value)]]
    BY <1>3, <2>1
  <2> QED BY <1>9, <1>12, <2>2, CallConditions
<1>15. Known(yyvs[4]) = AttributeOf(line[2]) /\ TextIn(heap, yyvs[6]) = line[4].text
  <2>1. 4 \in 3 .. Height /\ 6 \in 3 .. Height
    BY <1>1
  <2>2. Place(4) = 2 /\ Place(6) = 4
    BY <1>0, PlaceIs
  <2>3. Stands(heap, line, yystos[yyss[4]], yyvs[4], 2)
        /\ Stands(heap, line, yystos[yyss[6]], yyvs[6], 4)
    BY <1>6, <2>1, <2>2 DEF StackStands
  <2>4. yystos[yyss[4]] = 33 /\ yystos[yyss[6]] = 36
    BY <1>1, SymbolRows
  <2>5. Stands(heap, line, 33, yyvs[4], 2) /\ Stands(heap, line, 36, yyvs[6], 4)
    BY <2>3, <2>4
  <2>6. Known(yyvs[4]) = AttributeOf(line[2])
    BY <2>5 DEF Stands
  <2>7. TextIn(heap, yyvs[6]) = line[4].text
    BY <2>5 DEF Stands
  <2> QED BY <2>6, <2>7
<1>16. TextAt(Dollar(n, 4)) = line[4].text /\ Known(Dollar(n, 2)) = AttributeOf(line[2])
  BY <1>1, <1>15 DEF TextAt, Has, TextIn
<1>17. PICK c : c = SelectCall(AttributeOf(line[2]), line[4].text, fs)
  OBVIOUS
<1>18. out' = Append(out, c)
  BY <1>4, <1>14, <1>16, <1>17
<1>19. IsCall(c) /\ c # Prompt /\ c # SyntaxError
  BY <1>17, Messages
<1>20. n \in 10 .. 13 /\ Height >= 3 /\ yyss[3] \in {4, 5}
  BY <1>1
<1> QED BY <1>4, <1>7, <1>10, <1>13, <1>17, <1>18, <1>19, <1>20, MadeCall

-----------------------------------------------------------------------------
(* commands: the stack is empty again, and the line stays answered. *)
LEMMA CommandsLine ==
  ASSUME OwnInv, LineInv, NEW n \in {2, 3}, ReduceOnly(n)
  PROVE  LineInv'
<1>0. StackInv /\ TypeInv /\ HeapIsOwned /\ n \in 0 .. 29 /\ n \in 2 .. 29 /\ n # 9
  BY DEF OwnInv
<1>1. Reduce(n, DefaultValue(n)) /\ out' = out
  BY DEF ReduceOnly
<1>2. PICK keep : keep = Height - PoppedBy(n)
  OBVIOUS
<1>3. RuleIs(n, Top, Height, keep) /\ BaseIs(n, keep, yyss[keep], Top')
  BY <1>0, <1>1, <1>2, ReduceTop
<1>4. Height' = keep + 1 /\ yychar = YYEMPTY /\ yychar' = YYEMPTY
  BY <1>0, <1>1, <1>2, ReduceStack
<1>5. keep = 1 /\ Top' = 1 /\ ((Height = 3 /\ Top = 8) \/ (Height = 1 /\ Top = 0))
  <2>1. n = 2 \/ n = 3
    OBVIOUS
  <2> QED BY <1>3, <2>1 DEF RuleIs, BaseIs
<1>6. /\ line' = line /\ wrongAt' = wrongAt /\ excused' = excused /\ yyerrstatus' = yyerrstatus
      /\ Typed' = Typed
  BY <1>1 DEF Reduce, Typed
<1>7. Height' = 2
  BY <1>4, <1>5
<1>8. Idle' /\ ~Done' /\ ~InError' /\ ~UnderWay'
  BY <1>4, <1>7, NowIdle
<1>9. (Idle \/ Done) /\ Top \notin {10, 11}
  BY <1>4, <1>5 DEF Idle, Done
<1>10. /\ line # <<>> => Ended(line) /\ Answered /\ (wrongAt = 0 => NoError) /\ Prompted
       /\ line = <<>> => wrongAt = 0
       /\ wrongAt # 0 /\ NoError => excused
       /\ yyerrstatus <= 2
       /\ yyerrstatus # 0 => wrongAt # 0 \/ (Typed < 2 /\ excused)
  BY <1>9 DEF LineInv, ParsedInv
<1>11. /\ Calls' = Calls /\ NoCall' = NoCall /\ NoError' = NoError /\ Prompted' = Prompted
  BY <1>1, <1>6, CallsSame DEF NoCall, NoError, Prompted
<1>12. Answered => Answered'
  BY <1>1, <1>11 DEF Answered, OneCall
<1>13. IsSeq(out')
  BY <1>1 DEF LineInv
<1>14. Top' \notin {10, 11}
  BY <1>5
<1>15. ParsedInv'
  BY <1>6, <1>8, <1>10, <1>11, <1>12, <1>14 DEF ParsedInv
<1> QED BY <1>8, <1>13, <1>15 DEF LineInv, UnderWayInv, ErrorInv

LEMMA InitLine == Init => LineInv
<1> SUFFICES ASSUME Init
             PROVE  LineInv
  OBVIOUS
<1>1. /\ yyss = <<0>> /\ yychar = YYEMPTY /\ yyerrstatus = 0 /\ line = <<>> /\ wrongAt = 0
      /\ out = <<Prompt>>
  BY DEF Init
<1>2. Height = 1 /\ Top = 0
  BY <1>1 DEF Height, Top, Last
<1>3. ~Done /\ ~InError /\ ~UnderWay
  BY <1>1, <1>2 DEF Done, InError, UnderWay
<1>4. ParsedInv
  BY <1>1, <1>2, <1>3 DEF ParsedInv
<1>5. IsSeq(out)
  <2>1. out \in Seq({Prompt})
    BY <1>1
  <2> QED BY <2>1 DEF IsSeq
<1> QED BY <1>3, <1>4, <1>5 DEF LineInv, UnderWayInv, ErrorInv

(* Nothing else has a part in it. *)
LEMMA SameLine ==
  ASSUME LineInv, UNCHANGED <<yyss, yyvs, yychar, yylval, yyerrstatus, heap, line, wrongAt,
                              excused, out>>
  PROVE  LineInv'
<1>1. Height' = Height /\ Top' = Top /\ Typed' = Typed /\ Listed' = Listed
  BY DEF Height, Top, Typed, Listed
<1>2. \A i : Place(i)' = Place(i)
  BY <1>1 DEF Place
<1>3. Place(Height)' = Place(Height)
  BY <1>1 DEF Place
<1>4. Width(Top)' = Width(Top)
  BY <1>1 DEF Width
<1>5. Taken' = Taken
  BY <1>1, <1>3, <1>4 DEF Taken
<1>6. /\ Idle' = Idle /\ Done' = Done /\ InError' = InError /\ UnderWay' = UnderWay
  BY <1>1 DEF Idle, Done, InError, UnderWay
<1>7. /\ NoCall' = NoCall /\ NoPrompt' = NoPrompt /\ NoError' = NoError /\ Prompted' = Prompted
      /\ Answered' = Answered
  BY DEF NoCall, NoPrompt, NoError, Prompted, Answered, OneCall, Calls
<1>8. StackStands => StackStands'
  BY <1>1, <1>2 DEF StackStands
<1>9. LineFits' = LineFits
  BY <1>1 DEF LineFits
<1>10. Spotless => Spotless'
  BY <1>1, <1>5, <1>7, <1>8, <1>9 DEF Spotless
<1>11. Spotted => Spotted'
  BY <1>1, <1>5 DEF Spotted
<1>12. UnderWayInv => UnderWayInv'
  BY <1>5, <1>6, <1>7, <1>10, <1>11 DEF UnderWayInv
<1>13. ParsedInv => ParsedInv'
  BY <1>1, <1>6, <1>7 DEF ParsedInv
<1>14. ErrorInv => ErrorInv'
  BY <1>1, <1>6, <1>7 DEF ErrorInv
<1> QED BY <1>12, <1>13, <1>14 DEF LineInv

LEMMA LineStep == ASSUME ~IsFiniteSet(Blocks) PROVE OwnInv /\ LineInv /\ [Next]_vars => LineInv'
<1> SUFFICES ASSUME OwnInv, LineInv, [Next]_vars
             PROVE  LineInv'
  OBVIOUS
<1>1. CASE UNCHANGED vars
  BY <1>1, SameLine DEF vars
<1>2. CASE Accept
  BY <1>2, SameLine DEF Accept, history
<1>3. CASE ReduceQuit
  BY <1>3, SameLine DEF ReduceQuit, history
<1>4. CASE AbortAtEnd
  BY <1>4, SameLine DEF AbortAtEnd, history
<1>5. CASE Shift
  BY <1>5, ShiftLine
<1>6. CASE Recover
  BY <1>6, RecoverLine
<1>7. CASE ReduceFirstCondition
  BY <1>7, FirstLine
<1>8. CASE ReduceNextCondition
  BY <1>8, NextLine
<1>9. CASE ReduceCondition
  BY <1>9, ConditionLine
<1>10. CASE ReduceAttribute
  BY <1>10, AttributeLine
<1>11. ASSUME NEW n \in DOMAIN yyr2, ReduceOnly(n)
       PROVE  LineInv'
  <2>1. n \in {2, 3, 6, 17, 21, 22, 23} /\ Reduce(n, DefaultValue(n))
    BY <1>11 DEF ReduceOnly
  <2>2. n # 6
    <3>1. n \in 0 .. 29 /\ Reduces(n) /\ StackInv
      BY <2>1 DEF Reduce, OwnInv
    <3> QED BY <3>1, Reduction DEF RuleIs
  <2>3. n \in {2, 3} \/ n \in {17, 21, 22, 23}
    BY <2>1, <2>2
  <2> QED BY <1>11, <2>3, CommandsLine, PassLine
<1>12. ASSUME NEW n \in DOMAIN yyr2, ReduceCommand(n)
       PROVE  LineInv'
  <2>1. n \in {4, 5} \/ n = 7 \/ n = 8
    BY <1>12 DEF ReduceCommand
  <2> QED BY <1>12, <2>1, PromptAfterCall, PromptAfterError, PromptAfterBlank
<1>13. ASSUME NEW n \in DOMAIN yyr2, ReduceLoad(n)
       PROVE  LineInv'
  BY <1>13, LoadLine
<1>14. ASSUME NEW n \in DOMAIN yyr2, ReduceSelect(n)
       PROVE  LineInv'
  BY <1>14, SelectLine
<1>15. ASSUME NEW n \in DOMAIN yyr2, ReduceStar(n)
       PROVE  LineInv'
  <2>1. n \in {18, 19}
    BY <1>15 DEF ReduceStar
  <2> QED BY <1>15, <2>1, StarLine
<1>16. ASSUME NEW n \in DOMAIN yyr2, ReduceComparator(n)
       PROVE  LineInv'
  <2>1. n \in 24 .. 29
    BY <1>16 DEF ReduceComparator
  <2> QED BY <1>16, <2>1, ComparatorLine
<1>17. ASSUME NEW tok \in Tokens, yylex(tok)
       PROVE  LineInv'
  BY <1>17, ReadLine
<1> QED BY <1>1, <1>2, <1>3, <1>4, <1>5, <1>6, <1>7, <1>8, <1>9, <1>10, <1>11, <1>12, <1>13,
           <1>14, <1>15, <1>16, <1>17 DEF Next, Steps

-----------------------------------------------------------------------------
(* In a state that needs a token, a line that has ended has been parsed. *)
LEMMA AskingWithoutLine ==
  ASSUME OwnInv, LineInv, Asks, Ended(line)
  PROVE  Idle /\ Top \notin {10, 11}
<1>0. StackInv /\ TypeInv /\ HeapIsOwned
  BY DEF OwnInv
<1>1. yychar = YYEMPTY /\ Top \in Asking
  <2>1. Top \in States
    BY <1>0, TopIs
  <2> QED BY <2>1, AskingStates DEF Asks
<1>2. ~Done /\ Top \notin {10, 11}
  BY <1>1 DEF Done, Asking
<1>3. ~InError
  <2>1. SUFFICES ASSUME InError
                 PROVE  FALSE
    OBVIOUS
  <2>2. Top # 12
    BY <1>1 DEF Asking
  <2>3. Height = 3
    BY <1>0, <2>1, <2>2, Phases
  <2> QED BY <1>1, <2>1, <2>3 DEF LineInv, ErrorInv
<1>4. ~UnderWay
  <2>1. SUFFICES ASSUME UnderWay
                 PROVE  FALSE
    OBVIOUS
  <2>2. Height >= 3 /\ yyss[3] # 3
    BY <1>1, <2>1 DEF UnderWay
  <2>3. Spotless
    BY <1>1, <2>1 DEF LineInv, UnderWayInv, Spotted
  <2>4. PICK tok : tok = [sym |-> "LF", text |-> NoText]
    OBVIOUS
  <2>5. tok \in Tokens
    BY <2>4 DEF Tokens, Symbols, WithText
  <2> QED BY <1>1, <2>2, <2>3, <2>5, NextToken
<1> QED BY <1>0, <1>2, <1>3, <1>4, Phases

LEMMA LineInvAnswers ==
  ASSUME OwnInv, LineInv
  PROVE  LineIsAnswered
<1>0. PICK calls : calls = IF wrongAt = 0 THEN Meaning(line) ELSE <<>>
  OBVIOUS
<1>1. ASSUME line # <<>>, Ended(line), Asks
      PROVE  /\ Times(IsCall) = Len(calls) /\ \A o \in Range(out) : IsCall(o) => o = calls[1]
             /\ Times(IsPrompt) = 1 /\ Last(out) = Prompt
             /\ wrongAt = 0 => SyntaxError \notin Range(out)
  <2>1. Idle /\ Top \notin {10, 11}
    BY <1>1, AskingWithoutLine
  <2>2. Answered /\ (wrongAt = 0 => NoError) /\ Prompted
    BY <1>1, <2>1 DEF LineInv, ParsedInv
  <2>3. wrongAt = 0 => SyntaxError \notin Range(out)
    BY <2>2 DEF NoError, Range
  <2>4. Times(IsPrompt) = 1 /\ Last(out) = Prompt
    <3>1. PICK k \in DOMAIN out : \A i \in DOMAIN out : out[i] = Prompt <=> i = k
      BY <2>2 DEF Prompted
    <3>2. {i \in DOMAIN out : IsPrompt(out[i])} = {k}
      BY <3>1 DEF IsPrompt
    <3>3. Cardinality({k}) = 1
      BY FS_Singleton
    <3> QED BY <2>2, <3>2, <3>3 DEF Prompted, Times
  <2>5. Times(IsCall) = Len(calls) /\ \A o \in Range(out) : IsCall(o) => o = calls[1]
    <3>0. calls = Calls
      BY <1>0 DEF Calls
    <3>1. CASE Calls = <<>> /\ NoCall
      <4>1. {i \in DOMAIN out : IsCall(out[i])} = {}
        BY <3>1 DEF NoCall
      <4>2. Times(IsCall) = 0
        BY <4>1, FS_EmptySet DEF Times
      <4>3. Len(calls) = 0
        BY <3>0, <3>1
      <4>4. \A o \in Range(out) : ~IsCall(o)
        BY <3>1 DEF NoCall, Range
      <4> QED BY <4>2, <4>3, <4>4
    <3>2. CASE Calls = <<Calls[1]>> /\ OneCall(Calls[1])
      <4>1. PICK c : c = Calls[1]
        OBVIOUS
      <4>2. calls = <<c>> /\ calls[1] = c
        BY <3>0, <3>2, <4>1
      <4>3. PICK k \in DOMAIN out : out[k] = c /\ \A i \in DOMAIN out : IsCall(out[i]) <=> i = k
        BY <3>2, <4>1 DEF OneCall
      <4>4. {i \in DOMAIN out : IsCall(out[i])} = {k}
        BY <4>3
      <4>5. Times(IsCall) = 1
        BY <4>4, FS_Singleton DEF Times
      <4>6. Len(calls) = 1
        BY <4>2
      <4>7. \A o \in Range(out) : IsCall(o) => o = c
        BY <4>3 DEF Range
      <4> QED BY <4>2, <4>5, <4>6, <4>7
    <3> QED BY <2>2, <3>1, <3>2 DEF Answered
  <2> QED BY <2>3, <2>4, <2>5
<1>2. ASSUME line # <<>>, ~Ended(line)
      PROVE  Times(IsCall) = 0 /\ Times(IsPrompt) = 0
  <2>1. ~Idle /\ ~Done
    BY <1>2 DEF LineInv, ParsedInv
  <2>2. InError \/ UnderWay
    BY <2>1, Phases DEF OwnInv
  <2>3. NoCall /\ NoPrompt
    BY <2>2 DEF LineInv, ErrorInv, UnderWayInv
  <2>4. {i \in DOMAIN out : IsCall(out[i])} = {} /\ {i \in DOMAIN out : IsPrompt(out[i])} = {}
    BY <2>3 DEF NoCall, NoPrompt, IsPrompt
  <2> QED BY <2>4, FS_EmptySet DEF Times
<1> QED BY <1>0, <1>1, <1>2 DEF LineIsAnswered

LEMMA LineInvReports ==
  ASSUME OwnInv, LineInv
  PROVE  WrongLinesAreReported
<1>1. SUFFICES ASSUME Asks, Ended(line), wrongAt # 0, SyntaxError \notin Range(out)
               PROVE  excused
  BY DEF WrongLinesAreReported
<1>2. Idle
  BY <1>1, AskingWithoutLine
<1>3. NoError
  BY <1>1 DEF NoError, Range
<1> QED BY <1>1, <1>2, <1>3 DEF LineInv, ParsedInv

(* Every line that is typed is answered by the call it asks for, with its  *)
(* arguments, and by one prompt, before the next token is read; no call is *)
(* made sooner, and none for a line that is wrong.                         *)
THEOREM LinesAreAnswered == ~IsFiniteSet(Blocks) => (Spec => []LineIsAnswered)
<1> SUFFICES ASSUME ~IsFiniteSet(Blocks)
             PROVE  Spec => []LineIsAnswered
  OBVIOUS
<1>1. Init => OwnInv /\ LineInv
  BY InitOwned, InitLine
<1>2. (OwnInv /\ LineInv) /\ [Next]_vars => (OwnInv /\ LineInv)'
  BY OwnStep, LineStep
<1>3. OwnInv /\ LineInv => LineIsAnswered
  BY LineInvAnswers
<1> QED BY <1>1, <1>2, <1>3, PTL DEF Spec

(* A line that is no command is reported, but for the ones that bison      *)
(* takes for more of the same error.                                       *)
THEOREM WrongLinesStayReported == ~IsFiniteSet(Blocks) => (Spec => []WrongLinesAreReported)
<1> SUFFICES ASSUME ~IsFiniteSet(Blocks)
             PROVE  Spec => []WrongLinesAreReported
  OBVIOUS
<1>1. Init => OwnInv /\ LineInv
  BY InitOwned, InitLine
<1>2. (OwnInv /\ LineInv) /\ [Next]_vars => (OwnInv /\ LineInv)'
  BY OwnStep, LineStep
<1>3. OwnInv /\ LineInv => WrongLinesAreReported
  BY LineInvReports
<1> QED BY <1>1, <1>2, <1>3, PTL DEF Spec
=============================================================================
