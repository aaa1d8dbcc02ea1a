-------------------------------- MODULE SqlLexis --------------------------------
(***************************************************************************)
(* SqlParser.l: the rules by which the text a user types falls into        *)
(* tokens.  Of the rules that match at a place the one that matches most   *)
(* counts, and the first of those.  Nothing here knows of buffers and      *)
(* tables; Scanner, which is lex.sql.c, is compared with it.               *)
(*                                                                         *)
(* Texts are sequences of character codes.                                 *)
(***************************************************************************)
EXTENDS Integers, SequencesExt, FiniteSetsExt

(* ASCII *)
NUL   == 0
TAB   == 9
LF    == 10
CR    == 13
Space == 32
Quote == 39
Minus == 45

Digits  == 48 .. 57
Letters == 65 .. 90 \cup 97 .. 122

-----------------------------------------------------------------------------
(* The words of rules 1 to 11, in capitals *)
Keyword ==
  <<<<83, 69, 76, 69, 67, 84>>,          \* SELECT
    <<70, 82, 79, 77>>,                  \* FROM
    <<87, 72, 69, 82, 69>>,              \* WHERE
    <<76, 79, 65, 68>>,                  \* LOAD
    <<87, 73, 84, 72>>,                  \* WITH
    <<73, 78, 68, 69, 88>>,              \* INDEX
    <<81, 85, 73, 84>>,                  \* QUIT
    <<69, 88, 73, 84>>,                  \* EXIT
    <<67, 79, 85, 78, 84, 40, 42, 41>>,  \* COUNT(*)
    <<65, 78, 68>>,                      \* AND
    <<79, 82>>>>                         \* OR

InLower(word) == [i \in DOMAIN word |-> IF word[i] \in 65 .. 90 THEN word[i] + 32 ELSE word[i]]

(* The rules that match words only *)
WordRule ==
  [r \in 1 .. 17 \cup 21 .. 24 |->
     CASE r <= 11 -> {Keyword[r], InLower(Keyword[r])}
       [] r = 12  -> {<<61>>}               \* =
       [] r = 13  -> {<<60, 62>>}           \* <>
       [] r = 14  -> {<<62>>}               \* >
       [] r = 15  -> {<<60>>}               \* <
       [] r = 16  -> {<<62, 61>>}           \* >=
       [] r = 17  -> {<<60, 61>>}           \* <=
       [] r = 21  -> {<<44>>}               \* ,
       [] r = 22  -> {<<42>>}               \* *
       [] r = 23  -> {<<LF>>, <<CR, LF>>}
       [] r = 24  -> {<<59>>}]              \* ;

Only(s, chars) == \A i \in DOMAIN s : s[i] \in chars
Unsigned(s)    == IF s[1] = Minus THEN Tail(s) ELSE s
IsInteger(s)   == Unsigned(s) # <<>> /\ Only(Unsigned(s), Digits)
IsOpenString(s) == s[1] = Quote /\ \A i \in 2 .. Len(s) : s[i] # Quote
IsString(s)    == Len(s) > 1 /\ Last(s) = Quote /\ IsOpenString(Front(s))
IsName(s)      == s[1] \in Letters /\ Only(s, Letters \cup Digits \cup {Minus, 95})
IsBlank(s)     == Only(s, {Space, TAB})

(* Rule r matches the text s, which is not empty; 26 is flex's own rule,   *)
(* which echoes a character that nothing else matches.                     *)
Matches(r, s) == CASE r \in DOMAIN WordRule -> s \in WordRule[r]
                   [] r = 18 -> IsInteger(s)
                   [] r = 19 -> IsString(s)
                   [] r = 20 -> IsName(s)
                   [] r = 25 -> IsBlank(s)
                   [] r = 26 -> Len(s) = 1

Rules == 1 .. 26

(* What is to be matched at the beginning of the text s: how much of it,   *)
(* and by which rule                                                       *)
Longest(s)  == Max({n \in 1 .. Len(s) : \E r \in Rules : Matches(r, SubSeq(s, 1, n))})
RuleFor(s)  == Min({r \in Rules : Matches(r, s)})

(* Some rule matches s and more. *)
CanGrow(s) == \/ \E r \in DOMAIN WordRule : \E word \in WordRule[r] : IsStrictPrefix(s, word)
              \/ s = <<>> \/ s = <<Minus>>
              \/ IsInteger(s) \/ IsOpenString(s) \/ IsName(s) \/ IsBlank(s)

(* The token a rule returns; some return none. *)
SymbolOf(r) ==
  <<"SELECT", "FROM", "WHERE", "LOAD", "WITH", "INDEX", "QUIT", "QUIT", "COUNT", "AND", "OR",
    "EQUAL", "NEQUAL", "GREATER", "LESS", "GREATEREQUAL", "LESSEQUAL", "INTEGER", "STRING", "ID",
    "COMMA", "STAR", "LF", "ignored", "ignored", "echoed">>[r]
=============================================================================
