-------------------------------- MODULE Scanner --------------------------------
(***************************************************************************)
(* lex.sql.c: sqllex(), as flex generated it from SqlParser.l, and its     *)
(* buffer.                                                                 *)
(*                                                                         *)
(* The tables and the numbers in them are the file's.  A step is one       *)
(* character of one of the loops, one token, one doubling of the buffer,   *)
(* or one refill of it.                                                    *)
(* Positions count from 0, as the C pointers do from yy_ch_buf.            *)
(*                                                                         *)
(* The buffer's memory is modelled up to the two end-of-buffer characters; *)
(* memory does not run out, and the size of the buffer does not overflow.  *)
(***************************************************************************)
EXTENDS SqlLexis

CONSTANTS Inputs,           \* the texts that may be typed
          BufSizes,         \* YY_BUF_SIZE is one of these
          YY_READ_BUF_SIZE  \* how much is read at once

ASSUME ScannerAssumption ==
  /\ \A s \in Inputs : s \in Seq(0 .. 255)
  /\ BufSizes \subseteq Nat \ {0} /\ YY_READ_BUF_SIZE \in Nat \ {0}

-----------------------------------------------------------------------------
(* The tables *)

From0(seq) == [i \in 0 .. Len(seq) - 1 |-> seq[i + 1]]

yy_ec == [c \in 0 .. 255 |->
  CASE c = 0 -> 0
    [] c \in {9, 32} -> 2
    [] c = 10 -> 3
    [] c = 13 -> 4
    [] c \in 39 .. 45 -> <<5, 6, 7, 8, 1, 9, 10>>[c - 38]
    [] c \in 48 .. 57 -> 11
    [] c \in 59 .. 62 -> <<12, 13, 14, 15>>[c - 58]
    [] c \in 65 .. 90 -> <<16, 17, 18, 19, 20, 21, 17, 22, 23, 17, 17, 24, 25, 26, 27, 17, 28, 29,
                           30, 31, 32, 17, 33, 34, 17, 17>>[c - 64]
    [] c = 95 -> 35
    [] c \in 97 .. 122 -> <<36, 17, 37, 38, 39, 40, 17, 41, 42, 17, 17, 43, 44, 45, 46, 17, 47, 48,
                            49, 50, 51, 17, 52, 53, 17, 17>>[c - 96]
    [] OTHER -> 1]

yy_accept == From0(<<0, 0, 0, 27, 26, 25, 23, 26, 26, 22, 21, 26, 18, 24, 15, 12, 14, 20, 20, 20,
  20, 20, 20, 20, 20, 20, 20, 20, 20, 20, 20, 20, 20, 20, 20, 20, 20, 20, 25, 23, 0, 19, 18, 17,
  13, 16, 20, 20, 20, 20, 20, 20, 20, 11, 20, 20, 20, 20, 20, 20, 20, 20, 20, 20, 20, 20, 20, 20,
  10, 20, 20, 20, 20, 20, 20, 20, 20, 20, 20, 20, 20, 20, 20, 20, 20, 20, 20, 20, 8, 2, 20, 4, 7,
  20, 20, 5, 20, 20, 20, 20, 20, 6, 20, 3, 20, 20, 0, 1, 0, 0, 0, 9, 0>>)
yy_meta == From0(<<0, 1, 1, 1, 1, 1, 1, 1, 1, 1, 2, 2, 1, 1, 1, 1, 2, 2, 2, 2, 2, 2, 2, 2, 2, 2,
  2, 2, 2, 2, 2, 2, 2, 2, 2, 2, 2, 2, 2, 2, 2, 2, 2, 2, 2, 2, 2, 2, 2, 2, 2, 2, 2, 2>>)
yy_base == From0(<<0, 0, 0, 144, 145, 141, 145, 139, 136, 145, 145, 129, 128, 145, 40, 145, 124,
  111, 0, 109, 101, 105, 107, 105, 102, 98, 109, 34, 83, 81, 73, 77, 79, 77, 74, 70, 81, 17, 117,
  145, 113, 145, 106, 145, 145, 145, 0, 97, 83, 91, 86, 93, 95, 0, 87, 85, 88, 76, 68, 54, 62, 57,
  64, 65, 58, 56, 59, 47, 0, 70, 64, 69, 73, 73, 60, 70, 60, 66, 42, 36, 41, 45, 45, 32, 42, 32,
  38, 47, 0, 0, 43, 0, 0, 58, 55, 0, 24, 20, 35, 32, 64, 0, 38, 0, 62, 17, 58, 0, 57, 57, 56, 145,
  145, 59, 60>>)
yy_def == From0(<<0, 112, 1, 112, 112, 112, 112, 112, 113, 112, 112, 112, 112, 112, 112, 112, 112,
  114, 114, 114, 114, 114, 114, 114, 114, 114, 114, 114, 114, 114, 114, 114, 114, 114, 114, 114,
  114, 114, 112, 112, 113, 112, 112, 112, 112, 112, 114, 114, 114, 114, 114, 114, 114, 114, 114,
  114, 114, 114, 114, 114, 114, 114, 114, 114, 114, 114, 114, 114, 114, 114, 114, 114, 114, 114,
  114, 114, 114, 114, 114, 114, 114, 114, 114, 114, 114, 114, 114, 114, 114, 114, 114, 114, 114,
  114, 114, 114, 114, 114, 114, 114, 114, 114, 114, 114, 114, 114, 112, 114, 112, 112, 112, 112,
  0, 112, 112>>)
yy_nxt == From0(<<0, 4, 5, 6, 7, 8, 4, 4, 9, 10, 11, 12, 13, 14, 15, 16, 17, 18, 19, 18, 20, 21,
  18, 22, 23, 18, 18, 24, 25, 18, 26, 18, 18, 27, 18, 4, 28, 29, 18, 30, 31, 18, 32, 33, 18, 18,
  34, 35, 18, 36, 18, 18, 37, 18, 43, 44, 56, 57, 66, 67, 40, 40, 46, 111, 111, 110, 109, 107,
  108, 107, 106, 103, 105, 101, 104, 103, 102, 101, 100, 95, 99, 98, 92, 91, 97, 89, 88, 96, 95,
  94, 93, 92, 91, 90, 89, 88, 87, 86, 85, 84, 83, 82, 81, 80, 79, 78, 68, 77, 76, 75, 74, 73, 72,
  71, 70, 69, 68, 42, 41, 38, 65, 64, 53, 63, 62, 61, 60, 59, 58, 55, 54, 53, 52, 51, 50, 49, 48,
  47, 45, 42, 42, 41, 39, 38, 112, 3, 112, 112, 112, 112, 112, 112, 112, 112, 112, 112, 112, 112,
  112, 112, 112, 112, 112, 112, 112, 112, 112, 112, 112, 112, 112, 112, 112, 112, 112, 112, 112,
  112, 112, 112, 112, 112, 112, 112, 112, 112, 112, 112, 112, 112, 112, 112, 112, 112, 112, 112,
  112, 112, 112>>)
yy_chk == From0(<<0, 1, 1, 1, 1, 1, 1, 1, 1, 1, 1, 1, 1, 1, 1, 1, 1, 1, 1, 1, 1, 1, 1, 1, 1, 1, 1,
  1, 1, 1, 1, 1, 1, 1, 1, 1, 1, 1, 1, 1, 1, 1, 1, 1, 1, 1, 1, 1, 1, 1, 1, 1, 1, 1, 14, 14, 27, 27,
  37, 37, 113, 113, 114, 110, 109, 108, 106, 105, 104, 102, 100, 99, 98, 97, 96, 94, 93, 90, 87,
  86, 85, 84, 83, 82, 81, 80, 79, 78, 77, 76, 75, 74, 73, 72, 71, 70, 69, 67, 66, 65, 64, 63, 62,
  61, 60, 59, 58, 57, 56, 55, 54, 52, 51, 50, 49, 48, 47, 42, 40, 38, 36, 35, 34, 33, 32, 31, 30,
  29, 28, 26, 25, 24, 23, 22, 21, 20, 19, 17, 16, 12, 11, 8, 7, 5, 3, 112, 112, 112, 112, 112,
  112, 112, 112, 112, 112, 112, 112, 112, 112, 112, 112, 112, 112, 112, 112, 112, 112, 112, 112,
  112, 112, 112, 112, 112, 112, 112, 112, 112, 112, 112, 112, 112, 112, 112, 112, 112, 112, 112,
  112, 112, 112, 112, 112, 112, 112, 112, 112, 112, 112>>)

YY_END_OF_BUFFER == 27
JamState         == 112
JamBase          == 145
Template         == 113

ClassIn_NoMeta(s, c) == c  \* a slip that the runs must notice

(* Templates stand for states, and know classes of classes only. *)
ClassIn(s, c) == IF s >= Template THEN yy_meta[c] ELSE c

(* The state that class c leads to from state s *)
NextState(s, c) ==
  LET Follow[k \in (DOMAIN yy_base) \X (DOMAIN yy_meta)] ==
        LET t == k[1]
            d == k[2]
        IN IF yy_chk[yy_base[t] + d] = t THEN yy_nxt[yy_base[t] + d]
           ELSE Follow[<<yy_def[t], ClassIn(yy_def[t], d)>>]
  IN Follow[<<s, c>>]

-----------------------------------------------------------------------------
VARIABLES text,                     \* the input
          pos,                      \* how much of it has been read
          yy_is_interactive,        \* it comes from a terminal
          yy_buf_size, yy_buffer_status,
          yy_ch_buf, yy_n_chars,    \* the buffer, and how much text is in it
          yy_c_buf_p, yytext_ptr,   \* where to go on, and the current token
          yy_hold_char,             \* what was in the place of the NUL behind the token
          yy_cp, yy_bp, yy_current_state,
          yy_last_accepting_state, yy_last_accepting_cpos,
          pc,                       \* where sqllex() stands
          then,                     \* what follows yy_get_previous_state()
          token                     \* history: the last token, and its place in text

buffer == <<pos, yy_buf_size, yy_buffer_status, yy_ch_buf, yy_n_chars>>
match  == <<yy_cp, yy_current_state, yy_last_accepting_state, yy_last_accepting_cpos>>
input  == <<text, yy_is_interactive>>
vars   == <<input, buffer, yy_c_buf_p, yytext_ptr, yy_hold_char, match, yy_bp, pc, then, token>>

At(p)         == yy_ch_buf[p + 1]
Slice(p, q)   == SubSeq(yy_ch_buf, p + 1, q)
Buffered(seq) == seq \o <<NUL, NUL>>

NoToken == [sym |-> "none", from |-> 0, to |-> 0]

(* The first call: sql_create_buffer, sql_flush_buffer *)
Init == /\ text \in Inputs /\ pos = 0
        /\ yy_is_interactive \in BOOLEAN
        /\ yy_buf_size \in BufSizes /\ yy_buffer_status = "NEW"
        /\ yy_ch_buf = Buffered(<<>>) /\ yy_n_chars = 0
        /\ yy_c_buf_p = 0 /\ yytext_ptr = 0 /\ yy_hold_char = NUL
        /\ yy_cp = 0 /\ yy_bp = 0 /\ yy_current_state = 1
        /\ yy_last_accepting_state = 0 /\ yy_last_accepting_cpos = 0
        /\ pc = "start" /\ then = "none"
        /\ token = NoToken

-----------------------------------------------------------------------------
(* More slips *)

Jams_AtJamOnly(s)         == s = JamState
Restored_Forgotten        == yy_ch_buf
Room_ForgetsKept          == yy_buf_size - 1
AfterLastMatch_Matches    == "match"

-----------------------------------------------------------------------------
(* The loops *)

(* The state is remembered if it accepts; then the character is taken. *)
Take(class) ==
  /\ IF yy_accept[yy_current_state] # 0
     THEN yy_last_accepting_state' = yy_current_state /\ yy_last_accepting_cpos' = yy_cp
     ELSE UNCHANGED <<yy_last_accepting_state, yy_last_accepting_cpos>>
  /\ yy_current_state' = NextState(yy_current_state, class)
  /\ yy_cp' = yy_cp + 1

(* A call of sqllex(), or the next turn of its outer loop *)
Restored == [yy_ch_buf EXCEPT ![yy_c_buf_p + 1] = yy_hold_char]

Start ==
  /\ pc = "start"
  /\ yy_ch_buf' = Restored
  /\ yy_cp' = yy_c_buf_p /\ yy_bp' = yy_c_buf_p
  /\ yy_current_state' = 1
  /\ pc' = "match"
  /\ UNCHANGED <<input, pos, yy_buf_size, yy_buffer_status, yy_n_chars, yy_c_buf_p, yytext_ptr,
                 yy_hold_char, yy_last_accepting_state, yy_last_accepting_cpos, then, token>>

(* yy_match: until a state that nothing leads out of *)
Jams(s) == yy_base[s] = JamBase

Match ==
  /\ pc = "match"
  /\ Take(yy_ec[At(yy_cp)])
  /\ pc' = IF Jams(yy_current_state') THEN "find" ELSE "match"
  /\ UNCHANGED <<input, buffer, yy_c_buf_p, yytext_ptr, yy_hold_char, yy_bp, then, token>>

(* yy_get_previous_state: the text so far once more, a NUL in it being     *)
(* like any other character                                                *)
ClassAgain(c) == IF c = NUL THEN 1 ELSE yy_ec[c]

Again ==
  /\ pc = "again"
  /\ IF yy_cp < yy_c_buf_p
     THEN Take(ClassAgain(At(yy_cp))) /\ UNCHANGED pc
     ELSE pc' = then /\ UNCHANGED match
  /\ UNCHANGED <<input, buffer, yy_c_buf_p, yytext_ptr, yy_hold_char, yy_bp, then, token>>

GoOver(next) == /\ pc' = "again" /\ then' = next
                /\ yy_cp' = yytext_ptr' /\ yy_bp' = yytext_ptr'
                /\ yy_current_state' = 1
                /\ UNCHANGED <<yy_last_accepting_state, yy_last_accepting_cpos>>

-----------------------------------------------------------------------------
(* yy_find_action: back up if the state does not accept. *)

BacksUp == yy_accept[yy_current_state] = 0
End     == IF BacksUp THEN yy_last_accepting_cpos ELSE yy_cp
Act     == yy_accept[IF BacksUp THEN yy_last_accepting_state ELSE yy_current_state]
Found   == pc = "find"

(* Where the buffer's place p is in the text *)
PlaceOf(p) == pos - yy_n_chars + p

(* The actions of the rules *)
Symbol(r) ==
  <<"SELECT", "FROM", "WHERE", "LOAD", "WITH", "INDEX", "QUIT", "QUIT", "COUNT", "AND", "OR",
    "EQUAL", "NEQUAL", "GREATER", "LESS", "GREATEREQUAL", "LESSEQUAL", "INTEGER", "STRING", "ID",
    "COMMA", "STAR", "LF", "ignored", "ignored", "echoed">>[r]

Deliver ==
  /\ Found /\ Act \in Rules
  /\ yytext_ptr' = yy_bp /\ yy_c_buf_p' = End
  /\ yy_hold_char' = At(End) /\ yy_ch_buf' = [yy_ch_buf EXCEPT ![End + 1] = NUL]
  /\ token' = [sym |-> Symbol(Act), from |-> PlaceOf(yy_bp), to |-> PlaceOf(End)]
  /\ pc' = "start"
  /\ UNCHANGED <<input, pos, yy_buf_size, yy_buffer_status, yy_n_chars, match, yy_bp, then>>

-----------------------------------------------------------------------------
(* YY_END_OF_BUFFER: a NUL has been met.  YY_DO_BEFORE_ACTION is undone,   *)
(* but for yytext_ptr, yy_c_buf_p and yy_hold_char.                        *)

AtEnd      == Found /\ Act = YY_END_OF_BUFFER
Real       == End <= yy_n_chars
Kept       == Slice(yy_bp, End - 1)
Normal     == IF yy_buffer_status = "NEW" THEN "NORMAL" ELSE yy_buffer_status

(* The NUL is one of the text. *)
NulInText ==
  /\ AtEnd /\ Real
  /\ yy_buffer_status' = Normal
  /\ yytext_ptr' = yy_bp /\ yy_c_buf_p' = End - 1 /\ yy_hold_char' = At(End)
  /\ GoOver("nul")
  /\ UNCHANGED <<input, pos, yy_buf_size, yy_ch_buf, yy_n_chars, token>>

(* yy_try_NUL_trans *)
TryNul ==
  LET next == NextState(yy_current_state, 1)
  IN /\ pc = "nul"
     /\ IF next # JamState
        THEN Take(1) /\ yy_c_buf_p' = yy_cp + 1 /\ pc' = "match"
        ELSE /\ pc' = "find" /\ UNCHANGED <<yy_cp, yy_current_state, yy_c_buf_p>>
             /\ IF yy_accept[yy_current_state] # 0
                THEN yy_last_accepting_state' = yy_current_state /\ yy_last_accepting_cpos' = yy_cp
                ELSE UNCHANGED <<yy_last_accepting_state, yy_last_accepting_cpos>>
     /\ UNCHANGED <<input, buffer, yytext_ptr, yy_hold_char, yy_bp, then, token>>

-----------------------------------------------------------------------------
(* yy_get_next_buffer *)

Fills   == AtEnd /\ ~Real
Reading == Fills /\ yy_buffer_status # "EOF_PENDING"

(* The buffer is doubled until there is room for a character. *)
Room == yy_buf_size - Len(Kept) - 1

Grow ==
  /\ Reading /\ Room <= 0
  /\ yy_buf_size' = 2 * yy_buf_size
  /\ UNCHANGED <<input, pos, yy_buffer_status, yy_ch_buf, yy_n_chars, yy_c_buf_p, yytext_ptr,
                 yy_hold_char, match, yy_bp, pc, then, token>>

(* YY_INPUT: of a terminal no more than a line *)
Unread   == SubSeq(text, pos + 1, Len(text))
ReadTo(n) ==
  LET ends == {i \in 1 .. Len(Unread) : yy_is_interactive /\ Unread[i] = LF}
  IN SubSeq(Unread, 1, Min({n, Len(Unread)} \cup ends))

Holds(seq) == yy_ch_buf' = Buffered(seq) /\ yy_n_chars' = Len(seq) /\ yytext_ptr' = 0

HasRoom  == Fills /\ (Reading => Room > 0)
NextRead == IF Reading THEN ReadTo(Min({Room, YY_READ_BUF_SIZE})) ELSE <<>>

(* EOB_ACT_CONTINUE_SCAN *)
FillMore ==
  /\ HasRoom /\ NextRead # <<>>
  /\ yy_buffer_status' = Normal
  /\ Holds(Kept \o NextRead) /\ pos' = pos + Len(NextRead)
  /\ yy_c_buf_p' = Len(Kept) /\ yy_hold_char' = At(End)
  /\ GoOver("match")
  /\ UNCHANGED <<input, yy_buf_size, token>>

(* EOB_ACT_LAST_MATCH: the end of the file behind some text *)
AfterLastMatch == "find"

FillLast ==
  /\ HasRoom /\ NextRead = <<>> /\ Kept # <<>>
  /\ yy_buffer_status' = "EOF_PENDING"
  /\ Holds(Kept) /\ UNCHANGED pos
  /\ yy_c_buf_p' = Len(Kept) /\ yy_hold_char' = At(End)
  /\ GoOver(AfterLastMatch)
  /\ UNCHANGED <<input, yy_buf_size, token>>

(* EOB_ACT_END_OF_FILE: sqlrestart, sqlwrap, yyterminate *)
FillEnd ==
  /\ HasRoom /\ NextRead = <<>> /\ Kept = <<>>
  /\ yy_buffer_status' = "NEW"
  /\ Holds(<<>>) /\ UNCHANGED pos
  /\ yy_c_buf_p' = 0 /\ yy_hold_char' = NUL
  /\ token' = [sym |-> "$end", from |-> PlaceOf(yy_bp), to |-> PlaceOf(yy_bp)]
  /\ pc' = "eof"
  /\ UNCHANGED <<input, yy_buf_size, match, yy_bp, then>>

(* YY_FATAL_ERROR: the read fails, and the program exits. *)
ReadFails ==
  /\ Reading /\ Room > 0
  /\ pc' = "dead"
  /\ UNCHANGED <<input, buffer, yy_c_buf_p, yytext_ptr, yy_hold_char, match, yy_bp, then, token>>

Steps == Start \/ Match \/ Again \/ Deliver \/ NulInText \/ TryNul
         \/ Grow \/ FillMore \/ FillLast \/ FillEnd

Next == Steps \/ ReadFails

(* The program's one thread goes on; what is read has been typed.          *)
Spec == Init /\ [][Next]_vars /\ WF_vars(Steps)

-----------------------------------------------------------------------------
(* Every variable has its type; in particular the pointers stay in the     *)
(* buffer, end-of-buffer characters included, whatever is read and when.   *)
TypeOK ==
  /\ text \in Seq(0 .. 255) /\ pos \in 0 .. Len(text) /\ yy_is_interactive \in BOOLEAN
  /\ yy_buf_size \in Nat /\ yy_buffer_status \in {"NEW", "NORMAL", "EOF_PENDING"}
  /\ yy_ch_buf \in Seq(0 .. 255) /\ Len(yy_ch_buf) = yy_n_chars + 2
  /\ yy_n_chars \in 0 .. yy_buf_size
  /\ yytext_ptr \in 0 .. yy_n_chars /\ yy_c_buf_p \in 0 .. yy_n_chars
  /\ yy_bp \in Nat /\ yy_cp \in Nat /\ yy_last_accepting_cpos \in Nat
  /\ pc \notin {"start", "eof"} => yy_bp <= yy_n_chars /\ yy_cp <= yy_n_chars + 2
  /\ pc = "match" => yy_cp < yy_n_chars + 2
  /\ yy_hold_char \in 0 .. 255
  /\ yy_current_state \in DOMAIN yy_accept /\ yy_last_accepting_state \in DOMAIN yy_accept
  /\ pc \in {"start", "match", "again", "find", "nul", "eof", "dead"}
  /\ then \in {"none", "match", "find", "nul"}

(* The tokens are those of SqlParser.l: each is what the longest match at  *)
(* its place says, however the reads cut the text up, and the input's end  *)
(* is reported where it is.                                                *)
TokensAreLongest ==
  pc \in {"start", "eof"} /\ token # NoToken =>
    LET rest == SubSeq(text, token.from + 1, Len(text))
    IN IF rest = <<>> THEN token.sym = "$end"
       ELSE /\ token.to = token.from + Longest(rest)
            /\ token.sym = SymbolOf(RuleFor(SubSeq(rest, 1, Longest(rest))))

(* Nothing is lost and nothing comes twice between the file and the        *)
(* parser: the buffer, without the NUL that ends the current token, is the *)
(* text from where the last token ended to where reading has come.         *)
NothingIsLost ==
  LET mem  == IF pc = "start" THEN Restored ELSE yy_ch_buf
      here == IF pc \in {"start", "eof"} THEN yy_c_buf_p ELSE yy_bp
  IN /\ SubSeq(mem, here + 1, yy_n_chars) = SubSeq(text, PlaceOf(here) + 1, pos)
     /\ PlaceOf(here) = token.to

(* The scanner asks for more text only if it may change the token: a       *)
(* command that ends in a newline is not kept waiting for the next one.    *)
(* (Behind a NUL it looks one character further, whatever that is.)        *)
Undecided(s) == CanGrow(s) \/ Last(s) = NUL

ReadsOnlyIfNeeded == Reading => Undecided(Kept)

(* All of the input is scanned, and then the end is reported, unless a     *)
(* read fails.                                                             *)
EverythingIsScanned == <>(pc = "dead" \/ (pc = "eof" /\ token.to = Len(text)))
=============================================================================
