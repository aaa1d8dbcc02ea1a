------------------------------ MODULE MCScanner ------------------------------
(* Scanner on every keyword in both cases, cut off and followed by others, *)
(* and on the texts that three of the short words make.                    *)
EXTENDS Scanner

From35 == "#$%&'()*+,-./0123456789:;<=>?@ABCDEFGHIJKLMNOPQRSTUVWXYZ[\\]^_"
From97 == "abcdefghijklmnopqrstuvwxyz"
Letter(word, i) == SubSeq(word, i, i)
Places(c, word) == {i \in 1 .. Len(word) : Letter(word, i) = c}
Code(c)         == Max({34 + i : i \in Places(c, From35)} \cup {96 + i : i \in Places(c, From97)})
Codes(word)     == [i \in 1 .. Len(word) |-> Code(Letter(word, i))]
Words(words)    == {Codes(word) : word \in words}

(* The codes of the words are those of their letters. *)
ASSUME WordsAreSpelled ==
  /\ \A r \in 1 .. 11 : WordRule[r] =
       Words(<<{"SELECT", "select"}, {"FROM", "from"}, {"WHERE", "where"}, {"LOAD", "load"},
               {"WITH", "with"}, {"INDEX", "index"}, {"QUIT", "quit"}, {"EXIT", "exit"},
               {"COUNT(*)", "count(*)"}, {"AND", "and"}, {"OR", "or"}>>[r])
  /\ \A r \in 12 .. 17 : WordRule[r] = Words({<<"=", "<>", ">", "<", ">=", "<=">>[r - 11]})
  /\ \A r \in {21, 22, 24} : WordRule[r] = Words({<<",", "*", "", ";">>[r - 20]})

Keywords == UNION {WordRule[r] : r \in 1 .. 11}
Short    == Words({"<", ">", "=", "'", "-", "1", "or", ";"}) \cup {<<Space>>, <<NUL>>, <<CR>>, <<LF>>}
Odd      == Words({"#", "count(", "*,", "Or", "a-_9"}) \cup {<<200>>, <<TAB, 32>>}

Cut(word) == SubSeq(word, 1, Len(word) - 1)

MCInputs == {<<>>} \cup {a \o b \o c : a, b, c \in Short}
            \cup {w \o c : w \in Keywords \cup {Cut(w) : w \in Keywords}, c \in Short}
            \cup {a \o b : a \in Odd, b \in Odd \cup Short}
=============================================================================
