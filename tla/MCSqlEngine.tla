------------------------------ MODULE MCSqlEngine ------------------------------
(* SqlEngine with ints of three bits, -4 .. 3, and values 0 = "", 1, and 2, *)
(* which is too long and stored as 1.                                       *)
EXTENDS SqlEngine

Line(k, v) == [key |-> k, comma |-> TRUE, value |-> v]
Bare(k)    == [key |-> k, comma |-> FALSE, value |-> 0]
Cond(a, c, v) == [attr |-> a, comp |-> c, value |-> v]
Query(a, conds) == [attr |-> a, conds |-> conds]

MCValues == {0, 1, 2}
MCCut    == [v \in MCValues |-> IF v = 2 THEN 1 ELSE v]

(* 3 and -2 differ by more than an int can hold, the others do not. *)
MCKeys == -2 .. 1 \cup {3}

MCGarbled == {Record(1, 1), Record(-2, 0)}

MCFiles == {<<Line(1, 1), Line(-2, 0)>>, <<Line(-1, 2), Bare(1), Line(1, 0)>>, <<Bare(3)>>}

OneCondition(keys) ==
  {<<Cond(KeyColumn, c, v)>> : c \in Comparators, v \in keys}
  \cup {<<Cond(ValueColumn, c, v)>> : c \in Comparators, v \in {0, 1}}

(* Every single condition, pairs on both columns, an unknown attribute     *)
(* alone and behind another condition, and as what is selected.            *)
MCQueries ==
  {Query("*", cs) : cs \in OneCondition({-2, 1})}
  \cup {Query("count(*)", <<Cond(KeyColumn, c, 0), Cond(ValueColumn, d, 1)>>) :
          c \in {"LT", "GE"}, d \in {"EQ", "NE"}}
  \cup {Query("value", <<>>), Query("key", <<Cond(ValueColumn, "EQ", 1)>>),
        Query("unknown", <<Cond(KeyColumn, "GE", 0)>>),
        Query("key", <<Cond(NoAttribute, "EQ", 0)>>),
        Query("*", <<Cond(KeyColumn, "LE", 0), Cond(NoAttribute, "NE", 0)>>)}
=============================================================================
