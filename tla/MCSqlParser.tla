------------------------------ MODULE MCSqlParser ------------------------------
(* SqlParser with lines of at most MaxConds conditions, and room for the   *)
(* longest of them: a table, two values, a vector and a condition.         *)
EXTENDS SqlParser

CONSTANT MaxConds  \* bound: the conditions of a line

ASSUME MCAssumption == MaxConds \in Nat \ {0}

MCBlocks == {16, 32, 48, 64, 80}

(* Bound: a line goes on after a condition with = only, up to MaxConds.    *)
MayGoOn == Len(line) < 4 * MaxConds + 4 /\ line[Len(line) - 1].sym = "EQUAL"

MCNext == \/ Steps
          \/ \E tok \in Tokens : /\ tok.sym = "AND" /\ Len(line) > 7 => MayGoOn
                                /\ yylex(tok)

MCSpec == Init /\ [][MCNext]_vars /\ WF_vars(Steps)
=============================================================================
