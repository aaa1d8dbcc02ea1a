----------------------------- MODULE MCRecordFile -----------------------------
(* RecordFile with three records: the all-zero one, one that fits, and one *)
(* whose value is cut to that of the second.                               *)
EXTENDS RecordFile, TLC

CONSTANTS zero, short, long

MCStored == [r \in Records |-> IF r = long THEN short ELSE r]

(* Numbers before, inside and behind what a file can have *)
MCGarbage == {Rid(-1, 1), Rid(0, 1), Rid(1, 0), Rid(9, -9)}

(* The results of the last calls decide nothing that comes after. *)
WithoutResults == <<page, size, opened, rw, stale, suspect, doomed, spoiled, erid, pending>>

Symmetry == Permutations(Handles)
=============================================================================
