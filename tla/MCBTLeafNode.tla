----------------------------- MODULE MCBTLeafNode -----------------------------
(* BTLeafNode on small instances: the keys include -1, which empty slots   *)
(* read as, 0, which is the page id of a next leaf too, and -2, so that a  *)
(* search can pass an entry and meet each of them behind the last one.     *)
EXTENDS BTLeafNode, TLC

MCKeys == {-2, -1, 0}

(* The results of the last call decide nothing that comes after. *)
WithoutResults == <<page, size, opened, rw, stale, suspect, doomed, spoiled, node>>

Symmetry == Permutations(Nodes) \cup Permutations(Rids)
=============================================================================
