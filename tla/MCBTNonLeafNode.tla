---------------------------- MODULE MCBTNonLeafNode ----------------------------
(* BTNonLeafNode on small instances: three pairs over two keys, so that    *)
(* full nodes have different keys and equal ones with different children;  *)
(* one of the keys is -1, which empty slots read as.                       *)
EXTENDS BTNonLeafNode, TLC

MCPairs == {[key |-> -1, pid |-> 0], [key |-> 1, pid |-> 0], [key |-> 1, pid |-> 1]}

(* The results of the last call decide nothing that comes after. *)
WithoutResults == <<page, size, opened, rw, stale, suspect, doomed, spoiled, node>>

Symmetry == Permutations(Nodes)
=============================================================================
