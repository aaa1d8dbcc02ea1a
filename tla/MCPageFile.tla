----------------------------- MODULE MCPageFile ------------------------------
(* PageFile on small instances. *)
EXTENDS PageFile, TLC

(* The objects are interchangeable, and so are the files. *)
Symmetry == Permutations(Handles) \cup Permutations(Files)

(* The result of the last call decides nothing that comes after. *)
WithoutResult == <<page, size, kernel, writable, fd, epid, cache, cacheClock, foreign,
                   suspect, doomed>>
=============================================================================
