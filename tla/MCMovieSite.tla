------------------------------ MODULE MCMovieSite ------------------------------
(* MovieSite with a handful of requests, all alike. *)
EXTENDS MovieSite, TLC

Symmetry == Permutations(Requests) \cup Permutations(Genres)
=============================================================================
