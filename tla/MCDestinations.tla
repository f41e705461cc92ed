---------------------------- MODULE MCDestinations ----------------------------
(* Small instances of Destinations for TLC. *)
EXTENDS Destinations, TLC

\* Ids, tasks and requests are interchangeable.
Symmetry == Permutations(Dests) \cup Permutations(Tasks) \cup Permutations(Creators)
=============================================================================
