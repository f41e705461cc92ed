------------------------------ MODULE MCGateway ------------------------------
(* Small instances of Gateway for TLC. *)
EXTENDS Gateway, TLC

\* Handlers are interchangeable, and so are workers; Boot is neither.
Symmetry == Permutations(Handlers) \cup Permutations(Workers)
=============================================================================
