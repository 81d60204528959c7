---------------------------- MODULE MCCliAdapter ----------------------------
(* Bounded instance of CliAdapter for TLC. *)
EXTENDS CliAdapter, TLC

Symmetry == Permutations(Requests) \cup Permutations(Roots)
=============================================================================
