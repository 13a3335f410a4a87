------------------------------ MODULE MCLocalMcp ------------------------------
(* Instances of LocalMcp for TLC. *)
EXTENDS LocalMcp, TLC

Symmetry == Permutations(Procs) \cup Permutations(Children) \cup Permutations(Users)
=============================================================================
