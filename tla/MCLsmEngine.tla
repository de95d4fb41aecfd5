---------------------------- MODULE MCLsmEngine ----------------------------
(* Model-checking instance of LsmEngine: the symmetry of writers. *)
EXTENDS LsmEngine, TLC

WriterSymmetry == Permutations(Writers)
=============================================================================
