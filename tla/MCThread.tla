------------------------------ MODULE MCThread ------------------------------
(* Small instances of Thread for TLC.                                      *)
EXTENDS Thread

Symmetry == Permutations(Prompts) \cup Permutations(Handlers)
=============================================================================
