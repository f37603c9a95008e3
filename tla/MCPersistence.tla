---------------------------- MODULE MCPersistence ----------------------------
(* Small instances of Persistence for TLC.                                   *)
EXTENDS Persistence, TLC

Symmetry ==
  Permutations(Threads) \cup Permutations(Requests) \cup Permutations(Handlers)
=============================================================================
