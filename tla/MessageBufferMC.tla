-------------------------- MODULE MessageBufferMC --------------------------
(* Small instances of MessageBuffer for TLC.                               *)
EXTENDS MessageBuffer, TLC

Symmetry == Permutations(Threads) \cup Permutations(Messages)
=============================================================================
