------------------------------ MODULE MCMemory ------------------------------
(* Instances of MemoryManager for TLC. *)
EXTENDS MemoryManager, TLC

CONSTANTS b1, b2, b3, b4

Symmetry == Permutations(Block \ InitLive) \cup Permutations(InitLive)
=============================================================================
