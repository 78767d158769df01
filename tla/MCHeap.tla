------------------------------- MODULE MCHeap -------------------------------
(* Instances of Heap for TLC. The code compares addresses and nothing else.  *)
EXTENDS Heap, TLC

Symmetry == Permutations(Addr) \cup Permutations(Var)
=============================================================================
