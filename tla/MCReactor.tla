------------------------------ MODULE MCReactor ------------------------------
(* Instances of Reactor for TLC.                                             *)
EXTENDS Reactor

Symmetry == Permutations(Fd) \cup Permutations(Entries)

\* Arguments of after(): one is negative.
AnyDelay == {-1, 1}
==============================================================================
