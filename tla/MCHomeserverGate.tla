-------------------------- MODULE MCHomeserverGate --------------------------
(* HomeserverGate on small instances. *)
EXTENDS HomeserverGate, TLC

Symmetry == Permutations(Background) \cup Permutations(Polls)
=============================================================================
