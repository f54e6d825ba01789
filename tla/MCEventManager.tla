--------------------------- MODULE MCEventManager ---------------------------
(* Instances of EventManager for TLC. *)
EXTENDS EventManager, TLC

Symmetry == Permutations(Ev) \cup Permutations(Cb)
=============================================================================
