------------------------ MODULE MCFeatureInstanceQjs ------------------------
(* Instances of FeatureInstanceQjs for TLC. *)
EXTENDS FeatureInstanceQjs, TLC

Symmetry == Permutations(Op) \cup Permutations(Fn)
=============================================================================
