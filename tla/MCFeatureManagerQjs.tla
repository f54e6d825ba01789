------------------------ MODULE MCFeatureManagerQjs ------------------------
EXTENDS FeatureManagerQjs, TLC

(* Instances and features are interchangeable. *)
Symmetry == Permutations(Inst) \cup Permutations(Feat)

=============================================================================
