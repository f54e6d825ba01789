-------------------------- MODULE MCFeatureManager --------------------------
(* Instances of FeatureManager for TLC. *)
EXTENDS FeatureManager, TLC

Symmetry == Permutations(Inst) \cup Permutations(Thread)
=============================================================================
