--------------------------- MODULE MCScriptEngine ---------------------------
(* Instances for TLC of what the engine keeps between a script and its     *)
(* features: results of calls, instances and their objects, and calls that *)
(* wait for a permission.  A behaviour steps one of these, over all of its *)
(* states.                                                                 *)
EXTENDS FeatureInstanceQjs, FeatureManagerQjs, PermissionsManager, TLC

VARIABLE loaded

EngineInit ==
  /\ loaded \in {"results", "lifecycle", "permissions"}
  /\ ResultsInit /\ LifecycleInit /\ Init

EngineNext ==
  \/ /\ loaded = "results" /\ ResultsNext
     /\ UNCHANGED <<loaded, fmVars, vars>>
  \/ /\ loaded = "lifecycle" /\ LifecycleNext
     /\ UNCHANGED <<loaded, rsVars, vars>>
  \/ /\ loaded = "permissions" /\ Next
     /\ UNCHANGED <<loaded, rsVars, fmVars>>

EngineSpec ==
  EngineInit /\ [][EngineNext]_<<loaded, rsVars, fmVars, vars>>

(* Op, Inst and Req are one set, and Fn, Feat and Addr another: each       *)
(* component has the symmetry of its own.                                  *)
Symmetry == Permutations(Inst) \cup Permutations(Fn) \cup Permutations(Caller)

(* Each result of a call of a script is heard once, and the functions that *)
(* are not shared hear it before they go (PromiseData, feature_instance_   *)
(* qjs.cpp).                                                               *)
ResultsHeard == OutcomeOnce /\ UnsharedAnswerHeard

(* The opaque pointer of an object and the slot of its instance agree, and *)
(* the module hears onDetached before an instance goes (feature_manager_   *)
(* qjs.cpp).                                                               *)
ObjectsInStep == OpaqueInSlot /\ DetachedBeforeEnd
=============================================================================
