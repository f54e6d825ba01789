------------------------- MODULE FeatureManagerQjs -------------------------
(***************************************************************************)
(* How feature instances live and die under the script engine: prototypes  *)
(* and their instance slots, interfaces, the finalizer of script objects,  *)
(* and uninit().  All of it is on main.                                    *)
(*                                                                         *)
(* Every instance has a script object carrying it as opaque.  The engine   *)
(* frees an object when nothing refers to it, at once or, in a cycle, when *)
(* it collects; its finalizer removes the instance.  Functions registered  *)
(* at an instance keep the objects they capture, until the instance is     *)
(* detached; so detaching one instance may free the object of another.     *)
(*                                                                         *)
(* An interface is created by a feature's native code and gets its slot    *)
(* and its object the first time it is handed to the script.               *)
(***************************************************************************)
EXTENDS Integers, SequencesExt

CONSTANTS
  Inst,   (* FeatureInstances ever created.                                *)
  Feat,   (* Registered features, each with one interface type.            *)
  NoInst, (* Not an instance; the head of feature_node_list_.              *)
  Cross,  (* TRUE: functions may capture objects of other instances.       *)
  MaxFns  (* Bound: functions registered at the same time.                 *)

Proto == Feat \X {"module", "interface"}

ASSUME NoInstAssumption == NoInst \notin Inst \cup Proto
ASSUME CrossAssumption == Cross \in BOOLEAN
ASSUME FnsAssumption == MaxFns \in Nat

VARIABLES
  proto,     (* the prototypes: "none", "live", "deleted"                  *)
  slots,     (* FeaturePrototype::instances_                               *)
  of,        (* FeatureInstance::proto_, NoInst before the instance exists *)
  iid,       (* FeatureInstance::instance_id_                              *)
  list,      (* feature_node_list_                                         *)
  opaque,    (* instances whose script object carries them                 *)
  roots,     (* instances whose script object the script can name          *)
  cb,        (* objects captured by the callbacks registered at each       *)
  on,        (* objects captured by the event functions of each            *)
  kept,      (* instances the native code owns a reference on              *)
  detached,
  condemned, (* objects the engine has begun to free                       *)
  phase,     (* "run"; uninit: "visit", "visited", "clear"; "end"; "freed" *)
  node,      (* detachFeatureInstances: its two cursors                    *)
  temp,
  deleted,   (* history: instances deleted                                 *)
  required,  (* history: instances onRequired was called for               *)
  detaches   (* history: calls of the module's onDetached, by instance     *)

fmVars == <<proto, slots, of, iid, list, opaque, roots, cb, on, kept, detached,
          condemned, phase, node, temp, deleted, required, detaches>>

LifecycleInit ==
  /\ proto = [p \in Proto |-> "none"] /\ slots = [p \in Proto |-> <<>>]
  /\ of = [i \in Inst |-> NoInst] /\ iid = [i \in Inst |-> -1]
  /\ list = <<>> /\ opaque = {} /\ roots = {}
  /\ cb = [i \in Inst |-> {}] /\ on = [i \in Inst |-> {}]
  /\ kept = {} /\ detached = {} /\ condemned = {}
  /\ phase = "run" /\ node = NoInst /\ temp = NoInst
  /\ deleted = {} /\ required = {} /\ detaches = [i \in Inst |-> 0]

IsModule(i) == of[i] # NoInst /\ of[i][2] = "module"
Initialized(i) == iid[i] >= 0
InSlot(i) == \E p \in Proto : \E k \in DOMAIN slots[p] : slots[p][k] = i

(* target_ of an interface: a reference to its own object. *)
Target == {i \in opaque : of[i][2] = "interface"}

(* Scripts and methods run; no object is being freed.                      *)
ScriptMayRun == phase = "run" /\ condemned = {}

-----------------------------------------------------------------------------
(* Slots *)

(* Mutant: the id is the last position, wherever the instance went. *)
AddWithLastId(p, i) ==
  /\ slots' = [slots EXCEPT ![p] =
       IF NoInst \in ToSet(@)
       THEN [@ EXCEPT ![SelectInSeq(@, LAMBDA x : x = NoInst)] = i]
       ELSE Append(@, i)]
  /\ iid' = [iid EXCEPT ![i] = Len(slots'[p]) - 1]

(* addInstance takes the first empty slot; setInstanceId.                  *)
AddInstance(p, i) ==
  LET s == slots[p]
      empty == SelectInSeq(s, LAMBDA x : x = NoInst)
      pos == IF empty = 0 THEN Len(s) + 1 ELSE empty
  IN  /\ slots' = [slots EXCEPT ![p] =
            IF empty = 0 THEN Append(s, i) ELSE [s EXCEPT ![pos] = i]]
      /\ iid' = [iid EXCEPT ![i] = pos - 1]

-----------------------------------------------------------------------------
(* References between script objects *)

(* What keeps object k, given the functions that are still registered.     *)
Referenced(k, calls, events) ==
  \/ k \in roots \/ k \in Target
  \/ \E j \in Inst : k \in calls[j] \cup events[j]

(* The collector does not see what event functions and target_ refer to as *)
(* referred to by their instance, so to it these are roots.                *)
Anchors == roots \cup Target \cup UNION {on[j] : j \in Inst}

Unreachable ==
  UNION {s \in SUBSET (opaque \ Anchors) :
           \A j \in opaque \ s : cb[j] \cap s = {}}

-----------------------------------------------------------------------------
(* Detaching *)

(* Mutant: onDetached leaves the opaque of the object. *)
OnDetachedKeepingOpaque(i) ==
  /\ detached' = detached \cup {i}
  /\ cb' = [cb EXCEPT ![i] = {}] /\ on' = [on EXCEPT ![i] = {}]
  /\ detaches' = [detaches EXCEPT ![i] = @ + (IF IsModule(i) THEN 1 ELSE 0)]
  /\ condemned' = condemned \ {i} /\ roots' = roots \ {i}
  /\ UNCHANGED opaque

(* onDetached: the object loses its opaque, native onDetached is called if *)
(* the prototype has one, and every registered function is freed.          *)
OnDetached(i) ==
  /\ detached' = detached \cup {i}
  /\ opaque' = opaque \ {i} /\ roots' = roots \ {i}
  /\ cb' = [cb EXCEPT ![i] = {}] /\ on' = [on EXCEPT ![i] = {}]
  /\ detaches' = [detaches EXCEPT ![i] = @ + (IF IsModule(i) THEN 1 ELSE 0)]
  /\ condemned' = (condemned \ {i}) \cup
       {k \in (cb[i] \cup on[i]) \cap (opaque \ {i}) :
          ~Referenced(k, cb', on')}

(* ~FeatureInstance: the nodes leave the list, the others keep their order. *)
Delete(gone) ==
  LET stay == {k \in DOMAIN list : list[k] \notin gone}
  IN  /\ deleted' = deleted \cup gone
      /\ \E from \in [1..Cardinality(stay) -> stay] :
           /\ \A j, k \in DOMAIN from : j < k => from[j] < from[k]
           /\ list' = [k \in DOMAIN from |-> list[from[k]]]

-----------------------------------------------------------------------------
(* Scripts and native methods *)

(* featureRequire, createFeature: the prototype on first use (onCreate),   *)
(* the instance and its slot, its object, onRequired.                      *)
Require(f, i) ==
  /\ ScriptMayRun /\ of[i] = NoInst
  /\ proto' = [proto EXCEPT ![<<f, "module">>] = "live"]
  /\ of' = [of EXCEPT ![i] = <<f, "module">>]
  /\ list' = Append(list, i)
  /\ AddInstance(<<f, "module">>, i)
  /\ opaque' = opaque \cup {i} /\ roots' = roots \cup {i}
  /\ required' = required \cup {i}
  /\ UNCHANGED <<cb, on, kept, detached, condemned, phase, node, temp, deleted,
                 detaches>>

(* FeatureCreateInterface, called by a method of the feature: prototype()  *)
(* is the module's for now, and the reference is the native code's.        *)
CreateInterface(f, i) ==
  /\ ScriptMayRun /\ of[i] = NoInst
  /\ \E j \in opaque : of[j][1] = f
  /\ of' = [of EXCEPT ![i] = <<f, "module">>]
  /\ list' = Append(list, i)
  /\ kept' = kept \cup {i}
  /\ UNCHANGED <<proto, slots, iid, opaque, roots, cb, on, detached, condemned,
                 phase, node, temp, deleted, required, detaches>>

(* convertValueToTarget of an interface: the first time it moves to the    *)
(* interface prototype, whose slot takes over the reference, and gets its  *)
(* object; every time the script gets a reference to the object.           *)
Convert(i) ==
  /\ ScriptMayRun /\ of[i] # NoInst /\ i \notin detached \cup required
  /\ roots' = roots \cup {i}
  /\ IF Initialized(i)
     THEN UNCHANGED <<proto, slots, of, iid, opaque, kept>>
     ELSE LET p == <<of[i][1], "interface">>
          IN  /\ proto' = [proto EXCEPT ![p] = "live"]
              /\ of' = [of EXCEPT ![i] = p]
              /\ AddInstance(p, i)
              /\ opaque' = opaque \cup {i}
              /\ kept' = kept \ {i}
  /\ UNCHANGED <<list, cb, on, detached, condemned, phase, node, temp, deleted,
                 required, detaches>>

Functions == {f \in Inst \X Inst : f[2] \in cb[f[1]]}
EventFunctions == {f \in Inst \X Inst : f[2] \in on[f[1]]}

(* The script passes instance i a function that uses the object of k, as a *)
(* callback or for an event.                                               *)
Register(i, k) ==
  /\ ScriptMayRun /\ {i, k} \subseteq roots /\ (Cross \/ i = k)
  /\ Cardinality(Functions) + Cardinality(EventFunctions) < MaxFns
  /\ \/ cb' = [cb EXCEPT ![i] = @ \cup {k}] /\ UNCHANGED on
     \/ on' = [on EXCEPT ![i] = @ \cup {k}] /\ UNCHANGED cb
  /\ UNCHANGED <<proto, slots, of, iid, list, opaque, roots, kept, detached,
                 condemned, phase, node, temp, deleted, required, detaches>>

(* The script lets go of an object: freed at once if nothing else refers   *)
(* to it.                                                                  *)
Drop(i) ==
  /\ ScriptMayRun /\ i \in roots
  /\ roots' = roots \ {i}
  /\ condemned' = IF i \in Target \/ \E j \in Inst : i \in cb[j] \cup on[j]
                  THEN {} ELSE {i}
  /\ UNCHANGED <<proto, slots, of, iid, list, opaque, cb, on, kept, detached,
                 phase, node, temp, deleted, required, detaches>>

(* The engine collects cycles; __feature_mark shows it the callbacks.      *)
Collect ==
  /\ ScriptMayRun /\ Unreachable # {}
  /\ condemned' = Unreachable
  /\ UNCHANGED <<proto, slots, of, iid, list, opaque, roots, cb, on, kept,
                 detached, phase, node, temp, deleted, required, detaches>>

(* __feature_finalizer: removeInstance detaches the instance, empties its  *)
(* slot, and so deletes it unless the native code kept a reference.        *)
Finalize(i) ==
  /\ i \in condemned
  /\ OnDetached(i)
  /\ slots' = [slots EXCEPT ![of[i]] = [@ EXCEPT ![iid[i] + 1] = NoInst]]
  /\ Delete(IF i \in kept THEN {} ELSE {i})
  /\ UNCHANGED <<proto, of, iid, kept, phase, node, temp, required>>

(* FeatureDupInstanceHandle on the instance a method was called on.        *)
Keep(i) ==
  /\ ScriptMayRun /\ i \in roots /\ IsModule(i) /\ i \notin kept
  /\ kept' = kept \cup {i}
  /\ UNCHANGED <<proto, slots, of, iid, list, opaque, roots, cb, on, detached,
                 condemned, phase, node, temp, deleted, required, detaches>>

(* FeatureFreeInstanceHandle on main; the last reference deletes, and      *)
(* ~FeatureInstanceQjs detaches what was not.                              *)
LetGo(i) ==
  /\ i \in kept /\ condemned = {} /\ phase \in {"run", "end", "freed"}
  /\ kept' = kept \ {i}
  /\ IF InSlot(i)
     THEN UNCHANGED <<list, opaque, roots, cb, on, detached, condemned, deleted,
                      detaches>>
     ELSE /\ Delete({i})
          /\ IF i \in detached
             THEN UNCHANGED <<opaque, roots, cb, on, detached, condemned,
                              detaches>>
             ELSE OnDetached(i)
  /\ UNCHANGED <<proto, slots, of, iid, phase, node, temp, required>>

-----------------------------------------------------------------------------
(* uninit *)

(* What follows an entry of the list; the head follows the last.           *)
After(i) ==
  LET pos == SelectInSeq(list, LAMBDA x : x = i)
  IN  IF pos < Len(list) THEN list[pos + 1] ELSE NoInst

UninitBegin ==
  /\ ScriptMayRun
  /\ node' = After(NoInst)
  /\ temp' = IF node' = NoInst THEN NoInst ELSE After(node')
  /\ phase' = IF node' = NoInst THEN "clear" ELSE "visit"
  /\ UNCHANGED <<proto, slots, of, iid, list, opaque, roots, cb, on, kept,
                 detached, condemned, deleted, required, detaches>>

(* The body of detachFeatureInstances' loop. *)
Visit ==
  /\ phase = "visit"
  /\ phase' = "visited"
  /\ IF node \in detached
     THEN UNCHANGED <<opaque, roots, cb, on, detached, condemned, detaches>>
     ELSE OnDetached(node)
  /\ UNCHANGED <<proto, slots, of, iid, list, kept, node, temp, deleted,
                 required>>

(* node = temp, temp = node->next.                                         *)
Advance ==
  /\ phase = "visited" /\ condemned = {} /\ temp \notin deleted
  /\ node' = temp /\ temp' = IF temp = NoInst THEN NoInst ELSE After(temp)
  /\ phase' = IF temp = NoInst THEN "clear" ELSE "visit"
  /\ UNCHANGED <<proto, slots, of, iid, list, opaque, roots, cb, on, kept,
                 detached, condemned, deleted, required, detaches>>

(* One prototype of uninit's loop: the slots of its interface prototype,   *)
(* its own slots, onDestroy, and the prototypes themselves.                *)
ClearPrototype(f) ==
  /\ phase = "clear" /\ proto[<<f, "module">>] = "live"
  /\ slots' = [slots EXCEPT ![<<f, "module">>] = <<>>,
                            ![<<f, "interface">>] = <<>>]
  /\ proto' = [proto EXCEPT ![<<f, "module">>] = "deleted",
                            ![<<f, "interface">>] = "deleted"]
  /\ Delete({i \in Inst : InSlot(i) /\ of[i][1] = f} \ kept)
  /\ UNCHANGED <<of, iid, opaque, roots, cb, on, kept, detached, condemned,
                 phase, node, temp, required, detaches>>

UninitEnd ==
  /\ phase = "clear" /\ \A p \in Proto : proto[p] # "live"
  /\ phase' = "end"
  /\ UNCHANGED <<proto, slots, of, iid, list, opaque, roots, cb, on, kept,
                 detached, condemned, node, temp, deleted, required, detaches>>

(* ~FeatureManager: checkFeatureInstances only names what is left over.    *)
FreeManager ==
  /\ phase = "end"
  /\ phase' = "freed"
  /\ UNCHANGED <<proto, slots, of, iid, list, opaque, roots, cb, on, kept,
                 detached, condemned, node, temp, deleted, required, detaches>>

(* The end, or the loop stands on a freed node; not a step of the program. *)
LifecycleEnd ==
  /\ phase = "freed" \/ (phase = "visited" /\ temp \in deleted)
  /\ UNCHANGED fmVars

-----------------------------------------------------------------------------
Engine == Collect \/ \E i \in Inst : Finalize(i)

Uninit ==
  \/ Visit \/ Advance \/ UninitEnd
  \/ \E f \in Feat : ClearPrototype(f)

LifecycleNext ==
  \/ \E f \in Feat, i \in Inst : Require(f, i) \/ CreateInterface(f, i)
  \/ \E i \in Inst : Convert(i) \/ Drop(i) \/ Keep(i) \/ LetGo(i)
  \/ \E i, k \in Inst : Register(i, k)
  \/ Engine
  \/ UninitBegin \/ Uninit \/ FreeManager
  \/ LifecycleEnd

LifecycleSpec == LifecycleInit /\ [][LifecycleNext]_fmVars

(* The engine finishes what it frees and collects again and again; uninit, *)
(* once called, runs to its end.                                           *)
LifecycleLiveSpec == LifecycleSpec /\ WF_fmVars(Engine) /\ WF_fmVars(Uninit)

-----------------------------------------------------------------------------
(* Properties *)

Alive == {i \in Inst : of[i] # NoInst} \ deleted

LifecycleTypeOK ==
  /\ proto \in [Proto -> {"none", "live", "deleted"}]
  /\ slots \in [Proto -> Seq(Inst \cup {NoInst})]
  /\ of \in [Inst -> Proto \cup {NoInst}]
  /\ iid \in [Inst -> Nat \cup {-1}]
  /\ list \in Seq(Inst) /\ IsInjective(list) /\ ToSet(list) = Alive
  /\ roots \subseteq opaque
  /\ UNION {opaque, kept, detached, condemned, deleted, required} \subseteq Inst
  /\ cb \in [Inst -> SUBSET Inst] /\ on \in [Inst -> SUBSET Inst]
  /\ phase \in {"run", "visit", "visited", "clear", "end", "freed"}
  /\ {node, temp} \subseteq Inst \cup {NoInst}
  /\ detaches \in [Inst -> Nat]

(* The opaque a method call, an accessor or the collector's mark takes off *)
(* a script object is an instance that is neither deleted nor detached,    *)
(* its prototype is still there and has it in the slot of its id: slots    *)
(* are reused, and removeInstance(iid) from the object's finalizer neither *)
(* meets an empty slot (which it would dereference) nor another instance.  *)
OpaqueInSlot ==
  \A i \in opaque :
    /\ i \notin deleted \cup detached /\ proto[of[i]] = "live"
    /\ iid[i] + 1 \in DOMAIN slots[of[i]]
    /\ slots[of[i]][iid[i] + 1] = i

(* Every deleted instance was detached, the module's onDetached called     *)
(* once for it if onRequired was, and an instance that is left over after  *)
(* uninit is detached, so that its late deletion touches no prototype.     *)
DetachedBeforeEnd ==
  /\ deleted \subseteq detached
  /\ phase \in {"clear", "end", "freed"} => Alive \subseteq detached
  /\ \A i \in required :
       detaches[i] = IF i \in detached THEN 1 ELSE 0

(* detachFeatureInstances steps on to a node that still exists: what the   *)
(* loop body frees never includes the instance of its saved cursor.        *)
NextNodeAlive == phase = "visited" => temp \notin deleted

(* Objects no script variable leads to, directly or through functions.     *)
Unneeded ==
  UNION {s \in SUBSET (opaque \ roots) :
           \A j \in opaque \ s : (cb[j] \cup on[j]) \cap s = {}}

(* Memory management by the framework, "preventing memory leaks": an       *)
(* instance whose object the script cannot reach any more is freed.        *)
UnneededFreed ==
  \A i \in Inst : i \in Unneeded ~> i \notin Unneeded

=============================================================================
