----------------------------- MODULE Conversions -----------------------------
(***************************************************************************)
(* Values of a script and of a feature: convertValueToNative and           *)
(* convertValueToTarget under QuickJS, and who owns what they make.        *)
(*                                                                         *)
(* A type, a value and the memory of an argument are trees, of which each  *)
(* is a function of the places of a tree: <<>> is the argument itself and  *)
(* <<2, 1>> the first part of its second part.  A struct has members, that *)
(* an object has or has not, an array elements.  A slot that holds a       *)
(* reference points to blocks of memory that are freed by their types; an  *)
(* "any" borrows the value of the script.  A call that waits for a         *)
(* permission keeps its argument when it returns.  Interfaces              *)
(* (FeatureManagerQjs), protobuf messages and the widths of numbers are    *)
(* left out.                                                               *)
(***************************************************************************)
EXTENDS Naturals, Sequences

CONSTANTS
  Places,       (* the places of an argument                               *)
  Arguments,    (* the arguments: a type and the value that is passed for  *)
                (* it; a place without a part of it is "undefined"         *)
  OptionalsWait (* TRUE: a call whose argument is optional and holds an    *)
                (* "any" may wait for a permission.                        *)

Numbers == {"int", "double"}
Managed == {"string", "any", "json", "buffer"}
Kinds == Numbers \cup Managed \cup {"callback", "struct", "array"}

(* A place without a part of the type is of kind "none".                   *)
TypeNodes == [kind : Kinds \cup {"none"}, opt : {"no", "optional", "default"}]
ValueKinds == {"undefined", "null", "int", "fraction", "text", "object", "array",
               "buffer", "function"}

Root == <<>>
Upto(p, n) == [i \in 1..n |-> p[i]]
PartsOf(p) == {q \in Places : Len(q) = Len(p) + 1 /\ Upto(q, Len(p)) = p}

(* Numbers and strings have defaults, and no elements are optional.        *)
(* A hole in an array aborts the program, and a function that is passed as *)
(* JSON cannot be read back: none is passed.                               *)
WellFormed(a) ==
  \A p \in Places :
    /\ a.type[p].opt = "default" => a.type[p].kind \in Numbers \cup {"string"}
    /\ a.type[p].kind = "json" => a.value[p] # "function"
    /\ a.type[p].kind = "array" =>
         \A q, r \in PartsOf(p) :
           /\ a.type[q].opt = "no"
           /\ q[Len(q)] < r[Len(r)] /\ a.value[r] # "undefined"
                => a.value[q] # "undefined"

ASSUME PlaceAssumption ==
  /\ Places \subseteq Seq(Nat) /\ Root \in Places
  /\ \A p \in Places : \A n \in 0..Len(p) : Upto(p, n) \in Places
ASSUME ArgumentsAssumption ==
  /\ Arguments \subseteq [type : [Places -> TypeNodes], value : [Places -> ValueKinds]]
  /\ \A a \in Arguments : WellFormed(a)
ASSUME OptionalsWaitAssumption == OptionalsWait \in BOOLEAN

VARIABLES
  arg,    (* the type of the parameter and the value that is passed        *)
  native, (* the slot that it is converted to, and what it points to       *)
  blocks, (* the blocks that were allocated for it                         *)
  stage,  (* "given", "converted", "refused", "returned" or "dropped": the *)
          (* call has returned; the script dropped its values too          *)
  waits,  (* PermissionsInfo holds it                                      *)
  refs,   (* the count of the block that the slot points to                *)
  dups,   (* references of the feature to values of the script             *)
  gone    (* how often each block was freed                                *)

cvVars == <<arg, native, blocks, stage, waits, refs, dups, gone>>

-----------------------------------------------------------------------------
(* Trees *)

(* What a slot holds: of which value it was made, and which parts it has.  *)
Slot(kind, of, parts) == [kind |-> kind, of |-> of, parts |-> parts]
Null == Slot("null", "null", {})
Refused == Slot("refused", "null", {})

(* A walk from the argument over the parts of each slot gets to the place. *)
Reaches(mem, p) == \A n \in 1..Len(p) : Upto(p, n) \in mem[Upto(p, n - 1)].parts

(* The place f comes before p in this walk.                                *)
Before(f, p) ==
  \E n \in 1..Len(f) : n <= Len(p) /\ Upto(f, n - 1) = Upto(p, n - 1) /\ f[n] < p[n]

Block == Places \X {"own", "elements"}
Counts(S, T) == [x \in T |-> IF x \in S THEN 1 ELSE 0]

ConversionsInit ==
  /\ arg \in Arguments
  /\ native = [p \in Places |-> Null] /\ blocks = {}
  /\ stage = "given" /\ waits = FALSE /\ refs = 0
  /\ dups = Counts({}, Places) /\ gone = Counts({}, Block)

-----------------------------------------------------------------------------
(* From the script *)

Absent(v) == v \in {"undefined", "null"}

(* toNative of numbers: an int must be one that the engine stores as such. *)
NumberFits(k, v) == v \in IF k = "int" THEN {"int"} ELSE {"int", "fraction"}

(* toNative of managed types; a json is made of any object.                *)
ManagedFits(k, v) ==
  /\ k = "string" => v = "text"
  /\ k = "json" => v \in {"object", "array", "buffer"}
  /\ k = "buffer" => v = "buffer"

(* Each primitive type but void, and COMPLEX_CALLBACK: nothing is null.    *)
ScalarToNative(k, v) ==
  IF k \in Numbers THEN IF NumberFits(k, v) THEN Slot("number", v, {}) ELSE Refused
  ELSE IF Absent(v) THEN Null
  ELSE IF \/ k = "callback" /\ v = "function"
          \/ k \in Managed /\ ManagedFits(k, v)
       THEN Slot(k, v, {}) ELSE Refused

(* Neither an array nor a function nor a buffer is a plain object.         *)
IsPlainObject(v) == v = "object"

StructToNative(a, p) ==
  IF Absent(a.value[p]) THEN Null
  ELSE IF IsPlainObject(a.value[p])
  THEN Slot("struct", "object", {q \in PartsOf(p) : a.type[q].kind # "none"})
  ELSE Refused

(* arraySize and arrayGet                                                  *)
Elements(a, p) == {q \in PartsOf(p) : a.value[q] # "undefined"}

ArrayToNative(a, p) ==
  IF Absent(a.value[p]) THEN Null
  ELSE IF a.value[p] = "array" THEN Slot("array", "array", Elements(a, p))
  ELSE Refused

ValueToNative(a, p) ==
  CASE a.type[p].kind = "struct" -> StructToNative(a, p)
    [] a.type[p].kind = "array" -> ArrayToNative(a, p)
    [] OTHER -> ScalarToNative(a.type[p].kind, a.value[p])

Default == [int |-> "int", double |-> "fraction", string |-> "text"]

(* convertOptional, of a member that is missing: it knows no buffers.      *)
DefaultOf(t) ==
  IF t.opt = "default"
  THEN Slot(IF t.kind \in Numbers THEN "number" ELSE t.kind, Default[t.kind], {})
  ELSE IF t.kind = "buffer" THEN Refused
  ELSE IF t.kind \in Numbers THEN Slot("number", "zero", {}) ELSE Null

(* getStructField finds nothing: whatever is missing must be optional, or  *)
(* have a type that can be null; a buffer cannot be missing.               *)
IsMember(a, p) == p # Root /\ a.type[Upto(p, Len(p) - 1)].kind = "struct"
MissingToNative(a, p) ==
  IF a.type[p].opt # "no" THEN DefaultOf(a.type[p])
  ELSE IF a.type[p].kind \in Numbers \cup {"buffer"} THEN Refused
  ELSE ValueToNative(a, p)

(* Each part by itself.                                                    *)
Slots(a) ==
  [p \in Places |-> IF IsMember(a, p) /\ a.value[p] = "undefined"
                    THEN MissingToNative(a, p) ELSE ValueToNative(a, p)]

(* Members and elements are converted in order until one is refused, which *)
(* leaves the memory behind it zero.                                       *)
Refusals(a) == {p \in Places : Reaches(Slots(a), p) /\ Slots(a)[p] = Refused}
Converted(a) ==
  LET refusals == Refusals(a)
      slots == Slots(a)
  IN  {p \in Places : Reaches(slots, p) /\ \A f \in refusals : f # p /\ ~Before(f, p)}

(* Mutant: _size is set when the elements are converted. *)
ToNative_SizeLast(a) ==
  [p \in Places |->
     IF p \notin Converted(a) THEN Null
     ELSE IF Slots(a)[p].kind = "array"
             /\ \E f \in Refusals(a) : Len(f) > Len(p) /\ Upto(f, Len(p)) = p
          THEN Slot("array", "array", {})
          ELSE Slots(a)[p]]

ToNative(a) ==
  LET converted == Converted(a)
      slots == Slots(a)
  IN  [p \in Places |-> IF p \in converted THEN slots[p] ELSE Null]

(* FeatureMalloc, and malloc for the elements of an array, if there are.   *)
BlocksMade(a) ==
  LET converted == Converted(a)
      slots == Slots(a)
  IN  {b \in Block :
         /\ b[1] \in converted
         /\ IF b[2] = "own" THEN slots[b[1]].kind \in Managed \cup {"struct", "array"}
            ELSE slots[b[1]].kind = "array" /\ slots[b[1]].parts # {}}

-----------------------------------------------------------------------------
(* To the script *)

(* toTarget of numbers *)
NumberToTarget(cell) == cell.of

(* toTarget of managed types: a json is read back, a buffer is the same.   *)
ManagedToTarget(cell) == cell.of

(* The id of a callback is passed as a number, a null string is empty.     *)
ScalarToTarget(k, cell) ==
  IF k = "callback" THEN "int"
  ELSE IF k \in Numbers THEN NumberToTarget(cell)
  ELSE IF k = "string" /\ cell = Null THEN "empty"
  ELSE ManagedToTarget(cell)

ValueToTarget(k, cell) ==
  IF k \notin {"struct", "array"} THEN ScalarToTarget(k, cell)
  ELSE IF cell = Null THEN "null"
  ELSE IF k = "struct" THEN "object" ELSE "array"

ToTarget(type, mem) ==
  [p \in Places |-> IF Reaches(mem, p) THEN ValueToTarget(type[p].kind, mem[p])
                   ELSE "none"]

-----------------------------------------------------------------------------
(* Memory *)

NeedFree(t) == t.kind \in Managed \cup {"struct", "array"}

(* FeatureFreeValue of the last reference: the blocks that go with it, by  *)
(* the types of the parts.                                                 *)
FreedWith(type, mem) ==
  {b \in Block :
     /\ Reaches(mem, b[1]) /\ mem[b[1]] # Null
     /\ \A n \in 0..Len(b[1]) : NeedFree(type[Upto(b[1], n)])
     /\ b[2] = "own" \/ (type[b[1]].kind = "array" /\ mem[b[1]].parts # {})}

(* dupFtValue and freeFtValue: the values of the script they find; none in *)
(* a parameter that is optional.                                           *)
AnysIn(type, mem) ==
  {p \in Places : Reaches(mem, p) /\ type[p].kind = "any" /\ mem[p] # Null}
AnysFound(type, mem) == IF type[Root].opt # "no" THEN {} ELSE AnysIn(type, mem)

(* findCallbackIdByName, of the member q *)
CallbackOf(type, mem, q) ==
  IF type[Root].kind = "struct" /\ mem[Root] # Null /\ type[q].kind = "callback"
  THEN mem[q] ELSE Null

Unref ==
  IF refs = 0 THEN UNCHANGED <<refs, gone>>
  ELSE /\ refs' = refs - 1
       /\ gone' = IF refs # 1 THEN gone
                  ELSE [b \in Block |->
                          gone[b] + IF b \in FreedWith(arg.type, native) THEN 1 ELSE 0]

-----------------------------------------------------------------------------
(* The life of an argument *)

ConvertValueToNative ==
  /\ stage = "given"
  /\ native' = ToNative(arg) /\ blocks' = BlocksMade(arg)
  /\ stage' = IF Refusals(arg) = {} THEN "converted" ELSE "refused"
  /\ refs' = IF native'[Root] # Null /\ NeedFree(arg.type[Root]) THEN 1 ELSE 0
  /\ UNCHANGED <<arg, waits, dups, gone>>

(* PermissionsInfo copies the slots, FeatureDupValue and dupFtValue.       *)
KeepArgs ==
  /\ stage = "converted" /\ ~waits /\ waits' = TRUE
  /\ \/ OptionalsWait \/ arg.type[Root].opt = "no"
     \/ AnysIn(arg.type, native) = {}
  /\ refs' = IF refs = 0 THEN 0 ELSE refs + 1
  /\ dups' = IF refs = 0 THEN dups
             ELSE [p \in Places |->
                     dups[p] + IF p \in AnysFound(arg.type, native) THEN 1 ELSE 0]
  /\ UNCHANGED <<arg, native, blocks, stage, gone>>

(* free_method_args, whether the call was refused, waits or ended.         *)
CallReturns ==
  /\ stage \in {"converted", "refused"} /\ stage' = "returned"
  /\ Unref
  /\ UNCHANGED <<arg, native, blocks, waits, dups>>

(* The garbage collector takes what the script passed.                     *)
ScriptDrops ==
  /\ stage = "returned" /\ stage' = "dropped"
  /\ UNCHANGED <<arg, native, blocks, waits, refs, dups, gone>>

(* releaseArgs; the decision may come while the script holds its values.   *)
ReleaseArgs ==
  /\ waits /\ stage \in {"returned", "dropped"} /\ waits' = FALSE
  /\ dups' = IF refs = 0 THEN dups
             ELSE [p \in Places |->
                     dups[p] - IF p \in AnysFound(arg.type, native) THEN 1 ELSE 0]
  /\ Unref
  /\ UNCHANGED <<arg, native, blocks, stage>>

ConversionsOver == stage = "dropped" /\ ~waits /\ UNCHANGED cvVars

ConversionsNext ==
  \/ ConvertValueToNative \/ KeepArgs \/ CallReturns \/ ScriptDrops
  \/ ReleaseArgs \/ ConversionsOver

ConversionsSpec == ConversionsInit /\ [][ConversionsNext]_cvVars

-----------------------------------------------------------------------------
(* Properties *)

(* What the script has passed: the parts of an object and of an array for  *)
(* which the type has a struct and an array.                               *)
Passed(a, p) ==
  \A n \in 1..Len(p) :
    LET q == Upto(p, n - 1)
        part == Upto(p, n)
    IN  \/ a.type[q].kind = "struct" /\ a.value[q] = "object" /\ a.type[part].kind # "none"
        \/ a.type[q].kind = "array" /\ a.value[q] = "array" /\ a.value[part] # "undefined"

(* What the feature gets, as the script would read it back: what was       *)
(* passed, with defaults for members that are missing, null for nothing.   *)
MeantAt(t, v, member) ==
  IF member /\ v = "undefined" /\ t.opt = "default"
  THEN Default[t.kind]
  ELSE IF member /\ v = "undefined" /\ t.opt = "optional" /\ t.kind \in Numbers THEN "zero"
  ELSE IF t.kind = "callback" THEN "int"
  ELSE IF Absent(v) THEN IF t.kind = "string" THEN "empty" ELSE "null"
  ELSE v
Meant(a) ==
  [p \in Places |-> IF Passed(a, p)
                   THEN MeantAt(a.type[p], a.value[p], IsMember(a, p)) ELSE "none"]

(* Wherever a conversion fails, each block that was made for it is freed   *)
(* once, by its type, when the call and what waits for a permission let    *)
(* go, and not before; a value that the feature may still read is held by  *)
(* the script or by the feature; what was converted says what was passed;  *)
(* and a rejection finds the functions that were passed in a struct.       *)
ArgumentsOwned ==
  LET t == arg.type
      v == arg.value
  IN  /\ stage \in {"given", "converted", "refused"} \/ waits => gone = Counts({}, Block)
      /\ stage \in {"returned", "dropped"} /\ ~waits =>
           gone = Counts(blocks, Block) /\ dups = Counts({}, Places)
      /\ stage = "dropped" /\ waits => dups = Counts(AnysIn(t, native), Places)
      /\ stage = "converted" =>
           /\ ToTarget(t, native) = Meant(arg)
           /\ t[Root].kind = "struct" /\ v[Root] = "object" =>
                \A q \in PartsOf(Root) :
                  CallbackOf(t, native, q) =
                    IF t[q].kind = "callback" /\ v[q] = "function"
                    THEN Slot("callback", "function", {}) ELSE Null

=============================================================================
