-------------------------- MODULE MCTasksAndCalls ---------------------------
(* Instances for TLC of the ways into a feature: the queue of tasks, with  *)
(* the instances it keeps alive, the values that are passed, and the calls *)
(* and services of ServiceCalls.  A behaviour steps one of them.           *)
EXTENDS FeatureManager, Conversions, ServiceCalls, SequencesExt

-----------------------------------------------------------------------------
(* Every type of two levels, with every value that fits it or not, as      *)
(* trees of records.                                                       *)
T(k, parts) == [kind |-> k, parts |-> parts]
Plain(k) == T(k, <<>>)

Scalars == {Plain(k) : k \in Numbers \cup Managed \cup {"callback"}}
IsOptional(t) == t.kind \in {"optional", "default"}
Real(t) == IF IsOptional(t) THEN t.parts[1] ELSE t
Optionals(types) ==
  {T("optional", <<t>>) : t \in types} \cup
  {T("default", <<t>>) :
     t \in {Plain(k) : k \in Numbers \cup {"string"}} \cap types}
Arrays(types) == {T("array", <<t>>) : t \in types}
Structs(firsts, seconds) ==
  {T("struct", <<t, u>>) : t \in firsts, u \in seconds}

Flat ==
  Arrays(Scalars) \cup
  Structs(Scalars \cup Optionals(Scalars), {Plain("string"), Plain("any")})
Nested ==
  LET inner == Structs({Plain("any")}, {Plain("string"), Plain("callback")})
               \cup Arrays({Plain("string"), Plain("any")})
  IN  Arrays(inner) \cup Structs(inner \cup Optionals(inner), {Plain("int")})
Types ==
  LET types == Scalars \cup Flat \cup Nested
  IN  types \cup Optionals(types)

Fitting == [int |-> "int", double |-> "fraction", string |-> "text",
            any |-> "object", json |-> "object", buffer |-> "buffer",
            callback |-> "function"]
Misfits == {Plain(k) : k \in {"undefined", "null", "int", "text", "object",
                              "array", "buffer", "function"}}

RECURSIVE ValuesOf(_)
ValuesOf(t) ==
  CASE t.kind = "struct" ->
         {Plain("undefined"), Plain("null"), Plain("text")} \cup
         {T("object", <<v, w>>) :
            v \in ValuesOf(t.parts[1]), w \in ValuesOf(t.parts[2])}
    [] t.kind = "array" ->
         {Plain("undefined"), Plain("null"), Plain("text")} \cup
         {T("array", s) :
            s \in BoundedSeq(ValuesOf(t.parts[1]) \ {Plain("undefined")}, 2)}
    [] IsOptional(t) -> ValuesOf(t.parts[1])
    [] OTHER -> {Plain("undefined"), Plain("null"), Plain(Fitting[t.kind]),
                 Plain(IF t.kind = "int" THEN "text" ELSE "int")}
Values(t) == ValuesOf(t) \cup
  (IF Real(t).kind = "json" THEN Misfits \ {Plain("function")} ELSE Misfits)

(* The same at the places of two levels with two parts each.               *)
TwoLevels == {<<>>, <<1>>, <<2>>, <<1, 1>>, <<1, 2>>, <<2, 1>>, <<2, 2>>}

RECURSIVE TypeAt(_, _), ValueAt(_, _)
TypeAt(t, p) ==
  IF IsOptional(t) THEN [TypeAt(t.parts[1], p) EXCEPT
                           !.opt = IF p = <<>> THEN t.kind ELSE @]
  ELSE IF p = <<>> THEN [kind |-> t.kind, opt |-> "no"]
  ELSE LET i == IF t.kind = "array" THEN 1 ELSE Head(p)
       IN  IF i \in DOMAIN t.parts THEN TypeAt(t.parts[i], Tail(p))
           ELSE [kind |-> "none", opt |-> "no"]
ValueAt(v, p) ==
  IF p = <<>> THEN v.kind
  ELSE IF Head(p) \in DOMAIN v.parts THEN ValueAt(v.parts[Head(p)], Tail(p))
  ELSE "undefined"

ArgumentsOf(t) ==
  [type : {[p \in TwoLevels |-> TypeAt(t, p)]},
   value : {[p \in TwoLevels |-> ValueAt(v, p)] : v \in Values(t)}]
AllArguments == UNION {ArgumentsOf(t) : t \in Types}

-----------------------------------------------------------------------------
AnArgument == CHOOSE a \in AllArguments : TRUE

TasksAndCallsInit ==
  /\ ConversionsInit
  /\ loaded \in {"tasks", "conversions"} \cup Services
  /\ loaded # "conversions" => arg = AnArgument
  /\ Init /\ ServicesInit

TasksAndCallsNext ==
  \/ loaded = "tasks" /\ Next /\ UNCHANGED <<cvVars, serviceVars>>
  \/ loaded = "conversions" /\ ConversionsNext /\ UNCHANGED <<vars, serviceVars>>
  \/ ServicesNext /\ UNCHANGED <<vars, cvVars>>

(* At the beginning, where the others leave it, nothing of the queue is    *)
(* fair.                                                                   *)
TasksAndCallsSpec ==
  /\ TasksAndCallsInit
  /\ [][TasksAndCallsNext]_<<vars, cvVars, serviceVars>>
  /\ Fairness
=============================================================================
