------------------------------ MODULE Packages ------------------------------
(***************************************************************************)
(* system.packagemanager: installs and uninstalls are answered by a        *)
(* listener that the package service calls on a binder thread; everything  *)
(* else is asked of the service within the call.                           *)
(*                                                                         *)
(* The listener holds a duplicate of the instance's handle and lives until *)
(* the service lets go of it; each result it posts holds another.  Calls   *)
(* of the loop and of binder threads come in any order.                    *)
(***************************************************************************)
EXTENDS Naturals, Sequences, FiniteSets

CONSTANTS
  PkgCall, (* calls of the feature *)
  Package  (* names of packages *)

VARIABLES
  asking,    (* each call: what it asks, of which package, how far it is   *)
  observers, (* calls whose listener is alive                              *)
  reports,   (* results in the queue of tasks: [call, code]                *)
  claims,    (* references to the handle that the feature has taken        *)
  installed, (* the packages the service has                               *)
  hears,     (* history: what a call told the script, in order             *)
  instance   (* "live", "detached", or "closed": the queue was emptied     *)

paVars == <<asking, observers, reports, claims, installed, hears, instance>>

Operations == {"install", "uninstall"}
NoCall == [op |-> "none", package |-> CHOOSE p \in Package : TRUE,
           step |-> "idle"]

PackagesInit ==
  /\ asking = [c \in PkgCall |-> NoCall]
  /\ observers = {} /\ reports = <<>> /\ claims = 0
  /\ installed \in SUBSET Package
  /\ hears = [c \in PkgCall |-> <<>>]
  /\ instance = "live"

(* errorMap of onInstallResult and of onUninstallResult: the code of the   *)
(* promise and the code of the event.                                      *)
InstallCodes(code) ==
  CASE code = "missing"   -> <<1000, 202>>
    [] code = "exists"    -> <<1001, 202>>
    [] code = "short"     -> <<1002, 4102>>
    [] code = "no memory" -> <<200, 5101>>
    [] code = "ok"        -> <<0, 0>>
    [] OTHER              -> <<202, 202>>
UninstallCodes(code) ==
  CASE code = "missing" -> <<1000, 202>>
    [] code = "exists"  -> <<1001, 202>>
    [] code = "ok"      -> <<0, 0>>
    [] OTHER            -> <<202, 202>>

Heard(what, code) == [what |-> what, code |-> code]
Begins(c, op, p, step) ==
  /\ asking[c].step = "idle" /\ instance = "live"
  /\ asking' = [asking EXCEPT ![c] = [op |-> op, package |-> p, step |-> step]]
Answers(c, what, code) ==
  hears' = [hears EXCEPT ![c] = Append(@, Heard(what, code))]

-----------------------------------------------------------------------------
(* Calls that are answered within *)

(* Options that are not there, or not what they should be: 202; for        *)
(* install that is a suffix other than rpk and apk, though none will do.   *)
PackagesRefused(c) ==
  /\ \E p \in Package : Begins(c, "none", p, "answered")
  /\ Answers(c, "reject", 202)
  /\ UNCHANGED <<observers, reports, claims, installed, instance>>

(* hasInstalled: that the service fails is the answer "no". *)
HasInstalled(c, p) ==
  /\ Begins(c, "hasInstalled", p, "answered")
  /\ Answers(c, "resolve", IF p \in installed THEN 1 ELSE 0)
  /\ UNCHANGED <<observers, reports, claims, installed, instance>>

OfInstalled(c, p, op) ==
  /\ Begins(c, op, p, "answered")
  /\ IF p \in installed THEN Answers(c, "resolve", 1)
     ELSE Answers(c, "reject", 1000)
  /\ UNCHANGED <<observers, reports, claims, installed, instance>>

GetPackageInfo(c, p) == OfInstalled(c, p, "getPackageInfo")
ClearPackageData(c, p) == OfInstalled(c, p, "clearPackageData")

(* getInstalledPackages: how many there are, or that the service fails. *)
GetInstalledPackages(c) ==
  /\ \E p \in Package : Begins(c, "getInstalledPackages", p, "answered")
  /\ \/ Answers(c, "resolve", Cardinality(installed))
     \/ Answers(c, "reject", 202)
  /\ UNCHANGED <<observers, reports, claims, installed, instance>>

(* getPackagesInOperation: those that are installed or uninstalled now. *)
GetPackagesInOperation(c) ==
  /\ \E p \in Package : Begins(c, "getPackagesInOperation", p, "answered")
  /\ \/ Answers(c, "resolve",
                Cardinality({d \in PkgCall : asking[d].step = "asked"}))
     \/ Answers(c, "reject", 202)
  /\ UNCHANGED <<observers, reports, claims, installed, instance>>

-----------------------------------------------------------------------------
(* Calls that a listener answers *)

(* install and uninstall: the constructor of the listener takes a handle. *)
Asks(c, op, p) ==
  /\ Begins(c, op, p, "asked")
  /\ observers' = observers \cup {c} /\ claims' = claims + 1
  /\ UNCHANGED <<reports, installed, hears, instance>>

Install(c, p) == Asks(c, "install", p)
Uninstall(c, p) == Asks(c, "uninstall", p)

(* The service has done it, or not. *)
Outcome(op, p, code) ==
  IF code # "ok" THEN UNCHANGED installed
  ELSE installed' = IF op = "install" THEN installed \cup {p}
                    ELSE installed \ {p}

(* A result is posted with a handle of its own, which is given back when   *)
(* FeaturePost refuses it: the instance is detached.                       *)
Posts(c, code) ==
  /\ asking[c].step = "asked" /\ c \in observers
  /\ asking' = [asking EXCEPT ![c].step = "reported"]
  /\ Outcome(asking[c].op, asking[c].package, code)
  /\ IF instance = "live"
     THEN /\ reports' = Append(reports, [call |-> c, code |-> code])
          /\ claims' = claims + 1
     ELSE UNCHANGED <<reports, claims>>
  /\ UNCHANGED <<observers, hears, instance>>

OnInstallResult(c) ==
  /\ asking[c].op = "install"
  /\ \E code \in {"ok", "missing", "exists", "short", "no memory", "other"} :
       Posts(c, code)
OnUninstallResult(c) ==
  /\ asking[c].op = "uninstall"
  /\ \E code \in {"ok", "missing", "exists", "other"} : Posts(c, code)

(* The service lets go of a listener: when it has called it, or when the   *)
(* service dies.                                                           *)
ListenerFreed(c) ==
  /\ c \in observers
  /\ observers' = observers \ {c} /\ claims' = claims - 1
  /\ UNCHANGED <<asking, reports, installed, hears, instance>>

Codes(r) == IF asking[r.call].op = "install" THEN InstallCodes(r.code)
            ELSE UninstallCodes(r.code)

(* HandlePmResultOnJsThread: the promise, and then the event; neither when *)
(* the instance is detached.                                               *)
HandlePmResult ==
  /\ reports # <<>> /\ instance # "closed" /\ reports' = Tail(reports)
  /\ claims' = claims - 1
  /\ LET r == Head(reports)
     IN  IF instance # "live" THEN UNCHANGED hears
         ELSE hears' = [hears EXCEPT ![r.call] = @ \o
                <<Heard(IF r.code = "ok" THEN "resolve" ELSE "reject",
                       Codes(r)[1]),
                  Heard("event", Codes(r)[2])>>]
  /\ UNCHANGED <<asking, observers, installed, instance>>

PackagesDetached ==
  /\ instance = "live" /\ instance' = "detached"
  /\ UNCHANGED <<asking, observers, reports, claims, installed, hears>>

(* The manager ends: what is queued runs with FEATURE_TASK_MODE_FREE; then *)
(* onDestroy deletes the PackageManager, whose listeners may live on.      *)
PackagesClosed ==
  /\ instance = "detached" /\ instance' = "closed"
  /\ reports' = <<>> /\ claims' = claims - Len(reports)
  /\ UNCHANGED <<asking, observers, installed, hears>>

PackagesNext ==
  \/ \E c \in PkgCall :
       \/ PackagesRefused(c)
       \/ GetInstalledPackages(c) \/ GetPackagesInOperation(c)
       \/ \E p \in Package :
            \/ HasInstalled(c, p) \/ GetPackageInfo(c, p)
            \/ ClearPackageData(c, p)
            \/ Install(c, p) \/ Uninstall(c, p)
       \/ OnInstallResult(c) \/ OnUninstallResult(c) \/ ListenerFreed(c)
  \/ HandlePmResult \/ PackagesDetached \/ PackagesClosed

PackagesSpec == PackagesInit /\ [][PackagesNext]_paVars

-----------------------------------------------------------------------------
(* Properties *)

(* Whatever the threads do and whenever the instance ends: the feature has *)
(* as many references to its handle as it has listeners and reports, so    *)
(* that the instance neither dies under one nor lives on without; a        *)
(* promise is settled once, by the result of its own operation, and the    *)
(* event for it follows at once and says the same.                         *)
PackagesHeard ==
  /\ claims = Cardinality(observers) + Len(reports)
  /\ \A c \in PkgCall :
       /\ asking[c].op \in Operations =>
            /\ Len(hears[c]) \in {0, 2}
            /\ hears[c] # <<>> =>
                 /\ asking[c].step = "reported"
                 /\ hears[c][2].what = "event"
                 /\ hears[c][1].what = "resolve" <=> hears[c][2].code = 0
            /\ asking[c].step = "reported" /\ instance = "live" =>
                 Len(hears[c]) = 2 <=>
                   ~\E i \in DOMAIN reports : reports[i].call = c
       /\ asking[c].step = "answered" => Len(hears[c]) = 1

=============================================================================
