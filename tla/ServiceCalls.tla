---------------------------- MODULE ServiceCalls ----------------------------
(***************************************************************************)
(* The calls of a script into a feature (FfiCalls), and the features whose *)
(* calls are carried out by a service, a thread of the pool or a page and  *)
(* end with their instances: the stores, the previews, the health service, *)
(* the brightness of the screen, the packages and the gestures of a test.  *)
(* They share no state: a behaviour steps the one that is loaded.          *)
(***************************************************************************)
EXTENDS FfiCalls, Stores, Previews, HealthSamples, BrightnessRequests,
        Packages, InputWorks

VARIABLE loaded

pageVars == <<pvVars, hsVars>>
requestVars == <<stVars, brVars, paVars, iwVars>>
serviceVars == <<loaded, fiVars, pageVars, requestVars>>

Services == {"calls", "stores", "previews", "health", "brightness",
             "packages", "inputs"}

ServicesInit ==
  /\ FfiInit /\ StoresInit /\ PreviewsInit /\ HealthInit /\ BrightnessInit
  /\ PackagesInit /\ InputInit
  /\ loaded # "packages" => installed = {}
  /\ loaded # "inputs" => inputCtx = "none"

(* A feature that ends with its instances has ended: it stops.             *)
ServiceEnds ==
  /\ \/ /\ loaded = "stores" /\ away
        /\ \A c \in StoreCall : work[c].step \in {"idle", "ended"}
     \/ /\ loaded = "previews" /\ managing = "no"
        /\ toUI = <<>> /\ toApp = <<>>
     \/ /\ loaded = "health"
        /\ \/ walk.step = "astray"
           \/ healthCtx # "live" /\ topicRefs = 0
     \/ loaded = "brightness" /\ uv # "open"
     \/ loaded = "packages" /\ instance = "closed" /\ observers = {}
     \/ /\ loaded = "inputs" /\ inputPage = "detached"
        /\ inputCtx # "made"
  /\ UNCHANGED serviceVars

ServicesNext ==
  \/ /\ loaded = "calls" /\ FfiNext
     /\ UNCHANGED <<loaded, pageVars, requestVars>>
  \/ /\ loaded = "stores" /\ StoresNext
     /\ UNCHANGED <<loaded, fiVars, pageVars, brVars, paVars, iwVars>>
  \/ /\ loaded = "previews" /\ PreviewsNext
     /\ UNCHANGED <<loaded, fiVars, hsVars, requestVars>>
  \/ /\ loaded = "health" /\ HealthNext
     /\ UNCHANGED <<loaded, fiVars, pvVars, requestVars>>
  \/ /\ loaded = "brightness" /\ BrightnessNext
     /\ UNCHANGED <<loaded, fiVars, pageVars, stVars, paVars, iwVars>>
  \/ /\ loaded = "packages" /\ PackagesNext
     /\ UNCHANGED <<loaded, fiVars, pageVars, stVars, brVars, iwVars>>
  \/ /\ loaded = "inputs" /\ InputNext
     /\ UNCHANGED <<loaded, fiVars, pageVars, stVars, brVars, paVars>>
  \/ ServiceEnds

ServicesSpec ==
  loaded \in Services /\ ServicesInit /\ [][ServicesNext]_serviceVars

-----------------------------------------------------------------------------
(* Properties *)

(* A call of a feature is answered as it was made, and frees what it has   *)
(* allocated, however its parameters fail (feature_manager_qjs.cpp,        *)
(* feature_ffi_templates.h).                                               *)
CallsExact == CallHeard /\ CallMemoryFreed

(* The stores and the package service are asked for what a call said, and  *)
(* it is told what they answered, in their own time (storage_impl.cpp,     *)
(* exchange_impl.cpp, packagemanager_impl.cpp).                            *)
AnswersKept == StoresKept /\ PackagesHeard

(* What the requests of system.brightness and system.test.input hold is    *)
(* freed as often as it is told, and they are told of as they went,        *)
(* whether the service, a thread of the pool or the end of the instance    *)
(* comes first (brightness_impl.cpp, input_impl.cpp).                      *)
RequestsAccountedFor == BrightnessFrees /\ InputsPerformed
=============================================================================
