--------------------------- MODULE MCFeaturesLive ---------------------------
(* Instances for TLC of the components whose answers must come.  They      *)
(* share nothing but the loop of the instance: a behaviour loads one.      *)
EXTENDS PermissionsManager, MessageRequests, Interconnect, Locations,
        Prompts, Fetches

VARIABLE loaded

mcVars == <<loaded, vars, mrVars, icVars, loVars, prVars, fhVars>>

FeaturesInit ==
  /\ loaded \in {"permissions", "requests", "interconnect", "locations",
                 "prompts", "fetches"}
  /\ Init /\ RequestsInit /\ InterconnectInit /\ LocationsInit /\ PromptsInit
  /\ FetchesInit

(* The one that is loaded steps, the others stay at their beginning.       *)
OnlyPermissions ==
  UNCHANGED <<loaded, mrVars, icVars, loVars, prVars, fhVars>>
OnlyRequests ==
  UNCHANGED <<loaded, vars, icVars, loVars, prVars, fhVars>>
OnlyInterconnect ==
  UNCHANGED <<loaded, vars, mrVars, loVars, prVars, fhVars>>
OnlyLocations ==
  UNCHANGED <<loaded, vars, mrVars, icVars, prVars, fhVars>>
OnlyPrompts ==
  UNCHANGED <<loaded, vars, mrVars, icVars, loVars, fhVars>>
OnlyFetches ==
  UNCHANGED <<loaded, vars, mrVars, icVars, loVars, prVars>>
FeaturesNext ==
  \/ loaded = "permissions" /\ Next /\ OnlyPermissions
  \/ loaded = "requests" /\ RequestsNext /\ OnlyRequests
  \/ loaded = "interconnect" /\ InterconnectNext /\ OnlyInterconnect
  \/ loaded = "locations" /\ LocationsNext /\ OnlyLocations
  \/ loaded = "prompts" /\ PromptsNext /\ OnlyPrompts
  \/ loaded = "fetches" /\ FetchesNext /\ OnlyFetches

(* Whatever waits for a time or for the net: its timer expires, its        *)
(* transfer ends.  The ids are shared (the .cfg takes Message, GetCall and *)
(* FetchCall from Msg).  One formula stands for those of all components,   *)
(* as a behaviour loads one.                                               *)
TimeIsUp(r) ==
  \/ loaded = "requests" /\ OnTimeout(r) /\ OnlyRequests
  \/ /\ loaded = "interconnect" /\ r \in Message
     /\ TimerSendCallback(r) /\ OnlyInterconnect
  \/ loaded = "locations" /\ TimePasses(r) /\ OnlyLocations
  \/ loaded = "fetches" /\ r \in FetchCall /\ FetchRequestCb(r) /\ OnlyFetches

(* Whatever the loop of the application has to do: decide as the host, end *)
(* a diagnosis, return from the functions of a batch, handle an event.     *)
LoopSteps ==
  \/ loaded = "permissions" /\ Serve /\ OnlyPermissions
  \/ loaded = "interconnect" /\ TimerDiagnosisCallback /\ OnlyInterconnect
  \/ /\ loaded = "locations"
     /\ \/ BadSample \/ Sample \/ SampleAnswered \/ SampleReturns
        \/ TimerAnswered
     /\ OnlyLocations
  \/ loaded = "prompts" /\ AppSteps /\ OnlyPrompts

(* A batch of samples ends: scripts whose functions renew each other's     *)
(* subscriptions for ever are left out.                                    *)
BatchEnds ==
  /\ loaded = "locations" /\ SampleReturns /\ gnss'.at = NoClient
  /\ OnlyLocations

(* A loop calls its timers in every iteration, however many samples come.  *)
FeaturesSpec ==
  /\ FeaturesInit /\ [][FeaturesNext]_mcVars
  /\ \A r \in Msg : WF_mcVars(TimeIsUp(r))
  /\ WF_mcVars(LoopSteps)
  /\ WF_mcVars(loaded = "prompts" /\ UISteps /\ OnlyPrompts)
  /\ SF_mcVars(BatchEnds)
  /\ SF_mcVars(loaded = "locations" /\ TimerHandler /\ OnlyLocations)

(* The types of all components; and no task of the permissions reads an    *)
(* info that was deleted (NoUseAfterDelete).                               *)
TypedAndAlive ==
  /\ TypeOK /\ RequestsTypeOK /\ InterconnectTypeOK
  /\ LocationsTypeOK /\ PromptsTypeOK /\ FetchesTypeOK
  /\ NoUseAfterDelete

(* A dialog hears one outcome and then complete, a fetch one outcome       *)
(* (prompt_impl.cpp, fetch_impl.cpp).                                      *)
AnswersOnce == OutcomeThenComplete /\ FetchedOnce

(* What is asked of the user or of the net is answered, while its page is  *)
(* there (prompt_impl.cpp, fetch_impl.cpp).                                *)
AnswersCome == AnswersHeard /\ FetchSettles
=============================================================================
