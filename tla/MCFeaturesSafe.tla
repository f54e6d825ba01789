--------------------------- MODULE MCFeaturesSafe ---------------------------
(* Instances for TLC of components with safety properties only.  They      *)
(* share nothing but the loop of the instance: a behaviour loads one.      *)
EXTENDS EventManager, MessageListeners, Downloads, FileCalls, Sensors,
        SystemEvents, FeatureArrays, SystemSettings, ZipWorks, CryptoCalls,
        EcdhKeys, TLC

VARIABLE loaded

(* The components above, and the calls that end before they return.        *)
serviceVars ==
  <<vars, mlVars, dlVars, fcVars, seVars, syVars, avVars, ssVars, zwVars>>
callVars == <<crVars, ekVars>>

FeaturesInit ==
  /\ loaded \in {"events", "listeners", "downloads", "files", "sensors",
                 "system events", "arrays", "settings", "zip",
                 "crypto", "ecdh"}
  /\ Init /\ ListenersInit /\ DownloadsInit /\ FileInit /\ SensorsInit
  /\ SystemEventsInit /\ ArraysInit /\ SettingsInit /\ ZipInit
  /\ CryptoInit /\ EcdhInit
  /\ dir => loaded = "files"

EventsStep ==
  /\ loaded = "events" /\ Next
  /\ UNCHANGED <<loaded, mlVars, dlVars, fcVars, seVars, syVars, avVars,
                 ssVars, zwVars, callVars>>
ListenersStep ==
  /\ loaded = "listeners" /\ ListenersNext
  /\ UNCHANGED <<loaded, vars, dlVars, fcVars, seVars, syVars, avVars,
                 ssVars, zwVars, callVars>>
DownloadsStep ==
  /\ loaded = "downloads" /\ DownloadsNext
  /\ UNCHANGED <<loaded, vars, mlVars, fcVars, seVars, syVars, avVars,
                 ssVars, zwVars, callVars>>
FilesStep ==
  /\ loaded = "files" /\ FileNext
  /\ UNCHANGED <<loaded, vars, mlVars, dlVars, seVars, syVars, avVars,
                 ssVars, zwVars, callVars>>
SensorsStep ==
  /\ loaded = "sensors" /\ SensorsNext
  /\ UNCHANGED <<loaded, vars, mlVars, dlVars, fcVars, syVars, avVars,
                 ssVars, zwVars, callVars>>
SystemEventsStep ==
  /\ loaded = "system events" /\ SystemEventsNext
  /\ UNCHANGED <<loaded, vars, mlVars, dlVars, fcVars, seVars, avVars,
                 ssVars, zwVars, callVars>>
ArraysStep ==
  /\ loaded = "arrays" /\ ArraysNext
  /\ UNCHANGED <<loaded, vars, mlVars, dlVars, fcVars, seVars, syVars,
                 ssVars, zwVars, callVars>>
SettingsStep ==
  /\ loaded = "settings" /\ SettingsNext
  /\ UNCHANGED <<loaded, vars, mlVars, dlVars, fcVars, seVars, syVars,
                 avVars, zwVars, callVars>>
ZipStep ==
  /\ loaded = "zip" /\ ZipNext
  /\ UNCHANGED <<loaded, vars, mlVars, dlVars, fcVars, seVars, syVars,
                 avVars, ssVars, callVars>>
CryptoStep ==
  /\ loaded = "crypto" /\ CryptoNext
  /\ UNCHANGED <<loaded, serviceVars, ekVars>>
EcdhStep ==
  /\ loaded = "ecdh" /\ EcdhNext
  /\ UNCHANGED <<loaded, serviceVars, crVars>>

FeaturesNext ==
  \/ EventsStep \/ ListenersStep \/ DownloadsStep \/ FilesStep
  \/ SensorsStep \/ SystemEventsStep \/ ArraysStep \/ SettingsStep
  \/ ZipStep \/ CryptoStep \/ EcdhStep

mcVars == <<loaded, serviceVars, callVars>>

FeaturesSpec ==
  FeaturesInit /\ [][FeaturesNext]_mcVars

(* Components never run together, so their sets may share model values,    *)
(* and with them the symmetry: Fn, Page, Client, Subscriber, Block, Asker  *)
(* and Owner are Ev, and two of the three FileCalls are.                   *)
Symmetry == Permutations(Ev)

FeaturesTypeOK ==
  /\ loaded = "events" => TypeOK
  /\ loaded = "listeners" => ListenersTypeOK
  /\ loaded = "downloads" => DownloadsTypeOK
  /\ loaded = "files" => FileTypeOK
  /\ loaded = "sensors" => SensorsTypeOK
  /\ loaded = "system events" => SystemEventsTypeOK
  /\ loaded = "arrays" => ArraysTypeOK
  /\ loaded = "settings" => SettingsTypeOK
  /\ loaded = "zip" => ZipTypeOK

(* What system.crypto tells a script is true, the outcome of a call as the *)
(* keys of an ECDH object, and what a call has allocated is freed once     *)
(* (crypto_impl.cpp, crypto_native.cpp).                                   *)
CryptoExact == CryptoAnswersTrue /\ PairKept /\ CryptoBlocksOnce

(* Callbacks are called in the order they were added in, and the change    *)
(* listener knows which events have any, whatever callbacks do             *)
(* (feature_event_manager.cpp).                                            *)
EventsInOrder == EmittedInOrder /\ ListenerInformed
=============================================================================
