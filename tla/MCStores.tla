------------------------------- MODULE MCStores -------------------------------
(***************************************************************************)
(* What outlasts a snapshot, in memory and on disk: the recordings and     *)
(* their names, the history of the charts, the growth of tables, the error *)
(* log and the lists of services.  Each has behaviours of its own: `part'  *)
(* says whose, and the others stay as they are.                            *)
(***************************************************************************)
EXTENDS RecordNames, FlightRecorder, HistoryStore, SchemaGrowth, ErrorLog, Startup,
        ConnSettings

\* Targets with hyphens and with the word that separates the times.
MCTargets == {<<Text("shop")>>, <<Text("to")>>, <<Text("eu"), Text("shop")>>,
              <<Text("to"), Text("shop")>>, <<Text("shop"), Text("to"), Text("eu")>>,
              <<Text("eu"), Text("shop"), Text("to")>>}

VARIABLE part     \* whose behaviour this is

Others(p) ==
  /\ p = "names" \/ UNCHANGED nameVars
  /\ p = "recorder" \/ UNCHANGED recorderVars
  /\ p = "history" \/ UNCHANGED storeVars
  /\ p = "growth" \/ UNCHANGED growthVars
  /\ p = "errors" \/ UNCHANGED logVars
  /\ p = "startup" \/ UNCHANGED startupVars
  /\ p = "settings" \/ UNCHANGED settingVars

StoresInit ==
  /\ part \in {"names", "recorder", "history", "growth", "errors", "startup", "settings"}
  /\ NameInit
  /\ RecorderInit
  /\ StoreInit
  /\ GrowthInit /\ (part # "growth" => DOMAIN catalog = {})
  /\ LogInit
  /\ StartupInit
  /\ SettingsInit

StoresNext ==
  /\ part' = part
  /\ Others(part)
  /\ \/ part = "names" /\ NextDay
     \/ part = "recorder" /\ RecorderNext
     \/ part = "history" /\ StoreNext
     \/ part = "growth" /\ GrowthNext
     \/ part = "errors" /\ LogNext
     \/ part = "startup" /\ StartupNext
     \/ part = "settings" /\ SettingsNext

storesVars == <<part, nameVars, recorderVars, storeVars, growthVars, logVars, startupVars,
                settingVars>>
StoresSpec == StoresInit /\ [][StoresNext]_storesVars
=============================================================================
