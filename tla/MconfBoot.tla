----------------------------- MODULE MconfBoot ------------------------------
(***************************************************************************)
(* A device that starts the way the samples do (samples/*/src/main.c):     *)
(* bind the context, open the backend, load, and when that fails load the  *)
(* defaults and save them; then hand the context to the shell, where the   *)
(* user edits, saves and loads.  The store is MconfStore, so a load or a   *)
(* save is in progress between two steps, and power may be lost then.      *)
(***************************************************************************)
EXTENDS MconfStore

VARIABLE main   \* where main() stands; "stopped" when it gave up

bootVars == <<storeVars, main>>

BootInit == Init /\ main = "setup"

MainAt(from, to) == main = from /\ main' = to

(* The device is not ready, mconf_init or the backend refuses: main ends.  *)
Setup ==
  /\ MainAt("setup", "load") \/ MainAt("setup", "stopped")
  /\ UNCHANGED storeVars

(* Mutant: the stored configuration is not loaded.                         *)
LoadConfig_Skipped == MainAt("load", "register") /\ UNCHANGED storeVars

LoadConfig == MainAt("load", "loading") /\ LoadBegin

(* Mutant: the outcome of the load is not looked at.                       *)
LoadDone_Ignored ==
  /\ call = "idle" /\ MainAt("loading", "defaults")
  /\ UNCHANGED storeVars

LoadDone ==
  /\ call = "idle"
  /\ \/ result = "OK" /\ MainAt("loading", "register")
     \/ result # "OK" /\ MainAt("loading", "defaults")
  /\ UNCHANGED storeVars

LoadDefaults == MainAt("defaults", "save") /\ Edit(Default) /\ result' = "OK"

SaveDefaults ==
  \/ MainAt("save", "saving") /\ SaveBegin
  \/ MainAt("save", "register") /\ SaveRefused

(* Mutant: main retries until the save succeeds.                           *)
SaveDone_Retry ==
  /\ call = "idle"
  /\ \/ result = "OK" /\ MainAt("saving", "register")
     \/ result # "OK" /\ MainAt("saving", "load")
  /\ UNCHANGED storeVars

(* A failure to save the defaults is logged and the device goes on.        *)
SaveDone ==
  /\ call = "idle" /\ MainAt("saving", "register")
  /\ UNCHANGED storeVars

Register == MainAt("register", "running") /\ UNCHANGED storeVars

MainStep ==
  \/ Setup \/ LoadConfig \/ LoadDone \/ LoadDefaults \/ SaveDefaults \/ SaveDone
  \/ Register

(* The user at the shell, once main has registered the context.            *)
UserStep ==
  /\ main = "running" /\ UNCHANGED main
  /\ \/ \E d \in Config : Edit(d)
     \/ SaveRefused \/ SaveBegin \/ LoadBegin

StoreStep == (Discard \/ CallEnds) /\ UNCHANGED main

PowerLoss == (\E q \in Images : Restart(q)) /\ main' = "setup"

BootNext == MainStep \/ UserStep \/ StoreStep \/ PowerLoss

BootSpec == BootInit /\ [][BootNext]_bootVars

(* main is scheduled, and a call into the library returns (CallsReturn of  *)
(* MconfStoreRefinement).                                                  *)
FairBoot == BootSpec /\ WF_bootVars(MainStep) /\ WF_bootVars(CallEnds /\ UNCHANGED main)

-----------------------------------------------------------------------------
(* Properties.                                                             *)

MainLabels == {"setup", "load", "loading", "defaults", "save", "saving", "register",
               "running", "stopped"}

TypeOK ==
  /\ current \in AtMostOne /\ previous \in AtMostOne
  /\ buffer \in Config \cup {Scratch}
  /\ call \in {"idle", "load", "save"}
  /\ want \in Config /\ image \in Images
  /\ result \in Failures \cup {"none", "OK"}
  /\ main \in MainLabels

(* Starting the device never replaces a configuration that is stored: only *)
(* the user at the shell does, or the update to another image.             *)
BootKeepsUserConfig ==
  [][(main # "running" /\ image' = image /\ current # {}) => current' = current]_bootVars

(* When main hands the context over, the buffer holds the stored           *)
(* configuration or the defaults: neither what a load that failed left     *)
(* behind nor what the verification of a save that failed left behind.     *)
StartsConfigured ==
  [][(main = "register" /\ main' = "running")
       => buffer \in current \cup {Default}]_bootVars

(* Unless power keeps failing, the device ends its start-up, whatever the  *)
(* storage does.                                                           *)
BootEnds ==
  []<><<PowerLoss>>_bootVars \/ <>[](main \in {"running", "stopped"})
=============================================================================
