------------------------------- MODULE Deployment -------------------------------
(***************************************************************************)
(* The installation as a whole: the scripts for one provider (ModelStore)   *)
(* and those for the system's configuration (Install), run by one user, one *)
(* after the other in any order, any of them killed anywhere; install.py    *)
(* enables the provider if it finds its venv.                               *)
(***************************************************************************)
EXTENDS ModelStore, Install

CONSTANT MaxScripts \* bound: scripts that are started

ASSUME DeploymentAssumption == MaxScripts \in Nat /\ MaxEdits \in Nat

VARIABLE started

vars == <<storeVars, installVars, started>>

TypeOK == StoreTypeOK /\ InstallTypeOK /\ started \in 0..MaxScripts

Init == StoreInit /\ InstallInit /\ started = 0

StartScript ==
  /\ script = "idle" /\ setup = "idle"
  /\ started < MaxScripts /\ started' = started + 1
  /\ \/ (InstallProvider \/ DownloadModels \/ UninstallProvider)
        /\ UNCHANGED installVars
     \/ (InstallPy \/ UninstallPy) /\ UNCHANGED storeVars

(* installed_providers                                                       *)
Installed == IF Python THEN {package} ELSE {}

Provide == (StoreStep \/ \E unit \in BOOLEAN : LoadEngine(unit))
           /\ UNCHANGED <<installVars, started>>

Setup == (SetupStep \/ SeedDaemonConfig(Installed) \/ UserStep)
         /\ UNCHANGED <<storeVars, started>>

Next == StartScript \/ Provide \/ Setup

Spec == Init /\ [][Next]_vars
================================================================================
