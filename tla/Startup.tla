------------------------------ MODULE Startup ------------------------------
(***************************************************************************)
(* setup() as a whole: Settings, whose preferences decide how              *)
(* WifiConnection begins, between prefs.begin() and bluetooth.begin().     *)
(* While setup waits for the network the power may fail as at any other    *)
(* time; forms are only served after setup.                                *)
(***************************************************************************)
EXTENDS Settings, WifiConnection

ASSUME StartupAssumption == "wifiStaEnabled" \in Key

startupVars == << vars, wifiVars >>

StartupInit == Init /\ WifiInit

-----------------------------------------------------------------------------
(* wifiClient.begin() *)
WifiBegin ==
  /\ task = "boot" /\ Finished
  /\ WifiStep(ram["wifiStaEnabled"])
  /\ UNCHANGED vars

(* The step of setup() that is next. *)
BootStep ==
  \/ InitStep /\ UNCHANGED wifiVars
  \/ WifiBegin
  \/ phase = "ready" /\ SetupDone /\ UNCHANGED wifiVars

StartupNext ==
  \/ PowerOn /\ UNCHANGED wifiVars
  \/ BootStep
  \/ (Post \/ FormStep \/ FormDone) /\ UNCHANGED wifiVars
  \/ (PowerOff \/ Reset) /\ RadioOff
  \/ NetworkChanges /\ UNCHANGED vars

(* While the power is on, setup() goes on: one thread, and every call it   *)
(* makes returns.                                                          *)
StartupSpec ==
  StartupInit /\ [][StartupNext]_startupVars /\ WF_startupVars(BootStep)

-----------------------------------------------------------------------------
StartupTypeOK == TypeOK /\ WifiTypeOK

(* The gateway looks for the network of the user exactly when the user     *)
(* asked for that, also across power failures in the middle of a form or   *)
(* of setup (.ino:76-82, WifiConnection.cpp:28); a change made later waits *)
(* for the next start.                                                     *)
JoinsAsWanted ==
  "wifiStaEnabled" \notin lost =>
    /\ phase \in {"join", "joined"} => wanted["wifiStaEnabled"]
    /\ phase = "fallback" /\ mode = Off => ~wanted["wifiStaEnabled"]

(* setup() always comes to its end, whatever the network does, or the      *)
(* power fails again.                                                      *)
BootEnds == task = "boot" ~> task # "boot"
=============================================================================
