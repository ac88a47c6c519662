----------------------------- MODULE Bluetooth -----------------------------
(***************************************************************************)
(* The class Bluetooth: it starts and stops the Bluetooth stack and the    *)
(* connection to the Bluetooth GPS as the two preferences say.  The object *)
(* is a record: the two toggles of the class, and what it made of SerialBT *)
(* (the stack is started; a connection was asked for and not given up).    *)
(* on and gps are the values of the preferences blEnabled, nmeaSrcBlGps.   *)
(***************************************************************************)

BluetoothState ==
  [ blEnabled : BOOLEAN, blGpsEnabled : BOOLEAN,
    started : BOOLEAN, linked : BOOLEAN ]

(* A static object: its members are zero before setup. *)
FreshBluetooth ==
  [ blEnabled |-> FALSE, blGpsEnabled |-> FALSE,
    started |-> FALSE, linked |-> FALSE ]

(* SerialBT->connect has no effect while the stack is not started. *)
ConnectBlGps(bt, gps) ==
  IF bt.blGpsEnabled \/ ~gps THEN bt
  ELSE [bt EXCEPT !.blGpsEnabled = TRUE, !.linked = bt.started]

DisconnectBlGps(bt, gps) ==
  IF ~bt.blGpsEnabled \/ gps THEN bt
  ELSE [bt EXCEPT !.blGpsEnabled = FALSE, !.linked = FALSE]

Begin(bt, on, gps) ==
  ConnectBlGps(
    IF on /\ ~bt.blEnabled THEN [bt EXCEPT !.blEnabled = TRUE, !.started = TRUE]
    ELSE bt,
    gps)

(* Faulty variant: the stack is stopped, the toggle stays. *)
EndKeepsToggle(bt, on, gps) ==
  LET d == DisconnectBlGps(bt, gps)
  IN  IF on \/ ~d.blEnabled THEN d
      ELSE [d EXCEPT !.started = FALSE, !.linked = FALSE]

(* Stopping the stack drops the connection with it. *)
End(bt, on, gps) ==
  LET d == DisconnectBlGps(bt, gps)
  IN  IF on \/ ~d.blEnabled THEN d
      ELSE [d EXCEPT !.blEnabled = FALSE, !.started = FALSE, !.linked = FALSE]

(* The callback for changed preferences. *)
PreferencesChanged(bt, on, gps) ==
  End(DisconnectBlGps(ConnectBlGps(Begin(bt, on, gps), gps), gps), on, gps)
=============================================================================
