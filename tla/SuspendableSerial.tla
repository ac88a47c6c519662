------------------------- MODULE SuspendableSerial -------------------------
(***************************************************************************)
(* The class SuspendableHardwareSerial: a serial port that starts          *)
(* suspended and runs while its preference is on.  A port is a record, a   *)
(* method an operator.  The line parameters that begin remembers for a     *)
(* later resume are left out.                                              *)
(***************************************************************************)

FreshPort == [initialized |-> FALSE, suspended |-> TRUE, running |-> FALSE]

PortState == [initialized : BOOLEAN, suspended : BOOLEAN, running : BOOLEAN]

BeginPort(s) ==
  [s EXCEPT !.initialized = TRUE, !.running = @ \/ ~s.suspended]

(* Faulty variant: resuming only clears the flag. *)
SuspendNoBegin(s, value) ==
  IF ~s.initialized \/ s.suspended = value THEN s
  ELSE [s EXCEPT !.suspended = value, !.running = @ /\ ~value]

Suspend(s, value) ==
  IF ~s.initialized \/ s.suspended = value THEN s
  ELSE IF value THEN [s EXCEPT !.suspended = TRUE, !.running = FALSE]
  ELSE BeginPort([s EXCEPT !.suspended = FALSE])
=============================================================================
