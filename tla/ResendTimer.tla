---------------------------- MODULE ResendTimer ----------------------------
(***************************************************************************)
(* The timer in N183ToN2k::handleLoop that sends the active route (PGN     *)
(* 129285) every 5 seconds.  The time of the last transmission is a static *)
(* variable of the member function: all instances of N183ToN2k, the one on *)
(* the serial port and the one on the UDP port, share it.  Time is counted *)
(* by millis(), which wraps around.                                        *)
(***************************************************************************)
EXTENDS Integers, Sequences

CONSTANTS
  LoopOrder, \* the instances of N183ToN2k, in the order of loop()
  Period,    \* 5000 ms
  Word,      \* number of values of an unsigned long
  Gap,       \* longest time between two calls of handleLoop on an instance
  MaxUptime  \* bound on the time since the gateway was switched on

ASSUME TimerAssumption ==
  /\ LoopOrder \in Seq(STRING) \ {<< >>}
  /\ Period \in Nat \ {0}
  /\ Word \in Nat /\ Word > Period
  /\ Gap \in Nat \ {0}
  /\ MaxUptime \in Nat

Instance == {LoopOrder[k] : k \in 1 .. Len(LoopOrder)}

VARIABLES
  turn,         \* whose handleLoop is called next, an index of LoopOrder
  uptime,       \* time since the gateway was switched on
  timeUpdated,  \* the static variable, NotYet before the first call
  valid,        \* per instance: route->isValid()
  late,         \* per instance: time since the last call of handleLoop
  quiet,        \* per instance: time a valid route has not been sent for
  sinceFired    \* time since the timer elapsed for any instance

vars == << turn, uptime, timeUpdated, valid, late, quiet, sinceFired >>

NotYet == -1

millis == uptime % Word

TypeOK ==
  /\ turn \in 1 .. Len(LoopOrder)
  /\ uptime \in Nat
  /\ timeUpdated \in 0 .. Word - 1 \cup {NotYet}
  /\ valid \in [Instance -> BOOLEAN]
  /\ late \in [Instance -> 0 .. Gap]
  /\ quiet \in [Instance -> Nat]
  /\ sinceFired \in Nat

Init ==
  /\ turn = 1
  /\ uptime = 0
  /\ timeUpdated = NotYet
  /\ valid = [i \in Instance |-> FALSE]
  /\ late = [i \in Instance |-> 0]
  /\ quiet = [i \in Instance |-> 0]
  /\ sinceFired = 0

-----------------------------------------------------------------------------
(* The static variable is initialized when control first reaches it. *)
Last == IF timeUpdated = NotYet THEN millis ELSE timeUpdated

(* timeUpdated+5000 < millis(), in the arithmetic of unsigned long. *)
Elapsed == (Last + Period) % Word < millis

(* timeUpdated after the timer was consulted (Updated...: faulty variants). *)
UpdatedAlways == millis
UpdatedNever == Last
Updated == IF Elapsed THEN millis ELSE Last

(* loop() calls the instances in turn. *)
NextTurnRunsOn == turn + 1
NextTurn == IF turn = Len(LoopOrder) THEN 1 ELSE turn + 1

(* handleLoop on instance i: the sentences received leave the route valid  *)
(* or not, then the timer is consulted, and sendPGN129285 skips a route    *)
(* that is not valid.                                                      *)
HandleLoop(i) ==
  /\ i = LoopOrder[turn]
  /\ turn' = NextTurn
  /\ \E v \in BOOLEAN : valid' = [valid EXCEPT ![i] = v]
  /\ timeUpdated' = Updated
  /\ sinceFired' = IF Elapsed \/ timeUpdated = NotYet THEN 0 ELSE sinceFired
  /\ quiet' = [quiet EXCEPT ![i] =
                 IF valid'[i] /\ valid[i] /\ ~Elapsed THEN @ ELSE 0]
  /\ late' = [late EXCEPT ![i] = 0]
  /\ UNCHANGED uptime

(* A millisecond passes, in this loop or elsewhere in the program. *)
Tick ==
  /\ uptime < MaxUptime
  /\ \A i \in Instance : late[i] < Gap
  /\ uptime' = uptime + 1
  /\ late' = [i \in Instance |-> late[i] + 1]
  /\ quiet' = [i \in Instance |-> IF valid[i] THEN quiet[i] + 1 ELSE 0]
  /\ sinceFired' = sinceFired + 1
  /\ UNCHANGED << turn, timeUpdated, valid >>

Next == Tick \/ \E i \in Instance : HandleLoop(i)

Spec == Init /\ [][Next]_vars

-----------------------------------------------------------------------------
(* The timer elapses for some instance at least once per period, up to the *)
(* time that one pass through the loop takes.                              *)
TimerFires == sinceFired <= Period + Gap

(* No two transmissions of a route in less than a period: the bus is not   *)
(* flooded with PGN 129285.                                                *)
NoFlood ==
  [][ \A i \in Instance :
        HandleLoop(i) /\ timeUpdated # NotYet /\ Elapsed
        => sinceFired > Period ]_vars

(* "Resend PGN129285 at least every 5 seconds" (N183ToN2k.cpp:83): no      *)
(* instance keeps a valid route to itself for longer than that.            *)
ResentInTime == \A i \in Instance : quiet[i] <= Period + Gap
=============================================================================
