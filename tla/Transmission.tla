---------------------------- MODULE Transmission ----------------------------
(***************************************************************************)
(* The timer of ResendTimer together with what it is for: when it elapses  *)
(* for an instance of N183ToN2k, sendPGN129285() sends the valid route of  *)
(* that instance, in as many messages as RoutePages makes of it.  Which    *)
(* route it is does not matter to the timer; RouteReceiver has the         *)
(* handlers that make it.                                                  *)
(***************************************************************************)
EXTENDS ResendTimer, RoutePages

CONSTANTS
  NameRoom,  \* what a waypoint may take of the room in a message
  MaxSize    \* bound on the number of waypoints

ASSUME TransmissionAssumption ==
  /\ NameRoom \subseteq 1 .. Room
  /\ MaxSize \in Nat

VARIABLES
  routes,    \* per instance: the route in its slots
  messages   \* per instance: what its last handleLoop sent

transmissionVars == << vars, routes, messages >>

(* route->getSize() and route->getIndexOriginCurrentLeg(). *)
AnyRoute ==
  UNION {[ takes : [1 .. n -> NameRoom], origin : 0 .. (IF n = 0 THEN 0 ELSE n - 1)] :
         n \in 0 .. MaxSize}

TransmissionInit ==
  /\ Init
  /\ routes \in [Instance -> AnyRoute]
  /\ messages = [i \in Instance |-> << >>]

-----------------------------------------------------------------------------
(* sendPGN129285(): a route that is not valid is skipped (faulty variants: *)
(* the test is missing; its sense is turned).                              *)
SendPGN129285Unchecked(i) == Pages(routes[i])

SendPGN129285Turned(i) == IF ~valid'[i] THEN Pages(routes[i]) ELSE << >>

SendPGN129285(i) == IF valid'[i] THEN Pages(routes[i]) ELSE << >>

(* handleLoop as a whole. *)
HandleLoopAndSend(i) ==
  /\ HandleLoop(i)
  /\ messages' = [messages EXCEPT ![i] = IF Elapsed THEN SendPGN129285(i) ELSE << >>]
  /\ UNCHANGED routes

TickBetween ==
  /\ Tick
  /\ messages' = [i \in Instance |-> << >>]
  /\ UNCHANGED routes

TransmissionNext == TickBetween \/ \E i \in Instance : HandleLoopAndSend(i)

TransmissionSpec == TransmissionInit /\ [][TransmissionNext]_transmissionVars

-----------------------------------------------------------------------------
(* Nothing is sent of a route that is not valid (N183ToN2k.cpp:160-163).   *)
(* What is sent is "the active route with all waypoints from the origin of *)
(* the current leg and onwards" (N183ToN2k.cpp:155): each once and in      *)
(* order, however they are spread, and each message says where it starts.  *)
AllAnnounced ==
  \A i \in Instance :
    messages[i] # << >> => valid[i] /\ Complete(routes[i], messages[i])

(* No way to part the route takes fewer messages ("Continue adding         *)
(* waypoints as long as they fit within a single message", :185).          *)
FewestMessages ==
  \A i \in Instance :
    messages[i] # << >> /\ Size(routes[i]) > 1 => Fewest(routes[i], Len(messages[i]))
=============================================================================
