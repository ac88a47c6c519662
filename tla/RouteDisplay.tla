---------------------------- MODULE RouteDisplay ----------------------------
(***************************************************************************)
(* A NMEA2000 display behind RouteFeed: what it shows of the route, put    *)
(* together from the messages PGN 129285.  The gateway sends them for the  *)
(* route when its timer elapses (ResendTimer says when, RoutePages how it  *)
(* is spread over messages), and for the next waypoint alone with every    *)
(* sentence RMB.                                                           *)
(***************************************************************************)
EXTENDS RouteFeed, RoutePages

CONSTANTS
  nameRoom,  \* the room a waypoint takes in a message, by its name
  ShipEntry, \* the entry "CURRENT" for the position of the ship
  NextName   \* the name "NEXT"

ASSUME DisplayAssumption ==
  /\ nameRoom \in [Stored \cup {Garbage} -> 1 .. Room]
  /\ NextName \notin Stored

VARIABLE shown   \* the entries the display shows

displayVars == << feedVars, shown >>

DisplayInit == FeedInit /\ shown = << >>

-----------------------------------------------------------------------------
(* The route as sendPGN129285() goes through it. *)
PagedRoute ==
  [ takes  |-> [k \in 1 .. route.size |-> nameRoom[route.names[k - 1]]],
    origin |-> route.indexOriginCurrentLeg ]

Entry(i) == IF i = Current THEN ShipEntry ELSE Waypoint(route, i)

(* A message replaces what the display has from its start on; one that     *)
(* starts behind the end is of no use to it.                               *)
Assemble(list, message) ==
  IF message.start > Len(list) THEN list
  ELSE SubSeq(list, 1, message.start)
         \o [k \in DOMAIN message.slots |-> Entry(message.slots[k])]

Assembled(list, messages) ==
  LET after[k \in 0 .. Len(messages)] ==
        IF k = 0 THEN list ELSE Assemble(after[k - 1], messages[k])
  IN  after

Displayed(list, messages) == Assembled(list, messages)[Len(messages)]

(* The timer elapses: sendPGN129285() (faulty variant: a route that is not *)
(* valid is sent as well).                                                 *)
TransmitUnchecked ==
  /\ shown' = Displayed(shown, Pages(PagedRoute))
  /\ UNCHANGED feedVars

Transmit ==
  /\ route.valid
  /\ shown' = Displayed(shown, Pages(PagedRoute))
  /\ UNCHANGED feedVars

(* The handler of RMB, towards any waypoint of the plan. *)
SendRMB ==
  /\ \E i \in 1 .. Len(plan) :
       shown' = << ShipEntry, [name |-> NextName, position |-> chart[plan[i]]] >>
  /\ UNCHANGED feedVars

DisplayNext ==
  \/ FeedNext /\ UNCHANGED shown
  \/ Transmit
  \/ SendRMB

DisplaySpec == DisplayInit /\ [][DisplayNext]_displayVars

-----------------------------------------------------------------------------
(* How a plan looks on the display. *)
Shows(p) ==
  LET wps == PlanWaypoints(p)
  IN  IF Len(wps) = 1 THEN << ShipEntry >> \o wps ELSE wps

(* With a reliable line the display shows nothing, or the way to a         *)
(* waypoint of the plotter, or one of its routes from some waypoint on:    *)
(* never the messages of two routes side by side, never a waypoint in a    *)
(* wrong place (N183ToN2k.cpp:158-223).                                    *)
ShownIsReal ==
  \/ shown = << >>
  \/ \E p \in Plans :
       \/ \E k \in DOMAIN Shows(p) : shown = SubSeq(Shows(p), k, Len(Shows(p)))
       \/ \E k \in DOMAIN p :
            shown = << ShipEntry, [name |-> NextName, position |-> chart[p[k]]] >>
=============================================================================
