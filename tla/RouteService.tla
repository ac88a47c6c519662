---------------------------- MODULE RouteService ----------------------------
(***************************************************************************)
(* What the gateway promises a NMEA2000 display about routes: at any time  *)
(* either no route is announced, or waypoints of the plotter's route, with *)
(* the plotter's positions and without a gap, are.  An announcement may be *)
(* behind the plotter, never made up of two routes.                        *)
(***************************************************************************)
EXTENDS Integers, Sequences

CONSTANTS
  Plans,          \* the routes the plotter may have active
  Waypoints(_),   \* the waypoints of a plan, with positions
  NotAnnounced    \* value of announced when no route is

VARIABLES
  plan,       \* the active route of the plotter
  announced   \* the waypoints sent in PGN 129285

serviceVars == << plan, announced >>

Init ==
  /\ plan \in Plans
  /\ announced = NotAnnounced

ChangePlan ==
  /\ plan' \in Plans
  /\ UNCHANGED announced

Withdraw ==
  /\ announced' = NotAnnounced
  /\ UNCHANGED plan

(* The waypoints from any one of the route on: the leg may be any. *)
Announce ==
  /\ \E k \in 1 .. Len(Waypoints(plan)) + 1 :
       announced' = SubSeq(Waypoints(plan), k, Len(Waypoints(plan)))
  /\ UNCHANGED plan

Next == ChangePlan \/ Withdraw \/ Announce

Spec == Init /\ [][Next]_serviceVars
=============================================================================
