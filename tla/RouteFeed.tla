----------------------------- MODULE RouteFeed -----------------------------
(***************************************************************************)
(* A plotter connected to RouteReceiver.  It sends what the comments of    *)
(* HandleRTE and HandleWPL (N183ToN2k.cpp) describe: the RTE sentences of  *)
(* its active route, then a WPL sentence for each waypoint in the same     *)
(* order, over and over.  With MidCycle the gateway may be switched on at  *)
(* any point of the cycle.  The user may activate another route at the end *)
(* of a cycle, and on a Lossy link any sentence may fail to arrive until   *)
(* the link has calmed down.                                               *)
(***************************************************************************)
EXTENDS RouteReceiver

CONSTANTS
  Plans,        \* the routes the plotter may have active
  PerSentence,  \* waypoints in a RTE sentence
  chart,        \* the position of each waypoint
  Lossy,        \* whether sentences may get lost
  MidCycle,     \* whether the gateway may be switched on in mid-cycle
  NotAnnounced

ASSUME FeedAssumption ==
  /\ Plans \subseteq Seq(Name) \ {<< >>}
  /\ PerSentence \in Nat \ {0}
  /\ chart \in [Name -> Position]
  /\ Lossy \in BOOLEAN
  /\ MidCycle \in BOOLEAN

VARIABLES
  plan,    \* the active route of the plotter
  type,    \* "c": all waypoints listed, "w": from the origin of the leg on
  phase,   \* the next sentence: the n-th of kind "rte" or "wpl"
  calm     \* no loss and no change of plan from now on

feedVars == << route, originID, plan, type, phase, calm >>

Total == (Len(plan) + PerSentence - 1) \div PerSentence

NextRTE ==
  [ currSentence |-> phase.n, nrOfsentences |-> Total, type |-> type,
    wps |-> SubSeq(plan, (phase.n - 1) * PerSentence + 1,
                   IF phase.n = Total THEN Len(plan) ELSE phase.n * PerSentence) ]

Phases ==
  [kind : {"rte"}, n : 1 .. Total] \cup [kind : {"wpl"}, n : 1 .. Len(plan)]

FeedInit ==
  /\ Init
  /\ plan \in Plans
  /\ type \in {"c", "w"}
  /\ phase \in IF MidCycle THEN Phases ELSE {[kind |-> "rte", n |-> 1]}
  /\ calm = FALSE

-----------------------------------------------------------------------------
Lost ==
  /\ Lossy /\ ~calm
  /\ UNCHANGED routeVars

SendRTE ==
  /\ phase.kind = "rte"
  /\ HandleRTE(NextRTE) \/ Lost
  /\ phase' = IF phase.n < Total THEN [phase EXCEPT !.n = @ + 1]
              ELSE [kind |-> "wpl", n |-> 1]
  /\ UNCHANGED << plan, type, calm >>

SendWPL ==
  /\ phase.kind = "wpl"
  /\ HandleWPL(plan[phase.n], chart[plan[phase.n]]) \/ Lost
  /\ phase' = IF phase.n < Len(plan) THEN [phase EXCEPT !.n = @ + 1]
              ELSE [kind |-> "rte", n |-> 1]
  /\ UNCHANGED << plan, type, calm >>

(* Another leg of the route becomes the current one. *)
SendBOD ==
  /\ \E i \in 1 .. Len(plan) : HandleBOD(plan[i])
  /\ UNCHANGED << plan, type, phase, calm >>

ActivateRoute ==
  /\ ~calm
  /\ phase = [kind |-> "rte", n |-> 1]
  /\ plan' \in Plans
  /\ type' \in {"c", "w"}
  /\ UNCHANGED << route, originID, phase, calm >>

CalmDown ==
  /\ ~calm
  /\ calm' = TRUE
  /\ UNCHANGED << route, originID, plan, type, phase >>

FeedNext == SendRTE \/ SendWPL \/ SendBOD \/ ActivateRoute \/ CalmDown

(* The plotter repeats its sentences for as long as it is on. *)
FeedSpec ==
  /\ FeedInit /\ [][FeedNext]_feedVars
  /\ WF_feedVars(SendRTE) /\ WF_feedVars(SendWPL)

-----------------------------------------------------------------------------
(* The waypoints of the plan that fit in the route, with their positions.  *)
PlanWaypoints(p) ==
  [ k \in 1 .. (IF Len(p) <= maxWpPerRoute THEN Len(p) ELSE maxWpPerRoute) |->
      [name |-> cut[p[k]], position |-> chart[p[k]]] ]

FeedTypeOK ==
  /\ TypeOK
  /\ plan \in Plans
  /\ type \in {"c", "w"}
  /\ phase \in Phases
  /\ calm \in BOOLEAN

(* A display is never given a waypoint at another waypoint's position, or  *)
(* at one that never arrived (Route.cpp:64: a route is valid once "alle    *)
(* WPL messages in between with the coordinates" are received).            *)
CoordinatesReceived ==
  route.valid =>
    \A i \in AnnouncedSlots(route) :
      \E n \in Name : cut[n] = route.names[i] /\ chart[n] = route.positions[i]

(* No route is announced while the sentences of a new one come in          *)
(* (Route.h:63).                                                           *)
InvalidWhileReceiving ==
  phase.kind = "rte" /\ phase.n > 1 => ~route.valid

(* The waypoint that BOD names as the origin of the leg is the first of    *)
(* the announcement (N183ToN2k.cpp:155), if the route has it.              *)
OriginComesFirst ==
  [][ SendRTE /\ phase'.kind = "wpl" /\ type = "c"
      /\ (\E k \in DOMAIN PlanWaypoints(plan) : cut[plan[k]] = originID)
      => route'.names[route'.indexOriginCurrentLeg] = originID ]_feedVars

(* The gateway announces the plotter's route, or none: sentences of two    *)
(* routes, or positions of other waypoints, never get mixed up.            *)
Service ==
  INSTANCE RouteService WITH
    Waypoints <- PlanWaypoints,
    announced <- IF route.valid THEN Announcement(route) ELSE NotAnnounced

ImplementsService == Service!Spec

(* Whatever was lost before, the gateway recovers by itself: once the link *)
(* is reliable and the plan stays the same, every cycle ends with the      *)
(* whole route known and valid.                                            *)
RouteKnown ==
  /\ route.valid
  /\ route.size = Len(PlanWaypoints(plan))
  /\ \A k \in 1 .. route.size : Waypoint(route, k - 1) = PlanWaypoints(plan)[k]

Recovers == calm ~> [](phase.kind = "wpl" => RouteKnown)
=============================================================================
