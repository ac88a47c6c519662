------------------------------- MODULE MCFeed -------------------------------
(* Values for the constants of RouteFeed. *)
EXTENDS RouteFeed, TLC

CONSTANTS a, b, c

MCcut == [n \in {a, b, c} |-> n]
MCchart == (a :> 1) @@ (b :> 2) @@ (c :> 3)

(* All routes over three waypoints, and a choice of three routes that have *)
(* a prefix in common, or none, or do not fit.                             *)
MCPlans3 == UNION {[1 .. k -> {a, b, c}] : k \in 1 .. 3}
MCPlansMixed == {<<a>>, <<a, b>>, <<b, a, a>>}
=============================================================================
