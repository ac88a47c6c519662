----------------------------- MODULE MCDisplay -----------------------------
(* Values for the constants of RouteDisplay. *)
EXTENDS MCFeed, RouteDisplay

(* Two waypoints fit in a message, unless c is one of them. *)
MCnameRoom == (a :> 1) @@ (b :> 1) @@ (c :> 2) @@ (Garbage :> 1)
=============================================================================
