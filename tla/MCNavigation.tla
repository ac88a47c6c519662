---------------------------- MODULE MCNavigation ----------------------------
(* Values for the constants of Navigation. *)
EXTENDS Navigation

(* The second leg leads north, so that its compass bearing wraps around. *)
MCBearing == [l \in 0 .. 1 |-> IF l = 0 THEN 3 ELSE 0]
=============================================================================
