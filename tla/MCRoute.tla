------------------------------ MODULE MCRoute ------------------------------
(* Values for the constants of RouteReceiver. *)
EXTENDS RouteReceiver, TLC

CONSTANTS a, b, c

(* c is a long name: its first maxWpNameLength characters are those of b. *)
MCcut == (a :> a) @@ (b :> b) @@ (c :> b)

MCBatch == {<< >>, <<a>>, <<b>>, <<a, b>>, <<b, a, c>>}
=============================================================================
