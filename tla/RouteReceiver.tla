--------------------------- MODULE RouteReceiver ---------------------------
(***************************************************************************)
(* The handlers of N183ToN2k that maintain a Route: HandleRTE, HandleWPL   *)
(* and HandleBOD (src/src/nmea/N183ToN2k.cpp).  Sentences arrive from a    *)
(* serial line or in UDP packets; here any parsed sentence may arrive at   *)
(* any time, so loss, repetition and reordering are all included.          *)
(***************************************************************************)
EXTENDS Route

CONSTANTS
  Batch,        \* the waypoint lists a single RTE sentence may carry
  MaxSentences  \* bound on the number of sentences of a route

ASSUME ReceiverAssumption ==
  /\ Batch \subseteq Seq(Name)
  /\ MaxSentences \in Nat

VARIABLES
  route,     \* N183ToN2k::route
  originID   \* N183ToN2k::bod.originID, cut for the comparison with names

routeVars == << route, originID >>

RTE ==
  [ currSentence : 1 .. MaxSentences, nrOfsentences : 1 .. MaxSentences,
    type : {"c", "w"}, wps : Batch ]

TypeOK ==
  /\ route \in RouteState
  /\ originID \in Stored \cup {Garbage}

Init ==
  /\ route \in NewRoute
  /\ originID \in HeapNames

-----------------------------------------------------------------------------
(* The route after the first part of HandleRTE: sentence 1 starts over,    *)
(* and the waypoints of every sentence are added.                          *)
Received(m) ==
  AddWaypoints(IF m.currSentence = 1 THEN Initialize(route) ELSE route, m.wps)

(* The handler of a RTE sentence; the last sentence completes the route.   *)
HandleRTE(m) ==
  /\ route' \in IF m.currSentence = m.nrOfsentences
                THEN Finalize(Received(m), m.type, originID)
                ELSE {Received(m)}
  /\ UNCHANGED originID

(* The handler of a WPL sentence. *)
HandleWPL(src, position) ==
  /\ route' = AddCoordinates(route, src, position)
  /\ UNCHANGED originID

(* The handler of a BOD sentence. *)
HandleBOD(src) ==
  /\ originID' = cut[src]
  /\ UNCHANGED route

Next ==
  \/ \E m \in RTE : HandleRTE(m)
  \/ \E n \in Name, p \in Position : HandleWPL(n, p)
  \/ \E n \in Name : HandleBOD(n)

Spec == Init /\ [][Next]_routeVars

-----------------------------------------------------------------------------
(* Whatever sentences arrive, in whatever order, and whatever the memory   *)
(* held before: a valid route only announces slots of the array, with      *)
(* names that were received (Route.cpp:55-71 makes a route valid on a flag *)
(* that each name resets, without looking at the slots themselves).        *)
AnnouncedIsReceived ==
  route.valid =>
    \A i \in AnnouncedSlots(route) : i \in Slot /\ route.names[i] # Garbage

(* addWaypoint for one name after the other, as the loop of HandleRTE      *)
(* calls it.                                                               *)
Looped(r, ws) ==
  LET after[k \in 0 .. Len(ws)] == IF k = 0 THEN r ELSE AddWaypoint(after[k - 1], ws[k])
  IN  after[Len(ws)]

(* The closed form AddWaypoints is what that loop computes, for the names  *)
(* of any sentence and from whatever the route holds (N183ToN2k.cpp:367).  *)
LoopAgrees ==
  \A ws \in Batch :
    /\ AddWaypoints(route, ws) = Looped(route, ws)
    /\ AddWaypoints(Initialize(route), ws) = Looped(Initialize(route), ws)
=============================================================================
