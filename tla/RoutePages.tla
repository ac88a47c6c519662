----------------------------- MODULE RoutePages -----------------------------
(***************************************************************************)
(* How N183ToN2k::sendPGN129285() spreads a valid route over as many       *)
(* messages as it takes: waypoints are appended to a message until one     *)
(* does not fit; then the message is sent and the next one starts with     *)
(* that waypoint.  A waypoint is its slot in the route.  A route r is a    *)
(* record: r.takes, the room that each slot takes in a message according   *)
(* to its name, and r.origin, the slot to start from.                      *)
(***************************************************************************)
EXTENDS Integers, Sequences, FiniteSets

CONSTANTS
  Room       \* what fits in a message behind its header

ASSUME PagesAssumption == Room \in Nat

(* "CURRENT", the position of the ship, is announced in no slot. *)
Current == -1

Size(r) == Len(r.takes)
Slots(r) == [k \in 1 .. Size(r) - r.origin |-> r.origin + k - 1]

(* SetN2kPGN129285: an empty message is made, behind those sent before;    *)
(* start is the index of its first item.                                   *)
NewMessage(sent, start) ==
  [sent |-> sent, message |-> [start |-> start, slots |-> << >>], used |-> 0]

(* AppendN2kPGN129285 refuses what does not fit. *)
Fits(r, made, i) == made.used + r.takes[i + 1] <= Room

AppendTo(r, made, i) ==
  IF Fits(r, made, i)
  THEN [made EXCEPT !.message.slots = Append(@, i), !.used = @ + r.takes[i + 1]]
  ELSE made

(* One pass of the loop: what was sent so far, and the message being made  *)
(* (AppendWaypoint...: faulty variants).                                   *)
Sent(made) == Append(made.sent, made.message)

AppendWaypointDropped(r, made, i) ==
  IF Fits(r, made, i) THEN AppendTo(r, made, i)
  ELSE NewMessage(Sent(made), i - r.origin)

AppendWaypointAlone(r, made, i) ==
  AppendTo(r, NewMessage(IF made.used = 0 THEN made.sent ELSE Sent(made), i - r.origin), i)

AppendWaypoint(r, made, i) ==
  IF Fits(r, made, i) THEN AppendTo(r, made, i)
  ELSE AppendTo(r, NewMessage(Sent(made), i - r.origin), i)

Made(r) ==
  LET made[k \in 0 .. Len(Slots(r))] ==
        IF k = 0 THEN NewMessage(<< >>, 0)
        ELSE AppendWaypoint(r, made[k - 1], Slots(r)[k])
  IN  made

(* All messages for the route. *)
Pages(r) ==
  IF Size(r) = 1
  THEN << [start |-> 0, slots |-> << Current, 0 >>] >>
  ELSE Sent(Made(r)[Len(Slots(r))])

-----------------------------------------------------------------------------
(* What the first messages hold together, in their order. *)
AnnouncedBy(messages) ==
  LET list[k \in 0 .. Len(messages)] ==
        IF k = 0 THEN << >> ELSE list[k - 1] \o messages[k].slots
  IN  list

(* The messages announce the route from its origin on, each waypoint once  *)
(* and in order, and each message says where it starts.                    *)
Complete(r, messages) ==
  /\ AnnouncedBy(messages)[Len(messages)]
       = IF Size(r) = 1 THEN << Current, 0 >> ELSE Slots(r)
  /\ \A k \in 1 .. Len(messages) :
       messages[k].start = Len(AnnouncedBy(messages)[k - 1])

(* The room that the first slots of the route take. *)
Bytes(r) ==
  LET bytes[k \in 0 .. Size(r)] == IF k = 0 THEN 0 ELSE bytes[k - 1] + r.takes[k]
  IN  bytes

(* The ways to part the route into messages that hold. *)
Partings(r) ==
  {parting \in SUBSET (1 .. Len(Slots(r)) - 1) :
     \A i, j \in 0 .. Len(Slots(r)) :
       i < j /\ (\A c \in parting : c <= i \/ c >= j)
       => Bytes(r)[r.origin + j] - Bytes(r)[r.origin + i] <= Room}

Fewest(r, count) ==
  /\ \E parting \in Partings(r) : count = 1 + Cardinality(parting)
  /\ \A parting \in Partings(r) : count <= 1 + Cardinality(parting)
=============================================================================
