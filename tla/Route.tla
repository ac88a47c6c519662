------------------------------- MODULE Route -------------------------------
(***************************************************************************)
(* The class Route (src/src/nmea/Route.h, Route.cpp): the waypoints of a   *)
(* route as they arrive in NMEA0183 RTE and WPL sentences.  A Route is a   *)
(* record with the fields of the class; a method is an operator from a     *)
(* record to the record after the call.  RTE sentences fill in the names   *)
(* of the slots, WPL sentences the positions, and both move one shared     *)
(* cursor, "index".                                                        *)
(***************************************************************************)
EXTENDS Integers, Sequences

CONSTANTS
  Name,          \* waypoint names as sentences carry them
  Stored,        \* waypoint names cut to maxWpNameLength characters
  cut,           \* the function from Name to Stored that strncpy/strncmp apply
  Position,      \* the pairs (latitude, longitude) of WPL sentences
  Garbage,       \* the content of a memory cell nothing was ever written to
  HeapNames,     \* what the name buffers may hold when they are allocated
  maxWpPerRoute, \* number of slots
  ByteMax        \* largest value of an Arduino byte

ASSUME RouteAssumption ==
  /\ ByteMax \in Nat
  /\ maxWpPerRoute \in 1 .. ByteMax
  /\ cut \in [Name -> Stored]
  /\ Garbage \notin Stored \cup Position
  /\ HeapNames \subseteq Stored \cup {Garbage}

Slot == 0 .. maxWpPerRoute - 1
Byte == 0 .. ByteMax

(* The private state of the class.  routeID is left out: it is copied from *)
(* the first sentence to the messages sent and never read by a condition.  *)
RouteState ==
  [ names                 : [Slot -> Stored \cup {Garbage}],
    positions             : [Slot -> Position \cup {Garbage}],
    size                  : Byte,
    index                 : Byte,
    indexOriginCurrentLeg : Byte,
    equalToPrevious       : BOOLEAN,
    valid                 : BOOLEAN ]

(* What the constructor may leave behind.  Only the members with a default *)
(* initializer have a known value: size, index and the buffers made by new *)
(* are read before anything is assigned to them, so any value is possible. *)
NewRoute ==
  [ names                 : [Slot -> HeapNames],
    positions             : [Slot -> {Garbage}],
    size                  : Byte,
    index                 : Byte,
    indexOriginCurrentLeg : {0},
    equalToPrevious       : {FALSE},
    valid                 : {FALSE} ]

-----------------------------------------------------------------------------
(* Faulty variants of operators are named for what they get wrong; each    *)
(* stands next to the operator it replaces in a mutation run.              *)
InitializeKeepsIndex(r) ==
  [r EXCEPT !.equalToPrevious = TRUE, !.valid = FALSE, !.size = 0]

InitializeKeepsValid(r) ==
  [r EXCEPT !.equalToPrevious = TRUE, !.size = 0, !.index = 0]

InitializeKeepsEqual(r) ==
  [r EXCEPT !.valid = FALSE, !.size = 0, !.index = 0]

(* Start receiving a route sequence. *)
Initialize(r) ==
  [r EXCEPT !.equalToPrevious = TRUE, !.valid = FALSE, !.size = 0, !.index = 0]

(* Add one waypoint name at the cursor.  The route stays "equal to the     *)
(* previous one" for as long as every name is the one already in the slot. *)
AddWaypoint(r, src) ==
  IF r.index >= maxWpPerRoute THEN r
  ELSE LET same == r.equalToPrevious /\ r.names[r.index] = cut[src]
       IN  [r EXCEPT !.names[r.index] = cut[src],
                     !.equalToPrevious = same,
                     !.index = @ + 1]

(* How many of the waypoints ws still find a slot. *)
Taken(r, ws) ==
  IF r.index >= maxWpPerRoute THEN 0
  ELSE IF Len(ws) <= maxWpPerRoute - r.index THEN Len(ws)
  ELSE maxWpPerRoute - r.index

(* AddWaypoint for each of the waypoints ws in turn, the loop of HandleRTE.*)
NamesAfterSkipsLast(r, ws) ==
  [i \in Slot |-> IF i \in r.index .. r.index + Taken(r, ws) - 2
                  THEN cut[ws[i - r.index + 1]] ELSE r.names[i]]

NamesAfter(r, ws) ==
  [i \in Slot |-> IF i \in r.index .. r.index + Taken(r, ws) - 1
                  THEN cut[ws[i - r.index + 1]] ELSE r.names[i]]

AddWaypointsCountsAll(r, ws) ==
  [r EXCEPT !.names = NamesAfter(r, ws),
            !.equalToPrevious = @ /\ NamesAfter(r, ws) = r.names,
            !.index = @ + Len(ws)]

AddWaypoints(r, ws) ==
  [r EXCEPT !.names = NamesAfter(r, ws),
            !.equalToPrevious = @ /\ NamesAfter(r, ws) = r.names,
            !.index = @ + Taken(r, ws)]

(* setOriginCurrentLeg scans the slots below size, which Finalize has not  *)
(* assigned yet.  The result is a set: a size that was never written may   *)
(* lead the scan past the array, where any byte string may be a match.     *)
OriginCurrentLeg(r, origin) ==
  LET hits == {i \in Slot : i < r.size /\ r.names[i] = origin}
  IN  IF hits # {} THEN {i \in hits : \A j \in hits : i <= j}
      ELSE {r.indexOriginCurrentLeg} \cup (maxWpPerRoute .. r.size - 1)

(* Complete the route: the possible results of finalize. *)
Finalize(r, type, origin) ==
  { [r EXCEPT !.indexOriginCurrentLeg = o,
              !.valid = @ \/ r.equalToPrevious,
              !.size = r.index,
              !.index = 0] :
    o \in IF r.index # 1 /\ type = "c" THEN OriginCurrentLeg(r, origin) ELSE {0} }

AddCoordinatesInPlace(r, src, position) ==
  IF r.index >= maxWpPerRoute THEN r
  ELSE IF r.names[r.index] = cut[src]
       THEN [r EXCEPT !.positions[r.index] = position]
       ELSE [r EXCEPT !.valid = FALSE]

(* Add the position of a WPL sentence at the cursor if the name there is   *)
(* the expected one, else invalidate the route.                            *)
AddCoordinates(r, src, position) ==
  IF r.index >= maxWpPerRoute THEN r
  ELSE IF r.names[r.index] = cut[src]
       THEN [r EXCEPT !.positions[r.index] = position, !.index = @ + 1]
       ELSE [r EXCEPT !.valid = FALSE]

-----------------------------------------------------------------------------
(* The slots whose waypoints N183ToN2k::sendPGN129285 reads when the route *)
(* is valid: the only one, or all from the origin of the current leg on.   *)
AnnouncedSlots(r) ==
  IF r.size = 1 THEN {0} ELSE r.indexOriginCurrentLeg .. r.size - 1

(* The waypoints it puts in PGN 129285, in order. *)
Waypoint(r, i) == [name |-> r.names[i], position |-> r.positions[i]]

Announcement(r) ==
  IF r.size = 1 THEN << Waypoint(r, 0) >>
  ELSE [k \in 1 .. r.size - r.indexOriginCurrentLeg |->
          Waypoint(r, r.indexOriginCurrentLeg + k - 1)]
=============================================================================
