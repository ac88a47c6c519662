------------------------ MODULE RouteReceiverProofs ------------------------
(***************************************************************************)
(* Theorems about RouteReceiver: for every number of slots, every set of   *)
(* names and every heap, no sequence of sentences breaks the types of the  *)
(* class or makes a route valid whose announced names were not received.   *)
(***************************************************************************)
EXTENDS RouteReceiver, TLAPS

(* Every name below the cursor or below the size of r was received, and    *)
(* both lie within the array.                                              *)
NamesReceived(r) ==
  /\ r.index <= maxWpPerRoute
  /\ r.size <= maxWpPerRoute
  /\ \A i \in Slot : i < r.index \/ i < r.size => r.names[i] # Garbage

(* Before the first sentence number 1 the cursor and the size are garbage, *)
(* but then neither flag is set; both flags are only ever set by steps     *)
(* that keep the received names together.                                  *)
Sound(r) == r.equalToPrevious \/ r.valid => NamesReceived(r)

IInv == TypeOK /\ Sound(route)

-----------------------------------------------------------------------------
(* The number of waypoints that AddWaypoints takes fits in the free slots. *)
LEMMA TakenBound ==
  ASSUME NEW r \in RouteState, NEW ws \in Seq(Name)
  PROVE  /\ Taken(r, ws) \in Nat
         /\ Taken(r, ws) <= Len(ws)
         /\ r.index < maxWpPerRoute => r.index + Taken(r, ws) <= maxWpPerRoute
         /\ r.index >= maxWpPerRoute => Taken(r, ws) = 0
  <1>1. r.index \in Nat /\ Len(ws) \in Nat /\ maxWpPerRoute \in Nat
    BY RouteAssumption DEF RouteState, Byte
  <1> QED
    BY <1>1 DEF Taken

(* A name that AddWaypoints leaves in a slot is the old one or a received  *)
(* one, and it is a received one between the old cursor and the new one.   *)
LEMMA NamesAfterType ==
  ASSUME NEW r \in RouteState, NEW ws \in Seq(Name)
  PROVE  /\ NamesAfter(r, ws) \in [Slot -> Stored \cup {Garbage}]
         /\ \A i \in Slot : NamesAfter(r, ws)[i] = r.names[i]
                            \/ NamesAfter(r, ws)[i] # Garbage
         /\ \A i \in Slot : i >= r.index /\ i < r.index + Taken(r, ws)
                            => NamesAfter(r, ws)[i] # Garbage
  <1>1. r.index \in Nat /\ Len(ws) \in Nat /\ maxWpPerRoute \in Nat
    BY RouteAssumption DEF RouteState, Byte
  <1>2. Taken(r, ws) \in Nat /\ Taken(r, ws) <= Len(ws)
    BY TakenBound
  <1>3. r.names \in [Slot -> Stored \cup {Garbage}]
    BY DEF RouteState
  <1>4. ASSUME NEW i \in Slot, i \in r.index .. r.index + Taken(r, ws) - 1
        PROVE  cut[ws[i - r.index + 1]] \in Stored
    <2>1. i - r.index + 1 \in 1 .. Len(ws)
      BY <1>1, <1>2, <1>4 DEF Slot
    <2>2. ws[i - r.index + 1] \in Name
      BY <2>1
    <2> QED
      BY <2>2, RouteAssumption
  <1>5. Garbage \notin Stored
    BY RouteAssumption
  <1>6. \A i \in Slot : NamesAfter(r, ws)[i]
          = IF i \in r.index .. r.index + Taken(r, ws) - 1
            THEN cut[ws[i - r.index + 1]] ELSE r.names[i]
    BY DEF NamesAfter
  <1>7. NamesAfter(r, ws) \in [Slot -> Stored \cup {Garbage}]
    BY <1>3, <1>4 DEF NamesAfter
  <1>8. \A i \in Slot : i >= r.index /\ i < r.index + Taken(r, ws)
          => i \in r.index .. r.index + Taken(r, ws) - 1
    BY <1>1, <1>2 DEF Slot
  <1> QED
    BY <1>4, <1>5, <1>6, <1>7, <1>8

-----------------------------------------------------------------------------
(* The methods of Route preserve its type and Sound. *)
LEMMA InitializeSound ==
  ASSUME NEW r \in RouteState
  PROVE  Initialize(r) \in RouteState /\ Sound(Initialize(r))
  <1>1. 0 \in Byte /\ maxWpPerRoute \in Nat
    BY RouteAssumption DEF Byte
  <1>2. Initialize(r) \in RouteState
    BY <1>1 DEF Initialize, RouteState
  <1>3. Initialize(r).index = 0 /\ Initialize(r).size = 0
    BY DEF Initialize, RouteState
  <1> QED
    BY <1>1, <1>2, <1>3 DEF Sound, NamesReceived, Slot

LEMMA AddWaypointsSound ==
  ASSUME NEW r \in RouteState, Sound(r), NEW ws \in Seq(Name)
  PROVE  AddWaypoints(r, ws) \in RouteState /\ Sound(AddWaypoints(r, ws))
  <1> DEFINE s == AddWaypoints(r, ws)
  <1>1. /\ r.index \in Nat /\ r.index <= ByteMax
        /\ r.size \in Nat
        /\ maxWpPerRoute \in Nat /\ maxWpPerRoute <= ByteMax /\ ByteMax \in Nat
    BY RouteAssumption DEF RouteState, Byte
  <1>2. /\ s.index = r.index + Taken(r, ws)
        /\ s.names = NamesAfter(r, ws)
        /\ s.size = r.size
        /\ s.valid = r.valid
        /\ s.equalToPrevious => r.equalToPrevious
    BY DEF AddWaypoints, RouteState
  <1>3. s \in RouteState
    <2>1. r.index + Taken(r, ws) \in Byte
      BY <1>1, TakenBound DEF Byte
    <2>2. NamesAfter(r, ws) \in [Slot -> Stored \cup {Garbage}]
      BY NamesAfterType
    <2>3. (r.equalToPrevious /\ NamesAfter(r, ws) = r.names) \in BOOLEAN
      OBVIOUS
    <2> QED
      BY <2>1, <2>2, <2>3 DEF AddWaypoints, RouteState
  <1>4. ASSUME s.equalToPrevious \/ s.valid
        PROVE  NamesReceived(s)
    <2>1. NamesReceived(r)
      BY <1>2, <1>4 DEF Sound
    <2>2. s.index <= maxWpPerRoute /\ s.size <= maxWpPerRoute
      BY <1>1, <1>2, <2>1, TakenBound DEF NamesReceived
    <2>3. ASSUME NEW i \in Slot, i < s.index \/ i < s.size
          PROVE  s.names[i] # Garbage
      <3>1. CASE i < r.index \/ i < r.size
        BY <3>1, <2>1, <1>2, NamesAfterType DEF NamesReceived
      <3>2. CASE i >= r.index /\ i < s.index
        BY <3>2, <1>2, NamesAfterType
      <3> QED
        BY <3>1, <3>2, <2>3, <1>1, <1>2 DEF Slot
    <2> QED
      BY <2>2, <2>3 DEF NamesReceived
  <1> QED
    BY <1>3, <1>4 DEF Sound

LEMMA FinalizeSound ==
  ASSUME NEW r \in RouteState, Sound(r), NEW type, NEW origin,
         NEW s \in Finalize(r, type, origin)
  PROVE  s \in RouteState /\ Sound(s)
  <1>1. PICK o \in IF r.index # 1 /\ type = "c"
                   THEN OriginCurrentLeg(r, origin) ELSE {0} :
          s = [r EXCEPT !.indexOriginCurrentLeg = o,
                        !.valid = @ \/ r.equalToPrevious,
                        !.size = r.index,
                        !.index = 0]
    BY DEF Finalize
  <1>2. /\ maxWpPerRoute \in Nat /\ maxWpPerRoute <= ByteMax /\ ByteMax \in Nat
        /\ r.size \in Byte /\ r.index \in Byte
        /\ r.indexOriginCurrentLeg \in Byte
    BY RouteAssumption DEF RouteState
  <1>3. o \in Byte
    BY <1>2, RouteAssumption DEF OriginCurrentLeg, Byte, Slot
  <1>4. s \in RouteState
    <2>1. (r.valid \/ r.equalToPrevious) \in BOOLEAN /\ 0 \in Byte
      BY <1>2 DEF Byte
    <2> QED
      BY <1>1, <1>2, <1>3, <2>1 DEF RouteState
  <1>5. ASSUME s.equalToPrevious \/ s.valid
        PROVE  NamesReceived(s)
    <2>1. r.equalToPrevious \/ r.valid
      BY <1>1, <1>5 DEF RouteState
    <2>2. NamesReceived(r)
      BY <2>1 DEF Sound
    <2>3. s.names = r.names /\ s.size = r.index /\ s.index = 0
      BY <1>1 DEF RouteState
    <2> QED
      BY <2>2, <2>3, <1>2 DEF NamesReceived, Slot, Byte
  <1> QED
    BY <1>4, <1>5 DEF Sound

LEMMA AddCoordinatesSound ==
  ASSUME NEW r \in RouteState, Sound(r), NEW n \in Name, NEW p \in Position
  PROVE  AddCoordinates(r, n, p) \in RouteState /\ Sound(AddCoordinates(r, n, p))
  <1>1. /\ maxWpPerRoute \in Nat /\ maxWpPerRoute <= ByteMax /\ ByteMax \in Nat
        /\ r.size \in Nat /\ r.index \in Nat
        /\ cut[n] \in Stored /\ Garbage \notin Stored
    BY RouteAssumption DEF RouteState, Byte
  <1>2. CASE r.index >= maxWpPerRoute
    BY <1>2 DEF AddCoordinates
  <1>3. CASE r.index < maxWpPerRoute /\ r.names[r.index] = cut[n]
    <2> DEFINE s == AddCoordinates(r, n, p)
    <2>1. s = [r EXCEPT !.positions[r.index] = p, !.index = @ + 1]
      BY <1>1, <1>3 DEF AddCoordinates
    <2>2. s \in RouteState
      <3>1. r.index + 1 \in Byte /\ r.index \in Slot
        BY <1>1, <1>3 DEF Byte, Slot
      <3>2. [r.positions EXCEPT ![r.index] = p]
              \in [Slot -> Position \cup {Garbage}]
        BY <3>1 DEF RouteState
      <3> QED
        BY <2>1, <3>1, <3>2 DEF RouteState
    <2>3. /\ s.names = r.names /\ s.size = r.size /\ s.index = r.index + 1
          /\ s.valid = r.valid /\ s.equalToPrevious = r.equalToPrevious
      BY <2>1 DEF RouteState
    <2> QED
      BY <2>2, <2>3, <1>1, <1>3 DEF Sound, NamesReceived, Slot
  <1>4. CASE r.index < maxWpPerRoute /\ r.names[r.index] # cut[n]
    <2>1. AddCoordinates(r, n, p) = [r EXCEPT !.valid = FALSE]
      BY <1>1, <1>4 DEF AddCoordinates
    <2> QED
      BY <2>1 DEF RouteState, Sound, NamesReceived
  <1> QED
    BY <1>1, <1>2, <1>3, <1>4

-----------------------------------------------------------------------------
LEMMA InitIInv == Init => IInv
  <1> SUFFICES ASSUME Init PROVE IInv
    OBVIOUS
  <1>1. [Slot -> HeapNames] \subseteq [Slot -> Stored \cup {Garbage}]
    BY RouteAssumption
  <1>2. [Slot -> {Garbage}] \subseteq [Slot -> Position \cup {Garbage}]
    OBVIOUS
  <1>3. {0} \subseteq Byte
    BY RouteAssumption DEF Byte
  <1>4. route \in RouteState
    BY <1>1, <1>2, <1>3 DEF Init, NewRoute, RouteState
  <1>5. ~route.equalToPrevious /\ ~route.valid
    BY DEF Init, NewRoute
  <1> QED
    BY <1>4, <1>5, RouteAssumption DEF Init, IInv, TypeOK, Sound

LEMMA NextIInv == IInv /\ [Next]_routeVars => IInv'
  <1> SUFFICES ASSUME IInv, [Next]_routeVars PROVE IInv'
    OBVIOUS
  <1>1. route \in RouteState /\ Sound(route) /\ originID \in Stored \cup {Garbage}
    BY DEF IInv, TypeOK
  <1>2. ASSUME NEW m \in RTE, HandleRTE(m) PROVE IInv'
    <2> DEFINE r == IF m.currSentence = 1 THEN Initialize(route) ELSE route
    <2>1. r \in RouteState /\ Sound(r)
      BY <1>1, InitializeSound
    <2>2. m.wps \in Seq(Name)
      BY ReceiverAssumption DEF RTE
    <2>3. Received(m) \in RouteState /\ Sound(Received(m))
      BY <2>1, <2>2, AddWaypointsSound DEF Received
    <2>4. route' \in RouteState /\ Sound(route')
      BY <1>2, <2>3, FinalizeSound DEF HandleRTE
    <2>5. originID' = originID
      BY <1>2 DEF HandleRTE
    <2> QED
      BY <1>1, <2>4, <2>5 DEF IInv, TypeOK
  <1>3. ASSUME NEW n \in Name, NEW p \in Position, HandleWPL(n, p) PROVE IInv'
    BY <1>1, <1>3, AddCoordinatesSound DEF HandleWPL, IInv, TypeOK
  <1>4. ASSUME NEW n \in Name, HandleBOD(n) PROVE IInv'
    BY <1>1, <1>4, RouteAssumption DEF HandleBOD, IInv, TypeOK
  <1>5. CASE UNCHANGED routeVars
    BY <1>1, <1>5 DEF routeVars, IInv, TypeOK
  <1> QED
    BY <1>2, <1>3, <1>4, <1>5 DEF Next

(* The types of the members of Route and of bod.originID. *)
THEOREM TypeCorrect == Spec => []TypeOK
  <1>1. IInv => TypeOK
    BY DEF IInv
  <1> QED
    BY <1>1, InitIInv, NextIInv, PTL DEF Spec

(* A valid route announces slots of the array, with received names only.   *)
THEOREM AnnouncedReceived == Spec => []AnnouncedIsReceived
  <1>1. IInv => AnnouncedIsReceived
    <2> SUFFICES ASSUME IInv, route.valid, NEW i \in AnnouncedSlots(route)
                 PROVE  i \in Slot /\ route.names[i] # Garbage
      BY DEF AnnouncedIsReceived
    <2>1. NamesReceived(route) /\ route \in RouteState
      BY DEF IInv, TypeOK, Sound
    <2>2. /\ route.size \in Nat /\ route.indexOriginCurrentLeg \in Nat
          /\ maxWpPerRoute \in Nat \ {0}
      BY <2>1, RouteAssumption DEF RouteState, Byte
    <2>3. i \in Slot /\ i < route.size
      BY <2>1, <2>2 DEF AnnouncedSlots, NamesReceived, Slot
    <2> QED
      BY <2>1, <2>3 DEF NamesReceived
  <1> QED
    BY <1>1, InitIInv, NextIInv, PTL DEF Spec
=============================================================================
