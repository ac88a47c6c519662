-------------------------- MODULE RouteFeedProofs --------------------------
(***************************************************************************)
(* Theorems about RouteFeed and RouteDisplay, for every number of slots,   *)
(* all routes a plotter may have, split into RTE sentences in any way: the *)
(* types on any line, and on a reliable one that positions are never mixed *)
(* up, that the gateway implements RouteService, and that a display shows  *)
(* whole routes only, over however many messages they are spread.          *)
(***************************************************************************)
EXTENDS RouteDisplay, RouteReceiverProofs, RoutePagesProofs

(* Every sentence arrives, and the gateway is on before the plotter. *)
Reliable == ~Lossy /\ ~MidCycle

(* The memory the constructor finds does not hold by chance a name that a  *)
(* plotter sends.                                                          *)
FreshHeap == \A n \in Name : cut[n] \notin HeapNames

(* How many of n waypoints have a slot. *)
Kept(n) == IF n <= maxWpPerRoute THEN n ELSE maxWpPerRoute

(* Slot i does not have a name with the position of another. *)
Known(r, i) ==
  (\E n \in Name : cut[n] = r.names[i]) =>
    \E n \in Name : cut[n] = r.names[i] /\ chart[n] = r.positions[i]

(* The first m slots have the names of p. *)
Named(r, p, m) == \A i \in Slot : i < m => r.names[i] = cut[p[i + 1]]

FeedSound == FeedTypeOK /\ Sound(route)

(* The three parts of a cycle.  Before it all slots are right; while RTE   *)
(* sentences come in those not named yet still are, and the others too if  *)
(* they have not changed; while WPL sentences come in those that had their *)
(* turn are right.  The names are those of the plan up to where the cycle  *)
(* has come, which the cursor shows.                                       *)
BeforeCycle ==
  /\ \A i \in Slot : Known(route, i)
  /\ route.valid =>
       \A i \in Slot : i < route.size => \E n \in Name : cut[n] = route.names[i]

WhileNaming ==
  /\ ~route.valid /\ route.size = 0
  /\ route.index = Kept((phase.n - 1) * PerSentence)
  /\ Named(route, plan, route.index)
  /\ \A i \in Slot : i >= route.index \/ route.equalToPrevious => Known(route, i)

WhilePlacing ==
  /\ route.size = Kept(Len(plan))
  /\ route.index = Kept(phase.n - 1)
  /\ Named(route, plan, route.size)
  /\ \A i \in Slot :
       i < route.index \/ i >= route.size \/ route.valid => Known(route, i)

FeedInv ==
  /\ FeedSound
  /\ route.indexOriginCurrentLeg = 0
  /\ phase.kind = "rte" /\ phase.n = 1 => BeforeCycle
  /\ phase.kind = "rte" /\ phase.n > 1 => WhileNaming
  /\ phase.kind = "wpl" => WhilePlacing
-----------------------------------------------------------------------------
(* A route of l waypoints, p to a sentence. *)
LEMMA Products ==
  ASSUME NEW m \in Nat, NEW n \in Nat, NEW p \in Nat
  PROVE  /\ m * p \in Nat
         /\ m <= n => m * p <= n * p
         /\ m >= 1 => (m - 1) * p = m * p - p
OBVIOUS

LEMMA Sentences ==
  ASSUME NEW l \in Nat \ {0}, NEW p \in Nat \ {0}
  PROVE  LET t == (l + p - 1) \div p
         IN  t \in Nat \ {0} /\ t * p - p < l /\ l <= t * p
OBVIOUS

(* Sentence n of t carries the waypoints between those of the sentences    *)
(* before it and those of the sentences after it.                          *)
LEMMA Parts ==
  ASSUME NEW l \in Nat \ {0}, NEW p \in Nat \ {0}, NEW t \in Nat \ {0},
         t * p - p < l, l <= t * p, NEW n \in 1 .. t
  PROVE  LET b == (n - 1) * p
             e == IF n = t THEN l ELSE n * p
         IN  /\ b \in Nat /\ e \in 1 .. l /\ b <= e
             /\ n < t => e = n * p
             /\ n = t => e = l
<1>1. n \in Nat /\ t \in Nat /\ p \in Nat /\ p >= 1 /\ n >= 1
  OBVIOUS
<1>2. n * p \in Nat /\ (n - 1) * p = n * p - p /\ t * p \in Nat
  BY <1>1, Products
<1>3. n * p >= p
  <2>1. 1 * p <= n * p
    BY <1>1, Products
  <2>. QED  BY <1>1, <2>1
<1>4. CASE n = t
  BY <1>1, <1>2, <1>3, <1>4
<1>5. CASE n < t
  <2>1. t - 1 \in Nat /\ n <= t - 1
    BY <1>1, <1>5
  <2>2. n * p <= (t - 1) * p /\ (t - 1) * p = t * p - p
    BY <1>1, <2>1, Products
  <2>. QED  BY <1>1, <1>2, <1>3, <1>5, <2>2
<1>. QED  BY <1>1, <1>4, <1>5
LEMMA PlanFacts ==
  ASSUME FeedTypeOK
  PROVE  /\ plan \in Seq(Name) /\ Len(plan) \in Nat \ {0}
         /\ \A i \in 1 .. Len(plan) : plan[i] \in Name
         /\ Total \in Nat \ {0}
         /\ Total * PerSentence - PerSentence < Len(plan)
         /\ Len(plan) <= Total * PerSentence
         /\ PerSentence \in Nat \ {0}
<1>1. plan \in Seq(Name) /\ plan # << >> /\ PerSentence \in Nat \ {0}
  BY FeedAssumption DEF FeedTypeOK
<1>2. Len(plan) \in Nat \ {0} /\ \A i \in 1 .. Len(plan) : plan[i] \in Name
  BY <1>1
<1>. QED  BY <1>1, <1>2, Sentences DEF Total

(* What the next RTE sentence carries. *)
LEMMA NextRTEFacts ==
  ASSUME FeedTypeOK, phase.kind = "rte"
  PROVE  LET b == (phase.n - 1) * PerSentence
             e == IF phase.n = Total THEN Len(plan) ELSE phase.n * PerSentence
         IN  /\ phase.n \in 1 .. Total
             /\ b \in Nat /\ e \in 1 .. Len(plan) /\ b <= e
             /\ NextRTE.wps \in Seq(Name) /\ Len(NextRTE.wps) = e - b
             /\ \A i \in 1 .. e - b : NextRTE.wps[i] = plan[b + i]
<1>. DEFINE b == (phase.n - 1) * PerSentence
            e == IF phase.n = Total THEN Len(plan) ELSE phase.n * PerSentence
<1>1. phase.n \in 1 .. Total
  BY DEF FeedTypeOK, Phases
<1>2. b \in Nat /\ e \in 1 .. Len(plan) /\ b <= e
  BY <1>1, PlanFacts, Parts
<1>3. NextRTE.wps = SubSeq(plan, b + 1, e)
  BY DEF NextRTE
<1>. HIDE DEF b, e
<1>4. \A i \in b + 1 .. e : plan[i] \in Name
  BY <1>2, PlanFacts
<1>5. /\ SubSeq(plan, b + 1, e) \in Seq(Name)
      /\ Len(SubSeq(plan, b + 1, e)) = IF b + 1 <= e THEN e - (b + 1) + 1 ELSE 0
      /\ \A i \in 1 .. e - (b + 1) + 1 : SubSeq(plan, b + 1, e)[i] = plan[(b + 1) + i - 1]
  BY <1>2, <1>4, SubSeqProperties
<1>6. /\ e - (b + 1) + 1 = e - b /\ (b + 1 <= e \/ e - b = 0)
      /\ \A i \in 1 .. e - b : (b + 1) + i - 1 = b + i
  BY <1>2
<1>7. /\ Len(NextRTE.wps) = e - b
      /\ \A i \in 1 .. e - b : NextRTE.wps[i] = plan[b + i]
  BY <1>3, <1>5, <1>6
<1>. QED  BY <1>1, <1>2, <1>3, <1>5, <1>7 DEF b, e

(* A sentence that goes on where the names ended names the slots as the    *)
(* route does, and touches no other.                                       *)
LEMMA AddPart ==
  ASSUME NEW p \in Seq(Name), NEW b \in Nat, NEW e \in 1 .. Len(p), b <= e,
         NEW ws \in Seq(Name), Len(ws) = e - b,
         \A i \in 1 .. e - b : ws[i] = p[b + i],
         NEW r \in RouteState, r.index = Kept(b), Named(r, p, r.index)
  PROVE  LET s == AddWaypoints(r, ws)
         IN  /\ s.index = Kept(e)
             /\ Named(s, p, s.index)
             /\ \A i \in Slot : i >= s.index \/ i < r.index => s.names[i] = r.names[i]
             /\ s.equalToPrevious => r.equalToPrevious /\ s.names = r.names
             /\ s.positions = r.positions /\ s.size = r.size /\ s.valid = r.valid
             /\ s.indexOriginCurrentLeg = r.indexOriginCurrentLeg
<1>. DEFINE s == AddWaypoints(r, ws)
<1>1. /\ maxWpPerRoute \in Nat /\ maxWpPerRoute >= 1 /\ r.index \in Nat
      /\ e \in Nat /\ Len(p) \in Nat /\ Len(ws) \in Nat
  BY RouteAssumption DEF RouteState, Byte
<1>2. /\ s.index = r.index + Taken(r, ws) /\ s.names = NamesAfter(r, ws)
      /\ s.equalToPrevious => r.equalToPrevious /\ s.names = r.names
      /\ s.positions = r.positions /\ s.size = r.size /\ s.valid = r.valid
      /\ s.indexOriginCurrentLeg = r.indexOriginCurrentLeg
  BY DEF AddWaypoints, RouteState
<1>3. s.index = Kept(e) /\ Taken(r, ws) \in Nat
  BY <1>1, <1>2, TakenBound DEF Taken, Kept
<1>4. \A i \in Slot : s.names[i]
        = IF i \in r.index .. r.index + Taken(r, ws) - 1
          THEN cut[ws[i - r.index + 1]] ELSE r.names[i]
  BY <1>2 DEF NamesAfter
<1>5. \A i \in Slot : i >= s.index \/ i < r.index => s.names[i] = r.names[i]
  BY <1>1, <1>2, <1>3, <1>4 DEF Slot
<1>6. ASSUME NEW i \in Slot, i < s.index
      PROVE  s.names[i] = cut[p[i + 1]]
  <2>1. CASE i < r.index
    BY <1>5, <2>1 DEF Named
  <2>2. CASE i >= r.index
    <3>1. i \in r.index .. r.index + Taken(r, ws) - 1
      BY <1>1, <1>2, <1>3, <1>6, <2>2 DEF Slot
    <3>2. r.index = b
      BY <1>1, <2>2 DEF Kept, Slot
    <3>3. i - b + 1 \in 1 .. e - b /\ b + (i - b + 1) = i + 1
      BY <1>1, <1>3, <1>6, <2>2, <3>2 DEF Kept, Slot
    <3>. QED  BY <1>4, <3>1, <3>2, <3>3
  <2>. QED  BY <1>1, <2>1, <2>2 DEF Slot
<1>. QED  BY <1>2, <1>3, <1>5, <1>6 DEF Named
-----------------------------------------------------------------------------
(* The place in the cycle. *)
LEMMA PhaseFacts ==
  ASSUME FeedTypeOK
  PROVE  /\ phase.kind \in {"rte", "wpl"}
         /\ phase.kind = "rte" => phase.n \in 1 .. Total
         /\ phase.kind = "wpl" => phase.n \in 1 .. Len(plan)
         /\ phase = [kind |-> phase.kind, n |-> phase.n]
         /\ phase.n \in Nat \ {0}
<1>1. phase \in [kind : {"rte"}, n : 1 .. Total] \cup [kind : {"wpl"}, n : 1 .. Len(plan)]
  BY DEF FeedTypeOK, Phases
<1>2. Total \in Nat /\ Len(plan) \in Nat
  BY PlanFacts
<1>. QED  BY <1>1, <1>2

LEMMA SendRTEPhase ==
  ASSUME FeedTypeOK, SendRTE
  PROVE  /\ phase' \in Phases /\ phase.kind = "rte" /\ phase.n \in 1 .. Total
         /\ phase.n < Total => phase' = [kind |-> "rte", n |-> phase.n + 1]
         /\ phase.n = Total => phase' = [kind |-> "wpl", n |-> 1]
<1>1. phase = [kind |-> "rte", n |-> phase.n] /\ phase.n \in 1 .. Total
  BY PhaseFacts DEF SendRTE
<1>2. Total \in Nat \ {0} /\ Len(plan) \in Nat \ {0}
  BY PlanFacts
<1>3. phase.n < Total => phase' = [kind |-> "rte", n |-> phase.n + 1]
  BY <1>1 DEF SendRTE
<1>4. phase.n = Total => phase' = [kind |-> "wpl", n |-> 1]
  BY <1>1, <1>2 DEF SendRTE
<1>5. phase.n < Total => phase.n + 1 \in 1 .. Total
  BY <1>1, <1>2
<1>6. 1 \in 1 .. Len(plan) /\ (phase.n < Total \/ phase.n = Total)
  BY <1>1, <1>2
<1>. QED  BY <1>1, <1>3, <1>4, <1>5, <1>6 DEF Phases

LEMMA SendWPLPhase ==
  ASSUME FeedTypeOK, SendWPL
  PROVE  /\ phase' \in Phases /\ phase.kind = "wpl" /\ phase.n \in 1 .. Len(plan)
         /\ phase.n < Len(plan) => phase' = [kind |-> "wpl", n |-> phase.n + 1]
         /\ phase.n = Len(plan) => phase' = [kind |-> "rte", n |-> 1]
         /\ plan[phase.n] \in Name /\ chart[plan[phase.n]] \in Position
<1>1. phase = [kind |-> "wpl", n |-> phase.n] /\ phase.n \in 1 .. Len(plan)
  <2>1. phase.kind = "wpl"
    BY DEF SendWPL
  <2>. QED  BY <2>1, PhaseFacts
<1>2. Total \in Nat \ {0} /\ Len(plan) \in Nat \ {0}
  BY PlanFacts
<1>3. phase.n < Len(plan) => phase' = [kind |-> "wpl", n |-> phase.n + 1]
  BY <1>1 DEF SendWPL
<1>4. phase.n = Len(plan) => phase' = [kind |-> "rte", n |-> 1]
  BY <1>1, <1>2 DEF SendWPL
<1>5. phase.n < Len(plan) => phase.n + 1 \in 1 .. Len(plan)
  BY <1>1, <1>2
<1>6. 1 \in 1 .. Total /\ (phase.n < Len(plan) \/ phase.n = Len(plan))
  BY <1>1, <1>2
<1>7. plan[phase.n] \in Name /\ chart[plan[phase.n]] \in Position
  BY <1>1, PlanFacts, FeedAssumption
<1>. QED  BY <1>1, <1>3, <1>4, <1>5, <1>6, <1>7 DEF Phases

LEMMA FirstSentence ==
  ASSUME NEW p \in Plans
  PROVE  (Len(p) + PerSentence - 1) \div PerSentence >= 1
<1>1. Len(p) \in Nat \ {0} /\ PerSentence \in Nat \ {0}
  BY FeedAssumption
<1>2. (Len(p) + PerSentence - 1) \div PerSentence \in Nat \ {0}
  BY <1>1, Sentences
<1>. QED  BY <1>2

LEMMA FeedSoundStarts == FeedInit => FeedSound
<1>. SUFFICES ASSUME FeedInit  PROVE FeedSound
  OBVIOUS
<1>1. TypeOK /\ Sound(route)
  BY InitIInv DEF FeedInit, IInv
<1>2. plan \in Plans /\ type \in {"c", "w"} /\ calm \in BOOLEAN
  BY DEF FeedInit
<1>3. phase \in Phases
  <2>1. [kind |-> "rte", n |-> 1] \in Phases
    <3>1. plan \in Seq(Name) \ {<< >>} /\ PerSentence \in Nat \ {0}
      BY <1>2, FeedAssumption
    <3>2. Len(plan) \in Nat \ {0}
      BY <3>1
    <3>3. Total \in Nat \ {0}
      BY <3>1, <3>2, Sentences DEF Total
    <3>4. 1 \in 1 .. Total
      BY <3>3
    <3>. QED  BY <3>4 DEF Phases
  <2>2. MidCycle \in BOOLEAN
    BY FeedAssumption
  <2>3. phase \in IF MidCycle THEN Phases ELSE {[kind |-> "rte", n |-> 1]}
    BY DEF FeedInit
  <2>. QED  BY <2>1, <2>2, <2>3
<1>. QED  BY <1>1, <1>2, <1>3 DEF FeedSound, FeedTypeOK
LEMMA FeedSoundKeeps == FeedSound /\ [FeedNext]_feedVars => FeedSound'
<1>. SUFFICES ASSUME FeedSound, [FeedNext]_feedVars  PROVE FeedSound'
  OBVIOUS
<1>1. /\ FeedTypeOK /\ route \in RouteState /\ Sound(route)
      /\ originID \in Stored \cup {Garbage}
      /\ plan \in Plans /\ type \in {"c", "w"} /\ phase \in Phases /\ calm \in BOOLEAN
  BY DEF FeedSound, FeedTypeOK, TypeOK
<1>2. ASSUME route' \in RouteState, Sound(route)', originID' \in Stored \cup {Garbage},
             plan' \in Plans, type' \in {"c", "w"}, phase' \in Phases', calm' \in BOOLEAN
      PROVE  FeedSound'
  BY <1>2 DEF FeedSound, FeedTypeOK, TypeOK
<1>3. CASE SendRTE
  <2>1. UNCHANGED << plan, type, calm, originID >> /\ Phases' = Phases
    BY <1>3 DEF SendRTE, HandleRTE, Lost, routeVars, Phases, Total
  <2>2. phase' \in Phases
    BY <1>1, <1>3, SendRTEPhase
  <2>3. CASE HandleRTE(NextRTE)
    <3>. DEFINE r == IF NextRTE.currSentence = 1 THEN Initialize(route) ELSE route
    <3>1. r \in RouteState /\ Sound(r)
      BY <1>1, InitializeSound
    <3>2. NextRTE.wps \in Seq(Name)
      BY <1>1, <1>3, NextRTEFacts DEF SendRTE
    <3>3. Received(NextRTE) \in RouteState /\ Sound(Received(NextRTE))
      BY <3>1, <3>2, AddWaypointsSound DEF Received
    <3>4. \A s \in Finalize(Received(NextRTE), NextRTE.type, originID) :
            s \in RouteState /\ Sound(s)
      BY <3>3, FinalizeSound
    <3>5. route' \in RouteState /\ Sound(route')
      BY <2>3, <3>3, <3>4 DEF HandleRTE
    <3>6. Sound(route)'
      BY <3>5 DEF Sound, NamesReceived
    <3>. QED  BY <1>1, <1>2, <2>1, <2>2, <3>5, <3>6
  <2>4. CASE Lost
    BY <1>1, <1>2, <2>1, <2>2, <2>4 DEF Lost, routeVars, Sound, NamesReceived
  <2>. QED  BY <1>3, <2>3, <2>4 DEF SendRTE
<1>4. CASE SendWPL
  <2>1. UNCHANGED << plan, type, calm, originID >> /\ Phases' = Phases
    BY <1>4 DEF SendWPL, HandleWPL, Lost, routeVars, Phases, Total
  <2>2. phase' \in Phases /\ plan[phase.n] \in Name /\ chart[plan[phase.n]] \in Position
    BY <1>1, <1>4, SendWPLPhase
  <2>3. CASE HandleWPL(plan[phase.n], chart[plan[phase.n]])
    <3>1. route' \in RouteState /\ Sound(route')
      BY <1>1, <2>2, <2>3, AddCoordinatesSound DEF HandleWPL
    <3>2. Sound(route)'
      BY <3>1 DEF Sound, NamesReceived
    <3>. QED  BY <1>1, <1>2, <2>1, <2>2, <3>1, <3>2
  <2>4. CASE Lost
    BY <1>1, <1>2, <2>1, <2>2, <2>4 DEF Lost, routeVars, Sound, NamesReceived
  <2>. QED  BY <1>4, <2>3, <2>4 DEF SendWPL
<1>5. CASE SendBOD
  <2>1. PICK i \in 1 .. Len(plan) : originID' = cut[plan[i]] /\ route' = route
    BY <1>5 DEF SendBOD, HandleBOD
  <2>2. plan[i] \in Name
    BY <1>1, <2>1, PlanFacts
  <2>3. originID' \in Stored
    BY <2>1, <2>2, RouteAssumption
  <2>. QED
    BY <1>1, <1>2, <1>5, <2>1, <2>3 DEF SendBOD, Phases, Total, Sound, NamesReceived
<1>6. CASE ActivateRoute
  <2>1. /\ plan' \in Plans /\ type' \in {"c", "w"}
        /\ phase' = [kind |-> "rte", n |-> 1] /\ UNCHANGED << route, originID, calm >>
    BY <1>6 DEF ActivateRoute
  <2>2. 1 \in 1 .. Total'
    <3>1. (Len(plan') + PerSentence - 1) \div PerSentence >= 1
      BY <2>1, FirstSentence
    <3>2. (Len(plan') + PerSentence - 1) \div PerSentence \in Int
      <4>1. Len(plan') \in Nat /\ PerSentence \in Nat \ {0}
        BY <2>1, FeedAssumption
      <4>. QED  BY <4>1
    <3>. QED  BY <3>1, <3>2 DEF Total
  <2>3. phase' \in Phases'
    BY <2>1, <2>2 DEF Phases
  <2>. QED  BY <1>1, <1>2, <2>1, <2>3 DEF Sound, NamesReceived
<1>7. CASE CalmDown
  BY <1>1, <1>2, <1>7 DEF CalmDown, Phases, Total, Sound, NamesReceived
<1>8. CASE UNCHANGED feedVars
  BY <1>1, <1>2, <1>8 DEF feedVars, Phases, Total, Sound, NamesReceived
<1>. QED  BY <1>3, <1>4, <1>5, <1>6, <1>7, <1>8 DEF FeedNext
-----------------------------------------------------------------------------
(* Two routes alike in a slot are right there together. *)
LEMMA SameSlot ==
  ASSUME NEW r, NEW s, NEW i, Known(r, i),
         s.names[i] = r.names[i], s.positions[i] = r.positions[i]
  PROVE  Known(s, i)
BY DEF Known

(* On a reliable line the position that arrives is for the slot at the     *)
(* cursor, if there is one.                                                *)
LEMMA PlaceNext ==
  ASSUME NEW p \in Seq(Name), NEW n \in 1 .. Len(p), NEW r \in RouteState,
         r.size = Kept(Len(p)), r.index = Kept(n - 1), Named(r, p, r.size),
         \A i \in Slot : i < r.index \/ i >= r.size \/ r.valid => Known(r, i)
  PROVE  LET s == AddCoordinates(r, p[n], chart[p[n]])
         IN  /\ s.index = Kept(n)
             /\ s.size = r.size /\ s.names = r.names /\ s.valid = r.valid
             /\ s.indexOriginCurrentLeg = r.indexOriginCurrentLeg
             /\ \A i \in Slot : i < s.index \/ i >= s.size \/ s.valid => Known(s, i)
<1>. DEFINE s == AddCoordinates(r, p[n], chart[p[n]])
<1>1. /\ maxWpPerRoute \in Nat /\ maxWpPerRoute >= 1 /\ n \in Nat /\ n >= 1
      /\ Len(p) \in Nat /\ n <= Len(p) /\ p[n] \in Name
  BY RouteAssumption
<1>2. CASE n > maxWpPerRoute
  <2>1. r.index = maxWpPerRoute /\ r.size = maxWpPerRoute /\ Kept(n) = maxWpPerRoute
    BY <1>1, <1>2 DEF Kept
  <2>2. s = r
    BY <1>1, <2>1 DEF AddCoordinates
  <2>. QED  BY <2>1, <2>2
<1>3. CASE n <= maxWpPerRoute
  <2>1. r.index = n - 1 /\ n - 1 < r.size /\ Kept(n) = n /\ n - 1 \in Slot
    BY <1>1, <1>3 DEF Kept, Slot
  <2>2. r.names[n - 1] = cut[p[n]]
    <3>1. r.names[n - 1] = cut[p[n - 1 + 1]] /\ n - 1 + 1 = n
      BY <1>1, <2>1 DEF Named
    <3>. QED  BY <3>1
  <2>3. s = [r EXCEPT !.positions[r.index] = chart[p[n]], !.index = @ + 1]
    BY <1>1, <1>3, <2>1, <2>2 DEF AddCoordinates
  <2>4. /\ s.index = n /\ s.size = r.size /\ s.names = r.names /\ s.valid = r.valid
        /\ s.indexOriginCurrentLeg = r.indexOriginCurrentLeg
        /\ s.positions[n - 1] = chart[p[n]]
        /\ \A i \in Slot : i # n - 1 => s.positions[i] = r.positions[i]
    BY <1>1, <2>1, <2>3 DEF RouteState
  <2>5. ASSUME NEW i \in Slot, i < s.index \/ i >= s.size \/ s.valid
        PROVE  Known(s, i)
    <3>1. CASE i = n - 1
      BY <1>1, <2>2, <2>4, <3>1 DEF Known
    <3>2. CASE i # n - 1
      <4>1. i < r.index \/ i >= r.size \/ r.valid
        BY <1>1, <2>1, <2>4, <2>5, <3>2 DEF Slot
      <4>. QED  BY <2>4, <3>2, <4>1, SameSlot
    <3>. QED  BY <3>1, <3>2
  <2>. QED  BY <2>1, <2>4, <2>5
<1>. QED  BY <1>1, <1>2, <1>3

(* The last sentence completes a route that starts at its first waypoint. *)
LEMMA Completed ==
  ASSUME NEW r \in RouteState, r.size = 0, ~r.valid, r.indexOriginCurrentLeg = 0,
         NEW t, NEW origin, NEW s \in Finalize(r, t, origin)
  PROVE  /\ s.indexOriginCurrentLeg = 0 /\ s.index = 0 /\ s.size = r.index
         /\ s.valid => r.equalToPrevious
         /\ s.names = r.names /\ s.positions = r.positions
<1>1. maxWpPerRoute \in Nat \ {0}
  BY RouteAssumption
<1>2. OriginCurrentLeg(r, origin) = {0}
  <2>1. {i \in Slot : i < r.size /\ r.names[i] = origin} = {}
    BY DEF Slot
  <2>2. maxWpPerRoute .. r.size - 1 = {}
    BY <1>1
  <2>. QED  BY <2>1, <2>2 DEF OriginCurrentLeg
<1>3. PICK o \in IF r.index # 1 /\ t = "c" THEN OriginCurrentLeg(r, origin) ELSE {0} :
        s = [r EXCEPT !.indexOriginCurrentLeg = o,
                      !.valid = @ \/ r.equalToPrevious,
                      !.size = r.index,
                      !.index = 0]
  BY DEF Finalize
<1>4. o = 0
  BY <1>2, <1>3
<1>. QED  BY <1>3, <1>4 DEF RouteState
-----------------------------------------------------------------------------
LEMMA FeedStarts == Reliable /\ FreshHeap /\ FeedInit => FeedInv
<1>. SUFFICES ASSUME Reliable, FreshHeap, FeedInit  PROVE FeedInv
  OBVIOUS
<1>1. FeedSound
  BY FeedSoundStarts
<1>2. phase = [kind |-> "rte", n |-> 1]
  BY DEF FeedInit, Reliable
<1>3. route.indexOriginCurrentLeg = 0 /\ ~route.valid /\ route.names \in [Slot -> HeapNames]
  BY DEF FeedInit, Init, NewRoute
<1>4. \A i \in Slot : Known(route, i)
  BY <1>3 DEF FreshHeap, Known
<1>. QED  BY <1>1, <1>2, <1>3, <1>4 DEF FeedInv, BeforeCycle

(* The route that the next RTE sentence finds: names up to the cursor, and *)
(* nothing wrong behind it.                                                *)
LEMMA FoundByRTE ==
  ASSUME FeedInv, phase.kind = "rte"
  PROVE  LET r == IF phase.n = 1 THEN Initialize(route) ELSE route
         IN  /\ r \in RouteState /\ ~r.valid /\ r.size = 0 /\ r.indexOriginCurrentLeg = 0
             /\ r.index = Kept((phase.n - 1) * PerSentence)
             /\ Named(r, plan, r.index)
             /\ \A i \in Slot : i >= r.index \/ r.equalToPrevious => Known(r, i)
<1>1. route \in RouteState /\ FeedTypeOK
  BY DEF FeedInv, FeedSound, FeedTypeOK, TypeOK
<1>2. phase.n \in Nat \ {0} /\ maxWpPerRoute \in Nat
  BY <1>1, PhaseFacts, RouteAssumption
<1>3. CASE phase.n = 1
  <2>. DEFINE r == Initialize(route)
  <2>1. r \in RouteState
    BY <1>1, InitializeSound
  <2>2. /\ ~r.valid /\ r.size = 0 /\ r.indexOriginCurrentLeg = 0 /\ r.index = 0
        /\ r.names = route.names /\ r.positions = route.positions
    BY <1>1 DEF Initialize, RouteState, FeedInv
  <2>3. (phase.n - 1) * PerSentence = 0 /\ Kept(0) = 0
    BY <1>2, <1>3, FeedAssumption DEF Kept
  <2>4. Named(r, plan, r.index)
    BY <2>2 DEF Named, Slot
  <2>5. \A i \in Slot : Known(r, i)
    BY <1>3, <2>2, SameSlot DEF FeedInv, BeforeCycle
  <2>. QED  BY <1>3, <2>1, <2>2, <2>3, <2>4, <2>5
<1>4. CASE phase.n > 1
  BY <1>1, <1>4 DEF FeedInv, WhileNaming
<1>. QED  BY <1>2, <1>3, <1>4

LEMMA SendRTEKeeps ==
  ASSUME FeedInv, Reliable, SendRTE
  PROVE  /\ route'.indexOriginCurrentLeg = 0
         /\ phase'.kind = "rte" => WhileNaming' /\ phase'.n > 1
         /\ phase'.kind = "wpl" => WhilePlacing'
<1>. DEFINE b == (phase.n - 1) * PerSentence
            e == IF phase.n = Total THEN Len(plan) ELSE phase.n * PerSentence
            r == IF phase.n = 1 THEN Initialize(route) ELSE route
            ws == NextRTE.wps
            s == AddWaypoints(r, ws)
<1>1. FeedTypeOK /\ phase.kind = "rte" /\ plan' = plan
  BY DEF FeedInv, FeedSound, SendRTE
<1>2. /\ phase.n \in 1 .. Total
      /\ phase.n < Total => phase' = [kind |-> "rte", n |-> phase.n + 1]
      /\ phase.n = Total => phase' = [kind |-> "wpl", n |-> 1]
  BY <1>1, SendRTEPhase
<1>3. /\ b \in Nat /\ e \in 1 .. Len(plan) /\ b <= e
      /\ ws \in Seq(Name) /\ Len(ws) = e - b
      /\ \A i \in 1 .. e - b : ws[i] = plan[b + i]
  BY <1>1, NextRTEFacts
<1>4. /\ r \in RouteState /\ ~r.valid /\ r.size = 0 /\ r.indexOriginCurrentLeg = 0
      /\ r.index = Kept(b) /\ Named(r, plan, r.index)
      /\ \A i \in Slot : i >= r.index \/ r.equalToPrevious => Known(r, i)
  BY <1>1, FoundByRTE
<1>5. plan \in Seq(Name) /\ Total \in Nat
  BY <1>1, PlanFacts
<1>6. HandleRTE(NextRTE) /\ Received(NextRTE) = s
  BY DEF Reliable, SendRTE, Lost, Received, NextRTE
<1>. HIDE DEF b, e, r, ws
<1>7. /\ s.index = Kept(e) /\ Named(s, plan, s.index)
      /\ \A i \in Slot : i >= s.index \/ i < r.index => s.names[i] = r.names[i]
      /\ s.equalToPrevious => r.equalToPrevious /\ s.names = r.names
      /\ s.positions = r.positions /\ s.size = 0 /\ ~s.valid
      /\ s.indexOriginCurrentLeg = 0
  <2>1. /\ s.index = Kept(e) /\ Named(s, plan, s.index)
        /\ \A i \in Slot : i >= s.index \/ i < r.index => s.names[i] = r.names[i]
        /\ s.equalToPrevious => r.equalToPrevious /\ s.names = r.names
        /\ s.positions = r.positions /\ s.size = r.size /\ s.valid = r.valid
        /\ s.indexOriginCurrentLeg = r.indexOriginCurrentLeg
    BY <1>3, <1>4, <1>5, AddPart
  <2>. HIDE DEF s
  <2>. QED  BY <1>4, <2>1
<1>8. \A i \in Slot : i >= s.index \/ s.equalToPrevious => Known(s, i)
  <2>1. s.index >= r.index /\ s.index \in Nat /\ r.index \in Nat
    BY <1>3, <1>4, <1>7, RouteAssumption DEF Kept
  <2>2. ASSUME NEW i \in Slot, i >= s.index  PROVE Known(s, i)
    <3>1. i >= r.index
      BY <2>1, <2>2 DEF Slot
    <3>. QED  BY <1>4, <1>7, <2>2, <3>1, SameSlot
  <2>3. ASSUME NEW i \in Slot, s.equalToPrevious  PROVE Known(s, i)
    BY <1>4, <1>7, <2>3, SameSlot
  <2>. QED  BY <2>2, <2>3
<1>9. CASE phase.n < Total
  <2>1. route' = s
    <3>1. NextRTE.currSentence = phase.n /\ NextRTE.nrOfsentences = Total
      BY DEF NextRTE
    <3>2. phase.n # Total
      BY <1>2, <1>5, <1>9
    <3>. HIDE DEF s
    <3>. QED  BY <1>6, <3>1, <3>2 DEF HandleRTE
  <2>2. phase'.kind = "rte" /\ phase'.n = phase.n + 1 /\ phase'.n > 1
    BY <1>2, <1>5, <1>9
  <2>3. e = (phase'.n - 1) * PerSentence
    BY <1>2, <1>5, <1>9, <2>2 DEF e
  <2>. HIDE DEF s
  <2>. QED
    BY <1>1, <1>7, <1>8, <2>1, <2>2, <2>3 DEF WhileNaming, Named, Known
<1>10. CASE phase.n = Total
  <2>1. route' \in Finalize(s, NextRTE.type, originID)
    BY <1>6, <1>10 DEF HandleRTE, NextRTE
  <2>2. s \in RouteState
    <3>1. route \in RouteState
      BY <1>1 DEF FeedTypeOK, TypeOK
    <3>2. Sound(r)
      BY <3>1, InitializeSound DEF FeedInv, FeedSound, r
    <3>. QED  BY <1>3, <1>4, <3>2, AddWaypointsSound
  <2>3. phase'.kind = "wpl" /\ phase'.n = 1
    BY <1>2, <1>10
  <2>4. e = Len(plan)
    BY <1>10 DEF e
  <2>. HIDE DEF s
  <2>5. /\ route'.indexOriginCurrentLeg = 0 /\ route'.index = 0 /\ route'.size = s.index
        /\ route'.valid => s.equalToPrevious
        /\ route'.names = s.names /\ route'.positions = s.positions
    BY <1>7, <2>1, <2>2, Completed
  <2>6. \A i \in Slot : i >= route'.size \/ route'.valid => Known(route', i)
    BY <1>8, <2>5, SameSlot
  <2>7. \A i \in Slot : ~(i < 0)
    BY DEF Slot
  <2>8. Kept(phase'.n - 1) = 0
    BY <2>3, RouteAssumption DEF Kept
  <2>9. Named(route', plan, route'.size)
    BY <1>7, <2>5 DEF Named
  <2>10. route'.size = Kept(Len(plan))
    BY <1>7, <2>4, <2>5
  <2>. QED
    BY <1>1, <2>3, <2>5, <2>6, <2>7, <2>8, <2>9, <2>10 DEF WhilePlacing, Named, Known
<1>. QED  BY <1>2, <1>5, <1>9, <1>10
LEMMA SendWPLKeeps ==
  ASSUME FeedInv, Reliable, SendWPL
  PROVE  /\ route'.indexOriginCurrentLeg = 0
         /\ phase'.kind = "wpl" => WhilePlacing'
         /\ phase'.kind = "rte" => BeforeCycle' /\ phase'.n = 1
         /\ route'.names = route.names /\ route'.size = route.size
         /\ route'.valid = route.valid
<1>. DEFINE n == phase.n
            s == AddCoordinates(route, plan[n], chart[plan[n]])
<1>1. FeedTypeOK /\ phase.kind = "wpl" /\ plan' = plan /\ WhilePlacing
  BY DEF FeedInv, FeedSound, SendWPL
<1>2. /\ n \in 1 .. Len(plan)
      /\ n < Len(plan) => phase' = [kind |-> "wpl", n |-> n + 1]
      /\ n = Len(plan) => phase' = [kind |-> "rte", n |-> 1]
  BY <1>1, SendWPLPhase
<1>3. plan \in Seq(Name) /\ Len(plan) \in Nat /\ route \in RouteState
  BY <1>1, PlanFacts DEF FeedTypeOK, TypeOK
<1>4. route' = s
  BY DEF Reliable, SendWPL, Lost, HandleWPL
<1>5. /\ route.size = Kept(Len(plan)) /\ route.index = Kept(n - 1)
      /\ Named(route, plan, route.size)
      /\ \A i \in Slot : i < route.index \/ i >= route.size \/ route.valid => Known(route, i)
  BY <1>1 DEF WhilePlacing
<1>. HIDE DEF n
<1>6. /\ s.index = Kept(n)
      /\ s.size = route.size /\ s.names = route.names /\ s.valid = route.valid
      /\ s.indexOriginCurrentLeg = route.indexOriginCurrentLeg
      /\ \A i \in Slot : i < s.index \/ i >= s.size \/ s.valid => Known(s, i)
  BY <1>2, <1>3, <1>5, PlaceNext
<1>. HIDE DEF s
<1>7. route'.indexOriginCurrentLeg = 0
  BY <1>4, <1>6 DEF FeedInv
<1>8. CASE n < Len(plan)
  <2>1. phase'.kind = "wpl" /\ phase'.n - 1 = n
    BY <1>2, <1>3, <1>8
  <2>. QED
    BY <1>1, <1>4, <1>5, <1>6, <1>7, <2>1 DEF WhilePlacing, Named, Known
<1>9. CASE n = Len(plan)
  <2>1. phase'.kind = "rte" /\ phase'.n = 1
    BY <1>2, <1>9
  <2>2. ASSUME NEW i \in Slot  PROVE Known(s, i)
    <3>1. i < s.index \/ i >= s.size
      BY <1>3, <1>5, <1>6, <1>9, RouteAssumption DEF Slot, Kept
    <3>. QED  BY <1>6, <3>1
  <2>3. ASSUME NEW i \in Slot, i < s.size
        PROVE  \E m \in Name : cut[m] = s.names[i]
    <3>1. s.names[i] = cut[plan[i + 1]]
      BY <1>5, <1>6, <2>3 DEF Named
    <3>2. i + 1 \in 1 .. Len(plan)
      BY <1>3, <1>5, <1>6, <2>3, RouteAssumption DEF Slot, Kept
    <3>3. plan[i + 1] \in Name
      BY <1>1, <3>2, PlanFacts
    <3>. QED  BY <3>1, <3>3
  <2>. QED
    BY <1>4, <1>6, <1>7, <2>1, <2>2, <2>3 DEF BeforeCycle, Known
<1>. QED  BY <1>2, <1>3, <1>8, <1>9

LEMMA FeedKeeps == Reliable /\ FeedInv /\ [FeedNext]_feedVars => FeedInv'
<1>. SUFFICES ASSUME Reliable, FeedInv, [FeedNext]_feedVars  PROVE FeedInv'
  OBVIOUS
<1>1. FeedSound' /\ FeedTypeOK
  BY FeedSoundKeeps DEF FeedInv, FeedSound
<1>2. ASSUME UNCHANGED << route, plan, phase >>  PROVE FeedInv'
  BY <1>1, <1>2
     DEF FeedInv, BeforeCycle, WhileNaming, WhilePlacing, Known, Named
<1>3. CASE SendRTE
  <2>1. phase'.kind = "rte" => phase'.n # 1
    BY <1>1, <1>3, SendRTEPhase, SendRTEKeeps
  <2>. QED  BY <1>1, <1>3, <2>1, SendRTEKeeps DEF FeedInv
<1>4. CASE SendWPL
  <2>1. phase'.kind = "rte" => ~(phase'.n > 1)
    BY <1>4, SendWPLKeeps
  <2>. QED  BY <1>1, <1>4, <2>1, SendWPLKeeps DEF FeedInv
<1>5. CASE SendBOD
  BY <1>2, <1>5 DEF SendBOD, HandleBOD
<1>6. CASE ActivateRoute
  <2>1. /\ phase = [kind |-> "rte", n |-> 1] /\ phase' = phase /\ route' = route
    BY <1>6 DEF ActivateRoute
  <2>2. BeforeCycle
    BY <2>1 DEF FeedInv
  <2>3. BeforeCycle'
    BY <2>1, <2>2 DEF BeforeCycle, Known
  <2>. QED  BY <1>1, <2>1, <2>3 DEF FeedInv
<1>7. CASE CalmDown
  BY <1>2, <1>7 DEF CalmDown
<1>8. CASE UNCHANGED feedVars
  BY <1>2, <1>8 DEF feedVars
<1>. QED  BY <1>3, <1>4, <1>5, <1>6, <1>7, <1>8 DEF FeedNext
-----------------------------------------------------------------------------
(* What the theorems need of the specification, without its fairness.      *)
FeedSafety == FeedInit /\ [][FeedNext]_feedVars

LEMMA FeedIsSafe == FeedSpec => FeedSafety
BY PTL DEF FeedSpec, FeedSafety

(* A display behind the gateway sends nothing back, so that what holds     *)
(* without it holds with it.                                               *)
LEMMA DisplayIsFed == DisplaySpec => FeedSafety
<1>1. DisplayInit => FeedInit
  BY DEF DisplayInit
<1>2. [DisplayNext]_displayVars => [FeedNext]_feedVars
  BY DEF DisplayNext, displayVars, Transmit, SendRMB
<1>. QED  BY <1>1, <1>2, PTL DEF DisplaySpec, FeedSafety

(* Types, on any line and wherever in its cycle the plotter is at first:   *)
(* the plotter sends what a RTE sentence can carry.                        *)
THEOREM FeedTypes == FeedSafety => []FeedTypeOK
<1>1. FeedSound => FeedTypeOK
  BY DEF FeedSound
<1>. QED  BY <1>1, FeedSoundStarts, FeedSoundKeeps, PTL DEF FeedSafety

THEOREM FeedInvariant == Reliable /\ FreshHeap => (FeedSafety => []FeedInv)
<1>. SUFFICES ASSUME Reliable, FreshHeap  PROVE FeedSafety => []FeedInv
  OBVIOUS
<1>1. FeedInit => FeedInv
  BY FeedStarts
<1>2. FeedInv /\ [FeedNext]_feedVars => FeedInv'
  BY FeedKeeps
<1>. QED  BY <1>1, <1>2, PTL DEF FeedSafety

(* No waypoint is ever announced with the position of another, or with     *)
(* none (Route.cpp:55-84), whatever routes follow each other.              *)
THEOREM PositionsReceived ==
  Reliable /\ FreshHeap => (FeedSafety => []CoordinatesReceived)
<1>. SUFFICES ASSUME Reliable, FreshHeap  PROVE FeedSafety => []CoordinatesReceived
  OBVIOUS
<1>1. FeedInv => CoordinatesReceived
  <2>. SUFFICES ASSUME FeedInv, route.valid, NEW i \in AnnouncedSlots(route)
                PROVE  \E n \in Name : cut[n] = route.names[i] /\ chart[n] = route.positions[i]
    BY DEF CoordinatesReceived
  <2>1. /\ FeedTypeOK /\ route \in RouteState /\ NamesReceived(route)
        /\ route.indexOriginCurrentLeg = 0
    BY DEF FeedInv, FeedSound, FeedTypeOK, TypeOK, Sound
  <2>2. /\ route.size \in Nat /\ route.size <= maxWpPerRoute
        /\ maxWpPerRoute \in Nat \ {0}
    BY <2>1, RouteAssumption DEF RouteState, Byte, NamesReceived
  <2>3. i \in Slot /\ i < route.size
    BY <2>1, <2>2 DEF AnnouncedSlots, Slot
  <2>4. phase.kind \in {"rte", "wpl"} /\ phase.n \in Nat \ {0}
    BY <2>1, PhaseFacts
  <2>5. CASE phase.kind = "rte"
    <3>1. phase.n = 1
      BY <2>4, <2>5 DEF FeedInv, WhileNaming
    <3>. QED  BY <2>3, <2>5, <3>1 DEF FeedInv, BeforeCycle, Known
  <2>6. CASE phase.kind = "wpl"
    <3>1. Known(route, i) /\ route.names[i] = cut[plan[i + 1]] /\ route.size <= Len(plan)
      BY <2>1, <2>2, <2>3, <2>6, PlanFacts DEF FeedInv, WhilePlacing, Named, Kept
    <3>2. i + 1 \in 1 .. Len(plan)
      BY <2>1, <2>2, <2>3, <3>1, PlanFacts DEF Slot
    <3>. QED  BY <2>1, <3>1, <3>2, PlanFacts DEF Known
  <2>. QED  BY <2>4, <2>5, <2>6
<1>. QED  BY <1>1, FeedInvariant, PTL

(* While the sentences of a route come in, none is announced (Route.h:63), *)
(* also when the gateway is switched on in mid-cycle.                      *)
THEOREM NoneWhileReceiving == ~Lossy => (FeedSafety => []InvalidWhileReceiving)
<1>. SUFFICES ASSUME ~Lossy  PROVE FeedSafety => []InvalidWhileReceiving
  OBVIOUS
<1>1. FeedInit => InvalidWhileReceiving
  BY DEF FeedInit, Init, NewRoute, InvalidWhileReceiving
<1>2. FeedSound /\ InvalidWhileReceiving /\ [FeedNext]_feedVars => InvalidWhileReceiving'
  <2>. SUFFICES ASSUME FeedSound, InvalidWhileReceiving, [FeedNext]_feedVars,
                       phase'.kind = "rte", phase'.n > 1
                PROVE  ~route'.valid
    BY DEF InvalidWhileReceiving
  <2>1. FeedTypeOK /\ route \in RouteState
    BY DEF FeedSound, FeedTypeOK, TypeOK
  <2>2. CASE SendRTE
    <3>1. /\ phase.n \in 1 .. Total /\ phase.n # Total /\ Total \in Nat
          /\ phase.kind = "rte"
      BY <2>1, <2>2, SendRTEPhase, PlanFacts
    <3>2. HandleRTE(NextRTE)
      BY <2>2 DEF SendRTE, Lost
    <3>3. route' = AddWaypoints(IF phase.n = 1 THEN Initialize(route) ELSE route, NextRTE.wps)
      BY <3>1, <3>2 DEF HandleRTE, Received, NextRTE
    <3>4. \A r \in RouteState : \A ws : AddWaypoints(r, ws).valid = r.valid
      BY DEF AddWaypoints, RouteState
    <3>5. CASE phase.n = 1
      <4>1. Initialize(route) \in RouteState /\ ~Initialize(route).valid
        BY <2>1, InitializeSound DEF Initialize, RouteState
      <4>. QED  BY <3>3, <3>4, <3>5, <4>1
    <3>6. CASE phase.n # 1
      BY <2>1, <3>1, <3>3, <3>4, <3>6 DEF InvalidWhileReceiving
    <3>. QED  BY <3>5, <3>6
  <2>3. CASE SendWPL
    <3>1. phase' \in {[kind |-> "wpl", n |-> phase.n + 1], [kind |-> "rte", n |-> 1]}
      <4>1. phase.n \in 1 .. Len(plan) /\ Len(plan) \in Nat
        BY <2>1, <2>3, SendWPLPhase, PlanFacts
      <4>. QED  BY <2>1, <2>3, <4>1, SendWPLPhase
    <3>. QED  BY <3>1
  <2>4. CASE SendBOD \/ ActivateRoute \/ CalmDown \/ UNCHANGED feedVars
    BY <2>4 DEF SendBOD, HandleBOD, ActivateRoute, CalmDown, feedVars, InvalidWhileReceiving
  <2>. QED  BY <2>2, <2>3, <2>4 DEF FeedNext
<1>. QED  BY <1>1, <1>2, FeedSoundStarts, FeedSoundKeeps, PTL DEF FeedSafety

-----------------------------------------------------------------------------
(* Names that are cut to the same one are of the same place. *)
SamePlace == \A m, n \in Name : cut[m] = cut[n] => chart[m] = chart[n]

LEMMA PlanSeq ==
  ASSUME NEW p \in Seq(Name)
  PROVE  LET w == PlanWaypoints(p)
         IN  /\ Len(w) = Kept(Len(p)) /\ Len(w) \in Nat
             /\ w = SubSeq(w, 1, Len(w))
<1>. DEFINE w == PlanWaypoints(p)
            S == {w[k] : k \in 1 .. Kept(Len(p))}
<1>1. Kept(Len(p)) \in Nat
  BY RouteAssumption DEF Kept
<1>2. w = [k \in 1 .. Kept(Len(p)) |-> [name |-> cut[p[k]], position |-> chart[p[k]]]]
  BY DEF PlanWaypoints, Kept
<1>3. w \in [1 .. Kept(Len(p)) -> S]
  <2>1. DOMAIN w = 1 .. Kept(Len(p))
    BY <1>2
  <2>. QED  BY <1>2, <2>1
<1>. HIDE DEF w, S
<1>4. w \in Seq(S) /\ Len(w) = Kept(Len(p))
  BY <1>1, <1>3
<1>5. w = SubSeq(w, 1, Len(w))
  BY <1>4, SubSeqFull
<1>. QED  BY <1>1, <1>4, <1>5 DEF w

(* A valid route with all its names and positions is announced whole. *)
LEMMA WholeRoute ==
  ASSUME SamePlace, NEW p \in Seq(Name), NEW r \in RouteState,
         r.indexOriginCurrentLeg = 0, r.size = Kept(Len(p)), Named(r, p, r.size),
         \A i \in Slot : Known(r, i)
  PROVE  Announcement(r) = PlanWaypoints(p)
<1>1. /\ maxWpPerRoute \in Nat \ {0} /\ Len(p) \in Nat /\ r.size \in Nat
      /\ r.size <= Len(p) /\ r.size <= maxWpPerRoute
      /\ \A k \in 1 .. Len(p) : p[k] \in Name
  BY RouteAssumption DEF Kept
<1>2. ASSUME NEW k \in 1 .. r.size
      PROVE  Waypoint(r, k - 1) = [name |-> cut[p[k]], position |-> chart[p[k]]]
  <2>1. k - 1 \in Slot /\ k - 1 < r.size /\ k - 1 + 1 = k /\ p[k] \in Name
    BY <1>1 DEF Slot
  <2>2. r.names[k - 1] = cut[p[k]]
    <3>1. r.names[k - 1] = cut[p[k - 1 + 1]]
      BY <2>1 DEF Named
    <3>. QED  BY <2>1, <3>1
  <2>3. r.positions[k - 1] = chart[p[k]]
    <3>1. PICK n \in Name : cut[n] = r.names[k - 1] /\ chart[n] = r.positions[k - 1]
      BY <2>1, <2>2 DEF Known
    <3>. QED  BY <2>1, <2>2, <3>1 DEF SamePlace
  <2>. QED  BY <2>2, <2>3 DEF Waypoint
<1>3. PlanWaypoints(p) = [k \in 1 .. r.size |-> Waypoint(r, k - 1)]
  BY <1>2 DEF PlanWaypoints, Kept
<1>4. CASE r.size = 1
  <2>1. Announcement(r) = << Waypoint(r, 0) >>
    BY <1>4 DEF Announcement
  <2>2. [k \in 1 .. 1 |-> Waypoint(r, k - 1)] = << Waypoint(r, 0) >>
    OBVIOUS
  <2>. QED  BY <1>3, <1>4, <2>1, <2>2
<1>5. CASE r.size # 1
  <2>1. Announcement(r) = [k \in 1 .. r.size - 0 |-> Waypoint(r, 0 + k - 1)]
    BY <1>5 DEF Announcement
  <2>2. r.size - 0 = r.size /\ \A k \in 1 .. r.size : 0 + k - 1 = k - 1
    BY <1>1
  <2>. QED  BY <1>3, <2>1, <2>2
<1>. QED  BY <1>4, <1>5
(* What RouteService sees of a step that makes the gateway announce the    *)
(* plan, or nothing.                                                       *)
LEMMA ServiceStep ==
  ASSUME plan \in Seq(Name), plan' = plan,
         ~route'.valid \/ Announcement(route') = PlanWaypoints(plan)
  PROVE  Service!Next
<1>1. CASE ~route'.valid
  BY <1>1 DEF Service!Next, Service!Withdraw
<1>2. CASE route'.valid /\ Announcement(route') = PlanWaypoints(plan)
  <2>. DEFINE w == PlanWaypoints(plan)
  <2>1. Len(w) \in Nat /\ w = SubSeq(w, 1, Len(w))
    BY PlanSeq
  <2>2. (IF route.valid THEN Announcement(route) ELSE NotAnnounced)' = w
    BY <1>2 DEF Announcement, Waypoint
  <2>. HIDE DEF w
  <2>3. 1 \in 1 .. Len(w) + 1
    BY <2>1
  <2>4. Service!Announce
    BY <2>1, <2>2, <2>3 DEF Service!Announce, w
  <2>. QED  BY <2>4 DEF Service!Next
<1>. QED  BY <1>1, <1>2

(* The gateway implements RouteService, the routes it announces being      *)
(* whole ones: no other waypoint ever becomes the first, since the scan    *)
(* for the origin of the leg finds no slots (Route.cpp:57-62).             *)
THEOREM FeedImplementsService ==
  Reliable /\ FreshHeap /\ SamePlace => (FeedSafety => ImplementsService)
<1>. SUFFICES ASSUME Reliable, FreshHeap, SamePlace  PROVE FeedSafety => ImplementsService
  OBVIOUS
<1>1. FeedInit => Service!Init
  BY DEF FeedInit, Init, NewRoute, Service!Init
<1>2. FeedInv /\ FeedInv' /\ [FeedNext]_feedVars => [Service!Next]_Service!serviceVars
  <2>. SUFFICES ASSUME FeedInv, FeedInv', [FeedNext]_feedVars
                PROVE  [Service!Next]_Service!serviceVars
    OBVIOUS
  <2>1. FeedTypeOK /\ plan \in Seq(Name) /\ plan \in Plans
    BY PlanFacts DEF FeedInv, FeedSound, FeedTypeOK
  <2>2. ASSUME route' = route, plan' = plan
        PROVE  UNCHANGED Service!serviceVars
    BY <2>2 DEF Service!serviceVars, Announcement, Waypoint
  <2>3. CASE SendRTE
    <3>1. plan' = plan /\ phase'.kind \in {"rte", "wpl"}
      BY <2>1, <2>3, SendRTEPhase DEF SendRTE, Phases
    <3>2. phase'.kind = "rte" => ~route'.valid
      BY <2>3, SendRTEKeeps DEF WhileNaming
    <3>3. phase'.kind = "wpl" /\ route'.valid => Announcement(route') = PlanWaypoints(plan)
      <4>1. plan' \in Seq(Name) /\ route' \in RouteState /\ route'.indexOriginCurrentLeg = 0
        BY <2>1, <3>1 DEF FeedInv, FeedSound, FeedTypeOK, TypeOK
      <4>2. ASSUME phase'.kind = "wpl", route'.valid
            PROVE  /\ route'.size = Kept(Len(plan)) /\ Named(route', plan, route'.size)
                   /\ \A i \in Slot : Known(route', i)
        BY <3>1, <4>2 DEF FeedInv, WhilePlacing, Named, Known
      <4>. QED  BY <2>1, <4>1, <4>2, WholeRoute
    <3>4. Service!Next
      BY <2>1, <3>1, <3>2, <3>3, ServiceStep
    <3>. QED  BY <3>4
  <2>4. CASE SendWPL
    <3>1. plan' = plan /\ phase.kind = "wpl"
      BY <2>4 DEF SendWPL
    <3>2. /\ route'.names = route.names /\ route'.size = route.size
          /\ route'.valid = route.valid /\ phase'.kind \in {"rte", "wpl"}
      BY <2>1, <2>4, SendWPLKeeps, SendWPLPhase DEF Phases
    <3>3. ASSUME route'.valid
          PROVE  Announcement(route') = PlanWaypoints(plan)
      <4>1. route' \in RouteState /\ route'.indexOriginCurrentLeg = 0
        BY DEF FeedInv, FeedSound, FeedTypeOK, TypeOK
      <4>2. route'.size = Kept(Len(plan)) /\ Named(route', plan, route'.size)
        BY <3>1, <3>2 DEF FeedInv, WhilePlacing, Named
      <4>3. \A i \in Slot : Known(route', i)
        <5>1. CASE phase'.kind = "rte"
          BY <2>4, <5>1, SendWPLKeeps DEF BeforeCycle, Known
        <5>2. CASE phase'.kind = "wpl"
          BY <2>4, <3>3, <5>2, SendWPLKeeps DEF WhilePlacing, Known
        <5>. QED  BY <3>2, <5>1, <5>2
      <4>. QED  BY <2>1, <4>1, <4>2, <4>3, WholeRoute
    <3>4. Service!Next
      BY <2>1, <3>1, <3>3, ServiceStep
    <3>. QED  BY <3>4
  <2>5. CASE SendBOD
    BY <2>2, <2>5 DEF SendBOD, HandleBOD
  <2>6. CASE ActivateRoute
    <3>1. plan' \in Plans /\ route' = route
      BY <2>6 DEF ActivateRoute
    <3>2. UNCHANGED (IF route.valid THEN Announcement(route) ELSE NotAnnounced)
      BY <3>1 DEF Announcement, Waypoint
    <3>3. Service!ChangePlan
      BY <3>1, <3>2 DEF Service!ChangePlan
    <3>. QED  BY <3>3 DEF Service!Next
  <2>7. CASE CalmDown
    BY <2>2, <2>7 DEF CalmDown
  <2>8. CASE UNCHANGED feedVars
    BY <2>2, <2>8 DEF feedVars
  <2>. QED  BY <2>3, <2>4, <2>5, <2>6, <2>7, <2>8 DEF FeedNext
<1>. QED
  BY <1>1, <1>2, FeedInvariant, PTL DEF FeedSafety, ImplementsService, Service!Spec

-----------------------------------------------------------------------------
(* The loop of HandleRTE takes the waypoints of a sentence one by one: the *)
(* closed form AddWaypoints for the first k of them is what it makes of    *)
(* the route in k passes.                                                  *)
LoopSteps(r, ws, after) ==
  after = [k \in 0 .. Len(ws) |-> IF k = 0 THEN r ELSE AddWaypoint(after[k - 1], ws[k])]

LEMMA LoopDef ==
  ASSUME NEW r, NEW ws, Len(ws) \in Nat
  PROVE  \E after : LoopSteps(r, ws, after) /\ Looped(r, ws) = after[Len(ws)]
<1>. DEFINE Good(n, g) ==
              g = [k \in 0 .. n |-> IF k = 0 THEN r ELSE AddWaypoint(g[k - 1], ws[k])]
            Bad == {n \in Nat : ~ \E g : Good(n, g)}
<1>1. Bad = {}
  <2>. SUFFICES ASSUME Bad # {}  PROVE FALSE
    OBVIOUS
  <2>1. Good(0, [k \in 0 .. 0 |-> r])
    OBVIOUS
  <2>2. 0 \notin Bad
    BY <2>1
  <2>3. PICK n \in Bad : n \in Nat /\ n # 0 /\ n - 1 \in Nat /\ n - 1 \notin Bad
    BY <2>2, FirstFailure
  <2>4. PICK g : Good(n - 1, g)
    BY <2>3
  <2>5. Good(n, [k \in 0 .. n |-> IF k = n THEN AddWaypoint(g[n - 1], ws[n]) ELSE g[k]])
    BY <2>3, <2>4
  <2>. QED  BY <2>3, <2>5
<1>2. \E g : Good(Len(ws), g)
  BY <1>1
<1>. DEFINE f == CHOOSE g : Good(Len(ws), g)
<1>3. Good(Len(ws), f)
  BY <1>2
<1>4. Looped(r, ws) = f[Len(ws)]
  BY DEF Looped
<1>. HIDE DEF f
<1>. QED  BY <1>3, <1>4 DEF LoopSteps

(* What the names, the cursor and the flag are after k passes.             *)
TakenOf(r, k) ==
  IF r.index >= maxWpPerRoute THEN 0
  ELSE IF k <= maxWpPerRoute - r.index THEN k ELSE maxWpPerRoute - r.index

NamesOf(r, ws, k) ==
  [i \in Slot |-> IF i \in r.index .. r.index + TakenOf(r, k) - 1
                  THEN cut[ws[i - r.index + 1]] ELSE r.names[i]]

AddFirst(r, ws, k) ==
  [r EXCEPT !.names = NamesOf(r, ws, k),
            !.equalToPrevious = @ /\ NamesOf(r, ws, k) = r.names,
            !.index = @ + TakenOf(r, k)]

LEMMA AddNone ==
  ASSUME NEW r \in RouteState, NEW ws
  PROVE  AddFirst(r, ws, 0) = r
<1>1. r.index \in Nat /\ maxWpPerRoute \in Nat
  BY RouteAssumption DEF RouteState, Byte
<1>2. TakenOf(r, 0) = 0
  BY <1>1 DEF TakenOf
<1>3. NamesOf(r, ws, 0) = r.names
  <2>1. \A i \in Slot : i \notin r.index .. r.index + 0 - 1
    BY <1>1
  <2>2. r.names = [i \in Slot |-> r.names[i]]
    BY DEF RouteState
  <2>. QED  BY <1>2, <2>1, <2>2 DEF NamesOf
<1>4. r.index + 0 = r.index
  BY <1>1
<1>5. AddFirst(r, ws, 0) = [r EXCEPT !.names = r.names,
                                     !.equalToPrevious = @ /\ r.names = r.names,
                                     !.index = r.index]
  BY <1>2, <1>3, <1>4 DEF AddFirst
<1>. QED  BY <1>5 DEF RouteState

LEMMA AddOneMore ==
  ASSUME NEW r \in RouteState, NEW ws, NEW k \in Nat
  PROVE  AddFirst(r, ws, k + 1) = AddWaypoint(AddFirst(r, ws, k), ws[k + 1])
<1>. DEFINE s == AddFirst(r, ws, k)
            names == NamesOf(r, ws, k)
            more == NamesOf(r, ws, k + 1)
            j == r.index + k
<1>1. r.index \in Nat /\ maxWpPerRoute \in Nat /\ r.equalToPrevious \in BOOLEAN
  BY RouteAssumption DEF RouteState, Byte
<1>2. /\ s.names = names /\ s.index = r.index + TakenOf(r, k)
      /\ s.equalToPrevious = (r.equalToPrevious /\ names = r.names)
      /\ s = [r EXCEPT !.names = names,
                       !.equalToPrevious = s.equalToPrevious, !.index = s.index]
  BY DEF AddFirst, RouteState
<1>3. AddFirst(r, ws, k + 1) =
        [r EXCEPT !.names = more,
                  !.equalToPrevious = r.equalToPrevious /\ more = r.names,
                  !.index = r.index + TakenOf(r, k + 1)]
  BY DEF AddFirst, RouteState
<1>4. CASE r.index + k >= maxWpPerRoute
  <2>1. TakenOf(r, k + 1) = TakenOf(r, k) /\ r.index + TakenOf(r, k) >= maxWpPerRoute
    BY <1>1, <1>4 DEF TakenOf
  <2>2. more = names
    BY <2>1 DEF NamesOf
  <2>3. AddFirst(r, ws, k + 1) = s
    BY <2>1, <2>2 DEF AddFirst
  <2>. HIDE DEF s, names, more
  <2>4. AddWaypoint(s, ws[k + 1]) = s
    BY <1>2, <2>1 DEF AddWaypoint
  <2>. QED  BY <2>3, <2>4 DEF s
<1>5. CASE r.index + k < maxWpPerRoute
  <2>1. TakenOf(r, k) = k /\ TakenOf(r, k + 1) = k + 1 /\ j \in Slot /\ j \in Nat
    BY <1>1, <1>5 DEF TakenOf, Slot
  <2>2. /\ \A i \in Slot : names[i] = IF i \in r.index .. j - 1
                                      THEN cut[ws[i - r.index + 1]] ELSE r.names[i]
        /\ \A i \in Slot : more[i] = IF i \in r.index .. j
                                     THEN cut[ws[i - r.index + 1]] ELSE r.names[i]
        /\ names = [i \in Slot |-> names[i]] /\ more = [i \in Slot |-> more[i]]
    <3>1. r.index + (k + 1) - 1 = j /\ r.index + k - 1 = j - 1
      BY <1>1
    <3>. QED  BY <2>1, <3>1 DEF NamesOf
  <2>. HIDE DEF names, more
  <2>3. j - r.index + 1 = k + 1
    BY <1>1
  <2>4. more[j] = cut[ws[k + 1]] /\ names[j] = r.names[j]
    BY <1>1, <2>1, <2>2, <2>3
  <2>5. \A i \in Slot : i # j => more[i] = names[i]
    <3>1. \A i \in Slot : i # j => (i \in r.index .. j <=> i \in r.index .. j - 1)
      BY <1>1, <2>1 DEF Slot
    <3>. QED  BY <2>2, <3>1
  <2>6. more = [names EXCEPT ![j] = cut[ws[k + 1]]]
    BY <2>1, <2>2, <2>4, <2>5
  <2>7. more = r.names <=> names = r.names /\ names[j] = cut[ws[k + 1]]
    <3>1. r.names = [i \in Slot |-> r.names[i]]
      BY DEF RouteState
    <3>2. ASSUME more = r.names  PROVE names = r.names /\ names[j] = cut[ws[k + 1]]
      <4>1. \A i \in Slot : names[i] = r.names[i]
        BY <2>4, <2>5, <3>2
      <4>. QED  BY <2>2, <2>4, <3>1, <3>2, <4>1
    <3>3. ASSUME names = r.names, names[j] = cut[ws[k + 1]]  PROVE more = r.names
      <4>1. \A i \in Slot : more[i] = r.names[i]
        BY <2>4, <2>5, <3>3
      <4>. QED  BY <2>2, <3>1, <4>1
    <3>. QED  BY <3>2, <3>3
  <2>8. s.index = j /\ ~ (s.index >= maxWpPerRoute)
    BY <1>1, <1>2, <1>5, <2>1
  <2>9. AddWaypoint(s, ws[k + 1]) =
          [s EXCEPT !.names[j] = cut[ws[k + 1]],
                    !.equalToPrevious = (r.equalToPrevious /\ more = r.names),
                    !.index = j + 1]
    <3>. HIDE DEF s, j
    <3>1. (s.equalToPrevious /\ s.names[j] = cut[ws[k + 1]])
            = (r.equalToPrevious /\ more = r.names)
      BY <1>2, <2>7
    <3>. QED  BY <2>8, <3>1 DEF AddWaypoint
  <2>10. AddFirst(r, ws, k + 1) =
           [r EXCEPT !.names = more,
                     !.equalToPrevious = (r.equalToPrevious /\ more = r.names),
                     !.index = j + 1]
    <3>1. r.index + (k + 1) = j + 1
      BY <1>1
    <3>. HIDE DEF j
    <3>. QED  BY <1>3, <2>1, <3>1
  <2>. HIDE DEF s, j
  <2>11. [s EXCEPT !.names[j] = cut[ws[k + 1]],
                   !.equalToPrevious = (r.equalToPrevious /\ more = r.names),
                   !.index = j + 1]
         = [r EXCEPT !.names = more,
                     !.equalToPrevious = (r.equalToPrevious /\ more = r.names),
                     !.index = j + 1]
    BY <1>2, <2>6 DEF RouteState
  <2>. QED  BY <2>9, <2>10, <2>11 DEF s
<1>. QED  BY <1>1, <1>4, <1>5

LEMMA LoopIsClosedForm ==
  ASSUME NEW r \in RouteState, NEW ws \in Seq(Name)
  PROVE  AddWaypoints(r, ws) = Looped(r, ws)
<1>. DEFINE L == Len(ws)
<1>1. L \in Nat
  OBVIOUS
<1>2. PICK after : LoopSteps(r, ws, after) /\ Looped(r, ws) = after[L]
  BY <1>1, LoopDef
<1>3. /\ after[0] = r
      /\ \A k \in 1 .. L : after[k] = AddWaypoint(after[k - 1], ws[k])
  BY <1>1, <1>2 DEF LoopSteps
<1>. DEFINE Bad == {k \in Nat : k <= L /\ after[k] # AddFirst(r, ws, k)}
<1>4. Bad = {}
  <2>. SUFFICES ASSUME Bad # {}  PROVE FALSE
    OBVIOUS
  <2>1. 0 \notin Bad
    BY <1>3, AddNone
  <2>2. PICK k \in Bad : k \in Nat /\ k # 0 /\ k - 1 \in Nat /\ k - 1 \notin Bad
    BY <2>1, FirstFailure
  <2>3. k \in 1 .. L /\ k - 1 <= L /\ (k - 1) + 1 = k
    BY <1>1, <2>2
  <2>4. after[k - 1] = AddFirst(r, ws, k - 1)
    BY <2>2, <2>3
  <2>5. AddFirst(r, ws, (k - 1) + 1) = AddWaypoint(AddFirst(r, ws, k - 1), ws[(k - 1) + 1])
    BY <2>2, AddOneMore
  <2>. QED  BY <1>3, <2>2, <2>3, <2>4, <2>5
<1>5. after[L] = AddFirst(r, ws, L)
  BY <1>1, <1>4
<1>6. AddFirst(r, ws, L) = AddWaypoints(r, ws)
  <2>1. TakenOf(r, L) = Taken(r, ws)
    BY DEF TakenOf, Taken
  <2>2. NamesOf(r, ws, L) = NamesAfter(r, ws)
    BY <2>1 DEF NamesOf, NamesAfter
  <2>. QED  BY <2>1, <2>2 DEF AddFirst, AddWaypoints
<1>. QED  BY <1>2, <1>5, <1>6

(* The closed form is what the loop of HandleRTE computes, for sentences   *)
(* with any number of names.                                               *)
THEOREM LoopAlwaysAgrees == Spec => []LoopAgrees
<1>1. IInv => LoopAgrees
  <2>. SUFFICES ASSUME IInv, NEW ws \in Batch
                PROVE  /\ AddWaypoints(route, ws) = Looped(route, ws)
                       /\ AddWaypoints(Initialize(route), ws) = Looped(Initialize(route), ws)
    BY DEF LoopAgrees
  <2>1. route \in RouteState /\ Initialize(route) \in RouteState /\ ws \in Seq(Name)
    BY InitializeSound, ReceiverAssumption DEF IInv, TypeOK
  <2>. QED  BY <2>1, LoopIsClosedForm
<1>. QED  BY <1>1, InitIInv, NextIInv, PTL DEF Spec

-----------------------------------------------------------------------------
(* What the display has after each message. *)
LEMMA AssembledDef ==
  ASSUME NEW list, NEW ms, Len(ms) \in Nat
  PROVE  /\ Assembled(list, ms)[0] = list
         /\ \A j \in 1 .. Len(ms) :
              Assembled(list, ms)[j] = Assemble(Assembled(list, ms)[j - 1], ms[j])
<1>. DEFINE Good(n, g) ==
              g = [k \in 0 .. n |-> IF k = 0 THEN list ELSE Assemble(g[k - 1], ms[k])]
            Bad == {n \in Nat : ~ \E g : Good(n, g)}
            A == Assembled(list, ms)
<1>1. Bad = {}
  <2>. SUFFICES ASSUME Bad # {}  PROVE FALSE
    OBVIOUS
  <2>1. Good(0, [k \in 0 .. 0 |-> list])
    OBVIOUS
  <2>2. 0 \notin Bad
    BY <2>1
  <2>3. PICK n \in Bad : n \in Nat /\ n # 0 /\ n - 1 \in Nat /\ n - 1 \notin Bad
    BY <2>2, FirstFailure
  <2>4. PICK g : Good(n - 1, g)
    BY <2>3
  <2>5. Good(n, [k \in 0 .. n |-> IF k = n THEN Assemble(g[n - 1], ms[n]) ELSE g[k]])
    BY <2>3, <2>4
  <2>. QED  BY <2>3, <2>5
<1>2. \E g : Good(Len(ms), g)
  BY <1>1
<1>3. A = [k \in 0 .. Len(ms) |-> IF k = 0 THEN list ELSE Assemble(A[k - 1], ms[k])]
  BY <1>2 DEF Assembled
<1>. HIDE DEF A
<1>4. A[0] = list /\ \A j \in 1 .. Len(ms) : A[j] = Assemble(A[j - 1], ms[j])
  BY <1>3
<1>. QED  BY <1>4 DEF A

(* The messages that a route from its first waypoint on is spread over     *)
(* leave its entries on the display, and nothing of what it had before.    *)
LEMMA SpreadIsShown ==
  ASSUME NEW r, Announceable(r), r.origin = 0, NEW ms, Spread(r, ms, Count(r)),
         NEW list, Len(list) \in Nat, SubSeq(list, 1, 0) = << >>
  PROVE  Displayed(list, ms) = [q \in 1 .. Count(r) |-> Entry(q - 1)]
<1>. DEFINE L == Len(ms)
            N == Count(r)
            A == Assembled(list, ms)
            e == [i \in 0 .. N |-> Entry(i)]
            Part(b) == [q \in 1 .. b |-> e[q - 1]]
<1>1. L \in Nat /\ L >= 1 /\ N \in Nat /\ ms[1].start = 0
  BY SlotsFacts DEF Spread
<1>2. A[0] = list /\ \A j \in 1 .. L : A[j] = Assemble(A[j - 1], ms[j])
  BY <1>1, AssembledDef
<1>. HIDE DEF A
<1>3. ASSUME NEW b \in 0 .. N  PROVE Len(Part(b)) = b /\ SubSeq(Part(b), 1, b) = Part(b)
  <2>. DEFINE S == {e[q - 1] : q \in 1 .. b}
  <2>1. b \in Nat /\ \A q \in 1 .. b : e[q - 1] \in S
    BY <1>1
  <2>. HIDE DEF S, e
  <2>2. Part(b) \in Seq(S) /\ Len(Part(b)) = b
    BY <2>1
  <2>. QED  BY <2>2, SubSeqFull
<1>4. ASSUME NEW j \in 1 .. L,
             IF j = 1 THEN A[j - 1] = list ELSE A[j - 1] = Part(ms[j].start)
      PROVE  A[j] = Part(End(ms, N, j))
  <2>. DEFINE a == ms[j].start
              b == End(ms, N, j)
              slots == ms[j].slots
  <2>1. Holds(r, ms, N, j)
    BY DEF Spread
  <2>2. a \in 0 .. N /\ b \in a .. N /\ a \in Nat /\ b \in Nat /\ a <= b /\ b - a \in Nat
    BY <1>1, <2>1 DEF Holds
  <2>3. slots = [q \in 1 .. b - a |-> a + q - 1]
    <3>1. slots = [q \in 1 .. b - a |-> 0 + a + q - 1]
      BY <2>1 DEF Holds
    <3>2. \A q \in 1 .. b - a : 0 + a + q - 1 = a + q - 1
      BY <2>2
    <3>. QED  BY <3>1, <3>2
  <2>. HIDE DEF b
  <2>4. [k \in DOMAIN slots |-> Entry(slots[k])] = [q \in 1 .. b - a |-> e[a + q - 1]]
    <3>1. DOMAIN slots = 1 .. b - a
      BY <2>3
    <3>2. \A q \in 1 .. b - a : a + q - 1 \in 0 .. N
      BY <1>1, <2>2
    <3>. QED  BY <2>3, <3>1, <3>2
  <2>. HIDE DEF e, slots
  <2>5. ~ (a > Len(A[j - 1])) /\ SubSeq(A[j - 1], 1, a) = Part(a)
    <3>1. CASE j = 1
      <4>1. << >> = Part(0)
        OBVIOUS
      <4>2. a = 0 /\ A[j - 1] = list
        BY <1>1, <1>4, <3>1
      <4>. QED  BY <4>1, <4>2
    <3>2. CASE j # 1
      <4>. HIDE DEF Part
      <4>1. A[j - 1] = Part(a) /\ Len(Part(a)) = a /\ SubSeq(Part(a), 1, a) = Part(a)
        BY <1>3, <1>4, <2>2, <3>2
      <4>. QED  BY <2>2, <4>1
    <3>. QED  BY <3>1, <3>2
  <2>6. A[j] = Part(a) \o [q \in 1 .. b - a |-> e[a + q - 1]]
    <3>1. A[j] = Assemble(A[j - 1], ms[j])
      BY <1>2
    <3>. DEFINE head == SubSeq(A[j - 1], 1, a)
                tail == [k \in DOMAIN slots |-> Entry(slots[k])]
    <3>2. A[j] = head \o tail
      BY <2>5, <3>1, Zenon DEF Assemble, slots
    <3>. QED  BY <2>4, <2>5, <3>2, Zenon
  <2>7. Part(a) \o [q \in 1 .. b - a |-> e[a + q - 1]] = Part(b)
    <3>. HIDE DEF a
    <3>1. a \in Nat /\ b \in Nat /\ a <= b
      BY <2>2
    <3>2. \A f : [q \in 1 .. a |-> f[q - 1]] \o [q \in 1 .. b - a |-> f[a + q - 1]]
                  = [q \in 1 .. b |-> f[q - 1]]
      BY <3>1, PartsJoin
    <3>. QED  BY <3>2
  <2>. QED  BY <2>6, <2>7, Zenon DEF b
<1>. DEFINE Bad == {j \in Nat : j < L /\ j # 0 /\ A[j] # Part(ms[j + 1].start)}
<1>5. Bad = {}
  <2>. SUFFICES ASSUME Bad # {}  PROVE FALSE
    OBVIOUS
  <2>. HIDE DEF e
  <2>1. 0 \notin Bad
    OBVIOUS
  <2>2. PICK j \in Bad : j \in Nat /\ j # 0 /\ j - 1 \in Nat /\ j - 1 \notin Bad
    BY <2>1, FirstFailure
  <2>3. j \in 1 .. L /\ j - 1 < L /\ (j - 1) + 1 = j /\ j < L
    BY <1>1, <2>2
  <2>. HIDE DEF Part
  <2>4. IF j = 1 THEN A[j - 1] = list ELSE A[j - 1] = Part(ms[j].start)
    <3>1. CASE j = 1
      <4>1. j - 1 = 0
        BY <3>1
      <4>. QED  BY <1>2, <3>1, <4>1
    <3>2. CASE j # 1
      <4>1. j - 1 # 0
        BY <2>3, <3>2
      <4>. QED  BY <2>2, <2>3, <3>2, <4>1
    <3>. QED  BY <3>1, <3>2
  <2>5. A[j] = Part(End(ms, N, j))
    BY <1>4, <2>3, <2>4
  <2>6. End(ms, N, j) = ms[j + 1].start
    BY <2>3 DEF End
  <2>. QED  BY <2>2, <2>5, <2>6
<1>6. A[L] = Part(N)
  <2>. HIDE DEF e, Part
  <2>1. L \in 1 .. L /\ End(ms, N, L) = N
    BY <1>1 DEF End
  <2>2. IF L = 1 THEN A[L - 1] = list ELSE A[L - 1] = Part(ms[L].start)
    <3>1. CASE L = 1
      <4>1. L - 1 = 0
        BY <3>1
      <4>. QED  BY <1>2, <3>1, <4>1
    <3>2. CASE L # 1
      <4>1. L - 1 # 0 /\ L - 1 \in Nat /\ L - 1 < L /\ (L - 1) + 1 = L
        BY <1>1, <3>2
      <4>2. L - 1 \notin Bad
        BY <1>5
      <4>. QED  BY <3>2, <4>1, <4>2
    <3>. QED  BY <3>1, <3>2
  <2>3. A[L] = Part(End(ms, N, L))
    BY <1>4, <2>1, <2>2
  <2>. QED  BY <2>1, <2>3
<1>7. Part(N) = [q \in 1 .. N |-> Entry(q - 1)]
  <2>1. \A q \in 1 .. N : q - 1 \in 0 .. N
    BY <1>1
  <2>. QED  BY <2>1
<1>8. Displayed(list, ms) = A[L]
  BY DEF Displayed, A
<1>. QED  BY <1>6, <1>7, <1>8

-----------------------------------------------------------------------------
(* A valid route is, in all its slots, one of those the plotter can have.  *)
Whole(r, p) == r.size = Kept(Len(p)) /\ Named(r, p, r.size)

RealRoute ==
  route.valid =>
    /\ \A i \in Slot : Known(route, i)
    /\ \E p \in Plans : Whole(route, p)

(* The display shows nothing, or such a route, or the way to a waypoint.   *)
ShownInv ==
  \/ shown = << >>
  \/ \E p \in Plans :
       \/ shown = Shows(p)
       \/ \E k \in DOMAIN p :
            shown = << ShipEntry, [name |-> NextName, position |-> chart[p[k]]] >>

DisplayInv == FeedInv /\ RealRoute /\ ShownInv

LEMMA RealRouteKeeps ==
  ASSUME FeedInv, FeedInv', Reliable, RealRoute, [FeedNext]_feedVars
  PROVE  RealRoute'
<1>1. FeedTypeOK /\ plan \in Plans
  BY DEF FeedInv, FeedSound, FeedTypeOK
<1>2. ASSUME route' = route  PROVE RealRoute'
  BY <1>2 DEF RealRoute, Whole, Known, Named
<1>3. CASE SendRTE
  <2>1. phase'.kind \in {"rte", "wpl"} /\ plan' = plan
    BY <1>1, <1>3, SendRTEPhase DEF SendRTE, Phases
  <2>2. phase'.kind = "rte" => ~route'.valid
    BY <1>3, SendRTEKeeps DEF WhileNaming
  <2>3. ASSUME phase'.kind = "wpl", route'.valid  PROVE RealRoute'
    <3>1. WhilePlacing'
      BY <1>3, <2>3, SendRTEKeeps
    <3>. QED  BY <1>1, <2>1, <2>3, <3>1 DEF WhilePlacing, RealRoute, Whole, Known, Named
  <2>. QED  BY <2>1, <2>2, <2>3 DEF RealRoute
<1>4. CASE SendWPL
  <2>1. /\ route'.names = route.names /\ route'.size = route.size
        /\ route'.valid = route.valid /\ phase'.kind \in {"rte", "wpl"}
        /\ phase'.kind = "wpl" => WhilePlacing'
        /\ phase'.kind = "rte" => BeforeCycle'
    BY <1>1, <1>4, SendWPLKeeps, SendWPLPhase DEF Phases
  <2>2. route'.valid => \A i \in Slot : Known(route', i)
    BY <2>1 DEF WhilePlacing, BeforeCycle, Known
  <2>3. route'.valid => \E p \in Plans : Whole(route', p)
    BY <2>1 DEF RealRoute, Whole, Named
  <2>. QED  BY <2>2, <2>3 DEF RealRoute, Whole, Known, Named
<1>5. CASE SendBOD
  BY <1>2, <1>5 DEF SendBOD, HandleBOD
<1>6. CASE ActivateRoute
  BY <1>2, <1>6 DEF ActivateRoute
<1>7. CASE CalmDown
  BY <1>2, <1>7 DEF CalmDown
<1>8. CASE UNCHANGED feedVars
  BY <1>2, <1>8 DEF feedVars
<1>. QED  BY <1>3, <1>4, <1>5, <1>6, <1>7, <1>8 DEF FeedNext

LEMMA PairJoin ==
  ASSUME NEW x, NEW y
  PROVE  << x >> \o << y >> = << x, y >>
<1>. DEFINE s == << x >>
            t == << y >>
            u == s \o t
<1>1. /\ s \in Seq({x, y}) /\ Len(s) = 1 /\ s[1] = x
      /\ t \in Seq({x, y}) /\ Len(t) = 1 /\ t[1] = y
  OBVIOUS
<1>. HIDE DEF s, t
<1>2. /\ u \in Seq({x, y}) /\ Len(u) = Len(s) + Len(t)
      /\ \A i \in 1 .. Len(s) + Len(t) : u[i] = IF i <= Len(s) THEN s[i] ELSE t[i - Len(s)]
  BY <1>1, ConcatProperties
<1>. HIDE DEF u
<1>3. u \in Seq({x, y}) /\ Len(u) = 2 /\ u[1] = x /\ u[2] = y
  BY <1>1, <1>2
<1>4. u = << x, y >>
  <2>1. /\ << x, y >> \in Seq({x, y}) /\ Len(<< x, y >>) = 2
        /\ << x, y >>[1] = x /\ << x, y >>[2] = y
    OBVIOUS
  <2>2. \A i \in 1 .. 2 : u[i] = << x, y >>[i]
    BY <1>3, <2>1
  <2>. QED  BY <1>3, <2>1, <2>2, SeqEqual
<1>. QED  BY <1>4 DEF u, s, t

LEMMA ListOfRooms ==
  ASSUME NEW n \in Nat, NEW S, NEW f, \A k \in 1 .. n : f[k] \in S
  PROVE  /\ [k \in 1 .. n |-> f[k]] \in Seq(S)
         /\ Len([k \in 1 .. n |-> f[k]]) = n
OBVIOUS

(* The display has a list.                                                 *)
LEMMA ShowsList ==
  ASSUME NEW p \in Plans
  PROVE  LET w == PlanWaypoints(p)
         IN  /\ p \in Seq(Name) /\ Len(p) \in Nat \ {0}
             /\ Len(w) = Kept(Len(p)) /\ Len(w) \in Nat \ {0}
             /\ w = [k \in 1 .. Len(w) |-> [name |-> cut[p[k]], position |-> chart[p[k]]]]
<1>1. p \in Seq(Name) /\ Len(p) \in Nat \ {0}
  BY FeedAssumption
<1>2. Kept(Len(p)) \in Nat \ {0}
  BY <1>1, RouteAssumption DEF Kept
<1>3. Len(PlanWaypoints(p)) = Kept(Len(p))
  BY <1>1, PlanSeq
<1>. QED  BY <1>1, <1>2, <1>3 DEF PlanWaypoints, Kept

LEMMA ShowsSeq ==
  ASSUME NEW p \in Plans
  PROVE  \E S : Shows(p) \in Seq(S) /\ Len(Shows(p)) \in Nat \ {0}
<1>. DEFINE w == PlanWaypoints(p)
            S == {w[k] : k \in 1 .. Len(w)}
<1>1. Len(w) \in Nat \ {0} /\ w = [k \in 1 .. Len(w) |-> w[k]]
  BY ShowsList
<1>2. \A k \in 1 .. Len(w) : w[k] \in S
  OBVIOUS
<1>3. Shows(p) = IF Len(w) = 1 THEN << ShipEntry >> \o w ELSE w
  BY DEF Shows
<1>. HIDE DEF w, S
<1>4. [k \in 1 .. Len(w) |-> w[k]] \in Seq(S)
  BY <1>1, <1>2
<1>5. w \in Seq(S \cup {ShipEntry})
  BY <1>1, <1>4
<1>6. << ShipEntry >> \in Seq(S \cup {ShipEntry}) /\ Len(<< ShipEntry >>) = 1
  OBVIOUS
<1>7. /\ << ShipEntry >> \o w \in Seq(S \cup {ShipEntry})
      /\ Len(<< ShipEntry >> \o w) = Len(<< ShipEntry >>) + Len(w)
  BY <1>5, <1>6, ConcatProperties
<1>8. CASE Len(w) = 1
  <2>1. Shows(p) = << ShipEntry >> \o w
    BY <1>3, <1>8, Zenon
  <2>2. Len(<< ShipEntry >> \o w) \in Nat \ {0}
    BY <1>1, <1>6, <1>7
  <2>. QED  BY <1>7, <2>1, <2>2, Zenon
<1>9. CASE Len(w) # 1
  <2>1. Shows(p) = w
    BY <1>3, <1>9, Zenon
  <2>. QED  BY <1>1, <1>5, <2>1, Zenon
<1>. QED  BY <1>8, <1>9

LEMMA ListFacts ==
  ASSUME ShownInv
  PROVE  Len(shown) \in Nat /\ SubSeq(shown, 1, 0) = << >>
<1>1. \E S : shown \in Seq(S)
  <2>1. CASE shown = << >>
    BY <2>1
  <2>2. ASSUME NEW p \in Plans, shown = Shows(p)  PROVE \E S : shown \in Seq(S)
    BY <2>2, ShowsSeq, Zenon
  <2>3. ASSUME NEW x, shown = << ShipEntry, x >>  PROVE \E S : shown \in Seq(S)
    <3>1. << ShipEntry, x >> \in Seq({ShipEntry, x})
      OBVIOUS
    <3>. QED  BY <2>3, <3>1
  <2>. QED  BY <2>1, <2>2, <2>3 DEF ShownInv
<1>2. PICK S : shown \in Seq(S)
  BY <1>1
<1>. QED  BY <1>2

(* The timer elapses: what the display shows is the route as a whole.      *)
LEMMA TransmitShows ==
  ASSUME SamePlace, DisplayInv, Transmit
  PROVE  \E p \in Plans : shown' = Shows(p)
<1>. DEFINE r == PagedRoute
            ms == Pages(r)
<1>1. /\ FeedTypeOK /\ route \in RouteState /\ route.indexOriginCurrentLeg = 0
      /\ route.valid /\ \A i \in Slot : Known(route, i)
      /\ shown' = Displayed(shown, ms)
  BY DEF DisplayInv, FeedInv, FeedSound, FeedTypeOK, TypeOK, Transmit, RealRoute
<1>2. PICK p \in Plans : Whole(route, p)
  BY <1>1 DEF DisplayInv, RealRoute
<1>. DEFINE w == PlanWaypoints(p)
<1>3. /\ p \in Seq(Name) /\ Len(w) = route.size /\ Len(w) \in Nat \ {0}
      /\ w = [k \in 1 .. Len(w) |-> [name |-> cut[p[k]], position |-> chart[p[k]]]]
      /\ route.size <= maxWpPerRoute
  <2>1. route.size = Kept(Len(p))
    BY <1>2 DEF Whole
  <2>2. Len(p) \in Nat
    BY ShowsList
  <2>3. Kept(Len(p)) <= maxWpPerRoute
    BY <2>2, RouteAssumption DEF Kept
  <2>. QED  BY <2>1, <2>3, ShowsList
<1>4. Announcement(route) = w
  BY <1>1, <1>2, <1>3, WholeRoute DEF Whole
<1>. HIDE DEF w
<1>5. /\ r.takes = [k \in 1 .. route.size |-> nameRoom[route.names[k - 1]]]
      /\ r.origin = 0
  BY <1>1 DEF PagedRoute
<1>6. Announceable(r) /\ Size(r) = route.size /\ Count(r) = route.size
  <2>1. \A k \in 1 .. route.size : nameRoom[route.names[k - 1]] \in 1 .. Room
    <3>. SUFFICES ASSUME NEW k \in 1 .. route.size
                  PROVE  nameRoom[route.names[k - 1]] \in 1 .. Room
      OBVIOUS
    <3>1. k - 1 \in Slot
      BY <1>3, RouteAssumption DEF Slot
    <3>2. route.names[k - 1] \in Stored \cup {Garbage}
      BY <1>1, <3>1 DEF RouteState
    <3>. QED  BY <3>2, DisplayAssumption
  <2>2. r.takes \in Seq(1 .. Room) /\ Len(r.takes) = route.size
    <3>. DEFINE f == [k \in 1 .. route.size |-> nameRoom[route.names[k - 1]]]
    <3>1. route.size \in Nat
      BY <1>3
    <3>2. \A k \in 1 .. route.size : f[k] \in 1 .. Room
      BY <2>1
    <3>3. f = [k \in 1 .. route.size |-> f[k]]
      OBVIOUS
    <3>4. r.takes = f
      BY <1>5
    <3>. HIDE DEF f, r
    <3>5. /\ [k \in 1 .. route.size |-> f[k]] \in Seq(1 .. Room)
          /\ Len([k \in 1 .. route.size |-> f[k]]) = route.size
      BY <3>1, <3>2, ListOfRooms
    <3>6. f \in Seq(1 .. Room) /\ Len(f) = route.size
      BY <3>3, <3>5, Zenon
    <3>. QED  BY <3>4, <3>6
  <2>. HIDE DEF r
  <2>. QED  BY <1>3, <1>5, <2>2 DEF Announceable, Size, Count
<1>7. Len(shown) \in Nat /\ SubSeq(shown, 1, 0) = << >>
  BY ListFacts DEF DisplayInv
<1>8. CASE route.size = 1
  <2>1. Displayed(shown, ms) = << ShipEntry, Waypoint(route, 0) >>
    <3>1. Size(r) = 1
      BY <1>6, <1>8
    <3>2. ms = << [start |-> 0, slots |-> << Current, 0 >>] >>
      BY <3>1 DEF Pages
    <3>3. Len(ms) = 1 /\ ms[1].start = 0 /\ ms[1].slots = << Current, 0 >>
      BY <3>2
    <3>. HIDE DEF ms
    <3>4. Displayed(shown, ms) = Assemble(shown, ms[1])
      <4>1. Len(ms) \in Nat /\ 1 \in 1 .. Len(ms) /\ 1 - 1 = 0
        BY <3>3
      <4>2. /\ Assembled(shown, ms)[0] = shown
            /\ Assembled(shown, ms)[1] = Assemble(Assembled(shown, ms)[1 - 1], ms[1])
        BY <4>1, AssembledDef
      <4>3. Assembled(shown, ms)[1] = Assemble(shown, ms[1])
        BY <4>1, <4>2
      <4>. QED  BY <3>3, <4>3 DEF Displayed
    <3>5. ~ (ms[1].start > Len(shown))
      BY <1>7, <3>3
    <3>. DEFINE tail == [k \in DOMAIN ms[1].slots |-> Entry(ms[1].slots[k])]
    <3>6. Assemble(shown, ms[1]) = << >> \o tail
      <4>1. Assemble(shown, ms[1]) = SubSeq(shown, 1, 0) \o tail
        BY <3>3, <3>5, Zenon DEF Assemble
      <4>. QED  BY <1>7, <4>1, Zenon
    <3>7. tail = << ShipEntry, Waypoint(route, 0) >>
      <4>1. Entry(Current) = ShipEntry /\ Entry(0) = Waypoint(route, 0)
        BY DEF Entry, Current
      <4>2. << Current, 0 >>[1] = Current /\ << Current, 0 >>[2] = 0
            /\ DOMAIN << Current, 0 >> = 1 .. 2
        OBVIOUS
      <4>3. tail = [k \in 1 .. 2 |-> IF k = 1 THEN ShipEntry ELSE Waypoint(route, 0)]
        BY <3>3, <4>1, <4>2
      <4>. QED  BY <4>3
    <3>. HIDE DEF tail
    <3>8. tail \in Seq({ShipEntry, Waypoint(route, 0)})
      BY <3>7
    <3>9. << >> \o tail = tail
      BY <3>8, ConcatEmptySeq
    <3>. QED  BY <3>4, <3>6, <3>7, <3>9, Zenon
  <2>2. w = << Waypoint(route, 0) >>
    BY <1>4, <1>8 DEF Announcement
  <2>3. Shows(p) = << ShipEntry >> \o << Waypoint(route, 0) >>
    <3>1. Len(w) = 1
      BY <1>3, <1>8
    <3>2. Shows(p) = << ShipEntry >> \o w
      BY <3>1, Zenon DEF Shows, w
    <3>. QED  BY <2>2, <3>2, Zenon
  <2>4. << ShipEntry >> \o << Waypoint(route, 0) >> = << ShipEntry, Waypoint(route, 0) >>
    BY PairJoin
  <2>. QED  BY <1>1, <2>1, <2>3, <2>4, Zenon
<1>9. CASE route.size # 1
  <2>1. Spread(r, ms, Count(r))
    BY <1>6, <1>9, PagesSpread
  <2>2. Displayed(shown, ms) = [q \in 1 .. Count(r) |-> Entry(q - 1)]
    <3>. HIDE DEF ms, r
    <3>. QED  BY <1>5, <1>6, <1>7, <2>1, SpreadIsShown
  <2>3. w = [q \in 1 .. route.size |-> Waypoint(route, q - 1)]
    <3>1. w = [k \in 1 .. route.size - 0 |-> Waypoint(route, 0 + k - 1)]
      BY <1>1, <1>4, <1>9 DEF Announcement
    <3>2. route.size - 0 = route.size /\ \A k \in 1 .. route.size : 0 + k - 1 = k - 1
      BY <1>3
    <3>. QED  BY <3>1, <3>2
  <2>4. \A q \in 1 .. route.size : Entry(q - 1) = Waypoint(route, q - 1)
    <3>1. \A q \in 1 .. route.size : q - 1 # Current
      BY <1>3 DEF Current
    <3>. QED  BY <3>1 DEF Entry
  <2>5. Shows(p) = w
    BY <1>3, <1>9, Zenon DEF Shows, w
  <2>6. Displayed(shown, ms) = w
    BY <1>6, <2>2, <2>3, <2>4
  <2>. QED  BY <1>1, <2>5, <2>6
<1>. QED  BY <1>8, <1>9

LEMMA DisplayKeeps ==
  ASSUME Reliable, SamePlace, DisplayInv, [DisplayNext]_displayVars
  PROVE  DisplayInv'
<1>1. FeedInv /\ RealRoute /\ ShownInv /\ FeedTypeOK
  BY DEF DisplayInv, FeedInv, FeedSound
<1>2. [FeedNext]_feedVars
  BY DEF DisplayNext, displayVars, Transmit, SendRMB
<1>3. FeedInv' /\ RealRoute'
  BY <1>1, <1>2, FeedKeeps, RealRouteKeeps
<1>4. ShownInv'
  <2>1. CASE UNCHANGED shown
    BY <1>1, <2>1 DEF ShownInv, Shows, PlanWaypoints
  <2>2. CASE Transmit
    BY <2>2, TransmitShows DEF ShownInv, Shows, PlanWaypoints
  <2>3. CASE SendRMB
    <3>1. PICK i \in 1 .. Len(plan) :
            shown' = << ShipEntry, [name |-> NextName, position |-> chart[plan[i]]] >>
      BY <2>3 DEF SendRMB
    <3>2. plan \in Plans /\ DOMAIN plan = 1 .. Len(plan)
      BY <1>1, PlanFacts DEF FeedTypeOK
    <3>. QED  BY <3>1, <3>2 DEF ShownInv
  <2>. QED  BY <2>1, <2>2, <2>3 DEF DisplayNext, displayVars
<1>. QED  BY <1>3, <1>4 DEF DisplayInv

(* A display never shows the messages of two routes side by side, nor a    *)
(* waypoint in a wrong place: however many messages a route takes,         *)
(* whenever the timer elapses, and with RMB sentences in between.          *)
THEOREM DisplayIsReal ==
  Reliable /\ FreshHeap /\ SamePlace => (DisplaySpec => []ShownIsReal)
<1>. SUFFICES ASSUME Reliable, FreshHeap, SamePlace  PROVE DisplaySpec => []ShownIsReal
  OBVIOUS
<1>1. DisplayInit => DisplayInv
  <2>. SUFFICES ASSUME DisplayInit  PROVE DisplayInv
    OBVIOUS
  <2>1. FeedInv
    BY FeedStarts DEF DisplayInit
  <2>2. ~route.valid
    BY DEF DisplayInit, FeedInit, Init, NewRoute
  <2>. QED  BY <2>1, <2>2 DEF DisplayInit, DisplayInv, RealRoute, ShownInv
<1>2. DisplayInv /\ [DisplayNext]_displayVars => DisplayInv'
  BY DisplayKeeps
<1>3. DisplayInv => ShownIsReal
  <2>1. ASSUME NEW p \in Plans
        PROVE  \E k \in DOMAIN Shows(p) : Shows(p) = SubSeq(Shows(p), k, Len(Shows(p)))
    <3>. DEFINE s == Shows(p)
    <3>1. PICK S : s \in Seq(S) /\ Len(s) \in Nat \ {0}
      BY ShowsSeq
    <3>. HIDE DEF s
    <3>2. 1 \in DOMAIN s /\ s = SubSeq(s, 1, Len(s))
      BY <3>1, SubSeqFull
    <3>. QED  BY <3>2, Zenon DEF s
  <2>. QED  BY <2>1, Zenon DEF DisplayInv, ShownInv, ShownIsReal
<1>. QED  BY <1>1, <1>2, <1>3, PTL DEF DisplaySpec
=============================================================================
