------------------------- MODULE ResendTimerProofs -------------------------
(***************************************************************************)
(* Theorems about ResendTimer, for all values of the constants for which   *)
(* millis() does not wrap around: the timer elapses in time and not too    *)
(* often, and an instance that has the timer for itself resends in time.   *)
(* And theorems about Transmission: what is sent then.                     *)
(***************************************************************************)
EXTENDS Transmission, RoutePagesProofs

(* The gateway is switched off before millis() comes near its last value.  *)
NoWrap == MaxUptime + Period < Word

(* sinceFired is the time elapsed since timeUpdated, and right after any   *)
(* call of handleLoop it is at most a period.                              *)
Tracks ==
  /\ uptime <= MaxUptime
  /\ timeUpdated # NotYet => timeUpdated + sinceFired = uptime
  /\ timeUpdated = NotYet => sinceFired = uptime

InStep ==
  \A i \in Instance : sinceFired <= Period + late[i]

(* A valid route was sent when the timer last elapsed, or became valid     *)
(* later than that.                                                        *)
SentWhenFired ==
  \A i \in Instance :
    /\ quiet[i] <= sinceFired
    /\ timeUpdated = NotYet => ~valid[i]

IInv == TypeOK /\ Tracks /\ InStep

-----------------------------------------------------------------------------
LEMMA ConstantFacts ==
  /\ Period \in Nat \ {0} /\ Word \in Nat /\ Word > Period
  /\ Gap \in Nat \ {0} /\ MaxUptime \in Nat
  /\ LoopOrder \in Seq(STRING) /\ Len(LoopOrder) \in Nat /\ Len(LoopOrder) >= 1
  /\ Instance # {}
  <1>1. LoopOrder \in Seq(STRING) /\ LoopOrder # << >>
    BY TimerAssumption
  <1>2. Len(LoopOrder) \in Nat /\ Len(LoopOrder) >= 1
    BY <1>1
  <1> QED
    BY <1>1, <1>2, TimerAssumption DEF Instance

(* Without a wrap around, Elapsed compares true times. *)
LEMMA ElapsedMeaning ==
  ASSUME NoWrap, TypeOK, Tracks
  PROVE  /\ millis = uptime
         /\ Last \in Nat /\ Last <= uptime
         /\ Elapsed <=> Last + Period < uptime
         /\ timeUpdated # NotYet => Last = uptime - sinceFired
         /\ timeUpdated = NotYet => Last = uptime
  <1>1. /\ uptime \in Nat /\ uptime < Word /\ uptime + Period < Word
        /\ sinceFired \in Nat /\ timeUpdated \in 0 .. Word - 1 \cup {NotYet}
    BY ConstantFacts DEF NoWrap, TypeOK, Tracks
  <1>2. millis = uptime
    BY <1>1, ConstantFacts DEF millis
  <1>3. /\ Last \in Nat /\ Last <= uptime
        /\ timeUpdated # NotYet => Last = uptime - sinceFired
        /\ timeUpdated = NotYet => Last = uptime
    BY <1>1, <1>2 DEF Last, NotYet, Tracks
  <1>4. (Last + Period) % Word = Last + Period
    <2>1. Last + Period \in Nat /\ Last + Period < Word
      BY <1>1, <1>3, ConstantFacts
    <2> QED
      BY <2>1, ConstantFacts
  <1> QED
    BY <1>2, <1>3, <1>4 DEF Elapsed

LEMMA InitIInv == Init => IInv /\ SentWhenFired
  BY ConstantFacts DEF Init, IInv, TypeOK, Tracks, InStep, SentWhenFired, NotYet

LEMMA TickIInv ==
  ASSUME IInv, Tick
  PROVE  IInv'
  <1>1. TypeOK'
    BY ConstantFacts DEF IInv, TypeOK, Tick
  <1>2. Tracks'
    BY ConstantFacts DEF IInv, TypeOK, Tracks, Tick, NotYet
  <1>3. InStep'
    BY ConstantFacts DEF IInv, TypeOK, InStep, Tick
  <1> QED
    BY <1>1, <1>2, <1>3 DEF IInv

LEMMA HandleLoopIInv ==
  ASSUME NoWrap, IInv, NEW i \in Instance, HandleLoop(i)
  PROVE  IInv' /\ timeUpdated' # NotYet
  <1>1. TypeOK /\ Tracks /\ InStep
    BY DEF IInv
  <1>2. /\ millis = uptime /\ Last \in Nat /\ Last <= uptime
        /\ Elapsed <=> Last + Period < uptime
        /\ timeUpdated # NotYet => Last = uptime - sinceFired
        /\ timeUpdated = NotYet => Last = uptime
    BY <1>1, ElapsedMeaning
  <1>3. uptime \in Nat /\ uptime <= MaxUptime /\ uptime < Word /\ sinceFired \in Nat
    BY <1>1, ConstantFacts DEF NoWrap, TypeOK, Tracks
  <1>4. /\ timeUpdated' = IF Elapsed THEN uptime ELSE Last
        /\ sinceFired' = IF Elapsed \/ timeUpdated = NotYet THEN 0 ELSE sinceFired
        /\ uptime' = uptime
        /\ late' = [late EXCEPT ![i] = 0]
    BY <1>2 DEF HandleLoop, Updated
  <1>5. timeUpdated' \in 0 .. Word - 1 /\ timeUpdated' # NotYet
    BY <1>2, <1>3, <1>4, ConstantFacts DEF NotYet
  <1>6. sinceFired' \in Nat /\ sinceFired' <= Period
    BY <1>2, <1>3, <1>4, ConstantFacts
  <1>7. TypeOK'
    <2>1. quiet' \in [Instance -> Nat] /\ late' \in [Instance -> 0 .. Gap]
      BY <1>1, ConstantFacts DEF TypeOK, HandleLoop
    <2>2. valid' \in [Instance -> BOOLEAN]
      BY <1>1 DEF TypeOK, HandleLoop
    <2>3. turn' \in 1 .. Len(LoopOrder)
      BY <1>1, ConstantFacts DEF TypeOK, HandleLoop, NextTurn
    <2> QED
      BY <2>1, <2>2, <2>3, <1>3, <1>4, <1>5, <1>6 DEF TypeOK
  <1>8. Tracks'
    BY <1>2, <1>3, <1>4, <1>5 DEF Tracks
  <1>9. InStep'
    <2>1. \A j \in Instance : late'[j] \in 0 .. Gap
      BY <1>7 DEF TypeOK
    <2> QED
      BY <2>1, <1>6, ConstantFacts DEF InStep
  <1> QED
    BY <1>5, <1>7, <1>8, <1>9 DEF IInv

LEMMA NextIInv == NoWrap /\ IInv /\ [Next]_vars => IInv'
  <1> SUFFICES ASSUME NoWrap, IInv, [Next]_vars PROVE IInv'
    OBVIOUS
  <1>1. CASE UNCHANGED vars
    BY <1>1 DEF vars, IInv, TypeOK, Tracks, InStep
  <1> QED
    BY <1>1, TickIInv, HandleLoopIInv DEF Next

LEMMA TypesKeep == TypeOK /\ [Next]_vars => TypeOK'
  <1> SUFFICES ASSUME TypeOK, [Next]_vars PROVE TypeOK'
    OBVIOUS
  <1>1. CASE Tick
    BY <1>1, ConstantFacts DEF TypeOK, Tick
  <1>2. ASSUME NEW i \in Instance, HandleLoop(i) PROVE TypeOK'
    <2>1. millis \in 0 .. Word - 1
      BY ConstantFacts DEF TypeOK, millis
    <2>2. timeUpdated' \in 0 .. Word - 1
      BY <1>2, <2>1 DEF TypeOK, HandleLoop, Updated, Last
    <2>3. quiet' \in [Instance -> Nat] /\ late' \in [Instance -> 0 .. Gap]
      BY <1>2, ConstantFacts DEF TypeOK, HandleLoop
    <2>4. turn' \in 1 .. Len(LoopOrder)
      BY <1>2, ConstantFacts DEF TypeOK, HandleLoop, NextTurn
    <2> QED
      BY <1>2, <2>2, <2>3, <2>4 DEF TypeOK, HandleLoop
  <1>3. CASE UNCHANGED vars
    BY <1>3 DEF vars, TypeOK
  <1> QED
    BY <1>1, <1>2, <1>3 DEF Next

-----------------------------------------------------------------------------
(* Types, for any time the gateway is on: also when millis() wraps around. *)
THEOREM TimerTypes == Spec => []TypeOK
  <1>1. Init => TypeOK
    BY InitIInv DEF IInv
  <1> QED
    BY <1>1, TypesKeep, PTL DEF Spec

(* However many instances share it, the timer elapses once per period. *)
THEOREM TimerFiresInTime == NoWrap => (Spec => []TimerFires)
  <1> SUFFICES ASSUME NoWrap PROVE Spec => []TimerFires
    OBVIOUS
  <1>1. IInv => TimerFires
    <2> SUFFICES ASSUME IInv PROVE TimerFires
      OBVIOUS
    <2>1. PICK i \in Instance : TRUE
      BY ConstantFacts
    <2> QED
      BY <2>1, ConstantFacts DEF IInv, TypeOK, InStep, TimerFires
  <1>2. IInv /\ [Next]_vars => IInv'
    BY NextIInv
  <1> QED
    BY <1>1, <1>2, InitIInv, PTL DEF Spec

(* The timer does not elapse twice within a period. *)
THEOREM RouteNotFlooded == NoWrap => (Spec => NoFlood)
  <1> SUFFICES ASSUME NoWrap PROVE Spec => NoFlood
    OBVIOUS
  <1>1. IInv /\ [Next]_vars
        => [\A i \in Instance :
              HandleLoop(i) /\ timeUpdated # NotYet /\ Elapsed
              => sinceFired > Period]_vars
    BY ElapsedMeaning, ConstantFacts DEF IInv, TypeOK
  <1>2. IInv /\ [Next]_vars => IInv'
    BY NextIInv
  <1> QED
    BY <1>1, <1>2, InitIInv, PTL DEF Spec, NoFlood

(* An instance that has the timer for itself resends a valid route in      *)
(* time.  (With a second instance this fails: see resend_starved.)         *)
THEOREM SingleInstanceResends ==
  NoWrap /\ (\A i, j \in Instance : i = j) => (Spec => []ResentInTime)
  <1> SUFFICES ASSUME NoWrap, \A i, j \in Instance : i = j
               PROVE  Spec => []ResentInTime
    OBVIOUS
  <1>1. ASSUME IInv, SentWhenFired, [Next]_vars
        PROVE  SentWhenFired'
    <2>1. CASE Tick
      BY <2>1, <1>1, ConstantFacts DEF Tick, SentWhenFired, IInv, TypeOK
    <2>2. ASSUME NEW i \in Instance, HandleLoop(i) PROVE SentWhenFired'
      <3>1. timeUpdated' # NotYet
        BY <2>2, <1>1, HandleLoopIInv
      <3>2. /\ quiet'[i] = IF valid'[i] /\ valid[i] /\ ~Elapsed
                           THEN quiet[i] ELSE 0
            /\ sinceFired' = IF Elapsed \/ timeUpdated = NotYet THEN 0
                             ELSE sinceFired
            /\ sinceFired \in Nat
        BY <2>2, <1>1 DEF HandleLoop, IInv, TypeOK
      <3>3. quiet[i] <= sinceFired /\ (timeUpdated = NotYet => ~valid[i])
        BY <1>1 DEF SentWhenFired
      <3>4. quiet'[i] <= sinceFired'
        BY <3>2, <3>3
      <3>5. \A j \in Instance : j = i
        OBVIOUS
      <3> QED
        BY <3>1, <3>4, <3>5 DEF SentWhenFired
    <2>3. CASE UNCHANGED vars
      BY <2>3, <1>1 DEF vars, SentWhenFired
    <2> QED
      BY <2>1, <2>2, <2>3, <1>1 DEF Next
  <1>2. IInv /\ SentWhenFired => ResentInTime
    BY ConstantFacts DEF IInv, TypeOK, InStep, SentWhenFired, ResentInTime
  <1>3. IInv /\ [Next]_vars => IInv'
    BY NextIInv
  <1> QED
    BY <1>1, <1>2, <1>3, InitIInv, PTL DEF Spec

-----------------------------------------------------------------------------
(* What was sent is the valid route, as RoutePages makes messages of it.   *)
SentInv ==
  /\ valid \in [Instance -> BOOLEAN]
  /\ routes \in [Instance -> AnyRoute]
  /\ messages \in [Instance -> {messages[i] : i \in Instance}]
  /\ \A i \in Instance :
       messages[i] # << >> => valid[i] /\ messages[i] = Pages(routes[i])

LEMMA AnyRouteAnnounceable ==
  ASSUME NEW r \in AnyRoute
  PROVE  /\ Announceable(r)
         /\ Size(r) > 1 => Size(r) # 1 /\ Count(r) # 0
<1>1. PICK n \in 0 .. MaxSize :
        r \in [takes : [1 .. n -> NameRoom], origin : 0 .. (IF n = 0 THEN 0 ELSE n - 1)]
  BY DEF AnyRoute
<1>2. n \in Nat /\ NameRoom \subseteq 1 .. Room
  BY TransmissionAssumption
<1>3. r.takes \in Seq(1 .. Room) /\ Len(r.takes) = n
  <2>1. r.takes \in [1 .. n -> 1 .. Room]
    BY <1>1, <1>2
  <2>2. \A k \in 1 .. n : r.takes[k] \in 1 .. Room
    BY <2>1
  <2>3. [k \in 1 .. n |-> r.takes[k]] \in Seq(1 .. Room)
    BY <1>2, <2>2
  <2>4. r.takes = [k \in 1 .. n |-> r.takes[k]]
    BY <2>1
  <2>5. r.takes \in Seq(1 .. Room)
    BY <2>3, <2>4
  <2>6. Len([k \in 1 .. n |-> r.takes[k]]) = n
    BY <1>2
  <2>. QED  BY <2>4, <2>5, <2>6
<1>4. r.origin \in Nat /\ r.origin <= n /\ (n # 0 => r.origin < n)
  BY <1>1, <1>2
<1>. QED  BY <1>2, <1>3, <1>4 DEF Announceable, Size, Count

LEMMA SentStarts == TransmissionInit => SentInv
BY DEF TransmissionInit, Init, SentInv

LEMMA SentKeeps ==
  ASSUME SentInv, [TransmissionNext]_transmissionVars
  PROVE  SentInv'
<1>1. CASE TickBetween
  BY <1>1 DEF TickBetween, Tick, SentInv
<1>2. ASSUME NEW i \in Instance, HandleLoopAndSend(i)  PROVE SentInv'
  <2>1. PICK v \in BOOLEAN : valid' = [valid EXCEPT ![i] = v]
    BY <1>2 DEF HandleLoopAndSend, HandleLoop
  <2>2. PICK m : /\ messages' = [messages EXCEPT ![i] = m]
                 /\ m # << >> => valid'[i] /\ m = Pages(routes[i])
    BY <1>2 DEF HandleLoopAndSend, SendPGN129285
  <2>3. UNCHANGED routes
    BY <1>2 DEF HandleLoopAndSend
  <2>. QED  BY <2>1, <2>2, <2>3 DEF SentInv
<1>3. CASE UNCHANGED transmissionVars
  BY <1>3 DEF transmissionVars, vars, SentInv
<1>. QED  BY <1>1, <1>2, <1>3 DEF TransmissionNext

(* Nothing is sent of a route that is not valid, and of one that is every  *)
(* waypoint from its origin on is sent once and in order, by messages that *)
(* say where they start, however long the route and whatever the room.     *)
THEOREM AlwaysAnnounced == TransmissionSpec => []AllAnnounced
<1>1. SentInv => AllAnnounced
  BY AnyRouteAnnounceable, PagesComplete DEF SentInv, AllAnnounced
<1>. QED  BY <1>1, SentStarts, SentKeeps, PTL DEF TransmissionSpec

(* No transmission takes more messages than the best way to part the route *)
(* into messages, nor can it take fewer.                                   *)
THEOREM AlwaysFewest == TransmissionSpec => []FewestMessages
<1>1. SentInv => FewestMessages
  BY AnyRouteAnnounceable, PagesFewest DEF SentInv, FewestMessages
<1>. QED  BY <1>1, SentStarts, SentKeeps, PTL DEF TransmissionSpec

(* The timer that sends the messages is the timer of ResendTimer: all that *)
(* is shown of it above holds of the transmissions as well.                *)
LEMMA TransmissionsFollowTimer == TransmissionSpec => Spec
<1>1. TransmissionInit => Init
  BY DEF TransmissionInit
<1>2. [TransmissionNext]_transmissionVars => [Next]_vars
  BY DEF TransmissionNext, transmissionVars, TickBetween, HandleLoopAndSend, Next
<1>. QED  BY <1>1, <1>2, PTL DEF TransmissionSpec, Spec
=============================================================================
