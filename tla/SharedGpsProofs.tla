-------------------------- MODULE SharedGpsProofs --------------------------
(***************************************************************************)
(* Theorems about SharedGps, for all lengths of the periods and passes:    *)
(* the data in the one object that both sides write never go out late, and *)
(* RMC is neither late nor too frequent.                                   *)
(***************************************************************************)
EXTENDS SharedGps, TLAPS

(* What is known of a reading that a timer expires, by where loop() is: it *)
(* is not older than the timer, Update leaves nothing that is older than   *)
(* the expiry, and one pass of the loop goes by before Update looks again. *)
KeptAt(at, st, on, skip, reading, last, expiry) ==
  /\ last <= at
  /\ reading # NA =>
       /\ last <= reading /\ reading <= at
       /\ st \in {"serial2", "udp", "done"} /\ on => at - reading <= expiry
       /\ st = "web" /\ on => at - reading <= expiry + Gap
       /\ st \in {"bus", "update"} /\ ~skip => at - reading <= expiry + Gap

PositionKept ==
  KeptAt(now, stage, enabled, skipped, gps.position, LastPositionTime, PositionExpiry)
CourseKept ==
  KeptAt(now, stage, enabled, skipped, gps.course, LastCOGSOGTime, CourseExpiry)
HeadingKept ==
  KeptAt(now, stage, enabled, skipped, Heading, LastHeadingTime, CourseExpiry)

(* The types of the variables, without the messages.                       *)
StateTypeOK ==
  /\ now \in Time
  /\ stage \in {"web", "bus", "update", "serial2", "udp", "done"}
  /\ enabled \in BOOLEAN
  /\ gps \in GpsState(Time)
  /\ Heading \in Reading
  /\ LastHeadingTime \in Time /\ LastCOGSOGTime \in Time /\ LastPositionTime \in Time
  /\ NextRMCSend \in Nat
  /\ skipped \in BOOLEAN
  /\ lastRMC \in Reading /\ waiting \in Reading

KeptInv == StateTypeOK /\ PositionKept /\ CourseKept /\ HeadingKept

-----------------------------------------------------------------------------
LEMMA ConstantFacts ==
  /\ RMCPeriod \in Nat /\ CourseExpiry \in Nat /\ PositionExpiry \in Nat
  /\ Gap \in Nat /\ MaxUptime \in Nat
  /\ NA \notin Nat
  /\ Time \subseteq Nat
BY GpsAssumption DEF Time

LEMMA GpsFacts ==
  ASSUME NEW g \in GpsState(Time)
  PROVE  /\ g.position \in Reading /\ g.course \in Reading
         /\ \A r \in Reading : /\ SetLatLong(g, r) \in GpsState(Time)
                               /\ SetLatLong(g, r).position = r
                               /\ SetLatLong(g, r).course = g.course
                               /\ SetCourse(g, r) \in GpsState(Time)
                               /\ SetCourse(g, r).course = r
                               /\ SetCourse(g, r).position = g.position
BY DEF GpsState, SetLatLong, SetCourse, Reading

-----------------------------------------------------------------------------
(* A reading that came just now, or is not there, is kept with any timer.  *)
LEMMA KeptHeard ==
  ASSUME NEW at \in Nat, NEW st, NEW on, NEW skip, NEW reading \in {at, NA},
         NEW last \in Nat, last <= at, NEW expiry \in Nat
  PROVE  KeptAt(at, st, on, skip, reading, last, expiry)
BY ConstantFacts DEF KeptAt

(* Nothing is kept on the next stage of loop() that was not before, but    *)
(* for what Update expires and for the time that passes after the last.    *)
LEMMA KeptBus ==
  ASSUME NEW at \in Nat, NEW on \in BOOLEAN, NEW next, NEW skip, NEW reading,
         NEW last, NEW expiry,
         KeptAt(at, "web", on, skip, reading, last, expiry)
  PROVE  KeptAt(at, "bus", next, ~on, reading, last, expiry)
BY DEF KeptAt

LEMMA KeptUpdate ==
  ASSUME now \in Nat, NEW on, NEW skip, NEW reading \in Nat \cup {NA},
         NEW last \in Nat, NEW expiry \in Nat,
         KeptAt(now, "update", on, skip, reading, last, expiry)
  PROVE  KeptAt(now, "serial2", on, skip,
                IF on /\ Expired(last, expiry) THEN NA ELSE reading, last, expiry)
BY ConstantFacts DEF KeptAt, Expired

LEMMA KeptLoop ==
  ASSUME NEW at \in Nat, NEW next \in Nat, at <= next, next <= at + Gap,
         NEW on, NEW skip, NEW reading \in Nat \cup {NA},
         NEW last \in Nat, NEW expiry \in Nat,
         KeptAt(at, "done", on, skip, reading, last, expiry)
  PROVE  KeptAt(next, "web", on, skip, reading, last, expiry)
BY ConstantFacts DEF KeptAt

-----------------------------------------------------------------------------
LEMMA KeptInit == Init => KeptInv
<1> SUFFICES ASSUME Init PROVE KeptInv
  OBVIOUS
<1>1. 0 \in Time /\ enabled \in BOOLEAN
  <2>1. 0 \in Time
    BY ConstantFacts DEF Time
  <2>2. enabled \in BOOLEAN
    <3>1. CASE Switchable
      BY <3>1 DEF Init
    <3>2. CASE ~Switchable
      BY <3>2 DEF Init
    <3>. QED  BY <3>1, <3>2
  <2>. QED  BY <2>1, <2>2
<1>2. gps \in GpsState(Time) /\ gps.position = NA /\ gps.course = NA
  BY DEF Init, FreshGps, GpsState
<1>3. StateTypeOK
  BY <1>1, <1>2, ConstantFacts DEF Init, StateTypeOK, Reading
<1>4. PositionKept /\ CourseKept /\ HeadingKept
  BY <1>2 DEF Init, PositionKept, CourseKept, HeadingKept, KeptAt
<1>. QED  BY <1>3, <1>4 DEF KeptInv

(* The handlers that only read. *)
LEMMA KeptUntouched ==
  ASSUME KeptInv, UNCHANGED << now, stage, enabled, gps, n2k, history >>
  PROVE  KeptInv'
BY DEF KeptInv, StateTypeOK, PositionKept, CourseKept, HeadingKept,
   n2k, timers, history

LEMMA KeptStep ==
  ASSUME KeptInv, [Next]_vars
  PROVE  KeptInv'
<1>. USE DEF KeptInv
<1>0. /\ now \in Nat /\ now \in Time /\ now \in Reading /\ NA \in Reading
      /\ LastHeadingTime \in Nat /\ LastCOGSOGTime \in Nat /\ LastPositionTime \in Nat
      /\ LastHeadingTime <= now /\ LastCOGSOGTime <= now /\ LastPositionTime <= now
  BY ConstantFacts DEF StateTypeOK, PositionKept, CourseKept, HeadingKept, KeptAt, Reading
<1>r. /\ gps \in GpsState(Time)
      /\ gps.position \in Nat \cup {NA} /\ gps.course \in Nat \cup {NA}
      /\ Heading \in Nat \cup {NA}
  BY GpsFacts, ConstantFacts DEF StateTypeOK, Reading
<1>1. CASE HandleClient
  <2>1. StateTypeOK'
    BY <1>1, GpsAssumption DEF HandleClient, StateTypeOK, n2k, timers
  <2>2. stage = "web" /\ enabled \in BOOLEAN
    BY <1>1 DEF HandleClient, StateTypeOK
  <2>3. PositionKept'
    BY <1>0, <1>1, <2>2, KeptBus DEF HandleClient, PositionKept, n2k, timers
  <2>4. CourseKept'
    BY <1>0, <1>1, <2>2, KeptBus DEF HandleClient, CourseKept, n2k, timers
  <2>5. HeadingKept'
    BY <1>0, <1>1, <2>2, KeptBus DEF HandleClient, HeadingKept, n2k, timers
  <2>. QED  BY <2>1, <2>3, <2>4, <2>5
<1>2. CASE HandleOthers \/ HandleBoatSpeed \/ HandleRMB \/ HandleHDT
  BY <1>2, KeptUntouched DEF HandleOthers, HandleBoatSpeed, HandleRMB, HandleHDT, KeptInv
<1>3. CASE HandleHeading
  <2>1. Heading' \in {now, NA} /\ LastHeadingTime' = now
    BY <1>3 DEF HandleHeading, Received
  <2>2. KeptAt(now, stage', enabled', skipped', Heading', now, CourseExpiry)
    BY <1>0, <2>1, ConstantFacts, KeptHeard
  <2>3. StateTypeOK' /\ PositionKept' /\ CourseKept'
    BY <1>0, <1>3, <2>1 DEF HandleHeading, StateTypeOK, PositionKept, CourseKept, history
  <2>4. HeadingKept'
    BY <1>3, <2>1, <2>2 DEF HandleHeading, HeadingKept
  <2>. QED  BY <2>3, <2>4
<1>4. ASSUME NEW pgn, NEW name, Positioned(pgn, name)
      PROVE  KeptInv'
  <2>1. PICK p \in {now, NA} : gps' = SetLatLong(gps, p)
    BY <1>4 DEF Positioned, Received
  <2>2. gps' \in GpsState(Time) /\ gps'.position = p /\ gps'.course = gps.course
    BY <1>0, <1>r, <2>1, GpsFacts
  <2>3. PositionKept'
    BY <1>0, <1>4, <2>2, ConstantFacts, KeptHeard DEF Positioned, PositionKept
  <2>4. StateTypeOK' /\ CourseKept' /\ HeadingKept'
    BY <1>0, <1>4, <2>2 DEF Positioned, StateTypeOK, CourseKept, HeadingKept, history
  <2>. QED  BY <2>3, <2>4
<1>5. CASE HandleCOGSOG
  <2>1. PICK c \in {now, NA} : gps' = SetCourse(gps, c)
    BY <1>5 DEF HandleCOGSOG, Received
  <2>2. gps' \in GpsState(Time) /\ gps'.course = c /\ gps'.position = gps.position
    BY <1>0, <1>r, <2>1, GpsFacts
  <2>3. CourseKept'
    BY <1>0, <1>5, <2>2, ConstantFacts, KeptHeard DEF HandleCOGSOG, CourseKept
  <2>4. StateTypeOK' /\ PositionKept' /\ HeadingKept'
    BY <1>0, <1>5, <2>2 DEF HandleCOGSOG, StateTypeOK, PositionKept, HeadingKept, history
  <2>. QED  BY <2>3, <2>4
<1>6. CASE ParsedMessages
  BY <1>6 DEF ParsedMessages, StateTypeOK, PositionKept, CourseKept, HeadingKept,
     KeptAt, n2k, timers, history
<1>7. CASE Update
  <2>1. /\ gps'.position = IF enabled /\ PositionExpired THEN NA ELSE gps.position
        /\ gps'.course = IF enabled /\ CourseExpired THEN NA ELSE gps.course
        /\ Heading' = IF enabled /\ HeadingExpired THEN NA ELSE Heading
        /\ gps' \in GpsState(Time)
    BY <1>0, <1>r, <1>7, GpsFacts DEF Update, GpsState, Reading
  <2>2. /\ stage = "update" /\ stage' = "serial2"
        /\ UNCHANGED << now, enabled, timers, skipped >>
    BY <1>7 DEF Update
  <2>3. NextRMCSend' \in Nat /\ lastRMC' \in Reading /\ waiting' \in Reading
    BY <1>0, <1>7, ConstantFacts DEF Update, NextRMC, StateTypeOK
  <2>4. StateTypeOK'
    BY <1>0, <2>1, <2>2, <2>3 DEF StateTypeOK, timers
  <2>5. PositionKept'
    BY <1>0, <1>r, <2>1, <2>2, ConstantFacts, KeptUpdate
       DEF PositionKept, PositionExpired, timers
  <2>6. CourseKept'
    BY <1>0, <1>r, <2>1, <2>2, ConstantFacts, KeptUpdate
       DEF CourseKept, CourseExpired, timers
  <2>7. HeadingKept'
    BY <1>0, <1>r, <2>1, <2>2, ConstantFacts, KeptUpdate
       DEF HeadingKept, HeadingExpired, timers
  <2>. QED  BY <2>4, <2>5, <2>6, <2>7
<1>8. CASE HandleRMC
  <2>1. gps' \in GpsState(Time) /\ gps'.position = now /\ gps'.course = now
    BY <1>0, <1>8 DEF HandleRMC, GpsState
  <2>2. UNCHANGED << now, stage, enabled, n2k, history >>
    BY <1>8 DEF HandleRMC
  <2>3. PositionKept' /\ CourseKept'
    BY <1>0, <2>1, <2>2, ConstantFacts, KeptHeard
       DEF PositionKept, CourseKept, n2k, timers, history
  <2>4. StateTypeOK' /\ HeadingKept'
    BY <2>1, <2>2 DEF StateTypeOK, HeadingKept, n2k, timers, history
  <2>. QED  BY <2>3, <2>4
<1>9. CASE HandleGGA
  <2>1. gps' \in GpsState(Time) /\ gps'.position = now /\ gps'.course = gps.course
    BY <1>0, <1>r, <1>9, GpsFacts DEF HandleGGA
  <2>2. UNCHANGED << now, stage, enabled, n2k, history >>
    BY <1>9 DEF HandleGGA
  <2>3. PositionKept'
    BY <1>0, <2>1, <2>2, ConstantFacts, KeptHeard DEF PositionKept, n2k, timers, history
  <2>4. StateTypeOK' /\ CourseKept' /\ HeadingKept'
    BY <2>1, <2>2 DEF StateTypeOK, CourseKept, HeadingKept, n2k, timers, history
  <2>. QED  BY <2>3, <2>4
<1>10. CASE HandleVTG
  <2>1. gps' \in GpsState(Time) /\ gps'.course = now /\ gps'.position = gps.position
    BY <1>0, <1>r, <1>10, GpsFacts DEF HandleVTG
  <2>2. UNCHANGED << now, stage, enabled, n2k, history >>
    BY <1>10 DEF HandleVTG
  <2>3. CourseKept'
    BY <1>0, <2>1, <2>2, ConstantFacts, KeptHeard DEF CourseKept, n2k, timers, history
  <2>4. StateTypeOK' /\ PositionKept' /\ HeadingKept'
    BY <2>1, <2>2 DEF StateTypeOK, PositionKept, HeadingKept, n2k, timers, history
  <2>. QED  BY <2>3, <2>4
<1>11. CASE HandleLoopDone
  BY <1>11 DEF HandleLoopDone, StateTypeOK, PositionKept, CourseKept, HeadingKept,
     KeptAt, n2k, timers, history
<1>12. CASE LoopDone
  <2>1. /\ stage = "done" /\ stage' = "web" /\ now' \in now .. now + Gap
        /\ now' <= MaxUptime
        /\ UNCHANGED << enabled, gps, n2k, history >>
    BY <1>12 DEF LoopDone
  <2>2. now' \in Time
    BY <1>0, <2>1, ConstantFacts DEF Time
  <2>3. StateTypeOK'
    BY <2>1, <2>2 DEF StateTypeOK, n2k, timers, history
  <2>4. now' \in Nat /\ now <= now' /\ now' <= now + Gap
    BY <1>0, <2>1, ConstantFacts
  <2>5. UNCHANGED << enabled, gps, n2k, skipped >>
    BY <2>1 DEF history
  <2>6. PositionKept'
    BY <1>0, <1>r, <2>1, <2>4, <2>5, ConstantFacts, KeptLoop DEF PositionKept, n2k, timers
  <2>7. CourseKept'
    BY <1>0, <1>r, <2>1, <2>4, <2>5, ConstantFacts, KeptLoop DEF CourseKept, n2k, timers
  <2>8. HeadingKept'
    BY <1>0, <1>r, <2>1, <2>4, <2>5, ConstantFacts, KeptLoop DEF HeadingKept, n2k, timers
  <2>. QED  BY <2>3, <2>6, <2>7, <2>8
<1>13. CASE UNCHANGED vars
  BY <1>13, KeptUntouched DEF vars
<1>. QED
  BY <1>1, <1>2, <1>3, <1>4, <1>5, <1>6, <1>7, <1>8, <1>9, <1>10, <1>11, <1>12, <1>13
     DEF Next, HandlePosition, HandleGNSS

-----------------------------------------------------------------------------
(* A reading in a message is of now, or was kept at a stage of loop() that *)
(* is not the first.                                                       *)
FromNowOr(reading, kept) == reading \in {now, NA} \/ (reading = kept /\ stage # "web")

LEMMA SentFrom ==
  ASSUME Next, NEW m \in sent'
  PROVE  /\ UNCHANGED << now, enabled, skipped >>
         /\ FromNowOr(m.position, gps.position)
         /\ FromNowOr(m.course, gps.course)
         /\ FromNowOr(m.heading, Heading)
<1>1. CASE HandleClient \/ ParsedMessages \/ LoopDone
  BY <1>1 DEF HandleClient, ParsedMessages, LoopDone
<1>10. CASE HandleLoopDone
  <2>1. m = [Plain("129285") EXCEPT !.position = gps.position]
    BY <1>10 DEF HandleLoopDone
  <2>2. m.position = gps.position /\ m.course = NA /\ m.heading = NA
    BY <2>1 DEF Plain
  <2>. QED  BY <1>10, <2>2 DEF HandleLoopDone, history, FromNowOr
<1>2. CASE HandleOthers
  BY <1>2 DEF Plain, HandleOthers, history, FromNowOr
<1>3. CASE HandleHeading
  BY <1>3 DEF Plain, HandleHeading, history, FromNowOr, Received
<1>4. CASE HandleBoatSpeed
  BY <1>4 DEF Plain, HandleBoatSpeed, OnBus, history, FromNowOr
<1>5. ASSUME NEW pgn, NEW name, Positioned(pgn, name)
      PROVE  /\ UNCHANGED << now, enabled, skipped >>
             /\ FromNowOr(m.position, gps.position)
             /\ FromNowOr(m.course, gps.course)
             /\ FromNowOr(m.heading, Heading)
  BY <1>5 DEF Plain, Positioned, history, FromNowOr, Received
<1>6. CASE HandleCOGSOG
  BY <1>6 DEF Plain, HandleCOGSOG, history, FromNowOr, Received
<1>7. CASE Update
  <2>1. m = [Plain("RMC") EXCEPT !.position = gps.position, !.course = gps.course]
    BY <1>7 DEF Update
  <2>2. m.position = gps.position /\ m.course = gps.course /\ m.heading = NA
    BY <2>1 DEF Plain
  <2>. QED  BY <1>7, <2>2 DEF Update, FromNowOr
<1>8. CASE HandleRMC \/ HandleGGA \/ HandleVTG \/ HandleHDT
  BY <1>8 DEF Plain, HandleRMC, HandleGGA, HandleVTG, HandleHDT, history, FromNowOr
<1>9. CASE HandleRMB
  BY <1>9 DEF Plain, HandleRMB, OnLine, history, FromNowOr
<1>. QED
  BY <1>1, <1>2, <1>3, <1>4, <1>5, <1>6, <1>7, <1>8, <1>9, <1>10
     DEF Next, HandlePosition, HandleGNSS

(* What is kept is recent, for the messages that loop() may send it in. *)
LEMMA KeptIsRecent ==
  ASSUME KeptInv, Next, UNCHANGED << now, enabled, skipped >>,
         NEW reading, NEW kept \in Nat \cup {NA}, NEW last, NEW expiry \in Nat,
         FromNowOr(reading, kept),
         KeptAt(now, stage, enabled, skipped, kept, last, expiry)
  PROVE  Recent(reading, expiry)'
<1>1. now \in Nat /\ now - now = 0 /\ enabled \in BOOLEAN /\ skipped \in BOOLEAN
  BY ConstantFacts DEF KeptInv, StateTypeOK
<1>2. CASE reading \in {now, NA}
  BY <1>1, <1>2, ConstantFacts DEF Recent
<1>3. CASE reading = kept /\ stage # "web" /\ kept # NA
  <2>1. stage \in {"bus", "update", "serial2", "udp", "done"}
    BY <1>3 DEF KeptInv, StateTypeOK
  <2>. QED  BY <1>1, <1>3, <2>1, ConstantFacts DEF Recent, KeptAt
<1>. QED  BY <1>2, <1>3 DEF FromNowOr

LEMMA RecentStep ==
  ASSUME KeptInv, [Next]_vars, PositionsAreRecent, CoursesAreRecent, HeadingsAreRecent
  PROVE  (PositionsAreRecent /\ CoursesAreRecent /\ HeadingsAreRecent)'
<1>1. CASE UNCHANGED vars
  BY <1>1 DEF vars, history, PositionsAreRecent, CoursesAreRecent, HeadingsAreRecent, Recent
<1>2. CASE Next
  <2>1. ASSUME NEW m \in sent'
        PROVE  /\ Recent(m.position, PositionExpiry)'
               /\ Recent(m.course, CourseExpiry)'
               /\ Recent(m.heading, CourseExpiry)'
    <3>1. /\ gps.position \in Nat \cup {NA} /\ gps.course \in Nat \cup {NA}
          /\ Heading \in Nat \cup {NA}
      BY GpsFacts, ConstantFacts DEF KeptInv, StateTypeOK, Reading
    <3>. QED  BY <1>2, <2>1, <3>1, SentFrom, KeptIsRecent, ConstantFacts
              DEF KeptInv, PositionKept, CourseKept, HeadingKept
  <2>. QED  BY <2>1 DEF PositionsAreRecent, CoursesAreRecent, HeadingsAreRecent
<1>. QED  BY <1>1, <1>2

LEMMA RecentInit ==
  Init => PositionsAreRecent /\ CoursesAreRecent /\ HeadingsAreRecent
BY DEF Init, PositionsAreRecent, CoursesAreRecent, HeadingsAreRecent

LEMMA AllRecent ==
  Spec => [](PositionsAreRecent /\ CoursesAreRecent /\ HeadingsAreRecent)
<1>. QED  BY KeptInit, KeptStep, RecentInit, RecentStep, PTL DEF Spec

(* No position goes out late, whichever side of the gateway brought it.    *)
THEOREM PositionsRecent == Spec => []PositionsAreRecent
<1>. QED  BY AllRecent, PTL

(* No course goes out late, in RMC or in an estimated time of arrival.     *)
THEOREM CoursesRecent == Spec => []CoursesAreRecent
<1>. QED  BY AllRecent, PTL

(* No heading goes out late in VHW.                                        *)
THEOREM HeadingsRecent == Spec => []HeadingsAreRecent
<1>. QED  BY AllRecent, PTL

-----------------------------------------------------------------------------
LEMMA SentTypeStep ==
  ASSUME KeptInv, TypeOK, [Next]_vars
  PROVE  TypeOK'
<1>1. KeptInv'
  BY KeptStep
<1>2. \A m \in sent' : m.position \in Reading /\ m.course \in Reading /\ m.heading \in Reading
  <2>1. CASE UNCHANGED vars
    BY <2>1 DEF vars, TypeOK
  <2>2. CASE Next
    <3>1. /\ gps.position \in Reading /\ gps.course \in Reading /\ Heading \in Reading
          /\ now \in Reading /\ NA \in Reading
      BY GpsFacts DEF KeptInv, StateTypeOK, Reading
    <3>. QED  BY <2>2, <3>1, SentFrom DEF FromNowOr
  <2>. QED  BY <2>1, <2>2
<1>. QED  BY <1>1, <1>2 DEF KeptInv, StateTypeOK, TypeOK, Reading

(* Every variable of loop() keeps its type. *)
THEOREM SharedGpsTypes == Spec => []TypeOK
<1>1. Init => TypeOK
  BY KeptInit DEF KeptInv, StateTypeOK, TypeOK, Init
<1>. QED  BY <1>1, KeptInit, KeptStep, SentTypeStep, PTL DEF Spec

-----------------------------------------------------------------------------
(* RMC is next due a period after it was last sent, and at most a period   *)
(* after it could have been sent; Update has sent it if it was due.        *)
RMCInv ==
  /\ NextRMCSend <= now + RMCPeriod
  /\ lastRMC # NA => NextRMCSend = lastRMC + RMCPeriod
  /\ waiting # NA =>
       /\ waiting <= now /\ NextRMCSend <= waiting + RMCPeriod
       /\ now <= NextRMCSend + Gap
       /\ stage \in {"serial2", "udp", "done"} => now <= NextRMCSend

LEMMA RMCInit == Init => RMCInv
BY ConstantFacts DEF Init, RMCInv

LEMMA RMCStep ==
  ASSUME KeptInv, RMCInv, [Next]_vars
  PROVE  RMCInv'
<1>0. /\ now \in Nat /\ NextRMCSend \in Nat
      /\ waiting \in Nat \cup {NA} /\ lastRMC \in Nat \cup {NA}
      /\ gps.position \in Nat \cup {NA} /\ enabled \in BOOLEAN
  BY ConstantFacts, GpsFacts DEF KeptInv, StateTypeOK, Reading
<1>1. CASE Update
  <2>0. /\ UNCHANGED now /\ stage' = "serial2"
    BY <1>1 DEF Update
  <2>1. CASE enabled /\ RMCDue
    <3>1. NextRMCSend' = now + RMCPeriod /\ lastRMC' = now /\ waiting' = NA
      BY <1>1, <2>1 DEF Update, NextRMC
    <3>. QED  BY <1>0, <2>0, <3>1, ConstantFacts DEF RMCInv
  <2>2. CASE ~(enabled /\ RMCDue)
    <3>1. /\ UNCHANGED << NextRMCSend, lastRMC >>
          /\ waiting' = IF ~enabled \/ gps.position = NA THEN NA
                        ELSE IF waiting = NA THEN now ELSE waiting
      BY <1>1, <2>2 DEF Update
    <3>2. enabled /\ gps.position # NA => now <= NextRMCSend
      BY <1>0, <2>2 DEF RMCDue
    <3>. QED  BY <1>0, <2>0, <3>1, <3>2, ConstantFacts DEF RMCInv
  <2>. QED  BY <2>1, <2>2
<1>2. CASE LoopDone
  <2>1. /\ stage = "done" /\ stage' = "web" /\ now' \in now .. now + Gap
        /\ UNCHANGED << NextRMCSend, lastRMC, waiting >>
    BY <1>2 DEF LoopDone, n2k, history
  <2>2. now' \in Nat /\ now <= now' /\ now' <= now + Gap
    BY <1>0, <2>1, ConstantFacts
  <2>3. /\ NextRMCSend <= now' + RMCPeriod
        /\ lastRMC # NA => NextRMCSend = lastRMC + RMCPeriod
    <3>1. /\ NextRMCSend <= now + RMCPeriod
          /\ lastRMC # NA => NextRMCSend = lastRMC + RMCPeriod
      BY DEF RMCInv
    <3>2. \A next \in Nat : now <= next => NextRMCSend <= next + RMCPeriod
      BY <1>0, <3>1, ConstantFacts
    <3>3. NextRMCSend <= now' + RMCPeriod
      BY <2>2, <3>2
    <3>. QED  BY <3>1, <3>3
  <2>4. ASSUME waiting # NA
        PROVE  /\ waiting <= now' /\ NextRMCSend <= waiting + RMCPeriod
               /\ now' <= NextRMCSend + Gap
    <3>1. waiting <= now /\ NextRMCSend <= waiting + RMCPeriod /\ now <= NextRMCSend
      BY <2>1, <2>4 DEF RMCInv
    <3>. QED  BY <1>0, <2>2, <2>4, <3>1, ConstantFacts
  <2>. QED  BY <2>1, <2>3, <2>4 DEF RMCInv
<1>3. CASE HandleClient \/ ParsedMessages \/ HandleLoopDone
  BY <1>3 DEF HandleClient, ParsedMessages, HandleLoopDone, RMCInv, n2k, history
<1>4. CASE \/ HandleOthers \/ HandleHeading \/ HandleBoatSpeed
           \/ HandlePosition \/ HandleGNSS \/ HandleCOGSOG
           \/ HandleRMC \/ HandleGGA \/ HandleVTG \/ HandleRMB \/ HandleHDT
           \/ UNCHANGED vars
  <2>1. UNCHANGED << now, stage, NextRMCSend, lastRMC, waiting >>
    BY <1>4 DEF HandleOthers, HandleHeading, HandleBoatSpeed, HandlePosition,
       HandleGNSS, Positioned, HandleCOGSOG, HandleRMC, HandleGGA, HandleVTG,
       HandleRMB, HandleHDT, vars, n2k, history
  <2>. QED  BY <2>1 DEF RMCInv
<1>. QED  BY <1>1, <1>2, <1>3, <1>4 DEF Next

(* While the source is on and the position known, RMC is not late.         *)
THEOREM RMCNotLate == Spec => []RMCInTime
<1>1. KeptInv /\ RMCInv => RMCInTime
  <2> SUFFICES ASSUME KeptInv, RMCInv, waiting # NA
               PROVE  now - waiting <= RMCPeriod + Gap
    BY DEF RMCInTime
  <2>1. now \in Nat /\ NextRMCSend \in Nat /\ waiting \in Nat
    BY ConstantFacts DEF KeptInv, StateTypeOK, Reading
  <2>. QED  BY <2>1, ConstantFacts DEF RMCInv
<1>. QED  BY <1>1, KeptInit, KeptStep, RMCInit, RMCStep, PTL DEF Spec

(* Only Update sends RMC. *)
LEMMA RMCFromUpdate ==
  ASSUME Next, NEW m \in sent', m.name = "RMC"
  PROVE  Update /\ enabled /\ RMCDue
<1>1. CASE HandleClient \/ ParsedMessages \/ HandleLoopDone \/ LoopDone
  BY <1>1 DEF HandleClient, ParsedMessages, HandleLoopDone, LoopDone, Plain
<1>2. CASE HandleOthers
  <2>1. PICK pgn \in DOMAIN Converted : sent' = {Plain(name) : name \in Converted[pgn]}
    BY <1>2 DEF HandleOthers
  <2>2. "RMC" \notin Converted[pgn]
    BY DEF Converted
  <2>. QED  BY <2>1, <2>2 DEF Plain
<1>3. CASE HandleHeading
  BY <1>3 DEF Plain, HandleHeading
<1>4. CASE HandleBoatSpeed
  BY <1>4 DEF Plain, HandleBoatSpeed
<1>5. CASE HandlePosition \/ HandleGNSS
  BY <1>5 DEF Plain, HandlePosition, HandleGNSS, Positioned
<1>6. CASE HandleCOGSOG
  BY <1>6 DEF Plain, HandleCOGSOG
<1>7. CASE Update
  BY <1>7 DEF Update
<1>8. CASE HandleRMC \/ HandleGGA \/ HandleVTG \/ HandleRMB \/ HandleHDT
  BY <1>8 DEF Plain, HandleRMC, HandleGGA, HandleVTG, HandleRMB, HandleHDT
<1>. QED  BY <1>1, <1>2, <1>3, <1>4, <1>5, <1>6, <1>7, <1>8 DEF Next

(* Two RMC sentences are at least a period apart.                          *)
THEOREM RMCNotFlooded == Spec => RMCSpaced
<1>1. KeptInv /\ RMCInv /\ [Next]_vars
        => [\A m \in sent' : m.name = "RMC" /\ lastRMC # NA
                             => now - lastRMC >= RMCPeriod]_vars
  <2> SUFFICES ASSUME KeptInv, RMCInv, Next, NEW m \in sent', m.name = "RMC", lastRMC # NA
               PROVE  now - lastRMC >= RMCPeriod
    OBVIOUS
  <2>1. now \in Nat /\ NextRMCSend \in Nat /\ lastRMC \in Nat
    BY ConstantFacts DEF KeptInv, StateTypeOK, Reading
  <2>2. NextRMCSend <= now
    BY RMCFromUpdate DEF RMCDue
  <2>. QED  BY <2>1, <2>2, ConstantFacts DEF RMCInv
<1>. QED  BY <1>1, KeptInit, KeptStep, RMCInit, RMCStep, PTL DEF Spec, RMCSpaced
=============================================================================
