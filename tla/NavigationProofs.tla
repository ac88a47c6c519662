-------------------------- MODULE NavigationProofs --------------------------
(***************************************************************************)
(* Theorems about Navigation, for every circle, variation, day and route.  *)
(***************************************************************************)
EXTENDS Navigation, TLAPS

-----------------------------------------------------------------------------
(* Arithmetic: what division and remainder are, and that a multiple of the *)
(* divisor does not change the remainder.                                  *)
LEMMA TimesMonotone ==
  ASSUME NEW a \in Int, NEW b \in Int, NEW d \in Nat, a <= b
  PROVE  a * d <= b * d
<1>1. (b - a) * d >= 0
  OBVIOUS
<1>2. (b - a) * d = b * d - a * d
  OBVIOUS
<1>. QED  BY <1>1, <1>2

LEMMA DivMod ==
  ASSUME NEW n \in Int, NEW d \in Nat \ {0}
  PROVE  /\ n \div d \in Int
         /\ n % d \in 0 .. d - 1
         /\ (n \div d) * d + (n % d) = n
OBVIOUS

LEMMA SmallMultiple ==
  ASSUME NEW k \in Int, NEW d \in Nat \ {0}, k * d < d, - d < k * d
  PROVE  k = 0
<1>1. CASE k >= 1
  <2>1. 1 * d <= k * d
    BY <1>1, TimesMonotone
  <2>. QED  BY <2>1
<1>2. CASE k <= -1
  <2>1. k * d <= (-1) * d
    BY <1>2, TimesMonotone
  <2>. QED  BY <2>1
<1>. QED  BY <1>1, <1>2

LEMMA ModOfMultiple ==
  ASSUME NEW x \in Int, NEW k \in Int, NEW d \in Nat \ {0}
  PROVE  (x + k * d) % d = x % d
<1> DEFINE y == x + k * d
           q == x \div d
           p == y \div d
<1>1. /\ k * d \in Int /\ y \in Int
  OBVIOUS
<1>2. /\ q \in Int /\ x % d \in 0 .. d - 1 /\ q * d + (x % d) = x
  BY DivMod
<1>3. /\ p \in Int /\ y % d \in 0 .. d - 1 /\ p * d + (y % d) = y
  BY <1>1, DivMod
<1>4. (q + k - p) * d = (y % d) - (x % d)
  <2>1. (q + k - p) * d = q * d + k * d - p * d
    BY <1>2, <1>3
  <2>. QED  BY <1>1, <1>2, <1>3, <2>1
<1>5. q + k - p = 0
  <2>1. (q + k - p) * d < d /\ - d < (q + k - p) * d
    BY <1>2, <1>3, <1>4
  <2>. QED  BY <1>2, <1>3, <2>1, SmallMultiple
<1>6. (y % d) - (x % d) = 0
  BY <1>2, <1>3, <1>4, <1>5
<1>. QED  BY <1>2, <1>3, <1>6
-----------------------------------------------------------------------------
LEMMA ConstantFacts ==
  /\ Circle \in Nat \ {0} /\ Variation \in Int
  /\ Course \in Angle /\ Heading0 \in Angle
  /\ Bearing \in [Leg -> Angle] /\ Leg \subseteq Int /\ Angle \subseteq Int
  /\ Day \in Nat \ {0} /\ MaxNow \in Nat /\ Now0 \in 0 .. MaxNow
  /\ NA \notin Int /\ Garbage \notin Int /\ NA # Garbage
BY NavigationAssumption DEF Leg, Angle

(* A compass shows an angle; the day and the time of day are what the      *)
(* clock says.                                                             *)
LEMMA CompassAngle ==
  ASSUME NEW angle \in Int
  PROVE  Compass(angle) \in Angle
<1>1. angle - Variation \in Int
  BY ConstantFacts
<1>. QED  BY <1>1, ConstantFacts, DivMod DEF Compass, Angle

LEMMA CourseShown ==
  /\ Course \in Int /\ Compass(Course) \in Int /\ Compass(Heading0) \in Int
  /\ Course - Compass(Course) \in Int
<1>1. Course \in Int /\ Heading0 \in Int
  BY ConstantFacts
<1>2. Compass(Course) \in Int /\ Compass(Heading0) \in Int
  BY <1>1, CompassAngle, ConstantFacts
<1>. QED  BY <1>1, <1>2

LEMMA MinusType ==
  ASSUME NEW x \in Int \cup {NA, Garbage}, NEW y \in Int \cup {NA, Garbage}
  PROVE  Minus(x, y) \in Int \cup {NA, Garbage}
<1>1. CASE x \in Int /\ y \in Int
  <2>1. Minus(x, y) = x - y
    BY <1>1, ConstantFacts DEF Minus
  <2>. QED  BY <1>1, <2>1
<1>2. CASE x \notin Int \/ y \notin Int
  <2>1. Minus(x, y) \in {0, Garbage}
    BY <1>2, ConstantFacts DEF Minus
  <2>. QED  BY <2>1
<1>. QED  BY <1>1, <1>2

LEMMA ClockReading ==
  ASSUME now \in Nat
  PROVE  /\ Today \in Nat /\ TimeOfDay \in 0 .. Day - 1
         /\ Today * Day + TimeOfDay = now
<1>1. /\ Today \in Int /\ TimeOfDay \in 0 .. Day - 1
      /\ Today * Day + TimeOfDay = now
  BY ConstantFacts, DivMod DEF Today, TimeOfDay
<1>2. CASE Today <= -1
  <2>1. Today * Day <= (-1) * Day
    BY <1>1, <1>2, ConstantFacts, TimesMonotone
  <2>. QED  BY <1>1, <2>1, ConstantFacts
<1>. QED  BY <1>1, <1>2

(* The next part of a day is on the same day or the next. *)
LEMMA DivMonotone ==
  ASSUME NEW n \in Int, NEW d \in Nat \ {0}
  PROVE  n \div d <= (n + 1) \div d
<1> DEFINE p == n \div d
           q == (n + 1) \div d
<1>1. p \in Int /\ n % d \in 0 .. d - 1 /\ p * d + (n % d) = n
  BY DivMod
<1>2. q \in Int /\ (n + 1) % d \in 0 .. d - 1 /\ q * d + ((n + 1) % d) = n + 1
  <2>1. n + 1 \in Int
    OBVIOUS
  <2>. QED  BY <2>1, DivMod
<1>3. CASE q + 1 <= p
  <2>1. (q + 1) * d <= p * d
    BY <1>1, <1>2, <1>3, TimesMonotone
  <2>2. (q + 1) * d = q * d + d
    BY <1>2
  <2>3. p * d \in Int /\ q * d \in Int
    BY <1>1, <1>2
  <2>. QED  BY <1>1, <1>2, <2>1, <2>2, <2>3
<1>. QED  BY <1>1, <1>2, <1>3

LEMMA DaysPass ==
  ASSUME now \in Nat, now' = now + 1
  PROVE  Today <= Today'
BY ConstantFacts, DivMonotone DEF Today

-----------------------------------------------------------------------------
(* Every variable keeps its type (the handlers of N183ToN2k and N2kToN183  *)
(* as a whole).                                                            *)
LEMMA TypeInit == Init => NavTypeOK
<1>1. 0 \in Leg /\ Now0 \in Now0 .. MaxNow
  BY ConstantFacts, NavigationAssumption DEF Leg
<1> SUFFICES ASSUME Init PROVE NavTypeOK
  OBVIOUS
<1>3. now \in Now0 .. MaxNow /\ leg \in Leg /\ pending \subseteq Batch
  BY <1>1 DEF Init
<1>4. gps \in [ variation : Int \cup {NA, Garbage}, cog : Int \cup {NA, Garbage},
               date : Nat \cup {NA}, time : 0 .. Day - 1 \cup {NA} ]
  BY DEF Init
<1>5. bod \in [ leg : Leg \cup {NA}, trueBearing : Angle \cup {NA, Garbage},
               magBearing : Angle \cup {NA, Garbage} ]
  BY DEF Init
<1>6. /\ perpendicularCrossed \in BOOLEAN /\ passed \in BOOLEAN
      /\ ofModel \in BOOLEAN /\ unfounded \in BOOLEAN
  BY DEF Init
<1>. QED  BY <1>3, <1>4, <1>5, <1>6 DEF NavTypeOK

LEMMA TypeStep ==
  ASSUME NavTypeOK, [Next]_vars
  PROVE  NavTypeOK'
<1>. USE ConstantFacts DEF NavTypeOK
<1>0. now \in Nat
  OBVIOUS
<1>1. Today \in Nat /\ TimeOfDay \in 0 .. Day - 1
  BY <1>0, ClockReading
<1>2. CASE HandleDateTime
  BY <1>1, <1>2 DEF HandleDateTime, plotter, history
<1>3. CASE HandleVariation
  <2>1. PICK date \in 0 .. Today \cup {NA}, v \in {Variation, NA} :
          gps' = [gps EXCEPT !.date = date, !.variation = v]
    BY <1>3 DEF HandleVariation
  <2>2. date \in Nat \cup {NA} /\ v \in Int \cup {NA}
    BY <1>1
  <2>. QED  BY <1>3, <2>1, <2>2 DEF HandleVariation, plotter, history
<1>5. CASE HandleHeading
  BY <1>5 DEF HandleHeading, plotter
<1>6. CASE HandleTrueCourse
  BY <1>6 DEF HandleTrueCourse, plotter, history
<1>7. CASE HandleMagneticCourse
  <2>1. PICK c \in {Compass(Course), NA} :
          gps' = [gps EXCEPT !.cog = IF gps.variation = NA THEN c
                                     ELSE Minus(c, gps.variation)]
    BY <1>7 DEF HandleMagneticCourse
  <2>2. c \in Int \cup {NA, Garbage}
    BY CourseShown
  <2>3. Minus(c, gps.variation) \in Int \cup {NA, Garbage}
    BY <2>2, MinusType
  <2>. QED  BY <1>7, <2>1, <2>2, <2>3 DEF HandleMagneticCourse, plotter, history
<1>8. CASE Update
  BY <1>8 DEF Update, plotter, history
<1>9. CASE HandleRMC
  <2>1. PICK c \in {Course, NA}, v \in {Variation, NA} : gps' = FromRMC(c, v)
    BY <1>9 DEF HandleRMC
  <2>2. v \in Int \cup {NA} /\ c \in Int \cup {NA}
    BY CourseShown
  <2>. QED  BY <1>1, <1>9, <2>1, <2>2 DEF HandleRMC, FromRMC, plotter
<1>10. CASE HandleGGA
  BY <1>1, <1>10 DEF HandleGGA, FromGGA, plotter, history
<1>11. CASE HandleVTG
  <2>1. PICK c \in {Course, NA}, magnetic \in {Compass(Course), NA} :
          /\ gps' = [gps EXCEPT !.cog = c, !.variation = Minus(c, magnetic)]
          /\ unfounded' = (NA \in {c, magnetic})
    BY <1>11 DEF HandleVTG
  <2>2. c \in Int \cup {NA, Garbage} /\ magnetic \in Int \cup {NA, Garbage} /\ c # Garbage
    BY CourseShown
  <2>3. Minus(c, magnetic) \in Int \cup {NA, Garbage}
    BY <2>2, MinusType
  <2>4. gps' \in [ variation : Int \cup {NA, Garbage}, cog : Int \cup {NA, Garbage},
                  date : Nat \cup {NA}, time : 0 .. Day - 1 \cup {NA} ]
    BY <2>1, <2>2, <2>3
  <2>5. unfounded' \in BOOLEAN
    BY <2>1
  <2>. QED  BY <1>11, <2>4, <2>5 DEF HandleVTG, plotter
<1>12. CASE HandleHDT
  BY <1>12 DEF HandleHDT, plotter, history
<1>13. CASE HandleAPB
  BY <1>13 DEF HandleAPB, Crossed, history
<1>14. CASE HandleBOD
  <2>1. Bearing[leg] \in Angle /\ Compass(Bearing[leg]) \in Angle
    BY CompassAngle
  <2>2. PICK true \in {Bearing[leg], NA}, mag \in {Compass(Bearing[leg]), NA} :
          bod' = FromBOD(true, mag)
    BY <1>14 DEF HandleBOD
  <2>. QED  BY <1>14, <2>1, <2>2 DEF HandleBOD, FromBOD, history
<1>15. CASE HandleRMB
  BY <1>15 DEF HandleRMB, history
<1>16. CASE NextBatch
  BY <1>16 DEF NextBatch, history
<1>17. CASE Tick
  BY <1>17 DEF Tick, plotter, history
<1>18. CASE UNCHANGED vars
  BY <1>18 DEF vars, plotter, history
<1>. QED
  BY <1>2, <1>3, <1>5, <1>6, <1>7, <1>8, <1>9, <1>10, <1>11, <1>12,
     <1>13, <1>14, <1>15, <1>16, <1>17, <1>18 DEF Next

THEOREM NavigationTypes == Spec => []NavTypeOK
<1>. QED  BY TypeInit, TypeStep, PTL DEF Spec

-----------------------------------------------------------------------------
(* What PGN 129284 takes from BOD and APB is of this batch or the one      *)
(* before; and of this one as soon as the sentence has come.  All of it    *)
(* has come when the next batch starts.                                    *)
LegInv ==
  /\ bod.leg \in {leg, before.leg}
  /\ "BOD" \notin pending => bod.leg = leg
  /\ perpendicularCrossed \in {passed, before.passed}
  /\ "APB" \notin pending => perpendicularCrossed = passed

LEMMA LegInit == Init => LegInv /\ LegInStep
<1> SUFFICES ASSUME Init PROVE LegInv /\ LegInStep
  OBVIOUS
<1>1. bod.leg = before.leg /\ perpendicularCrossed = passed
  BY DEF Init
<1>2. "BOD" \in pending
  BY DEF Init, Batch
<1>3. sent = {}
  BY DEF Init
<1>. QED  BY <1>1, <1>2, <1>3 DEF LegInv, LegInStep

(* The handlers that leave the batch alone. *)
LEMMA LegUntouched ==
  ASSUME LegInv, UNCHANGED << bod, perpendicularCrossed, plotter >>
  PROVE  LegInv'
BY DEF LegInv, plotter

LEMMA LegStep ==
  ASSUME NavTypeOK, LegInv, [Next]_vars
  PROVE  LegInv'
<1>1. CASE HandleAPB
  BY <1>1 DEF HandleAPB, Crossed, LegInv
<1>2. CASE HandleBOD
  <2>1. PICK true \in {Bearing[leg], NA}, mag \in {Compass(Bearing[leg]), NA} :
          bod' = FromBOD(true, mag)
    BY <1>2 DEF HandleBOD
  <2>2. bod'.leg = leg
    BY <2>1 DEF FromBOD
  <2>. QED  BY <1>2, <2>2 DEF HandleBOD, LegInv
<1>3. CASE HandleRMB
  BY <1>3 DEF HandleRMB, LegInv
<1>4. CASE NextBatch
  <2>1. bod.leg = leg /\ perpendicularCrossed = passed
    BY <1>4 DEF NextBatch, LegInv
  <2>2. before'.leg = leg /\ before'.passed = passed
    BY <1>4 DEF NextBatch
  <2>3. "BOD" \in pending' /\ "APB" \in pending'
    BY <1>4 DEF NextBatch, Batch
  <2>. QED  BY <1>4, <2>1, <2>2, <2>3 DEF NextBatch, LegInv
<1>5. CASE UNCHANGED vars
  BY <1>5, LegUntouched DEF vars
<1>6. CASE \/ HandleDateTime \/ HandleVariation \/ HandleHeading
           \/ HandleTrueCourse \/ HandleMagneticCourse
           \/ Update \/ HandleRMC \/ HandleGGA \/ HandleVTG \/ HandleHDT \/ Tick
  BY <1>6, LegUntouched DEF HandleDateTime, HandleVariation, HandleHeading,
     HandleTrueCourse, HandleMagneticCourse, Update,
     HandleRMC, HandleGGA, HandleVTG, HandleHDT, Tick
<1>. QED  BY <1>1, <1>2, <1>3, <1>4, <1>5, <1>6 DEF Next

(* A step that sends no PGN 129284. *)
LEMMA NoLegSent ==
  ASSUME \A m \in sent' : m.name # "129284"
  PROVE  LegInStep'
BY DEF LegInStep

LEMMA LegSent ==
  ASSUME NavTypeOK, LegInv, LegInStep, [Next]_vars
  PROVE  LegInStep'
<1>1. CASE HandleRMB
  <2>1. ASSUME NEW m \in sent', m.name = "129284"
        PROVE  m.leg = bod.leg /\ m.crossed = perpendicularCrossed
    BY <1>1, <2>1 DEF HandleRMB, Magnetic
  <2>2. UNCHANGED << leg, passed, before >>
    BY <1>1 DEF HandleRMB
  <2>. QED  BY <2>1, <2>2 DEF LegInv, LegInStep
<1>2. CASE UNCHANGED vars
  BY <1>2 DEF vars, plotter, LegInStep
<1>3. CASE \/ HandleDateTime \/ HandleVariation \/ HandleHeading
           \/ HandleTrueCourse \/ HandleMagneticCourse
           \/ HandleVTG \/ HandleAPB \/ HandleBOD \/ NextBatch \/ Tick
  <2>1. sent' = {}
    BY <1>3 DEF HandleDateTime, HandleVariation, HandleHeading,
       HandleTrueCourse, HandleMagneticCourse,
       HandleVTG, HandleAPB, HandleBOD, NextBatch, Tick
  <2>. QED  BY <2>1, NoLegSent
<1>4. CASE Update \/ HandleRMC \/ HandleGGA \/ HandleHDT
  <2>1. \A m \in sent' : m.name # "129284"
    BY <1>4 DEF Update, HandleRMC, HandleGGA, HandleHDT, Magnetic, Dated
  <2>. QED  BY <2>1, NoLegSent
<1>. QED  BY <1>1, <1>2, <1>3, <1>4 DEF Next

(* However a batch is ordered, PGN 129284 does not mix sentences that are  *)
(* more than one batch apart.                                              *)
THEOREM LegKeepsStep == Spec => []LegInStep
<1>1. Init => NavTypeOK /\ LegInv /\ LegInStep
  BY TypeInit, LegInit
<1>2. NavTypeOK /\ LegInv /\ LegInStep /\ [Next]_vars
        => (NavTypeOK /\ LegInv /\ LegInStep)'
  BY TypeStep, LegStep, LegSent
<1>. QED  BY <1>1, <1>2, PTL DEF Spec

-----------------------------------------------------------------------------
(* A date that did not come from the model of the variation is not ahead,  *)
(* nor is it with its time of day.                                         *)
ClockInv ==
  ~ofModel /\ gps.date # NA =>
    /\ gps.date <= Today
    /\ gps.time # NA => gps.date * Day + gps.time <= now

(* A date up to today with the time of day of now, as GGA puts them        *)
(* together.                                                               *)
LEMMA NotAhead ==
  ASSUME now \in Nat, NEW date \in Nat, date <= Today
  PROVE  date * Day + TimeOfDay <= now
<1>1. /\ Today \in Nat /\ TimeOfDay \in 0 .. Day - 1
      /\ Today * Day + TimeOfDay = now
  BY ClockReading
<1>2. date * Day <= Today * Day
  BY <1>1, ConstantFacts, TimesMonotone
<1>3. date * Day \in Int /\ Today * Day \in Int
  BY <1>1, ConstantFacts
<1>. QED  BY <1>1, <1>2, <1>3, ConstantFacts

LEMMA ClockUntouched ==
  ASSUME ClockInv, UNCHANGED << now, ofModel >>,
         gps'.date = gps.date, gps'.time = gps.time
  PROVE  ClockInv'
BY DEF ClockInv, Today

(* Date and time of now. *)
LEMMA ClockSet ==
  ASSUME now \in Nat, now' = now, gps'.date = Today, gps'.time = TimeOfDay
  PROVE  ClockInv'
<1>1. Today * Day + TimeOfDay = now /\ Today \in Nat
  BY ClockReading
<1>2. Today' = Today
  BY DEF Today
<1>. QED  BY <1>1, <1>2 DEF ClockInv

LEMMA ClockStep ==
  ASSUME NavTypeOK, ClockInv, [Next]_vars
  PROVE  ClockInv'
<1>0. /\ now \in Nat /\ gps.date \in Nat \cup {NA}
      /\ gps \in [ variation : Int \cup {NA, Garbage}, cog : Int \cup {NA, Garbage},
                  date : Nat \cup {NA}, time : 0 .. Day - 1 \cup {NA} ]
  BY ConstantFacts DEF NavTypeOK
<1>1. CASE HandleDateTime
  <2>1. CASE gps' = [gps EXCEPT !.date = Today, !.time = TimeOfDay]
    <3>1. gps'.date = Today /\ gps'.time = TimeOfDay
      BY <1>0, <2>1
    <3>. QED  BY <1>0, <1>1, <3>1, ClockSet DEF HandleDateTime
  <2>2. CASE gps' = [gps EXCEPT !.date = NA, !.time = NA]
    <3>1. gps'.date = NA
      BY <1>0, <2>2
    <3>. QED  BY <3>1 DEF ClockInv
  <2>. QED  BY <1>1, <2>1, <2>2 DEF HandleDateTime
<1>2. CASE HandleVariation
  BY <1>2 DEF HandleVariation, ClockInv
<1>3. CASE HandleRMC
  <2>1. gps'.date = Today /\ gps'.time = TimeOfDay
    BY <1>3 DEF HandleRMC, FromRMC
  <2>. QED  BY <1>0, <1>3, <2>1, ClockSet DEF HandleRMC
<1>4. CASE HandleGGA
  <2>1. gps'.date = gps.date /\ gps'.time = TimeOfDay /\ now' = now /\ ofModel' = ofModel
    BY <1>0, <1>4 DEF HandleGGA, FromGGA, history
  <2>2. ~ofModel /\ gps.date # NA =>
          gps.date <= Today /\ gps.date * Day + TimeOfDay <= now
    BY <1>0, NotAhead DEF ClockInv
  <2>3. Today' = Today
    BY <2>1 DEF Today
  <2>. QED  BY <2>1, <2>2, <2>3 DEF ClockInv
<1>5. CASE Tick
  <2>1. now' = now + 1 /\ gps' = gps /\ ofModel' = ofModel
    BY <1>5 DEF Tick, history
  <2>2. Today <= Today'
    BY <1>0, <2>1, DaysPass
  <2>3. Today \in Nat /\ Today' \in Int
    <3>1. now' \in Int
      BY <1>0, <2>1
    <3>. QED  BY <1>0, <3>1, ClockReading, ConstantFacts, DivMod DEF Today
  <2>4. ~ofModel /\ gps.date # NA => gps.date <= Today'
    BY <1>0, <2>2, <2>3 DEF ClockInv
  <2>5. ~ofModel /\ gps.date # NA /\ gps.time # NA =>
          gps.date * Day + gps.time <= now'
    <3>1. SUFFICES ASSUME ~ofModel, gps.date # NA, gps.time # NA
                   PROVE  gps.date * Day + gps.time <= now'
      OBVIOUS
    <3>2. gps.date * Day + gps.time <= now
      BY <3>1 DEF ClockInv
    <3>3. gps.date * Day + gps.time \in Int
      BY <1>0, <3>1, ConstantFacts
    <3>. QED  BY <1>0, <2>1, <3>2, <3>3
  <2>. QED  BY <2>1, <2>4, <2>5 DEF ClockInv
<1>6. CASE HandleHDT \/ HandleAPB \/ HandleBOD \/ HandleRMB
           \/ NextBatch \/ UNCHANGED vars
  BY <1>6, ClockUntouched DEF HandleHDT, HandleAPB, HandleBOD,
     HandleRMB, NextBatch, vars, history
<1>7. CASE HandleHeading \/ HandleTrueCourse \/ HandleMagneticCourse
           \/ Update \/ HandleVTG
  <2>1. gps'.date = gps.date /\ gps'.time = gps.time
    BY <1>0, <1>7 DEF HandleHeading, HandleTrueCourse,
       HandleMagneticCourse, Update, HandleVTG
  <2>2. UNCHANGED << now, ofModel >>
    BY <1>7 DEF HandleHeading, HandleTrueCourse,
       HandleMagneticCourse, Update, HandleVTG, history
  <2>. QED  BY <2>1, <2>2, ClockUntouched
<1>. QED  BY <1>1, <1>2, <1>3, <1>4, <1>5, <1>6, <1>7 DEF Next

(* A step that sends no date. *)
LEMMA NoDateSent ==
  ASSUME \A m \in sent' : m.name \notin {"RMC", "129029"}
  PROVE  MomentsPast'
BY DEF MomentsPast, IsDated

LEMMA DateSent ==
  ASSUME NavTypeOK, ClockInv, MomentsPast, [Next]_vars
  PROVE  MomentsPast'
<1>0. /\ now \in Nat /\ gps.date \in Nat \cup {NA}
  BY ConstantFacts DEF NavTypeOK
<1>1. CASE Update
  <2>1. ASSUME NEW m \in sent'
        PROVE  m.date = gps.date /\ m.time = gps.time
    BY <1>1, <2>1 DEF Update, Dated
  <2>2. now' = now /\ ofModel' = ofModel
    BY <1>1 DEF Update, history
  <2>. QED  BY <2>1, <2>2 DEF MomentsPast, ClockInv
<1>2. CASE HandleGGA
  <2>1. ASSUME NEW m \in sent'
        PROVE  m.date = gps.date /\ m.time = TimeOfDay
    BY <1>2, <2>1 DEF HandleGGA, Dated
  <2>2. now' = now /\ ofModel' = ofModel
    BY <1>2 DEF HandleGGA, history
  <2>3. ~ofModel /\ gps.date # NA => gps.date * Day + TimeOfDay <= now
    BY <1>0, NotAhead DEF ClockInv
  <2>. QED  BY <2>1, <2>2, <2>3 DEF MomentsPast
<1>3. CASE UNCHANGED vars
  BY <1>3 DEF vars, MomentsPast, history
<1>4. CASE \/ HandleDateTime \/ HandleVariation \/ HandleHeading
           \/ HandleTrueCourse \/ HandleMagneticCourse
           \/ HandleVTG \/ HandleAPB \/ HandleBOD \/ NextBatch \/ Tick
  <2>1. sent' = {}
    BY <1>4 DEF HandleDateTime, HandleVariation, HandleHeading,
       HandleTrueCourse, HandleMagneticCourse,
       HandleVTG, HandleAPB, HandleBOD, NextBatch, Tick
  <2>. QED  BY <2>1, NoDateSent
<1>5. CASE HandleRMC \/ HandleHDT \/ HandleRMB
  <2>1. \A m \in sent' : m.name \notin {"RMC", "129029"}
    BY <1>5 DEF HandleRMC, HandleHDT, HandleRMB, Magnetic
  <2>. QED  BY <2>1, NoDateSent
<1>. QED  BY <1>1, <1>2, <1>3, <1>4, <1>5 DEF Next

(* No message carries a moment of the future, unless its date is that of   *)
(* the model of the variation.                                             *)
THEOREM MomentsNotAhead == Spec => []MomentsPast
<1>1. Init => NavTypeOK /\ ClockInv /\ MomentsPast
  BY TypeInit DEF Init, ClockInv, MomentsPast
<1>2. NavTypeOK /\ ClockInv /\ MomentsPast /\ [Next]_vars
        => (NavTypeOK /\ ClockInv /\ MomentsPast)'
  BY TypeStep, ClockStep, DateSent
<1>. QED  BY <1>1, <1>2, PTL DEF Spec

-----------------------------------------------------------------------------
(* The variation in gps is the local one, in whatever range, unless it is  *)
(* that of a VTG sentence without both angles; and the bearings of a BOD,  *)
(* those that it had, are those of its leg.                                *)
IsVariation(v) == v = NA \/ \E k \in Int : v = Variation + k * Circle

MagneticInv ==
  /\ unfounded \/ IsVariation(gps.variation)
  /\ bod.leg # NA => /\ bod.trueBearing \in {NA, Bearing[bod.leg]}
                     /\ bod.magBearing \in {NA, Compass(Bearing[bod.leg])}

LEMMA LocalVariation == IsVariation(Variation) /\ IsVariation(NA)
<1>1. Variation = Variation + 0 * Circle /\ 0 \in Int
  BY ConstantFacts
<1>. QED  BY <1>1 DEF IsVariation

(* What HandleVTG takes for the variation is a number of circles off it,   *)
(* if the sentence has both angles.                                        *)
LEMMA DifferenceIsVariation == IsVariation(Minus(Course, Compass(Course)))
<1> DEFINE x == Course - Variation
           q == x \div Circle
<1>1. x \in Int /\ Course \in Int /\ Circle \in Int
  BY ConstantFacts
<1>2. q \in Int /\ x % Circle \in 0 .. Circle - 1 /\ q * Circle + (x % Circle) = x
  BY <1>1, ConstantFacts, DivMod
<1>3. q * Circle \in Int
  BY <1>1, <1>2
<1>4. Course - (x % Circle) = Variation + q * Circle
  BY <1>1, <1>2, <1>3, ConstantFacts
<1>5. Minus(Course, Compass(Course)) = Course - Compass(Course)
  BY CourseShown, ConstantFacts DEF Minus
<1>. QED  BY <1>2, <1>4, <1>5 DEF IsVariation, Compass

(* toMagnetic gives the same for every variation in gps. *)
LEMMA ToMagneticRight ==
  ASSUME NEW v, IsVariation(v), v # NA, NEW of \in Angle
  PROVE  ToMagnetic(of, v) = Compass(of)
<1>1. PICK k \in Int : v = Variation + k * Circle
  BY DEF IsVariation
<1> DEFINE x == of - Variation
           j == -k
<1>2. x \in Int /\ j \in Int /\ of \in Int
  BY <1>1, ConstantFacts
<1>3. of - v = x + j * Circle
  <2>1. j * Circle = -(k * Circle) /\ k * Circle \in Int
    BY <1>1, ConstantFacts
  <2>. QED  BY <1>1, <1>2, <2>1, ConstantFacts
<1>4. (x + j * Circle) % Circle = x % Circle
  <2> HIDE DEF x, j
  <2>. QED  BY <1>2, ConstantFacts, ModOfMultiple
<1>5. of # Garbage /\ of # NA /\ v \in Int
  BY <1>1, <1>2, ConstantFacts
<1>6. Minus(of, v) = of - v /\ of - v # Garbage
  BY <1>2, <1>5, ConstantFacts DEF Minus
<1>7. ToMagnetic(of, v) = (of - v) % Circle
  BY <1>6 DEF ToMagnetic
<1>. QED  BY <1>3, <1>4, <1>7 DEF Compass

(* Without a variation it gives garbage for any angle. *)
LEMMA AngleShown ==
  ASSUME NEW v, IsVariation(v), NEW of \in Angle
  PROVE  \/ ToMagnetic(of, v) = Compass(of)
         \/ v = NA /\ ToMagnetic(of, v) = Garbage
<1>1. CASE v = NA
  <2>1. of # NA
    BY ConstantFacts
  <2>2. Minus(of, v) = Garbage
    BY <1>1, <2>1 DEF Minus
  <2>. QED  BY <1>1, <2>2 DEF ToMagnetic
<1>2. CASE v # NA
  BY <1>2, ToMagneticRight
<1>. QED  BY <1>1, <1>2

LEMMA MagneticUntouched ==
  ASSUME MagneticInv, bod' = bod, gps'.variation = gps.variation, unfounded' = unfounded
  PROVE  MagneticInv'
BY DEF MagneticInv, IsVariation

LEMMA MagneticStep ==
  ASSUME NavTypeOK, MagneticInv, [Next]_vars
  PROVE  MagneticInv'
<1>0. gps \in [ variation : Int \cup {NA, Garbage}, cog : Int \cup {NA, Garbage},
               date : Nat \cup {NA}, time : 0 .. Day - 1 \cup {NA} ]
  BY DEF NavTypeOK
<1>1. ASSUME unfounded' \/ IsVariation(gps'.variation), bod' = bod
      PROVE  MagneticInv'
  BY <1>1 DEF MagneticInv, IsVariation
<1>2. CASE HandleVariation
  <2>1. gps'.variation \in {Variation, NA} /\ bod' = bod
    BY <1>0, <1>2 DEF HandleVariation
  <2>. QED  BY <1>1, <2>1, LocalVariation
<1>3. CASE HandleHeading
  <2>1. gps'.variation = Variation /\ bod' = bod
    BY <1>0, <1>3 DEF HandleHeading
  <2>. QED  BY <1>1, <2>1, LocalVariation
<1>4. CASE HandleRMC
  <2>1. gps'.variation \in {Variation, NA} /\ bod' = bod
    BY <1>4 DEF HandleRMC, FromRMC
  <2>. QED  BY <1>1, <2>1, LocalVariation
<1>5. CASE HandleVTG
  <2>1. PICK c \in {Course, NA}, magnetic \in {Compass(Course), NA} :
          /\ gps' = [gps EXCEPT !.cog = c, !.variation = Minus(c, magnetic)]
          /\ unfounded' = (NA \in {c, magnetic})
    BY <1>5 DEF HandleVTG
  <2>2. gps'.variation = Minus(c, magnetic) /\ bod' = bod
    BY <1>0, <1>5, <2>1 DEF HandleVTG
  <2>3. CASE NA \in {c, magnetic}
    BY <1>1, <2>1, <2>2, <2>3
  <2>4. CASE NA \notin {c, magnetic}
    <3>1. c = Course /\ magnetic = Compass(Course)
      BY <2>4
    <3>. QED  BY <1>1, <2>2, <3>1, DifferenceIsVariation
  <2>. QED  BY <2>3, <2>4
<1>6. CASE HandleBOD
  <2>1. PICK true \in {Bearing[leg], NA}, mag \in {Compass(Bearing[leg]), NA} :
          bod' = FromBOD(true, mag)
    BY <1>6 DEF HandleBOD
  <2>2. gps' = gps /\ unfounded' = unfounded
    BY <1>6 DEF HandleBOD, history
  <2>. QED  BY <2>1, <2>2 DEF MagneticInv, FromBOD, IsVariation, Compass
<1>7. CASE \/ HandleHDT \/ HandleAPB \/ HandleRMB
           \/ NextBatch \/ Tick \/ UNCHANGED vars
  BY <1>7, MagneticUntouched DEF HandleHDT, HandleAPB, HandleRMB,
     NextBatch, Tick, vars, history
<1>8. CASE \/ HandleDateTime \/ HandleTrueCourse \/ HandleMagneticCourse
           \/ Update \/ HandleGGA
  <2>1. gps'.variation = gps.variation /\ bod' = bod /\ unfounded' = unfounded
    BY <1>0, <1>8 DEF HandleDateTime, HandleTrueCourse, HandleMagneticCourse,
       Update, HandleGGA, FromGGA, history
  <2>. QED  BY <2>1, MagneticUntouched
<1>. QED  BY <1>2, <1>3, <1>4, <1>5, <1>6, <1>7, <1>8 DEF Next

(* A step that sends no angle. *)
LEMMA NoAngleSent ==
  ASSUME \A m \in sent' : ~IsMagnetic(m)
  PROVE  MagneticRight'
BY DEF MagneticRight, IsMagnetic

LEMMA MagneticSent ==
  ASSUME NavTypeOK, MagneticInv, MagneticRight, [Next]_vars
  PROVE  MagneticRight'
<1>1. CASE HandleRMC
  <2>1. PICK c \in {Course, NA}, v \in {Variation, NA} :
          /\ sent' = {Magnetic("129026", ToMagnetic(c, v), c)}
          /\ gps' = FromRMC(c, v)
    BY <1>1 DEF HandleRMC
  <2>2. gps'.variation = v
    BY <2>1 DEF FromRMC
  <2>3. \/ ToMagnetic(Course, v) = Compass(Course)
        \/ v = NA /\ ToMagnetic(Course, v) = Garbage
    BY LocalVariation, ConstantFacts, AngleShown
  <2>. QED  BY <2>1, <2>2, <2>3 DEF MagneticRight, Magnetic, Compass
<1>2. CASE HandleHDT
  <2>1. gps' = gps /\ unfounded' = unfounded
    BY <1>2 DEF HandleHDT, history
  <2>2. PICK h \in {Heading0, NA} :
          sent' = {Magnetic("127250", ToMagnetic(h, gps.variation), h)}
    BY <1>2 DEF HandleHDT
  <2>3. \/ ToMagnetic(Heading0, gps.variation) = Compass(Heading0)
        \/ gps.variation = NA /\ ToMagnetic(Heading0, gps.variation) = Garbage
        \/ unfounded
    BY ConstantFacts, AngleShown DEF MagneticInv
  <2>. QED  BY <2>1, <2>2, <2>3 DEF MagneticRight, Magnetic, Compass
<1>3. CASE HandleRMB
  <2>1. gps' = gps /\ bod' = bod /\ unfounded' = unfounded
    BY <1>3 DEF HandleRMB, history
  <2>2. \A l \in Leg : Bearing[l] \in Angle
    BY ConstantFacts
  <2>3. \A l \in Leg :
          \/ ToMagnetic(Bearing[l], gps.variation) = Compass(Bearing[l])
          \/ gps.variation = NA /\ ToMagnetic(Bearing[l], gps.variation) = Garbage
          \/ unfounded
    BY <2>2, AngleShown DEF MagneticInv
  <2>4. leg \in Leg /\ (bod.leg # NA => bod.leg \in Leg)
    BY DEF NavTypeOK
  <2>5. ASSUME bod.leg # NA, BodBearing # NA
        PROVE  /\ BodBearing = Bearing[bod.leg]
               /\ \/ MbBod = Compass(BodBearing)
                  \/ gps.variation = NA /\ MbBod = Garbage
                  \/ unfounded /\ bod.magBearing = NA
    <3>1. BodBearing = Bearing[bod.leg]
      BY <2>5 DEF BodBearing
    <3>2. CASE bod.magBearing # NA
      BY <2>5, <3>1, <3>2 DEF MagneticInv, MbBod
    <3>3. CASE bod.magBearing = NA
      <4>1. bod.trueBearing = Bearing[bod.leg]
        BY <2>5, <3>3 DEF MagneticInv, BodBearing
      <4>2. MbBod = ToMagnetic(Bearing[bod.leg], gps.variation)
        BY <3>3, <4>1 DEF MbBod
      <4>. QED  BY <2>3, <2>4, <2>5, <3>1, <3>3, <4>2
    <3>. QED  BY <3>1, <3>2, <3>3
  <2>6. PICK btw \in {Bearing[leg], NA} :
          sent' =
            { Magnetic("Mbtw", ToMagnetic(btw, gps.variation), btw),
              [name |-> "129284", leg |-> bod.leg, crossed |-> perpendicularCrossed] }
            \cup IF bod.leg = NA THEN {} ELSE {Magnetic("MbBod", MbBod, BodBearing)}
    BY <1>3 DEF HandleRMB
  <2>7. ASSUME NEW m \in sent', IsMagnetic(m), m.of # NA
        PROVE  \/ m.magnetic = Compass(m.of)
               \/ gps.variation = NA /\ m.magnetic = Garbage
               \/ unfounded /\ ~(m.name = "MbBod" /\ bod.magBearing # NA)
    <3>1. CASE m = Magnetic("Mbtw", ToMagnetic(btw, gps.variation), btw)
      <4>1. btw = Bearing[leg] /\ m.of = btw /\ m.name = "Mbtw"
            /\ m.magnetic = ToMagnetic(btw, gps.variation)
        BY <2>7, <3>1 DEF Magnetic
      <4>. QED  BY <2>3, <2>4, <4>1
    <3>2. CASE m.name = "129284"
      BY <2>7, <3>2 DEF IsMagnetic
    <3>3. CASE bod.leg # NA /\ m = Magnetic("MbBod", MbBod, BodBearing)
      <4>1. m.of = BodBearing /\ m.magnetic = MbBod
        BY <3>3 DEF Magnetic
      <4>. QED  BY <2>5, <2>7, <3>3, <4>1
    <3>. QED  BY <2>6, <2>7, <3>1, <3>2, <3>3
  <2>. QED  BY <2>1, <2>7 DEF MagneticRight, IsMagnetic, Compass
<1>4. CASE UNCHANGED vars
  BY <1>4 DEF vars, MagneticRight, Compass, IsMagnetic, history
<1>5. CASE \/ HandleDateTime \/ HandleVariation \/ HandleHeading
           \/ HandleTrueCourse \/ HandleMagneticCourse
           \/ HandleVTG \/ HandleAPB \/ HandleBOD \/ NextBatch \/ Tick
  <2>1. sent' = {}
    BY <1>5 DEF HandleDateTime, HandleVariation, HandleHeading,
       HandleTrueCourse, HandleMagneticCourse,
       HandleVTG, HandleAPB, HandleBOD, NextBatch, Tick
  <2>. QED  BY <2>1, NoAngleSent
<1>6. CASE Update \/ HandleGGA
  <2>1. \A m \in sent' : ~IsMagnetic(m)
    BY <1>6 DEF Update, HandleGGA, Dated, IsMagnetic
  <2>. QED  BY <2>1, NoAngleSent
<1>. QED  BY <1>1, <1>2, <1>3, <1>4, <1>5, <1>6 DEF Next

(* The gateway never sends a magnetic angle that no compass shows: without *)
(* a variation it sends garbage, and a wrong angle only with the variation *)
(* of a VTG that lacked one.                                               *)
THEOREM MagneticAnglesRight == Spec => []MagneticRight
<1>1. Init => NavTypeOK /\ MagneticInv /\ MagneticRight
  BY TypeInit, LocalVariation DEF Init, MagneticInv, MagneticRight
<1>2. NavTypeOK /\ MagneticInv /\ MagneticRight /\ [Next]_vars
        => (NavTypeOK /\ MagneticInv /\ MagneticRight)'
  BY TypeStep, MagneticStep, MagneticSent
<1>. QED  BY <1>1, <1>2, PTL DEF Spec
=============================================================================
