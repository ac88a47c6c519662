----------------------------- MODULE Navigation -----------------------------
(***************************************************************************)
(* What the gateway makes of angles, of date and time of day, and of the   *)
(* sentences about one leg.  SharedGps is about how old the data in gps    *)
(* are; this module is about their values, which both sides of the gateway *)
(* convert and mix.  The handlers run in any order, as messages and        *)
(* sentences come; the order within a pass of loop() plays no part.        *)
(*                                                                         *)
(* The boat keeps a true course and heading, in one place: the angles do   *)
(* not change, and a wrong one is an error of conversion.  An angle is a   *)
(* whole number of parts of the circle.  The heading that N2kToN183 keeps  *)
(* for itself is in SharedGps.                                             *)
(***************************************************************************)
EXTENDS Integers

CONSTANTS
  NA,         \* N2kDoubleNA, NMEA0183DoubleNA, N2kUInt16NA: no value
  Garbage,    \* memory not written, or what is computed from NA
  Circle,     \* the full circle
  Variation,  \* the local magnetic variation, east positive
  Course, Heading0, \* of the boat, true
  LastLeg,    \* the legs of the route are 0 .. LastLeg
  Bearing,    \* the true bearing of each
  Day,        \* the length of a day
  Now0, MaxNow \* bounds on the time considered

Leg == 0 .. LastLeg
Angle == 0 .. Circle - 1

ASSUME NavigationAssumption ==
  /\ Circle \in Nat \ {0} /\ Variation \in Int
  /\ {Course, Heading0} \subseteq Angle
  /\ LastLeg \in Nat /\ Bearing \in [Leg -> Angle]
  /\ Day \in Nat \ {0} /\ MaxNow \in Nat /\ Now0 \in 0 .. MaxNow
  /\ {NA, Garbage} \cap Int = {} /\ NA # Garbage

VARIABLES
  now,          \* the real time, in parts of a day, from day 0
  gps,          \* variation, course (cog), daysSince1970, secondsSinceMidnight
  bod,          \* N183ToN2k::bod: the leg it is about, and its bearings
  perpendicularCrossed,
  pending,      \* the sentences of this batch that the plotter still sends
  leg, passed,  \* the leg it is on, and whether the perpendicular is passed
  before,       \* history: both of these in the batch before
  ofModel,      \* history: the date in gps is that of the variation model
  unfounded,    \* history: the variation in gps is of a VTG without both angles
  sent          \* the messages sent in the last step

plotter == << pending, leg, passed, before >>
history == << ofModel, unfounded >>
vars == << now, gps, bod, perpendicularCrossed, plotter, history, sent >>

Today == now \div Day
TimeOfDay == now % Day

(* What a compass shows for a true angle. *)
Compass(angle) == (angle - Variation) % Circle

Batch == {"APB", "RMB", "BOD"}

NavTypeOK ==
  /\ now \in Now0 .. MaxNow
  /\ gps \in [ variation : Int \cup {NA, Garbage}, cog : Int \cup {NA, Garbage},
               date : Nat \cup {NA}, time : 0 .. Day - 1 \cup {NA} ]
  /\ bod \in [ leg : Leg \cup {NA}, trueBearing : Angle \cup {NA, Garbage},
               magBearing : Angle \cup {NA, Garbage} ]
  /\ perpendicularCrossed \in BOOLEAN
  /\ pending \subseteq Batch /\ leg \in Leg /\ passed \in BOOLEAN
  /\ ofModel \in BOOLEAN /\ unfounded \in BOOLEAN

Init ==
  /\ now = Now0
  /\ gps = [variation |-> NA, cog |-> NA, date |-> NA, time |-> NA]
  /\ bod = [leg |-> NA, trueBearing |-> Garbage, magBearing |-> Garbage]
  /\ perpendicularCrossed = FALSE
  /\ pending = Batch
  /\ leg = 0 /\ passed = FALSE
  /\ before = [leg |-> NA, passed |-> FALSE]
  /\ ofModel = FALSE /\ unfounded = FALSE
  /\ sent = {}

(* The difference of two numbers either of which may be missing.  What is  *)
(* missing is a number as well, far from any angle, but for its double.    *)
Minus(x, y) ==
  IF x = NA /\ y = NA THEN 0
  ELSE IF {x, y} \cap {NA, Garbage} # {} THEN Garbage ELSE x - y

(* An angle in a message, with the true angle it is about, if the sentence *)
(* or message had one; a date and time.                                    *)
Magnetic(name, angle, of) == [name |-> name, magnetic |-> angle, of |-> of]
Dated(name, date, time) == [name |-> name, date |-> date, time |-> time]
IsMagnetic(m) == m.name \in {"129026", "127250", "Mbtw", "MbBod"}
IsDated(m) == m.name \in {"RMC", "129029"}

-----------------------------------------------------------------------------
(* The NMEA2000 side; its sentences but for RMC are in SharedGps.  PGNs    *)
(* 126992 and 129029 bring date and time, or say they are not available.   *)
HandleDateTime ==
  /\ \/ gps' = [gps EXCEPT !.date = Today, !.time = TimeOfDay]
     \/ gps' = [gps EXCEPT !.date = NA, !.time = NA]
  /\ ofModel' = FALSE
  /\ sent' = {}
  /\ UNCHANGED << now, bod, perpendicularCrossed, plotter, unfounded >>

(* PGN 127258: the date is that of the model of the variation. *)
HandleVariation ==
  /\ \E date \in 0 .. Today \cup {NA}, v \in {Variation, NA} :
       gps' = [gps EXCEPT !.date = date, !.variation = v]
  /\ ofModel' = TRUE /\ unfounded' = FALSE
  /\ sent' = {}
  /\ UNCHANGED << now, bod, perpendicularCrossed, plotter >>

(* PGN 127250, with a magnetic heading and the variation; with a true      *)
(* heading, or none of the variation, nothing here changes.                *)
HandleHeading ==
  /\ gps' = [gps EXCEPT !.variation = Variation]
  /\ unfounded' = FALSE
  /\ sent' = {}
  /\ UNCHANGED << now, bod, perpendicularCrossed, plotter, ofModel >>

(* PGN 129026, with a true or a magnetic course. *)
HandleTrueCourse ==
  /\ \E c \in {Course, NA} : gps' = [gps EXCEPT !.cog = c]
  /\ sent' = {}
  /\ UNCHANGED << now, bod, perpendicularCrossed, plotter, history >>

(* A variation is taken from NA, too, which gives a number nobody meant.   *)
HandleMagneticCourse ==
  /\ \E c \in {Compass(Course), NA} :
       gps' = [gps EXCEPT !.cog = IF gps.variation = NA THEN c
                                  ELSE Minus(c, gps.variation)]
  /\ sent' = {}
  /\ UNCHANGED << now, bod, perpendicularCrossed, plotter, history >>

(* Update: RMC, and the expiry of the course, whose timer is in SharedGps. *)
(* Date, time and variation never expire.                                  *)
Update ==
  /\ sent' \in {{}, {Dated("RMC", gps.date, gps.time)}}
  /\ \E c \in {gps.cog, NA} : gps' = [gps EXCEPT !.cog = c]
  /\ UNCHANGED << now, bod, perpendicularCrossed, plotter, history >>

-----------------------------------------------------------------------------
(* The NMEA0183 side.  Each number of a sentence may be missing, but for   *)
(* date and time of day.  toMagnetic; faulty variant: without the loops    *)
(* that bring the result into the circle.                                  *)
ToMagneticUnwrapped(true, variation) == Minus(true, variation)
ToMagnetic(true, variation) ==
  IF Minus(true, variation) = Garbage THEN Garbage
  ELSE Minus(true, variation) % Circle

(* What RMC leaves in gps (faulty variant: not the time of day). *)
FromRMCDateOnly(c, v) == [gps EXCEPT !.variation = v, !.cog = c, !.date = Today]
FromRMC(c, v) == [variation |-> v, cog |-> c, date |-> Today, time |-> TimeOfDay]

HandleRMC ==
  /\ \E c \in {Course, NA}, v \in {Variation, NA} :
       /\ sent' = {Magnetic("129026", ToMagnetic(c, v), c)}
       /\ gps' = FromRMC(c, v)
  /\ ofModel' = FALSE /\ unfounded' = FALSE
  /\ UNCHANGED << now, bod, perpendicularCrossed, plotter >>

(* What GGA leaves in gps (faulty variant: not the time since midnight). *)
FromGGASinceEpoch == [gps EXCEPT !.time = now]
FromGGA == [gps EXCEPT !.time = TimeOfDay]

HandleGGA ==
  /\ sent' = {Dated("129029", gps.date, TimeOfDay)}
  /\ gps' = FromGGA
  /\ UNCHANGED << now, bod, perpendicularCrossed, plotter, history >>

(* The variation is the difference of two angles, whether or not the       *)
(* sentence has both, and not brought into any range.                      *)
HandleVTG ==
  /\ \E c \in {Course, NA}, magnetic \in {Compass(Course), NA} :
       /\ gps' = [gps EXCEPT !.cog = c, !.variation = Minus(c, magnetic)]
       /\ unfounded' = (NA \in {c, magnetic})
  /\ sent' = {}
  /\ UNCHANGED << now, bod, perpendicularCrossed, plotter, ofModel >>

HandleHDT ==
  /\ \E h \in {Heading0, NA} :
       sent' = {Magnetic("127250", ToMagnetic(h, gps.variation), h)}
  /\ UNCHANGED << now, gps, bod, perpendicularCrossed, plotter, history >>

(* What APB leaves (faulty variant: it is never taken back). *)
CrossedForGood == perpendicularCrossed \/ passed
Crossed == passed

(* The three sentences of a batch, of which the plotter sends each once.   *)
(* A void sentence changes nothing.                                        *)
HandleAPB ==
  /\ "APB" \in pending /\ pending' = pending \ {"APB"}
  /\ perpendicularCrossed' = Crossed
  /\ sent' = {}
  /\ UNCHANGED << now, gps, bod, leg, passed, before, history >>

(* What BOD leaves (faulty variant: the first one of a route is kept). *)
FromBODOnce(true, mag) ==
  IF bod.leg # NA THEN bod ELSE [leg |-> leg, trueBearing |-> true, magBearing |-> mag]
FromBOD(true, mag) == [leg |-> leg, trueBearing |-> true, magBearing |-> mag]

HandleBOD ==
  /\ "BOD" \in pending /\ pending' = pending \ {"BOD"}
  /\ \E true \in {Bearing[leg], NA}, mag \in {Compass(Bearing[leg]), NA} :
       bod' = FromBOD(true, mag)
  /\ sent' = {}
  /\ UNCHANGED << now, gps, perpendicularCrossed, leg, passed, before, history >>

(* MbBod in sendPGN129284, and what it is about. *)
MbBod == IF bod.magBearing # NA THEN bod.magBearing
         ELSE ToMagnetic(bod.trueBearing, gps.variation)
BodBearing == IF bod.magBearing = NA /\ bod.trueBearing = NA THEN NA ELSE Bearing[bod.leg]

(* PGN 129284: the bearing to the waypoint of this sentence, the bearing   *)
(* and the flag of those before.                                           *)
HandleRMB ==
  /\ "RMB" \in pending /\ pending' = pending \ {"RMB"}
  /\ \E btw \in {Bearing[leg], NA} :
       sent' =
         { Magnetic("Mbtw", ToMagnetic(btw, gps.variation), btw),
           [name |-> "129284", leg |-> bod.leg, crossed |-> perpendicularCrossed] }
         \cup IF bod.leg = NA THEN {} ELSE {Magnetic("MbBod", MbBod, BodBearing)}
  /\ UNCHANGED << now, gps, bod, perpendicularCrossed, leg, passed, before, history >>

-----------------------------------------------------------------------------
(* The plotter starts another batch, on this leg or the next. *)
NextBatch ==
  /\ pending = {} /\ pending' = Batch
  /\ before' = [leg |-> leg, passed |-> passed]
  /\ leg' \in {leg, leg + 1} \cap Leg
  /\ passed' \in BOOLEAN
  /\ sent' = {}
  /\ UNCHANGED << now, gps, bod, perpendicularCrossed, history >>

Tick ==
  /\ now < MaxNow /\ now' = now + 1
  /\ sent' = {}
  /\ UNCHANGED << gps, bod, perpendicularCrossed, plotter, history >>

Next ==
  \/ HandleDateTime \/ HandleVariation \/ HandleHeading
  \/ HandleTrueCourse \/ HandleMagneticCourse \/ Update
  \/ HandleRMC \/ HandleGGA \/ HandleVTG \/ HandleHDT
  \/ HandleAPB \/ HandleBOD \/ HandleRMB
  \/ NextBatch \/ Tick

Spec == Init /\ [][Next]_vars

-----------------------------------------------------------------------------
(* A magnetic angle that goes out on the bus is what a compass shows,      *)
(* whichever message or sentence the variation came from and in whatever   *)
(* range, as long as one is known (N183ToN2k.cpp:30-36, 139-141, 246-253). *)
(* A VTG sentence that lacks an angle makes a wrong variation known        *)
(* (N183ToN2k.cpp:334): until the next variation the angles are wrong,     *)
(* but for a bearing that BOD brought as a magnetic one.                   *)
MagneticRight ==
  \A m \in sent : IsMagnetic(m) /\ m.of # NA =>
    \/ m.magnetic = Compass(m.of)
    \/ gps.variation = NA /\ m.magnetic = Garbage
    \/ unfounded /\ ~(m.name = "MbBod" /\ bod.magBearing # NA)

(* Date and time of day come by different messages, and around midnight    *)
(* may not belong together; but together they are never in the future,     *)
(* unless the date is that of the model of the variation (PGN 127258).     *)
MomentsPast ==
  \A m \in sent :
    IsDated(m) /\ m.date # NA /\ m.time # NA /\ ~ofModel =>
      m.date * Day + m.time <= now

(* PGN 129284 mixes what three sentences say: however a batch is ordered,  *)
(* its bearing and its flag are not older than the batch before, so that   *)
(* those of a leg that is over go with the next batch but one              *)
(* (N183ToN2k.cpp:405-411).                                                *)
LegInStep ==
  \A m \in sent : m.name = "129284" =>
    m.leg \in {leg, before.leg} /\ m.crossed \in {passed, before.passed}

(* The course in gps is true ("true COG", Gps.h:39), or the magnetic one   *)
(* that came before any variation.                                         *)
TrueCourse ==
  gps.cog \in {NA, Garbage} \/ gps.cog % Circle \in {Course, Compass(Course)}
=============================================================================
