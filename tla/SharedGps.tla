----------------------------- MODULE SharedGps -----------------------------
(***************************************************************************)
(* loop() of the gateway, as far as the shared object gps is concerned:    *)
(* N2kToN183 converts NMEA2000 messages to NMEA0183 sentences, sends RMC   *)
(* once a second and expires what it has not heard again; the instances of *)
(* N183ToN2k convert sentences to NMEA2000 messages.  Both sides read and  *)
(* write gps, in the fixed order of loop().                                *)
(*                                                                         *)
(* The gateway is considered for less than the 49 days in which millis()   *)
(* does not wrap around; ResendTimer looks at what the wrap does to a      *)
(* timer of this kind.  Time stands still within a pass through the loop.  *)
(***************************************************************************)
EXTENDS Gps, Integers

CONSTANTS
  Pgns,            \* what is on the NMEA2000 bus and not in the receive filter
  Codes,           \* what the plotter sends and is not in the NMEA filter
  Switchable,      \* whether the preference nmeaSrcN2k is changed at all
  RMCPeriod,       \* 1000 ms
  CourseExpiry,    \* 2000 ms, the literal in Update
  PositionExpiry,  \* 4000 ms, the literal in Update
  Gap,             \* longest time that one pass through the loop takes
  MaxUptime        \* bound on the time since the gateway was switched on

ASSUME GpsAssumption ==
  /\ Switchable \in BOOLEAN
  /\ {RMCPeriod, CourseExpiry, PositionExpiry, Gap, MaxUptime} \subseteq Nat
  /\ NA \notin Nat

VARIABLES
  now,               \* millis()
  stage,             \* where loop() is
  enabled,           \* the preference nmeaSrcN2k
  gps,
  Heading,           \* when the heading was received, or NA
  LastHeadingTime, LastCOGSOGTime, LastPositionTime, NextRMCSend,
  sent,              \* the messages sent in the last step
  skipped,           \* history: the last Update but this returned early
  lastRMC,           \* history: when RMC was last sent
  waiting            \* history: since when RMC could have been sent

timers == << LastHeadingTime, LastCOGSOGTime, LastPositionTime >>
n2k == << Heading, timers, NextRMCSend >>
history == << skipped, lastRMC, waiting >>
vars == << now, stage, enabled, gps, n2k, sent, history >>

Time == 0 .. MaxUptime
Reading == Time \cup {NA}

(* What the readings a message carries are; messages without such data are *)
(* only told apart by their name.                                          *)
Plain(name) == [name |-> name, position |-> NA, course |-> NA, heading |-> NA]

TypeOK ==
  /\ now \in Time
  /\ stage \in {"web", "bus", "update", "serial2", "udp", "done"}
  /\ enabled \in BOOLEAN
  /\ gps \in GpsState(Time)
  /\ Heading \in Reading
  /\ {LastHeadingTime, LastCOGSOGTime, LastPositionTime} \subseteq Time
  /\ NextRMCSend \in Nat
  /\ \A m \in sent : m.position \in Reading /\ m.course \in Reading /\ m.heading \in Reading
  /\ skipped \in BOOLEAN
  /\ {lastRMC, waiting} \subseteq Reading

(* The constructor of N2kToN183. *)
Init ==
  /\ now = 0
  /\ stage = "web"
  /\ enabled \in (IF Switchable THEN BOOLEAN ELSE {TRUE})
  /\ gps = FreshGps
  /\ Heading = NA
  /\ LastHeadingTime = 0 /\ LastCOGSOGTime = 0 /\ LastPositionTime = 0
  /\ NextRMCSend = RMCPeriod
  /\ sent = {}
  /\ skipped = FALSE
  /\ lastRMC = NA /\ waiting = NA

-----------------------------------------------------------------------------
(* webserver.handleClient(): a form may change the preference. *)
HandleClient ==
  /\ stage = "web"
  /\ stage' = "bus"
  /\ enabled' \in (IF Switchable THEN BOOLEAN ELSE {enabled})
  /\ skipped' = ~enabled
  /\ sent' = {}
  /\ UNCHANGED << now, gps, n2k, lastRMC, waiting >>

(* A value in a message: received just now, or not available. *)
Received == {now, NA}

(* HandleMsg hands a message to its handler while the source is enabled.   *)
(* (The cases of its switch fall through, to parsers that refuse the PGN.) *)
OnBus(pgn) == stage = "bus" /\ enabled /\ pgn \in Pgns

(* NMEA2000 messages that are converted without touching the state above. *)
Converted ==
  [pgn \in {"127251", "128267", "130306"} |->
     CASE pgn = "127251" -> {"ROT"}
       [] pgn = "128267" -> {"DPT", "DBx"}
       [] pgn = "130306" -> {"MWV"}]

HandleOthers ==
  /\ \E pgn \in DOMAIN Converted :
       OnBus(pgn) /\ sent' = {Plain(name) : name \in Converted[pgn]}
  /\ UNCHANGED << now, stage, enabled, gps, n2k, history >>

(* PGN 127250 *)
HandleHeading ==
  /\ OnBus("127250")
  /\ Heading' \in Received
  /\ LastHeadingTime' = now
  /\ sent' = {[Plain("HDG") EXCEPT !.heading = Heading']}
  /\ UNCHANGED << now, stage, enabled, gps, LastCOGSOGTime, LastPositionTime,
                  NextRMCSend, history >>

(* PGN 128259: the sentence VHW carries the heading heard earlier. *)
HandleBoatSpeed ==
  /\ OnBus("128259")
  /\ sent' = {[Plain("VHW") EXCEPT !.heading = Heading]}
  /\ UNCHANGED << now, stage, enabled, gps, n2k, history >>

(* PGN 129025, and 129029 *)
Positioned(pgn, name) ==
  /\ OnBus(pgn)
  /\ \E p \in Received :
       /\ gps' = SetLatLong(gps, p)
       /\ sent' = {[Plain(name) EXCEPT !.position = p]}
  /\ LastPositionTime' = now
  /\ UNCHANGED << now, stage, enabled, Heading, LastHeadingTime,
                  LastCOGSOGTime, NextRMCSend, history >>

HandlePosition == Positioned("129025", "GLL")
HandleGNSS == Positioned("129029", "GGA")

(* PGN 129026 *)
HandleCOGSOG ==
  /\ OnBus("129026")
  /\ \E c \in Received :
       /\ gps' = SetCourse(gps, c)
       /\ sent' = {[Plain("VTG") EXCEPT !.course = c]}
  /\ LastCOGSOGTime' = now
  /\ UNCHANGED << now, stage, enabled, Heading, LastHeadingTime,
                  LastPositionTime, NextRMCSend, history >>

(* NMEA2000.ParseMessages() returns. *)
ParsedMessages ==
  /\ stage = "bus"
  /\ stage' = "update"
  /\ sent' = {}
  /\ UNCHANGED << now, enabled, gps, n2k, history >>

-----------------------------------------------------------------------------
(* The condition in SendRMC. *)
RMCDue == NextRMCSend <= now /\ gps.position # NA

(* SetNextRMCSend; faulty variants. *)
NextRMCInStep == NextRMCSend + RMCPeriod
NextRMCLate == now + 2 * RMCPeriod
NextRMCBack == NextRMCSend - RMCPeriod
NextRMC == now + RMCPeriod

(* The three tests in Update; faulty variants take another timer. *)
Expired(last, expiry) == last + expiry < now
HeadingForgotten == FALSE
HeadingExpired == Expired(LastHeadingTime, CourseExpiry)
CourseForgotten == FALSE
CourseExpired == Expired(LastCOGSOGTime, CourseExpiry)
PositionLikeCourse == Expired(LastCOGSOGTime, PositionExpiry)
PositionExpired == Expired(LastPositionTime, PositionExpiry)

(* N2kToN183::Update: RMC goes out before anything is expired. *)
Update ==
  /\ stage = "update"
  /\ stage' = "serial2"
  /\ LET send == enabled /\ RMCDue
     IN  /\ sent' = IF send
                    THEN {[Plain("RMC") EXCEPT !.position = gps.position,
                                               !.course = gps.course]}
                    ELSE {}
         /\ NextRMCSend' = IF send THEN NextRMC ELSE NextRMCSend
         /\ lastRMC' = IF send THEN now ELSE lastRMC
         /\ waiting' = IF ~enabled \/ send \/ gps.position = NA THEN NA
                       ELSE IF waiting = NA THEN now ELSE waiting
  /\ Heading' = IF enabled /\ HeadingExpired THEN NA ELSE Heading
  /\ gps' = [ position |-> IF enabled /\ PositionExpired THEN NA ELSE gps.position,
              course   |-> IF enabled /\ CourseExpired THEN NA ELSE gps.course ]
  /\ UNCHANGED << now, enabled, timers, skipped >>

-----------------------------------------------------------------------------
(* N183ToN2k::HandleNMEA0183Msg on the next sentence of Serial2 or UDP.    *)
(* The sentence GLL has no action: it is compared with "GGL".              *)
OnLine(code) == stage \in {"serial2", "udp"} /\ code \in Codes

HandleRMC ==
  /\ OnLine("RMC")
  /\ gps' = [position |-> now, course |-> now]
  /\ sent' = {[Plain("129026") EXCEPT !.course = now],
              [Plain("129025") EXCEPT !.position = now]}
  /\ UNCHANGED << now, stage, enabled, n2k, history >>

HandleGGA ==
  /\ OnLine("GGA")
  /\ gps' = SetLatLong(gps, now)
  /\ sent' = {[Plain("129029") EXCEPT !.position = now]}
  /\ UNCHANGED << now, stage, enabled, n2k, history >>

HandleVTG ==
  /\ OnLine("VTG")
  /\ gps' = SetCourse(gps, now)
  /\ sent' = {[Plain("129026") EXCEPT !.course = now]}
  /\ UNCHANGED << now, stage, enabled, n2k, history >>

(* The bearing and the estimated time of arrival of PGN 129284 rest on the *)
(* course in gps when the sentence has no speed; the route from "CURRENT"  *)
(* to "NEXT" in PGN 129285 starts at the position in gps.                  *)
HandleRMB ==
  /\ OnLine("RMB")
  /\ \E course \in {gps.course, NA} :
       sent' = {Plain("129283"), [Plain("129284") EXCEPT !.course = course],
                [Plain("129285") EXCEPT !.position = gps.position]}
  /\ UNCHANGED << now, stage, enabled, gps, n2k, history >>

HandleHDT ==
  /\ OnLine("HDT")
  /\ sent' = {[Plain("127250") EXCEPT !.heading = now]}
  /\ UNCHANGED << now, stage, enabled, gps, n2k, history >>

(* handleLoop() of Serial2, then that of UDP, has no more sentences.  Its   *)
(* timer, which is in ResendTimer, may have elapsed: a route of a single   *)
(* waypoint then starts at the position in gps.                            *)
HandleLoopDone ==
  /\ \/ stage = "serial2" /\ stage' = "udp"
     \/ stage = "udp" /\ stage' = "done"
  /\ sent' \in {{}, {[Plain("129285") EXCEPT !.position = gps.position]}}
  /\ UNCHANGED << now, enabled, gps, n2k, history >>

(* The rest of the pass. *)
LoopDone ==
  /\ stage = "done"
  /\ stage' = "web"
  /\ now' \in now .. now + Gap
  /\ now' <= MaxUptime
  /\ sent' = {}
  /\ UNCHANGED << enabled, gps, n2k, history >>

Next ==
  \/ HandleClient
  \/ HandleOthers \/ HandleHeading \/ HandleBoatSpeed
  \/ HandlePosition \/ HandleGNSS \/ HandleCOGSOG \/ ParsedMessages
  \/ Update
  \/ HandleRMC \/ HandleGGA \/ HandleVTG \/ HandleRMB \/ HandleHDT
  \/ HandleLoopDone \/ LoopDone

Spec == Init /\ [][Next]_vars

-----------------------------------------------------------------------------
(* A reading in a message is not older than its expiry and one pass of the *)
(* loop, but for what is still there, or never expires, because the        *)
(* NMEA2000 source is off or was off in the pass before.                   *)
Recent(reading, expiry) ==
  reading = NA \/ now - reading <= expiry + Gap \/ ~enabled \/ skipped

(* No message carries a position that is out of date, whoever brought it:  *)
(* the timer in Update runs on the NMEA2000 messages only, and RMC is sent *)
(* before it is looked at (N2kToN183.cpp:86-97).                           *)
PositionsAreRecent == \A m \in sent : Recent(m.position, PositionExpiry)

(* ... nor a course, in RMC or in the estimated time of arrival. *)
CoursesAreRecent == \A m \in sent : Recent(m.course, CourseExpiry)

(* ... nor a heading, in VHW (N2kToN183.cpp:87-88, 198). *)
HeadingsAreRecent == \A m \in sent : Recent(m.heading, CourseExpiry)

(* Two RMC sentences are never closer than the period, also after the      *)
(* source was off or the position unknown (N2kToN183.cpp:337-344).         *)
RMCSpaced ==
  [][ \A m \in sent' : m.name = "RMC" /\ lastRMC # NA => now - lastRMC >= RMCPeriod ]_vars

(* While the source is on and the position known, RMC does not stay out    *)
(* for longer than the period and one pass of the loop.                    *)
RMCInTime == waiting = NA \/ now - waiting <= RMCPeriod + Gap
=============================================================================
