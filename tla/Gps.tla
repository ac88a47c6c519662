-------------------------------- MODULE Gps --------------------------------
(***************************************************************************)
(* The class Gps: the one object in which the NMEA2000 side (N2kToN183)    *)
(* and both NMEA0183 sides (the instances of N183ToN2k) leave what they    *)
(* know.  A setter is an operator on a record.  What is kept of a value is *)
(* the time it was received, or NA.  Course and speed are always set       *)
(* together.  Variation, date and time of day are left out.                *)
(***************************************************************************)
CONSTANT
  NA  \* N2kDoubleNA: no value

FreshGps == [position |-> NA, course |-> NA]

GpsState(Time) == [position : Time \cup {NA}, course : Time \cup {NA}]

SetLatLong(gps, reading) == [gps EXCEPT !.position = reading]

SetCourse(gps, reading) == [gps EXCEPT !.course = reading]
=============================================================================
