SPECIFICATION Spec
CONSTANTS
  NA = NA
  Garbage = Garbage
  Circle = 8
  Variation = 1
  Course = 0
  Heading0 = 5
  LastLeg = 1
  Bearing <- MCBearing
  Day = 2
  Now0 = 1
  MaxNow = 2
INVARIANTS NavTypeOK MagneticRight MomentsPast LegInStep
