SPECIFICATION Spec
CONSTANTS
  NA = NA
  Pgns <- AllPgns
  Codes <- AllCodes
  Switchable = TRUE
  RMCPeriod = 2
  CourseExpiry = 2
  PositionExpiry = 3
  Gap = 1
  MaxUptime = 6
INVARIANTS TypeOK PositionsAreRecent CoursesAreRecent HeadingsAreRecent RMCInTime
PROPERTIES RMCSpaced
