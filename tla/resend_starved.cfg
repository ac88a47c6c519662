SPECIFICATION TransmissionSpec
CONSTANTS
  LoopOrder <- BothPorts
  Period = 3
  Word = 40
  Gap = 2
  MaxUptime = 20
  Room = 5
  NameRoom <- MCNameRoom
  MaxSize = 1
INVARIANTS ResentInTime
