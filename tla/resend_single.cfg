SPECIFICATION TransmissionSpec
CONSTANTS
  LoopOrder <- SerialOnly
  Period = 3
  Word = 40
  Gap = 2
  MaxUptime = 12
  Room = 5
  NameRoom <- MCNameRoom
  MaxSize = 6
INVARIANTS TypeOK TimerFires ResentInTime AllAnnounced FewestMessages
PROPERTIES NoFlood
