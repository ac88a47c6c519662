SPECIFICATION FeedSpec
CONSTANTS
  a = a
  b = b
  c = c
  Name = {a, b, c}
  Stored = {a, b, c}
  cut <- MCcut
  Position = {1, 2, 3}
  Garbage = Garbage
  HeapNames = {Garbage}
  maxWpPerRoute = 2
  ByteMax = 2
  Batch = {}
  MaxSentences = 0
  Plans <- MCPlansMixed
  PerSentence = 2
  chart <- MCchart
  Lossy = TRUE
  MidCycle = TRUE
  NotAnnounced = NotAnnounced
PROPERTIES Recovers
