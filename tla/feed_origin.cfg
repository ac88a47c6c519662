SPECIFICATION FeedSpec
CONSTANTS
  a = a
  b = b
  c = c
  Name = {a, b, c}
  Stored = {a, b, c}
  cut <- MCcut
  Position = {1, 2, 3}
  Garbage = Garbage
  HeapNames = {Garbage}
  maxWpPerRoute = 2
  ByteMax = 3
  Batch = {}
  MaxSentences = 0
  Plans <- MCPlans3
  PerSentence = 2
  chart <- MCchart
  Lossy = FALSE
  MidCycle = FALSE
  NotAnnounced = NotAnnounced
PROPERTIES OriginComesFirst
