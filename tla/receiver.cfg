SPECIFICATION Spec
CONSTANTS
  a = a
  b = b
  c = c
  Name = {a, b, c}
  Stored = {a, b}
  cut <- MCcut
  Position = {1}
  Garbage = Garbage
  HeapNames = {Garbage}
  maxWpPerRoute = 2
  ByteMax = 3
  Batch <- MCBatch
  MaxSentences = 2
INVARIANTS TypeOK AnnouncedIsReceived LoopAgrees
