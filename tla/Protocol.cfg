SPECIFICATION FairSpec
CONSTANTS
  HeaderLen = 2
  MaxBodyLen = 2
  RecvMax = 3
  Lengths = {0, 1, 2, 3}
  MaxFrames = 3
  Chars <- TypedChars
  Ids <- ChosenIds
  MaxName = 1
  MaxText = 3
INVARIANTS TypeOK FramesExact NoneLeftBehind BufferBounded RequestUnderstood TextArrives
PROPERTIES EveryFrameHandled
