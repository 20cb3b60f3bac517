\* A tick is 50 ms: the code's 150, 50 and 250 ms.
CONSTANTS
  IdleHold = 3
  EofQuiet = 1
  ForegroundPoll = 5
  Chunks <- SomeChunks
  MaxInput = 2
  MaxLate = 1
SPECIFICATION Spec
INVARIANTS TypeOK TrailingOutputShown
PROPERTIES IdleStands AttentionUntilWork FeedImplemented ScreenCatchesUp
