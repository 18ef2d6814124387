SPECIFICATION MediaSpec
CONSTANTS
  Frames <- MCFrames
  Capacity = 130
  MaxFrames = 3
INVARIANTS SentWhenChanged
CHECK_DEADLOCK FALSE
