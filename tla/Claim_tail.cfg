SPECIFICATION MediaSpec
CONSTANTS
  Frames <- MCFrames
  Capacity = 130
  MaxFrames = 3
INVARIANTS UnrecognisedIsInFrame
CHECK_DEADLOCK FALSE
