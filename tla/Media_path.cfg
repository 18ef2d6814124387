SPECIFICATION MediaSpec
CONSTANTS
  Frames <- MCFrames
  Capacity = 130
  MaxFrames = 3
INVARIANTS MediaTypeOK UnreadIntact DemuxExact WholeFramesSurvive ParametersInForce EveryFrameWritten
CHECK_DEADLOCK FALSE
