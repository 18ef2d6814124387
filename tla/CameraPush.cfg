SPECIFICATION Spec
CONSTANTS
  MAX_RETRY_TIME = 3
  Frames <- MCFrames
INVARIANTS TypeOK StatusMatchesContext NoContextLeft AttemptsBounded StreamBeginsWithSps
PROPERTIES ImplementsContract IsPushThread UnwantedEnds
CHECK_DEADLOCK FALSE
