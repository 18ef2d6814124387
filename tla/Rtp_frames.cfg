SPECIFICATION RtpSpec
CONSTANTS
  Video <- MCVideo
  BufSize = 2
  Longest = 3
  MaxFaults = 2
INVARIANTS RtpTypeOK DamageContained CopyBounded WholeInOrder
PROPERTIES SentComesThrough
CHECK_DEADLOCK FALSE
