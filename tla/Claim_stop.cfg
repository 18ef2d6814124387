SPECIFICATION LiveSpec
CONSTANTS
  Sips <- MCSips
  CameraNum = 1
  SipOf <- OneEntry
  CmdTypes <- MCCmdTypes
  ReqString <- MCReqString
  Addrs = {"home"}
  ServerSip <- MCServerSip
  PeerEvents <- EventsOne
  NDEBUG = TRUE
PROPERTY OneStopSparesServer
CHECK_DEADLOCK FALSE
