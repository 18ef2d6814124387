SPECIFICATION LiveSpec
CONSTANTS
  Sips <- MCSips
  CameraNum = 1
  SipOf <- OneEntry
  CmdTypes <- MCCmdTypes
  ReqString <- MCReqString
  Addrs = {"home"}
  ServerSip <- MCServerSip
  PeerEvents <- EventsOne
  NDEBUG = TRUE
PROPERTY ByeTakesOffline
CHECK_DEADLOCK FALSE
