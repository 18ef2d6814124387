SPECIFICATION SipSpec
CONSTANTS
  Sips <- MCSips
  CameraNum = 2
  SipOf <- TwoCameras
  CmdTypes <- MCCmdTypes
  ReqString <- MCReqString
  Addrs <- MCAddrs
  ServerSip <- MCServerSip
  PeerEvents <- EventsBook
  NDEBUG = TRUE
PROPERTY OnlyAskersTold
CHECK_DEADLOCK FALSE
