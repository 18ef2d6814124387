SPECIFICATION SipSpec
CONSTANTS
  Sips <- MCSips
  CameraNum = 2
  SipOf <- TwoCameras
  CmdTypes <- MCCmdTypes
  ReqString <- MCReqString
  Addrs <- MCAddrs
  ServerSip <- MCServerSip
  PeerEvents <- EventsBook
  NDEBUG = TRUE
INVARIANTS NoDuplicatesListed
PROPERTIES KeepsQueries
CHECK_DEADLOCK FALSE
