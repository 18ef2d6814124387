SPECIFICATION SipSpec
CONSTANTS
  Sips <- MCSips
  CameraNum = 2
  SipOf <- TwoCameras
  CmdTypes <- MCCmdTypes
  ReqString <- MCReqString
  Addrs <- MCAddrs
  ServerSip <- MCServerSip
  PeerEvents <- EventsMixed
  NDEBUG = TRUE
PROPERTY EasyControlObeyed
CHECK_DEADLOCK FALSE
