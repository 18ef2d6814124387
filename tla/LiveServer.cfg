SPECIFICATION LiveSpec
CONSTANTS
  Sips <- MCSips
  CameraNum = 3
  SipOf <- ThreeEntries
  CmdTypes <- MCCmdTypes
  ReqString <- MCReqString
  Addrs = {"home"}
  ServerSip <- MCServerSip
  PeerEvents <- EventsLive
  NDEBUG = TRUE
INVARIANTS LiveTypeOK SinglePusher PushOnlyAsked OnlineIsRegistered FirstEntryOnly
PROPERTIES StopReachesPusher OnlineIsPushed ThreadsAsPromised
CHECK_DEADLOCK FALSE
