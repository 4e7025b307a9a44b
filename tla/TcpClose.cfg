SPECIFICATION Spec
CONSTANTS
  SeqSpace = 16  ISS = 14  IRS = 14  MSS = 1
  RcvWndScale = 0  WndMax = 15  RcvWndSize = 2
  SACKPermitted = FALSE  MaxSACKBlocks = 2
  InitialReadBufferSize = 2  ReadBufferSize = 2  MaxReadBufferSize = 2
  SndWndScale = 0  CwndSpace = 8  IWBytes = 0  InitialSSThresh = 7  MaxRetries = 1
  NoDelay = TRUE  GSOMaxSize = 0
  InitialWriteBufferSize = 2  WriteBufferSize = 2  KeepaliveCount = 1
  AppBytes = 1  WriteSizes = {1}  ReadSizes = {}
  AppOps = {"write", "closeWrite"}
  Timers = {"rto", "finWait2", "timeWait"}
  PeerBytes = 1  PeerMSS = 1  Windows = {0, 2}
  PeerOps = {"ack", "data", "fin"}
INVARIANTS UnackedCoversFlight FINAfterAllData FINAckedMeansDelivered
PROPERTY LegalTransitions
CHECK_DEADLOCK FALSE
