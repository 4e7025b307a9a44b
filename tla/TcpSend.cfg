SPECIFICATION Spec
CONSTANTS
  SeqSpace = 16  ISS = 3  IRS = 13  MSS = 1
  RcvWndScale = 0  WndMax = 15  RcvWndSize = 2
  SACKPermitted = TRUE  MaxSACKBlocks = 2
  InitialReadBufferSize = 2  ReadBufferSize = 2  MaxReadBufferSize = 2
  SndWndScale = 0  CwndSpace = 8  IWBytes = 4  InitialSSThresh = 7  MaxRetries = 0
  NoDelay = TRUE  GSOMaxSize = 0
  InitialWriteBufferSize = 1  WriteBufferSize = 4  KeepaliveCount = 1
  AppBytes = 4  WriteSizes = {4}  ReadSizes = {}
  AppOps = {"write"}
  Timers = {"zeroWindow", "keepalive", "synRcvd"}
  PeerBytes = 0  PeerMSS = 1  Windows = {0, 4}
  PeerOps = {"ack", "sack"}
INVARIANTS UnackedCoversFlight SackedIsHeld
PROPERTIES RespectsPeerWindow
CHECK_DEADLOCK FALSE
