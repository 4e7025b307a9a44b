SPECIFICATION Spec
CONSTANTS
  SeqSpace = 16  ISS = 3  IRS = 13  MSS = 1
  RcvWndScale = 0  WndMax = 15  RcvWndSize = 2
  SACKPermitted = FALSE  MaxSACKBlocks = 2
  InitialReadBufferSize = 2  ReadBufferSize = 2  MaxReadBufferSize = 2
  SndWndScale = 0  CwndSpace = 8  IWBytes = 0  InitialSSThresh = 7  MaxRetries = 1
  NoDelay = TRUE  GSOMaxSize = 0
  InitialWriteBufferSize = 1  WriteBufferSize = 2  KeepaliveCount = 1
  AppBytes = 3  WriteSizes = {3}  ReadSizes = {}
  AppOps = {"write"}
  Timers = {"rto", "zeroWindow"}
  PeerBytes = 0  PeerMSS = 1  Windows = {0, 2}
  PeerOps = {"ack"}
CHECK_DEADLOCK FALSE
INVARIANT RetransmissionArmed
