SPECIFICATION Spec
CONSTANTS
  SeqSpace = 16  ISS = 13  IRS = 12  MSS = 2
  RcvWndScale = 0  WndMax = 15  RcvWndSize = 3
  SACKPermitted = TRUE  MaxSACKBlocks = 2
  InitialReadBufferSize = 4  ReadBufferSize = 4  MaxReadBufferSize = 4
  SndWndScale = 0  CwndSpace = 16  IWBytes = 0  InitialSSThresh = 8  MaxRetries = 1
  NoDelay = TRUE  GSOMaxSize = 0
  InitialWriteBufferSize = 1  WriteBufferSize = 1  KeepaliveCount = 1
  AppBytes = 0  WriteSizes = {}  ReadSizes = {1}
  AppOps = {"read", "closeRead"}
  Timers = {"delayedACK"}
  PeerBytes = 4  PeerMSS = 2  Windows = {4}
  PeerOps = {"data", "fin", "ack", "rst", "syn", "stray"}
CHECK_DEADLOCK FALSE
INVARIANTS TypeOK StreamIntegrity OOOWellFormed SACKBlocksSound  EOFComplete
