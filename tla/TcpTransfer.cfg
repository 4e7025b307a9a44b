SPECIFICATION FairSpec
CONSTANTS
  SeqSpace = 16  ISS = 13  IRS = 12  MSS = 2
  RcvWndScale = 0  WndMax = 15  RcvWndSize = 2
  SACKPermitted = FALSE  MaxSACKBlocks = 2
  InitialReadBufferSize = 2  ReadBufferSize = 2  MaxReadBufferSize = 2
  SndWndScale = 0  CwndSpace = 64  IWBytes = 0  InitialSSThresh = 7  MaxRetries = 2
  NoDelay = FALSE  GSOMaxSize = 4
  InitialWriteBufferSize = 3  WriteBufferSize = 3  KeepaliveCount = 1
  AppBytes = 4  WriteSizes = {2, 3}  ReadSizes = {1}
  AppOps = {"write", "read", "closeWrite"}
  Timers = {"rto", "delayedACK", "timeWait"}
  PeerBytes = 1  PeerWindow = 3  MaxLost = 2
INVARIANTS UnackedCoversFlight RetransmissionArmed
CHECK_DEADLOCK FALSE
PROPERTIES WriteReturns TransferCompletes
