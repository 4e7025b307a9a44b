SPECIFICATION StackFairSpec
CONSTANTS
  Flows = {f1}
  None = None
  MaxConns = 1
  InboundQueueSize = 1
  AcceptQueueSize = 1
  OutboundQueueSize = 1
  WireSize = 1
  UdpQueueSize = 1
  MaxFragments = 1
 
PROPERTIES StoppedIsQuiet StopTerminates ReadFromReturns CloseTerminatesIfDrained
CHECK_DEADLOCK FALSE
