SPECIFICATION FairSpec
CONSTANTS
  Flows = {f1, f2}
  None = None
  MaxConns = 2
  InboundQueueSize = 1
  AcceptQueueSize = 1
CHECK_DEADLOCK FALSE
PROPERTY CloseTerminates
