SPECIFICATION FairSpec
CONSTANTS
  Flows = {f1, f2}
  None = None
  MaxConns = 2
  InboundQueueSize = 1
  AcceptQueueSize = 2
INVARIANTS TypeOK TableExact NoneEscapesClose ClosedIsQuiet
PROPERTY CloseTerminates
CHECK_DEADLOCK FALSE
