SPECIFICATION PacketsSpec
CONSTANTS
  Datagrams <- Apart
  MTUs = {30, 36}
  HdrLen = 20
  MaxPayloadSize = 65515
  HighThreshold = 44
  LowThreshold = 32
  None = None
  Packets <- Batchable
  BatchSize = 4
  BufCap = 6
  ReadBufs = 2
  Unset = Unset
INVARIANTS TypeOK AssembledIntact NeverHoldsAll MemAccounted RoundTrip UdpInOrder ItemsDescribeBuffers
