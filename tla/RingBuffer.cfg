CONSTANTS
  Byte <- MCByte
  Payloads <- MCPayloads
  Writers = {w1}
  Readers = {r1, r2}
  Caps = {2, 3}
  ReadSizes = {1, 2}
  MaxCalls = 6
SPECIFICATION FairSpec
INVARIANT TypeOK
INVARIANT NoLostWakeup
INVARIANT EOFOnlyWhenDrained
PROPERTIES FIFOSpec CloseEndsReads
