\* A client that reads, captures, waits and writes input over connections that time out,
\* are refused or die with their server, with reads that fail after some bytes.
SPECIFICATION FairSpec
CONSTANTS
  Conns = {c1, c2}
  c1 = c1
  c2 = c2
  Opens <- MCOpens
  MaxBytes = 3
  MaxChunk = 2
  MaxSlots = 1
  Faults = {"idle", "full", "refuse", "partial", "exit", "noread"}
INVARIANTS DeliveredOnce BlobExact OnlyHangUpCancels
PROPERTIES HandlersEnd CallsAnswered
CHECK_DEADLOCK FALSE
