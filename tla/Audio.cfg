\* A ring of one period, every fault of the sink, one flush, edge reset or reader
\* restart, and a stop at any moment.
CONSTANTS
  Capacity = 2
  SizeMod = 4
  MaxLen = 2
  Period = 2
  Prefill = 2
  MaxWaits = 1
  MaxGate = 1
  Stall = 0
  Window = 2
  MaxUnits = 5
  MaxFlushes = 1
  Bytes = {0, 1, 2, 3, 4, 5}
  Faults = {"silent", "xrun", "fatal", "restart"}
SPECIFICATION FairSpec
INVARIANTS TypeOK AudioAccounted
PROPERTIES HeardInOrder ImplementsFifo FifoDrains  ClockRecovers VideoNotGated
