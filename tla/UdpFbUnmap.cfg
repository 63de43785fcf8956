\* UDP with fb0: the display is closed before the decode worker is joined.
CONSTANTS
  NSlots = 3
  NBufs = 1
  FlipHistory = 16
  MaxFrames = 2
  PQSize = 128
  FlipTries = 2
  TriesPerCall = 2
  AcquireTries = 1
  Udp = TRUE
  UseDrm = FALSE
  Faults = {"stop"}
  MaxRestarts = 0
SPECIFICATION Spec
INVARIANT NoWriteAfterUnmap
CHECK_DEADLOCK FALSE
