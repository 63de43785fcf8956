\* DASH with the fb0 display: order, unmapping, stop.
\* The stream is finite and the threads may end up asleep: no deadlock check.
CONSTANTS
  NSlots = 3
  NBufs = 1
  FlipHistory = 16
  MaxFrames = 5
  PQSize = 128
  FlipTries = 2
  TriesPerCall = 2
  AcquireTries = 1
  Udp = FALSE
  UseDrm = FALSE
  Faults = {"oversize", "decode", "stop", "cancel"}
  MaxRestarts = 1
SPECIFICATION FairSpec
INVARIANT NoWriteAfterUnmap
PROPERTIES  StopHonoured
CHECK_DEADLOCK FALSE
