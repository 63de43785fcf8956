\* Refused flips and a stop request at any moment: liveness.
\* The stream is finite and the threads may end up asleep: no deadlock check.
CONSTANTS
  NSlots = 3
  NBufs = 4
  FlipHistory = 16
  MaxFrames = 5
  PQSize = 128
  FlipTries = 4
  TriesPerCall = 2
  AcquireTries = 1
  Udp = FALSE
  UseDrm = TRUE
  Faults = {"flip", "stop"}
  MaxRestarts = 0
SPECIFICATION FairSpec
PROPERTIES AllButLastShown StopHonoured
CHECK_DEADLOCK FALSE
