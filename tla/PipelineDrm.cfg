\* DASH reader, decode worker, present worker, DRM: safety with failing
\* conversions and flips and retries that run out.
\* The stream is finite and the threads may end up asleep: no deadlock check.
CONSTANTS
  NSlots = 3
  NBufs = 4
  FlipHistory = 16
  MaxFrames = 5
  PQSize = 128
  FlipTries = 2
  TriesPerCall = 2
  AcquireTries = 1
  Udp = FALSE
  UseDrm = TRUE
  Faults = {"timeout", "conv", "flip"}
  MaxRestarts = 0
SPECIFICATION Spec
INVARIANTS OneOwner NoTear KernelView QueueNeverFull PoolAccounting SlotAccounting
  
CHECK_DEADLOCK FALSE
