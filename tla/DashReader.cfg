\* A window of two segments that are deleted as soon as they leave it, one
\* encoder restart, one reader restart after two quiet segments, requests that
\* fail.  The reader stops at the end of the clip: no deadlock check.
CONSTANTS
  ClipLen = 4
  Window = 2
  Extra = 0
  BufTarget = 1
  BufMax = 2
  MaxRestarts = 1
  MaxClock = 5
  MaxLives = 2
  Stall = 2
  Faults = {"fetch", "mpd"}
SPECIFICATION FairSpec
PROPERTIES DeliveredInOrder  EndReached
CHECK_DEADLOCK FALSE
