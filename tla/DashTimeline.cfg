\* Two segments of two frames over three slots; the audio may start at any
\* instant after the first picture, and the watchdog may restart the reader.
CONSTANTS
  NSlots = 3
  MaxFrames = 4
  SegLen = 2
  FirstSeg = 2
  Margin = 1
  Playout = 2
  Prefill = 4
  Delays = {1, 3}
  Origin = 10
  MaxTicks = 1
  MaxRestarts = 1
SPECIFICATION Spec
INVARIANTS TypeOK AnchorOnAudio OrderWithinClock
CHECK_DEADLOCK FALSE
