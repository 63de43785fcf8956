\* A two-slot ring, a head counter that wraps, clock_sync lines and shutdown.
CONSTANTS
  Producers = {p1, p2}
  RingSlots = 2
  HeadMod = 4
  MaxSeq = 4
SPECIFICATION FairSpec
INVARIANTS OneFiller EachOnce DropsCounted
PROPERTIES Delivered 
