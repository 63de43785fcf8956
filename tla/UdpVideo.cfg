\* A network that loses, duplicates and delays datagrams for longer than the
\* playout delay, a 3-slot buffer, sequence numbers that wrap, an access unit
\* that does not fit.
CONSTANTS
  MaxSlots = 3
  SeqMod = 8
  Delay = 1
  AuCap = 2
  Start <- ShortStream
  KeyFrames = {1}
  FirstSeq = 6
  FidMod = 8
  NetDelay = 2
  MayLose = {2, 3}
  MayDup = {1, 4}
SPECIFICATION FairSpec
INVARIANTS  AuIntegrity
PROPERTY NothingStuck
