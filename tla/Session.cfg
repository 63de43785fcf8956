\* Every fault: lost datagrams, outages, a mapper that starts late or answers
\* nonsense, an embedder that reports events, shutdown.  The keepalive interval
\* is a quarter of the timeout, as in the client; set-up, round trip and loop
\* time are as long as TimingAssumption allows.
CONSTANTS
  KeepaliveMs = 2
  LinkTimeout = 8
  MapperTimeout = 5
  MaxRetries = 2
  NetDelay = 2
  MaxSetup = 3
  MaxIteration = 1
  Faults = {"loss", "outage", "late", "junk", "stop", "events"}
SPECIFICATION FairSpec
INVARIANT NoFalseLoss
PROPERTIES LossDetected DiscoveryEnds
