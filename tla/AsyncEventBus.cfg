\* Publishers on a full queue against Register, Clear, Flush and Close.
SPECIFICATION FairSpec
CONSTANTS
  Client = {c1, c2, c3}
  Worker = {w1}
  Listener = {l1}
  Event = {e1, e2, e3}
  Nobody = Nobody
  NoJob = NoJob
  QueueSize = 1
  MaxCalls = 2
INVARIANT TypeOK
INVARIANT CounterExact
INVARIANT SealedIsDrained
PROPERTY FlushCovers
PROPERTY CallsReturn
CHECK_DEADLOCK FALSE
