SPECIFICATION MCSpec
CONSTANTS
  Writer = {1, 2}
  Streamer = {1, 2}
  Sink = {k1}
  None = None
  BatchSize = 2
  VerifySize = 1
  MaxAttempts = 1
  MaxSequence = 3
  MaxFaults = 1
INVARIANTS
  TypeOK
  IntactChainVerifies
  StagedExactlyOnce
  BatchIsWhole
PROPERTIES
  ImplementsAuditFeed
  EveryEntryStreamed
CHECK_DEADLOCK FALSE
