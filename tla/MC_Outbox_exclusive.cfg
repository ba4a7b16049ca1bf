\* The lock outlasts every drain; a relay crashes; an operator requeues m1.
SPECIFICATION FairSpec
CONSTANTS
  m1 = m1  m2 = m2  h1 = h1  h2 = h2
  Message = {m1, m2}
  Handler = {h1, h2}
  Relay = {r1, r2}
  None = None
  HandlersOf <- MCHandlersOf
  Outcomes <- AnyOutcome
  Operated = {m1}
  Lossy = FALSE
  MaxAttempts = 2
  BatchSize = 2
  MaxBatches = 1
  MaxFaults = 1
INVARIANTS TypeOK OnlyUnfinishedRun AttemptsCount
PROPERTIES UsesLease EventuallySettled
