\* Prune against an operator who requeues.
SPECIFICATION Spec
CONSTANTS
  m1 = m1  m2 = m2  h1 = h1  h2 = h2
  Message = {m1, m2}
  Handler = {h1, h2}
  Relay = {r1}
  None = None
  HandlersOf <- MCHandlersOf
  Outcomes <- AnyOutcome
  Operated = {m1}
  Lossy = FALSE
  MaxAttempts = 2
  BatchSize = 2
  MaxBatches = 2
  MaxFaults = 0
PROPERTY PendingNeverPruned
