\* The lock may expire under a draining relay: two relays deliver at once.
SPECIFICATION Spec
CONSTANTS
  m1 = m1  m2 = m2  h1 = h1  h2 = h2
  Message = {m1}
  Handler = {h1, h2}
  Relay = {r1, r2}
  None = None
  HandlersOf <- MCHandlersOf
  Outcomes <- LethalOutcome
  Operated = {m1}
  Lossy = TRUE
  MaxAttempts = 2
  BatchSize = 1
  MaxBatches = 1
  MaxFaults = 1
INVARIANTS DeliveredHandled
PROPERTIES SettledIsFinal ImplementsDelivery
