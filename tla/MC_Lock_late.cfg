\* Not Timely, 1 + 2 * (2 + 1) >= 6: a live holder may lose its key.
SPECIFICATION Spec
CONSTANTS
  Process = {p1, p2}
  NoKey = NoKey
  TTL = 6
  Interval = 2
  MaxDelay = 1
  MaxMissed = 1
  MaxAcquires = 2
INVARIANTS OrphanBounded
PROPERTIES ImplementsLossyLease
\* MaxAcquires ends every behaviour: no process asks again after it.
CHECK_DEADLOCK FALSE
