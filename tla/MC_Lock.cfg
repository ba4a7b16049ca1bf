\* Timers at most one tick late, one renewal in a row lost: 1 + 2 * (4 + 1) < 12.
SPECIFICATION Spec
CONSTANTS
  Process = {p1, p2}
  NoKey = NoKey
  TTL = 12
  Interval = 4
  MaxDelay = 1
  MaxMissed = 1
  MaxAcquires = 2
INVARIANTS TypeOK Exclusion
PROPERTIES ImplementsSafeLease
\* MaxAcquires ends every behaviour: no process asks again after it.
CHECK_DEADLOCK FALSE
