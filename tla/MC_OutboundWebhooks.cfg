SPECIFICATION FairSpec
CONSTANTS
  Sub = {s1}
  Msg = {m1}
  Worker = {w1, w2}
  Admin = {a1}
  None = None
  Wants <- MCWants
  Attempts = 2
  MaxStalls = 1
  MaxRound = 1
  MaxFaults = 1
INVARIANTS
  TypeOK
  PendingIsCarried
  DeadIsSpent
PROPERTIES
  EventuallySettled
  EverySubscriberTold
  SettledStands
CHECK_DEADLOCK FALSE
