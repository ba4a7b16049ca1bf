\* A crash or a failing query anywhere; the lock outlasts the handler.
SPECIFICATION FairSpec
CONSTANTS
  other = q
  Request = {r1, r2, q}
  PrintOf <- Prints
  None = None
  Lossy = FALSE
  MaxFaults = 1
INVARIANTS TypeOK ReplayFaithful NothingLeftBehind
PROPERTIES EveryoneAnswered UsesLease ImplementsOncePerKey
\* Every request ends once; there are no others.
CHECK_DEADLOCK FALSE
