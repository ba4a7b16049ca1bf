\* Calls of every outcome, and operators who trip, reset and re-tune.
SPECIFICATION FairSpec
CONSTANTS
  Call = {c1, c2, c3}
  Settings <- TwoSettings
  Outcomes = {"success", "failure", "unclassified"}
  Operators = {"open", "reset", "configure"}
  MaxAge = 2
  MaxFailures = 3
INVARIANTS TypeOK BulkheadExact ClosedIsHealthy
PROPERTIES ProbeBudget HalfOpenDecided
