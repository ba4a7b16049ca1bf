\* A driver that may reject with an error of its own.
SPECIFICATION FairSpec
CONSTANTS
  Call = {c1, c2, c3}
  Settings <- OneSetting
  Outcomes = {"success", "failure", "unclassified"}
  Operators = {}
  MaxAge = 2
  MaxFailures = 3
PROPERTY ProbesDecide
