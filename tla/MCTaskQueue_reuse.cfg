SPECIFICATION Spec
CONSTANTS
  Workers = {"w1"}
  Parts = {"p1", "p2"}
  max_attempts = 2
  MaxRuns = 2
  MaxCrashes = 0
  MaxCancels = 1
CHECK_DEADLOCK FALSE
INVARIANT DoneMeansIndexed
