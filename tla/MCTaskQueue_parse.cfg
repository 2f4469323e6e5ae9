SPECIFICATION Spec
CONSTANTS
  Workers = {w1, w2}
  Parts = {"p1"}
  max_attempts = 2
  MaxRuns = 2
  MaxCrashes = 2
  MaxCancels = 1
INVARIANT TypeOK
 
INVARIANT AttemptsAreBounded
INVARIANT DoneMeansIndexedUnlessCanceled
 
 
 
CHECK_DEADLOCK FALSE
SYMMETRY Symmetry
