SPECIFICATION Spec
CONSTANTS
  Ids = {"a", "b", "c", "x"}
  Plans <- MCPlans
  Outcomes <- MCOutcomes
  Failed = Failed
  max_keep = 3
INVARIANT DependenciesAreEntered
INVARIANT FailuresAreReported
INVARIANT BestDocumentsAreKept
PROPERTY ImplementsPlanSpec
CHECK_DEADLOCK FALSE
