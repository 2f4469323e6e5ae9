SPECIFICATION Spec
CONSTANTS
  MaxRetries = 3
  MAX_REGENERATES = 1
  RetryTokenBudget = 5
  RecursionLimit = 25
  Configs <- MCRouteConfigs
  Targets = {"rag", "database", "hybrid", "web", "rest", "graph", "chitchat"}
  RagOutcomes <- MCRagOutcomes
  DbOutcomes <- MCDbOutcomes
  GraphOutcomes <- MCGraphOutcomes
  Faithfulness <- MCFaithfulness
INVARIANT OnlyFusedEvidenceIsUsed
INVARIANT RepetitionsAreCounted
INVARIANT PassRestsOnCurrentEvidence
INVARIANT TerminatedRunIsNotContinued
PROPERTY RetryWithinTokenBudget
