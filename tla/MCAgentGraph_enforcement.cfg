SPECIFICATION Spec
CONSTANTS
  MaxRetries = 0
  MAX_REGENERATES = 2
  RetryTokenBudget = 5
  RecursionLimit = 25
  Configs <- MCVerifyConfigs
  Targets = {"rag", "chitchat"}
  RagOutcomes <- MCRagOutcomes
  DbOutcomes <- MCDbOutcomes
  GraphOutcomes <- MCGraphOutcomes
  Faithfulness <- MCFaithfulness
INVARIANT EnforcedFailsClosed
 
