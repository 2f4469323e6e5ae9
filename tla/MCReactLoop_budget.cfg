SPECIFICATION Spec
CONSTANTS
  max_steps = 8
  max_tool_calls = 6
  max_db_queries = 3
  max_llm_calls = 5
  same_action_limit = 3
  rerank_drop_limit = 2
  min_rerank_drop = 5
  min_evidence_gain = 1
  absolute_quality_floor = 30
  Args = {"a", "b", "c"}
  Actions <- MCActions
  EvidenceIds = {"e1"}
  Scores = {}
INVARIANT BudgetIsKept
INVARIANT StagnationStops
PROPERTY LoopReturns
