SPECIFICATION Spec
CONSTANTS
  max_steps = 7
  max_tool_calls = 7
  max_db_queries = 3
  max_llm_calls = 7
  same_action_limit = 8
  rerank_drop_limit = 2
  min_rerank_drop = 5
  min_evidence_gain = 1
  absolute_quality_floor = 30
  Args = {"a", "b", "c"}
  Actions <- MCSearch
  EvidenceIds = {"e1"}
  Scores = {20, 35, 40, 45}
INVARIANT DeclineIsReal
