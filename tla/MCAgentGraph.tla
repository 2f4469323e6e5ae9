---------------------------- MODULE MCAgentGraph ----------------------------
(* Small instances of AgentGraph.                                          *)
EXTENDS AgentGraph

Rag(score, relevant, count, source, tokens) ==
  [docs |-> TRUE, huge |-> FALSE, score |-> score, has_relevant |-> relevant,
   count |-> count, source |-> source, tokens |-> tokens, infra |-> FALSE]

MCRagOutcomes ==
  { Rag(70, TRUE, 2, "base", 1),             \* just good enough
    Rag(69, TRUE, 2, "grader_merged", 1),    \* passes by the grader's threshold only
    Rag(90, TRUE, 1, "base", 2),             \* one document is too few
    [Rag(90, TRUE, 3, "base", RetryTokenBudget) EXCEPT !.huge = TRUE],
    [NoRag EXCEPT !.infra = TRUE] }

Db(verdict, rows, score) ==
  [present |-> TRUE, verdict |-> verdict, rows |-> rows, score |-> score]

MCDbOutcomes ==
  { Db("data_found", 1, 100), Db("no_data_confirmed", 0, 50),
    Db("exploration_failed", 0, 0), Db("budget_exhausted", 0, 0) }

MCGraphOutcomes ==
  { [rows |-> 1, score |-> 85, error |-> FALSE], [rows |-> 1, score |-> 50, error |-> FALSE],
    [rows |-> 0, score |-> 0, error |-> TRUE] }

MCFaithfulness == {85, 84, 59, 29}

BaseConfig == [react |-> FALSE, run_mode |-> "", phase |-> "disabled", ast |-> "none",
               verify |-> TRUE, checkpointer |-> "shared"]

MCRouteConfigs == {BaseConfig, [BaseConfig EXCEPT !.react = TRUE, !.verify = FALSE]}

MCVerifyConfigs == [react : {FALSE}, run_mode : {"", "chitchat", "factual"}, phase : Modes,
                    ast : {"none", "no_claims", "claims"}, verify : BOOLEAN,
                    checkpointer : {"shared"}]

MCReactConfigs == {[BaseConfig EXCEPT !.react = TRUE]}

MCPlainConfigs == {BaseConfig}

MCFreshConfigs == {[BaseConfig EXCEPT !.checkpointer = "fresh"]}

=============================================================================
