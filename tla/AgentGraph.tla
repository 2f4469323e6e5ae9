----------------------------- MODULE AgentGraph -----------------------------
(***************************************************************************)
(* One run of the compiled agent workflow graph of agent/langgraph: the    *)
(* nodes build_agent_graph() registers, the conditional edges between them *)
(* and the part of AgentState the edges and the delivered answer depend on.*)
(*                                                                         *)
(* A node is one action: it reads the state, writes its updates and moves  *)
(* pc to the node the outgoing edge selects.  What a tool, a model or the  *)
(* verifier answers is chosen from a set of outcomes; scores are percent.  *)
(* LangGraph stops a run that needs more than RecursionLimit node steps.   *)
(***************************************************************************)
EXTENDS Integers, FiniteSets

CONSTANTS
  MaxRetries,         \* AgentState.max_retries
  MAX_REGENERATES,    \* hallucination.MAX_REGENERATES
  RetryTokenBudget,   \* AgentState.retry_token_budget
  RecursionLimit,     \* LangGraph's recursion_limit
  Configs,            \* run configurations the callers use
  Targets,            \* route targets the router may pick
  RagOutcomes,        \* what RAGTool.invoke may return
  DbOutcomes,         \* what SqlAgentRunner.invoke may return
  GraphOutcomes,      \* what GraphTool.invoke may return
  Faithfulness        \* scores the verifier may return

AllTargets == {"rag", "database", "hybrid", "web", "rest", "graph", "chitchat"}

Modes == {"disabled", "shadow", "enforced"}

Sources == {"rag", "db", "web", "graph"}

Verdicts == {"", "data_found", "no_data_confirmed", "exploration_failed", "budget_exhausted"}

Config == [react        : BOOLEAN,
           run_mode     : {"", "chitchat", "factual"},
           phase        : Modes,
           ast          : {"none", "no_claims", "claims"},
           verify       : BOOLEAN,
           checkpointer : {"shared", "fresh"}]

RagResult == [docs : BOOLEAN, huge : BOOLEAN, score : 0..100, has_relevant : BOOLEAN,
              count : Nat, source : {"base", "grader_merged"}, tokens : Nat, infra : BOOLEAN]

DbResult == [present : BOOLEAN, verdict : Verdicts, rows : Nat, score : 0..100]

GraphResult == [rows : Nat, score : 0..100, error : BOOLEAN]

ASSUME BoundsAssumption ==
  /\ MaxRetries \in Nat /\ MAX_REGENERATES \in Nat
  /\ RetryTokenBudget \in Nat \ {0} /\ RecursionLimit \in Nat \ {0}

ASSUME ConfigsAssumption ==
  Configs \subseteq Config /\ Targets \subseteq AllTargets /\ Faithfulness \subseteq 0..100

(* Documents too large to fit the prompt (over 30K tokens) have used up    *)
(* the retry budget of 2000 tokens; a failed retrieval returns none.       *)
ASSUME RagAssumption ==
  \A r \in RagOutcomes : /\ r \in RagResult
                         /\ r.count > 0 => r.docs
                         /\ r.huge => r.tokens >= RetryTokenBudget
                         /\ r.infra => ~ r.docs

ASSUME DbAssumption == \A d \in DbOutcomes : d \in DbResult /\ d.present /\ d.verdict # ""

ASSUME GraphAssumption ==
  \A g \in GraphOutcomes : g \in GraphResult /\ (g.score > 0 => g.rows > 0 /\ ~ g.error)

QUALITY_PASS_THRESHOLD_BASE == 70
QUALITY_PASS_THRESHOLD_GRADER == 65
GRAPH_PASS_THRESHOLD == 70
MIN_RELEVANT_DOCS == 2
PASS_THRESHOLD == 85
FILTER_THRESHOLD == 60
REGENERATE_THRESHOLD == 30

NoRag == [docs |-> FALSE, huge |-> FALSE, score |-> 0, has_relevant |-> FALSE,
          count |-> 0, source |-> "base", tokens |-> 0, infra |-> FALSE]

NoDb == [present |-> FALSE, verdict |-> "", rows |-> 0, score |-> 0]

NoGraph == [rows |-> 0, score |-> 0, error |-> FALSE]

Nodes == {"question_input", "intent_router", "clarification", "rag_tool", "db_tool",
          "web_tool", "rest_tool", "graph_tool", "plan_executor", "react_subgraph",
          "evidence_fusion", "reflection", "quality_check", "fallback",
          "prompt_assembly", "llm_generate", "hallucination", "answer_renderer",
          "observability", "answer_output"}

(* END: the graph finished.  error: a node raised, or a resume found no    *)
(* checkpoint.  recursion_error: LangGraph's GraphRecursionError.          *)
Terminal == {"END", "error", "recursion_error"}

Answers == {"none", "generated", "empty", "rejection", "conservative", "fallback", "rendered",
            "report"}

VARIABLES
  pc,                   \* the node to run next, "waiting" at an interrupt, or Terminal
  steps,                \* node steps taken in this invocation of the graph
  config,               \* agent_config, feature flag and caller's checkpointer
  route,                \* route_target and route_decision
  retry_count,
  regenerate_count,
  retry_token_used,
  rag,                  \* rag_docs, rag_quality_score, rag_has_relevant, ...
  db,                   \* db_result and db_quality_score
  graph,                \* graph_result, graph_quality_score, graph_row_count
  web_docs,             \* is web_docs non-empty?
  evidence,             \* per source: none, from its latest run, or from an older one
  generated_answer,     \* "none" (no llm_generate yet), "empty" or "text"
  hallucination_action,
  termination_reason,
  final_answer,
  unfused,              \* history: tools whose result evidence_fusion has not seen
  runs,                 \* history: how often each tool node ran
  generations,          \* history: how often llm_generate ran
  checked,              \* history: what accepted the generated answer
  report                \* history: did a step of the plan generate a report?

vars == <<pc, steps, config, route, retry_count, regenerate_count, retry_token_used,
          rag, db, graph, web_docs, evidence, generated_answer, hallucination_action,
          termination_reason, final_answer, unfused, runs, generations, checked, report>>

toolVars == <<retry_token_used, rag, db, graph, web_docs, evidence, unfused, runs>>

answerVars == <<regenerate_count, generated_answer, hallucination_action,
                final_answer, generations, checked>>

-----------------------------------------------------------------------------
(* intent_router: which decisions the four layers and the planner produce. *)

(* A planner's decision carries new metadata, without needs_multi_tool.    *)
RouteDecision == [target : AllTargets, complexity : {"simple", "complex"},
                  source : {"rule", "llm", "planner"}, needs_multi_tool : BOOLEAN,
                  needs_clarification : BOOLEAN]

NoRoute == [target |-> "chitchat", complexity |-> "simple", source |-> "rule",
            needs_multi_tool |-> FALSE, needs_clarification |-> FALSE]

LLMTargets == {"rag", "database", "hybrid", "web", "rest", "chitchat"}

MultiTool(d) == d.target = "hybrid" \/ (d.complexity = "complex" /\ d.target = "database")

(* The pre-filter and the rule router, also when the LLM router times out, *)
(* fails or its circuit breaker is open and returns their decision.        *)
RuleDecision(d) ==
  /\ d.source = "rule" /\ d.complexity = "simple"
  /\ ~ d.needs_clarification
  /\ d.needs_multi_tool => MultiTool(d)

(* An LLM decision that is not complex, or that asks the user first.       *)
LLMDecision(d) ==
  /\ d.source = "llm" /\ d.target \in LLMTargets
  /\ d.complexity = "simple" \/ d.needs_clarification
  /\ d.needs_multi_tool => MultiTool(d)

(* A plan by the LLM planner, or by a skill for any decision.              *)
PlannedDecision(d) ==
  /\ d.source = "planner" /\ d.complexity = "complex"
  /\ ~ d.needs_multi_tool /\ ~ d.needs_clarification

(* On a timeout or an exception the planner returns what it was given: the *)
(* LLM decision, or the complexity gate's placeholder when the LLM failed. *)
(* A skill that cannot plan drops the metadata.                            *)
PlannerFailedDecision(d) ==
  /\ d.complexity = "complex" /\ ~ d.needs_clarification
  /\ d.needs_multi_tool => MultiTool(d)
  /\ \/ d.source = "llm" /\ d.target \in LLMTargets
     \/ d.source = "rule" /\ d.target = "chitchat"

RouteDecisions ==
  {d \in RouteDecision : /\ d.target \in Targets
                         /\ \/ RuleDecision(d)    \/ LLMDecision(d)
                            \/ PlannedDecision(d) \/ PlannerFailedDecision(d)}

ToolOf(target) ==
  IF target \in {"rag", "hybrid"} THEN "rag_tool"
  ELSE IF target = "database" THEN "db_tool"
  ELSE IF target = "web" THEN "web_tool"
  ELSE IF target = "rest" THEN "rest_tool"
  ELSE IF target = "graph" THEN "graph_tool"
  ELSE "prompt_assembly"

route_decision(d, react_enabled) ==
  IF d.needs_clarification THEN "clarification"
  ELSE IF /\ react_enabled /\ d.complexity = "complex"
          /\ d.needs_multi_tool /\ d.target \in {"hybrid", "database"} THEN "react_subgraph"
  ELSE IF d.source = "planner" /\ d.complexity = "complex" THEN "plan_executor"
  ELSE ToolOf(d.target)

(* Mutant: documents skip the fusion.                                      *)
after_rag_tool_unfused(target) == IF target = "hybrid" THEN "db_tool" ELSE "reflection"

after_rag_tool(target) == IF target = "hybrid" THEN "db_tool" ELSE "evidence_fusion"

-----------------------------------------------------------------------------
(* quality_check                                                           *)

Threshold(source) ==
  IF source = "grader_merged" THEN QUALITY_PASS_THRESHOLD_GRADER
  ELSE IF source = "graph" THEN GRAPH_PASS_THRESHOLD
  ELSE QUALITY_PASS_THRESHOLD_BASE

(* The hybrid score is the mean of both scores; comparing its double keeps *)
(* it an integer.                                                          *)
HybridScore2 == IF db.score > 0 THEN rag.score + db.score ELSE 2 * rag.score

QualityOk ==
  \/ /\ route.target = "rag" /\ rag.score >= Threshold(rag.source)
     /\ rag.has_relevant /\ rag.count >= MIN_RELEVANT_DOCS
  \/ /\ route.target = "hybrid" /\ HybridScore2 >= 2 * Threshold(rag.source)
     /\ rag.has_relevant /\ rag.count >= MIN_RELEVANT_DOCS
  \/ route.target = "database" /\ db.score >= Threshold("base") /\ db.rows > 0
  \/ route.target = "graph" /\ graph.score >= Threshold("graph") /\ graph.rows > 0

RetryOf(target) ==
  IF target \in {"rag", "hybrid"} THEN "retry_rag"
  ELSE IF target = "database" THEN "retry_db"
  ELSE IF target = "graph" THEN "retry_graph"
  ELSE "fallback_web"

Retries == {"retry_rag", "retry_db", "retry_graph"}

(* Mutant: one retry too many.                                             *)
_make_decision_off_by_one ==
  IF route.target = "chitchat" \/ QualityOk THEN "pass"
  ELSE IF retry_count <= MaxRetries THEN RetryOf(route.target) ELSE "fallback_web"

_make_decision ==
  IF route.target = "chitchat" \/ QualityOk THEN "pass"
  ELSE IF retry_count < MaxRetries THEN RetryOf(route.target) ELSE "fallback_web"

_decide_by_verdict(verdict) ==
  IF verdict \in {"data_found", "no_data_confirmed"} THEN "pass"
  ELSE IF verdict = "exploration_failed" /\ retry_count < MaxRetries THEN "retry_db"
  ELSE "fallback_web"

(* Mutant: the token budget is not consulted.                              *)
QualityDecision_unbudgeted ==
  IF route.target = "database" /\ db.verdict # "" THEN _decide_by_verdict(db.verdict)
  ELSE _make_decision

(* The rule for infrastructure errors reads retrieval_error_code, which is *)
(* not a channel of AgentState: LangGraph drops what rag_tool_node writes  *)
(* there, so the rule sees "" and never applies.                           *)
QualityDecision ==
  IF route.target = "database" /\ db.verdict # "" THEN _decide_by_verdict(db.verdict)
  ELSE IF retry_token_used >= RetryTokenBudget THEN "fallback_web"
  ELSE _make_decision

NodeOf(decision) ==
  IF decision = "retry_rag" THEN "rag_tool"
  ELSE IF decision = "retry_db" THEN "db_tool"
  ELSE IF decision = "retry_graph" THEN "graph_tool"
  ELSE IF decision = "fallback_web" THEN "web_tool"
  ELSE "prompt_assembly"

(* Mutant: the termination reason is ignored.                              *)
quality_check_decision_unaware(decision) == NodeOf(decision)

quality_check_decision(decision) ==
  IF termination_reason # "" THEN "fallback" ELSE NodeOf(decision)

-----------------------------------------------------------------------------
(* hallucination                                                           *)

resolve_run_mode ==
  IF config.run_mode # "" THEN config.run_mode
  ELSE IF route.target = "chitchat" THEN "chitchat" ELSE "factual"

resolve_enforcement == IF resolve_run_mode = "chitchat" THEN "disabled" ELSE config.phase

(* Mutant: regenerations are not limited.                                  *)
_dispose_unlimited(score) ==
  IF score >= PASS_THRESHOLD THEN "pass"
  ELSE IF score >= FILTER_THRESHOLD THEN "filter"
  ELSE IF score < REGENERATE_THRESHOLD THEN "reject" ELSE "regenerate"

_dispose(score) ==
  IF score >= PASS_THRESHOLD THEN "pass"
  ELSE IF score >= FILTER_THRESHOLD THEN "filter"
  ELSE IF score < REGENERATE_THRESHOLD THEN "reject"
  ELSE IF regenerate_count >= MAX_REGENERATES THEN "exhausted" ELSE "regenerate"

HallucinationActions == {"pass", "filter", "regenerate", "exhausted", "reject"}

hallucination_decision(action) ==
  IF action \in {"pass", "filter"} THEN "answer_renderer"
  ELSE IF action = "regenerate" THEN "prompt_assembly"
  ELSE "observability"

NoEvidence == \A s \in Sources : evidence[s] = "none"

-----------------------------------------------------------------------------

Init ==
  /\ pc = "question_input" /\ steps = 0
  /\ config \in Configs
  /\ route = NoRoute
  /\ retry_count = 0 /\ regenerate_count = 0 /\ retry_token_used = 0
  /\ rag = NoRag /\ db = NoDb /\ graph = NoGraph /\ web_docs = FALSE
  /\ evidence = [s \in Sources |-> "none"]
  /\ generated_answer = "none" /\ hallucination_action = "none"
  /\ termination_reason = "" /\ final_answer = "none"
  /\ unfused = {} /\ runs = [s \in Sources |-> 0]
  /\ generations = 0 /\ checked = "none" /\ report = FALSE

(* LangGraph runs one node per superstep and counts it.                    *)
Step(node) == pc = node /\ steps < RecursionLimit /\ steps' = steps + 1

(* The evidence of a source that is queried again describes an older run   *)
(* until the next fusion.                                                  *)
Outdated(S) == [s \in Sources |-> IF s \in S /\ evidence[s] = "current"
                                  THEN "stale" ELSE evidence[s]]

Ran(S) == [s \in Sources |-> IF s \in S THEN runs[s] + 1 ELSE runs[s]]

user_question_node ==
  /\ Step("question_input")
  /\ retry_count' = 0
  /\ pc' = "intent_router"
  /\ UNCHANGED <<config, report, route, termination_reason, toolVars, answerVars>>

intent_router_node ==
  /\ Step("intent_router")
  /\ \E d \in RouteDecisions : /\ route' = d
                               /\ pc' = route_decision(d, config.react)
  /\ UNCHANGED <<config, report, retry_count, termination_reason, toolVars, answerVars>>

(* A plan made of report steps only has a target RouteDecision does not    *)
(* admit: the validation error leaves planner.plan and the node.           *)
intent_router_raises ==
  /\ Step("intent_router")
  /\ pc' = "error"
  /\ UNCHANGED <<config, report, route, retry_count, termination_reason, toolVars, answerVars>>

(* interrupt() suspends the run inside the node.                           *)
clarification_node ==
  /\ Step("clarification")
  /\ pc' = "waiting"
  /\ UNCHANGED <<config, report, route, retry_count, termination_reason, toolVars, answerVars>>

(* The node runs again from its start in a new invocation, merges the      *)
(* user's answer and clears the decision.  aresume() without the caller's  *)
(* checkpointer makes a fresh MemorySaver, which holds no such thread.     *)
aresume ==
  /\ pc = "waiting"
  /\ IF config.checkpointer = "shared"
     THEN pc' = "intent_router" /\ steps' = 1 /\ route' = NoRoute
     ELSE pc' = "error" /\ UNCHANGED <<steps, route>>
  /\ UNCHANGED <<config, report, retry_count, termination_reason, toolVars, answerVars>>

(* Tokens are the characters of the returned documents over four.          *)
RagReturns(r) ==
  /\ rag' = r
  /\ retry_token_used' = retry_token_used + r.tokens

(* Mutant: a failed retrieval keeps the scores of the one before.          *)
RagFails_scores_kept == rag' = [rag EXCEPT !.docs = FALSE] /\ UNCHANGED retry_token_used

(* _empty_rag_state: every rag field is reset, the token count is not.     *)
RagFails == rag' = NoRag /\ UNCHANGED retry_token_used

rag_tool_node ==
  /\ Step("rag_tool")
  /\ \/ \E r \in RagOutcomes : RagReturns(r)
     \/ RagFails
  /\ evidence' = Outdated({"rag"})
  /\ unfused' = unfused \cup {"rag"}
  /\ runs' = Ran({"rag"})
  /\ pc' = after_rag_tool(route.target)
  /\ UNCHANGED <<config, report, route, retry_count, termination_reason,
                 db, graph, web_docs, answerVars>>

(* RetrievalDataError is raised through the graph to the caller.           *)
rag_tool_raises ==
  /\ Step("rag_tool")
  /\ pc' = "error"
  /\ UNCHANGED <<config, report, route, retry_count, termination_reason, toolVars, answerVars>>

db_tool_node ==
  /\ Step("db_tool")
  /\ db' \in DbOutcomes \cup {NoDb}
  /\ evidence' = Outdated({"db"})
  /\ unfused' = unfused \cup {"db"}
  /\ runs' = Ran({"db"})
  /\ pc' = "evidence_fusion"
  /\ UNCHANGED <<config, report, route, retry_count, termination_reason,
                 retry_token_used, rag, graph, web_docs, answerVars>>

web_tool_node ==
  /\ Step("web_tool")
  /\ web_docs' \in BOOLEAN
  /\ evidence' = Outdated({"web"})
  /\ unfused' = unfused \cup {"web"}
  /\ runs' = Ran({"web"})
  /\ pc' = "evidence_fusion"
  /\ UNCHANGED <<config, report, route, retry_count, termination_reason,
                 retry_token_used, rag, db, graph, answerVars>>

(* rest_result is written; neither fusion nor the quality gate reads it.   *)
rest_tool_node ==
  /\ Step("rest_tool")
  /\ pc' = "evidence_fusion"
  /\ UNCHANGED <<config, report, route, retry_count, termination_reason, toolVars, answerVars>>

graph_tool_node ==
  /\ Step("graph_tool")
  /\ graph' \in GraphOutcomes
  /\ evidence' = Outdated({"graph"})
  /\ unfused' = unfused \cup {"graph"}
  /\ runs' = Ran({"graph"})
  /\ pc' = "evidence_fusion"
  /\ UNCHANGED <<config, report, route, retry_count, termination_reason,
                 retry_token_used, rag, db, web_docs, answerVars>>

(* The aggregated result of the plan's steps.  Documents count as relevant *)
(* when there are any, the score source is not copied, tokens are not      *)
(* counted, and the aggregated db_result is a non-empty dict even without  *)
(* rows and carries no exploration verdict.  A report step's artifacts are *)
(* aggregated but not returned: AgentState has no channel report_artifacts. *)
PlanRag ==
  {NoRag} \cup
  {[docs |-> TRUE, huge |-> r.huge, score |-> r.score, has_relevant |-> TRUE,
    count |-> IF r.count > 0 THEN r.count ELSE 1, source |-> "base", tokens |-> 0,
    infra |-> FALSE] : r \in {q \in RagOutcomes : q.docs}}

PlanDb ==
  {[present |-> TRUE, verdict |-> "", rows |-> 0, score |-> 0]} \cup
  {[present |-> TRUE, verdict |-> "", rows |-> d.rows, score |-> d.score] :
     d \in {e \in DbOutcomes : e.rows > 0}}

plan_executor_node ==
  /\ Step("plan_executor")
  /\ \/ rag' \in PlanRag /\ db' \in PlanDb /\ web_docs' \in BOOLEAN
     \/ rag' = NoRag /\ db' = NoDb /\ web_docs' = FALSE
  /\ report' \in BOOLEAN
  /\ unfused' = unfused \cup {"rag", "db", "web"}
  /\ evidence' = Outdated({"rag", "db", "web"})
  /\ pc' = "evidence_fusion"
  /\ UNCHANGED <<config, route, retry_count, termination_reason,
                 retry_token_used, graph, runs, answerVars>>

(* ReactSubgraph.run, see module ReactLoop: it returns evidence of the     *)
(* tools it called and, unless the model finished, asked for clarification *)
(* or failed, a termination reason.                                        *)
ReactTerminations ==
  {"", "budget_exhausted", "same_action_loop", "rerank_declining", "policy_denied"}

react_subgraph_node ==
  /\ Step("react_subgraph")
  /\ termination_reason' \in ReactTerminations
  /\ \E S \in SUBSET {"rag", "db", "web"} :
       evidence' = [s \in Sources |-> IF s \in S THEN "current" ELSE evidence[s]]
  /\ unfused' = unfused \cup {"react"}
  /\ pc' = "evidence_fusion"
  /\ UNCHANGED <<config, report, route, retry_count, retry_token_used, rag, db, graph,
                 web_docs, runs, answerVars>>

(* Sources whose current result yields evidence.  Compression may find no  *)
(* relevant text in any of the documents of an oversized RAG result.       *)
_normalize_current_tool_results(ragDropped) ==
  {s \in Sources : \/ s = "rag" /\ rag.docs /\ ~ ragDropped
                   \/ s = "db" /\ db.present
                   \/ s = "web" /\ web_docs
                   \/ s = "graph" /\ graph.rows > 0 /\ ~ graph.error}

(* New evidence replaces the older evidence of its source; a source with   *)
(* nothing new keeps what it had.                                          *)
_merge_with_replacement(new) ==
  [s \in Sources |-> IF s \in new THEN "current" ELSE evidence[s]]

(* The 20 best are kept: ten rows and ten documents leave no room for the  *)
(* lower weighted web results.                                             *)
CappedOut(merged) ==
  IF merged["rag"] # "none" /\ merged["db"] # "none" THEN {{}, {"web"}} ELSE {{}}

evidence_fusion_node ==
  /\ Step("evidence_fusion")
  /\ \E ragDropped \in {FALSE, rag.huge} :
       LET merged == _merge_with_replacement(_normalize_current_tool_results(ragDropped))
       IN \E cut \in CappedOut(merged) :
            evidence' = [s \in Sources |-> IF s \in cut THEN "none" ELSE merged[s]]
  /\ unfused' = {}
  /\ pc' = "reflection"
  /\ UNCHANGED <<config, report, route, retry_count, termination_reason,
                 retry_token_used, rag, db, graph, web_docs, runs, answerVars>>

(* reflection_node only annotates the state.                               *)
reflection_node ==
  /\ Step("reflection")
  /\ pc' = "quality_check"
  /\ UNCHANGED <<config, report, route, retry_count, termination_reason, toolVars, answerVars>>

quality_check_node ==
  /\ Step("quality_check")
  /\ retry_count' = IF QualityDecision \in Retries THEN retry_count + 1 ELSE retry_count
  /\ pc' = quality_check_decision(QualityDecision)
  /\ UNCHANGED <<config, report, route, termination_reason, toolVars, answerVars>>

fallback_node ==
  /\ Step("fallback")
  /\ final_answer' = "fallback"
  /\ pc' = "observability"
  /\ UNCHANGED <<config, report, route, retry_count, termination_reason, toolVars, regenerate_count,
                 generated_answer, hallucination_action, generations, checked>>

prompt_assembly_node ==
  /\ Step("prompt_assembly")
  /\ pc' = "llm_generate"
  /\ UNCHANGED <<config, report, route, retry_count, termination_reason, toolVars, answerVars>>

llm_generate_node ==
  /\ Step("llm_generate")
  /\ generated_answer' \in {"empty", "text"}
  /\ generations' = generations + 1
  /\ checked' = "none"
  /\ pc' = "hallucination"
  /\ UNCHANGED <<config, report, route, retry_count, termination_reason, toolVars,
                 regenerate_count, hallucination_action, final_answer>>

(* The outcome of one verification: the action and what vouched for it.    *)
Verdict(action, by) == [action |-> action, by |-> by]

(* Mutant: a failing verifier is replaced by the overlap score always.     *)
GatewayVerdicts_degrading(mode) ==
  {Verdict(_dispose(f), "verifier") : f \in Faithfulness} \cup
  {Verdict(_dispose(f), "overlap") : f \in Faithfulness} \cup {Verdict("pass", "none")}

(* VerifierGateway answers with a score, or raises; then an enforced run   *)
(* rejects and any other falls back to the character overlap score, and    *)
(* passes when even that fails.                                            *)
GatewayVerdicts(mode) ==
  {Verdict(_dispose(f), "verifier") : f \in Faithfulness} \cup
  (IF mode = "enforced" THEN {Verdict("reject", "none")}
   ELSE {Verdict(_dispose(f), "overlap") : f \in Faithfulness} \cup {Verdict("pass", "none")})

(* Claims of an enforced run go to PolicyEngine.decide with arguments it   *)
(* does not take; the TypeError is caught and rejects the answer.          *)
HallucinationVerdicts(mode) ==
  IF generated_answer # "text" \/ NoEvidence
  THEN {Verdict(IF mode = "enforced" THEN "reject" ELSE "pass", "none")}
  ELSE IF mode = "enforced" /\ config.ast = "none"
  THEN {Verdict(IF regenerate_count >= MAX_REGENERATES THEN "reject" ELSE "regenerate", "none")}
  ELSE IF mode = "enforced" /\ config.ast = "claims" THEN {Verdict("reject", "none")}
  ELSE IF ~ config.verify THEN {Verdict("pass", "none")}
  ELSE GatewayVerdicts(mode)

hallucination_node ==
  /\ Step("hallucination")
  /\ \E v \in HallucinationVerdicts(resolve_enforcement) :
       /\ hallucination_action' = v.action
       /\ checked' = v.by
       /\ regenerate_count' = IF v.action = "regenerate" THEN regenerate_count + 1
                                                         ELSE regenerate_count
       /\ pc' = hallucination_decision(v.action)
  /\ UNCHANGED <<config, report, route, retry_count, termination_reason, toolVars,
                 generated_answer, final_answer, generations>>

Text(answer) == IF answer = "text" THEN "generated" ELSE "empty"

answer_renderer_node ==
  /\ Step("answer_renderer")
  /\ final_answer' = IF config.ast = "none" THEN Text(generated_answer) ELSE "rendered"
  /\ pc' = "observability"
  /\ UNCHANGED <<config, report, route, retry_count, termination_reason, toolVars, regenerate_count,
                 generated_answer, hallucination_action, generations, checked>>

observability_node ==
  /\ Step("observability")
  /\ pc' = "answer_output"
  /\ UNCHANGED <<config, report, route, retry_count, termination_reason, toolVars, answerVars>>

(* final_answer is computed anew from the action, whatever an earlier node *)
(* wrote; an unset action counts as "pass".  The branch for reports reads  *)
(* report_artifacts, which no node writes.                                 *)
final_answer_node ==
  /\ Step("answer_output")
  /\ final_answer' = IF hallucination_action = "reject" THEN "rejection"
                     ELSE IF hallucination_action = "exhausted" THEN "conservative"
                     ELSE Text(generated_answer)
  /\ pc' = "END"
  /\ UNCHANGED <<config, report, route, retry_count, termination_reason, toolVars, regenerate_count,
                 generated_answer, hallucination_action, generations, checked>>

GraphRecursionError ==
  /\ pc \in Nodes /\ steps = RecursionLimit
  /\ pc' = "recursion_error"
  /\ UNCHANGED <<steps, config, report, route, retry_count, termination_reason,
                 toolVars, answerVars>>

(* A finished run takes no further step.                                   *)
Finished == pc \in Terminal /\ UNCHANGED vars

Next ==
  \/ user_question_node \/ intent_router_node \/ intent_router_raises
  \/ clarification_node \/ aresume
  \/ rag_tool_node \/ rag_tool_raises \/ db_tool_node \/ web_tool_node
  \/ rest_tool_node \/ graph_tool_node \/ plan_executor_node \/ react_subgraph_node
  \/ evidence_fusion_node \/ reflection_node \/ quality_check_node \/ fallback_node
  \/ prompt_assembly_node \/ llm_generate_node \/ hallucination_node
  \/ answer_renderer_node \/ observability_node \/ final_answer_node
  \/ GraphRecursionError \/ Finished

(* A started node is awaited to its end; the user may never answer.        *)
Spec == Init /\ [][Next]_vars /\ WF_vars(Next /\ pc \notin Terminal /\ pc # "waiting")

-----------------------------------------------------------------------------
(* Properties                                                              *)

(* Every channel of AgentState keeps the type its readers rely on: the     *)
(* edges only ever select a registered node.                               *)
TypeOK ==
  /\ pc \in Nodes \cup Terminal \cup {"waiting"}
  /\ steps \in 0..RecursionLimit
  /\ config \in Config
  /\ route \in RouteDecision
  /\ retry_count \in Nat /\ regenerate_count \in Nat /\ retry_token_used \in Nat
  /\ rag \in RagResult /\ db \in DbResult /\ graph \in GraphResult /\ web_docs \in BOOLEAN
  /\ evidence \in [Sources -> {"none", "current", "stale"}]
  /\ generated_answer \in {"none", "empty", "text"}
  /\ hallucination_action \in HallucinationActions \cup {"none"}
  /\ termination_reason \in ReactTerminations
  /\ final_answer \in Answers
  /\ unfused \subseteq Sources \cup {"react"}
  /\ runs \in [Sources -> Nat]
  /\ generations \in Nat
  /\ checked \in {"none", "verifier", "overlap"}
  /\ report \in BOOLEAN

AfterFusion == {"reflection", "quality_check", "fallback", "prompt_assembly", "llm_generate",
                "hallucination", "answer_renderer", "observability", "answer_output"}

(* build_agent_graph: every tool result passes evidence_fusion before the  *)
(* quality gate, the prompt, the verifier or the fallback reads evidence.  *)
OnlyFusedEvidenceIsUsed == pc \in AfterFusion => unfused = {}

(* quality_check_node and hallucination_node: every repetition of a tool   *)
(* or of the generation is paid for by a counter, and the counters stop at *)
(* max_retries and MAX_REGENERATES.                                        *)
RepetitionsAreCounted ==
  /\ \A s \in {"rag", "db", "graph"} : runs[s] <= 1 + retry_count
  /\ retry_count <= MaxRetries
  /\ generations <= 1 + regenerate_count
  /\ regenerate_count <= MAX_REGENERATES

(* The tool whose result quality_check_node judges for a route target.     *)
JudgedSource(target) ==
  IF target \in {"rag", "hybrid"} THEN "rag" ELSE IF target = "database" THEN "db" ELSE "graph"

(* quality_check_node and evidence_fusion_node: when the gate lets a       *)
(* retrieval route through, the evidence the prompt is built from is that  *)
(* of the run that was judged, not of an earlier attempt, although a run   *)
(* without results keeps older evidence.  Only a plan's documents, which   *)
(* are not charged to the token budget, may be dropped by compression.     *)
PassRestsOnCurrentEvidence ==
  /\ pc \in {"prompt_assembly", "llm_generate", "hallucination"}
  /\ route.target \in {"rag", "hybrid", "database", "graph"}
  => \/ evidence[JudgedSource(route.target)] = "current"
     \/ JudgedSource(route.target) = "rag" /\ route.source = "planner" /\ rag.huge

(* hallucination_node: an enforced run with verification switched on never *)
(* delivers the model's text unless the verifier itself accepted it: not   *)
(* on an empty answer, missing evidence, a missing AST or a failing        *)
(* verifier, and never on the strength of the overlap score.               *)
EnforcedFailsClosed ==
  /\ pc = "END" /\ final_answer = "generated"
  /\ resolve_enforcement = "enforced" /\ config.verify
  => checked = "verifier" /\ hallucination_action \in {"pass", "filter"}

(* quality_check_decision: a run the ReAct loop terminated goes to the     *)
(* fallback; it neither repeats a tool nor asks the model for an answer.   *)
TerminatedRunIsNotContinued ==
  termination_reason # "" => generations = 0 /\ \A s \in Sources : runs[s] = 0

(* quality_check_node: no retry is started once the retrievals have used   *)
(* up the token budget, on any route.                                      *)
RetryWithinTokenBudget ==
  [][pc = "quality_check" /\ pc' \in {"rag_tool", "db_tool", "graph_tool"}
       => retry_token_used < RetryTokenBudget]_vars

(* hallucination_node: a question that is routed gets an answer, an        *)
(* exception or a question back, whatever the verifier says of the answers: *)
(* the regeneration counter ends the loop before the step limit does.  Only *)
(* the web fallback is not counted.                                        *)
CountersEndTheRun ==
  pc = "intent_router" ~> (pc \in {"END", "error", "waiting"} \/ runs["web"] > 0)

(* The step limit is never hit: "retry_count is incremented to avoid an    *)
(* endless loop" (quality_check_node).                                     *)
QualityLoopEnds == pc # "recursion_error"

(* fallback_node: the answer it composes for a terminated run is the one   *)
(* the user gets.                                                          *)
FallbackAnswerIsDelivered == pc = "END" /\ termination_reason # "" => final_answer = "fallback"

(* final_answer_node: a report comes before the ordinary answer.           *)
ReportIsDelivered == pc = "END" /\ report => final_answer = "report"

(* quality_check_node: a retrieval that failed for infrastructure reasons  *)
(* is not retried but replaced by the web search.                          *)
InfraErrorIsNotRetried == [][pc = "quality_check" /\ rag.infra => pc' # "rag_tool"]_vars

(* hallucination_node and quality_check_node: retries and regenerations    *)
(* within their own limits end in an answer; only the web fallback can run *)
(* into the step limit.                                                    *)
RetriesFitTheStepLimit == pc = "recursion_error" => runs["web"] > 0

(* AgentRunner.aresume: resuming an interrupted thread continues it.       *)
ResumeContinues == [][pc = "waiting" /\ pc' # pc => pc' = "intent_router"]_vars

=============================================================================
