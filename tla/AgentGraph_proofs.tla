------------------------- MODULE AgentGraph_proofs -------------------------
(***************************************************************************)
(* Safety of AgentGraph for every bound, configuration and outcome set.    *)
(***************************************************************************)
EXTENDS AgentGraph, TLAPS

-----------------------------------------------------------------------------
(* The conditional edges select registered nodes.                          *)

(* route_decision names a node for every decision.                         *)
LEMMA RouteNode ==
  ASSUME NEW d \in RouteDecision, NEW r \in BOOLEAN
  PROVE  route_decision(d, r) \in Nodes
BY DEF route_decision, ToolOf, RouteDecision, Nodes

(* quality_check_decision names a node for every decision.                 *)
LEMMA QualityNode ==
  ASSUME NEW q
  PROVE  quality_check_decision(q) \in Nodes
BY DEF quality_check_decision, NodeOf, Nodes

(* hallucination_decision names a node for every action.                   *)
LEMMA HallucinationNode ==
  ASSUME NEW a
  PROVE  hallucination_decision(a) \in Nodes
BY DEF hallucination_decision, Nodes

(* Every decision the router returns has the declared shape.               *)
LEMMA RouteDecisionsType == RouteDecisions \subseteq RouteDecision
BY DEF RouteDecisions

(* _dispose yields one of the five actions.                                *)
LEMMA DisposeType ==
  ASSUME NEW f
  PROVE  _dispose(f) \in HallucinationActions
BY DEF _dispose, HallucinationActions

(* Every verification outcome has the declared shape.                      *)
LEMMA VerdictType ==
  ASSUME NEW mode, NEW v \in HallucinationVerdicts(mode)
  PROVE  v.action \in HallucinationActions /\ v.by \in {"none", "verifier", "overlap"}
<1>1. CASE v \in GatewayVerdicts(mode)
  BY <1>1, DisposeType DEF GatewayVerdicts, Verdict, HallucinationActions
<1>2. CASE v \notin GatewayVerdicts(mode)
  BY <1>2 DEF HallucinationVerdicts, Verdict, HallucinationActions
<1> QED BY <1>1, <1>2

(* The empty results are results.                                          *)
LEMMA EmptyRag == NoRag \in RagResult
BY DEF NoRag, RagResult

LEMMA EmptyDb == NoDb \in DbResult
BY DEF NoDb, DbResult, Verdicts

LEMMA EmptyGraph == NoGraph \in GraphResult
BY DEF NoGraph, GraphResult

LEMMA EmptyRoute == NoRoute \in RouteDecision
BY DEF NoRoute, RouteDecision, AllTargets

(* ResultAggregator.aggregate builds results from those of the steps.      *)
LEMMA AggregatedRag ==
  ASSUME NEW r \in RagResult
  PROVE  [docs |-> TRUE, huge |-> r.huge, score |-> r.score, has_relevant |-> TRUE,
          count |-> IF r.count > 0 THEN r.count ELSE 1, source |-> "base", tokens |-> 0,
          infra |-> FALSE] \in RagResult
BY DEF RagResult

LEMMA AggregatedDb ==
  ASSUME NEW d \in DbResult
  PROVE  [present |-> TRUE, verdict |-> "", rows |-> d.rows, score |-> d.score] \in DbResult
BY DEF DbResult, Verdicts

LEMMA PlanTypes == PlanRag \subseteq RagResult /\ PlanDb \subseteq DbResult
<1>1. ASSUME NEW p \in PlanRag PROVE p \in RagResult
  BY <1>1, RagAssumption, EmptyRag, AggregatedRag DEF PlanRag
<1>2. [present |-> TRUE, verdict |-> "", rows |-> 0, score |-> 0] \in DbResult
  BY DEF DbResult, Verdicts
<1>3. ASSUME NEW p \in PlanDb PROVE p \in DbResult
  BY <1>2, <1>3, DbAssumption, AggregatedDb DEF PlanDb
<1> QED BY <1>1, <1>3

-----------------------------------------------------------------------------
(* TypeOK holds initially.                                                 *)
LEMMA TypeInit == Init => TypeOK
<1> SUFFICES ASSUME Init PROVE TypeOK
  OBVIOUS
<1>1. config \in Config
  BY ConfigsAssumption DEF Init
<1>2. evidence \in [Sources -> {"none", "current", "stale"}] /\ runs \in [Sources -> Nat]
  BY DEF Init
<1>3. route \in RouteDecision /\ rag \in RagResult /\ db \in DbResult /\ graph \in GraphResult
  BY EmptyRoute, EmptyRag, EmptyDb, EmptyGraph DEF Init
<1>4. steps \in 0..RecursionLimit /\ retry_count \in Nat /\ regenerate_count \in Nat
      /\ retry_token_used \in Nat /\ generations \in Nat
  <2>1. /\ steps = 0 /\ retry_count = 0 /\ regenerate_count = 0
        /\ retry_token_used = 0 /\ generations = 0
    BY DEF Init
  <2> QED BY <2>1, BoundsAssumption
<1>5. web_docs \in BOOLEAN /\ report \in BOOLEAN
  BY Zenon DEF Init
<1>6. /\ pc \in Nodes /\ termination_reason \in ReactTerminations /\ final_answer \in Answers
      /\ generated_answer = "none" /\ hallucination_action = "none" /\ checked = "none"
      /\ unfused = {}
  BY DEF Init, Nodes, ReactTerminations, Answers
<1> QED BY <1>1, <1>2, <1>3, <1>4, <1>5, <1>6 DEF TypeOK

(* Every node keeps the types.                                             *)
LEMMA TypeNext == TypeOK /\ [Next]_vars => TypeOK'
<1> SUFFICES ASSUME TypeOK, [Next]_vars PROVE TypeOK'
  OBVIOUS
<1> USE BoundsAssumption
<1> USE DEF TypeOK, Step, toolVars, answerVars, Nodes, Terminal
<1>1. CASE user_question_node BY <1>1 DEF user_question_node
<1>2. CASE intent_router_node
  <2> PICK d \in RouteDecisions : route' = d /\ pc' = route_decision(d, config.react)
    BY <1>2 DEF intent_router_node
  <2>1. d \in RouteDecision /\ config.react \in BOOLEAN
    BY RouteDecisionsType DEF Config
  <2>2. pc' \in Nodes
    BY <2>1, RouteNode
  <2> QED BY <1>2, <2>1, <2>2 DEF intent_router_node
<1>3. CASE intent_router_raises BY <1>3 DEF intent_router_raises
<1>4. CASE clarification_node BY <1>4 DEF clarification_node
<1>5. CASE aresume
  BY <1>5, EmptyRoute DEF aresume
<1>6. CASE rag_tool_node
  <2>1. rag' \in RagResult
    BY <1>6, RagAssumption, EmptyRag DEF rag_tool_node, RagReturns, RagFails
  <2>2. retry_token_used' \in Nat
    BY <1>6, RagAssumption DEF rag_tool_node, RagReturns, RagFails, RagResult
  <2>3. evidence' \in [Sources -> {"none", "current", "stale"}] /\ runs' \in [Sources -> Nat]
    BY <1>6 DEF rag_tool_node, Outdated, Ran
  <2> QED BY <1>6, <2>1, <2>2, <2>3 DEF rag_tool_node, after_rag_tool, Sources
<1>7. CASE rag_tool_raises BY <1>7 DEF rag_tool_raises
<1>8. CASE db_tool_node
  <2>1. db' \in DbResult
    BY <1>8, DbAssumption, EmptyDb DEF db_tool_node
  <2>2. evidence' \in [Sources -> {"none", "current", "stale"}] /\ runs' \in [Sources -> Nat]
    BY <1>8 DEF db_tool_node, Outdated, Ran
  <2> QED BY <1>8, <2>1, <2>2 DEF db_tool_node, Sources
<1>9. CASE web_tool_node
  <2>1. evidence' \in [Sources -> {"none", "current", "stale"}] /\ runs' \in [Sources -> Nat]
    BY <1>9 DEF web_tool_node, Outdated, Ran
  <2> QED BY <1>9, <2>1 DEF web_tool_node, Sources
<1>10. CASE rest_tool_node BY <1>10 DEF rest_tool_node
<1>11. CASE graph_tool_node
  <2>1. graph' \in GraphResult
    BY <1>11, GraphAssumption DEF graph_tool_node
  <2>2. evidence' \in [Sources -> {"none", "current", "stale"}] /\ runs' \in [Sources -> Nat]
    BY <1>11 DEF graph_tool_node, Outdated, Ran
  <2> QED BY <1>11, <2>1, <2>2 DEF graph_tool_node, Sources
<1>12. CASE plan_executor_node
  <2>1. rag' \in RagResult /\ db' \in DbResult /\ web_docs' \in BOOLEAN
    BY <1>12, PlanTypes, EmptyRag, EmptyDb DEF plan_executor_node
  <2>2. evidence' \in [Sources -> {"none", "current", "stale"}]
    BY <1>12 DEF plan_executor_node, Outdated
  <2> QED BY <1>12, <2>1, <2>2 DEF plan_executor_node, Sources
<1>13. CASE react_subgraph_node
  <2>1. evidence' \in [Sources -> {"none", "current", "stale"}]
    BY <1>13 DEF react_subgraph_node
  <2> QED BY <1>13, <2>1 DEF react_subgraph_node
<1>14. CASE evidence_fusion_node
  <2>1. evidence' \in [Sources -> {"none", "current", "stale"}]
    BY <1>14 DEF evidence_fusion_node, _merge_with_replacement
  <2> QED BY <1>14, <2>1 DEF evidence_fusion_node
<1>15. CASE reflection_node BY <1>15 DEF reflection_node
<1>16. CASE quality_check_node
  BY <1>16, QualityNode DEF quality_check_node
<1>17. CASE fallback_node
  BY <1>17 DEF fallback_node, Answers
<1>18. CASE prompt_assembly_node BY <1>18 DEF prompt_assembly_node
<1>19. CASE llm_generate_node BY <1>19 DEF llm_generate_node
<1>20. CASE hallucination_node
  BY <1>20, VerdictType, HallucinationNode DEF hallucination_node
<1>21. CASE answer_renderer_node
  BY <1>21 DEF answer_renderer_node, Text, Answers
<1>22. CASE observability_node BY <1>22 DEF observability_node
<1>23. CASE final_answer_node
  BY <1>23 DEF final_answer_node, Text, Answers
<1>24. CASE GraphRecursionError BY <1>24 DEF GraphRecursionError
<1>25. CASE UNCHANGED vars BY <1>25 DEF vars
<1> QED
  BY <1>1, <1>2, <1>3, <1>4, <1>5, <1>6, <1>7, <1>8, <1>9, <1>10, <1>11, <1>12, <1>13,
     <1>14, <1>15, <1>16, <1>17, <1>18, <1>19, <1>20, <1>21, <1>22, <1>23, <1>24, <1>25
  DEF Next, Finished

(* AgentState keeps its types and the edges only select registered nodes.  *)
THEOREM TypeCorrect == Spec => []TypeOK
BY TypeInit, TypeNext, PTL DEF Spec

-----------------------------------------------------------------------------
(* Repetitions: the counters bound the retries and the regenerations.      *)

(* Nodes that run before any tool, and those that run before the model.    *)
Early == {"question_input", "intent_router", "clarification", "waiting"}

BeforeGeneration == Early \cup
  {"rag_tool", "db_tool", "web_tool", "rest_tool", "graph_tool", "plan_executor",
   "react_subgraph", "evidence_fusion", "reflection", "quality_check", "fallback"}

(* A tool about to run has run at most retry_count times; at rag_tool this *)
(* holds of db_tool too, which a hybrid route runs next.                   *)
RetryInv ==
  /\ pc \in Early => /\ retry_count = 0
                     /\ \A s \in {"rag", "db", "graph"} : runs[s] = 0
  /\ \A s \in {"rag", "db", "graph"} : runs[s] <= 1 + retry_count
  /\ pc = "rag_tool" => runs["rag"] <= retry_count /\ runs["db"] <= retry_count
  /\ pc = "db_tool" => runs["db"] <= retry_count
  /\ pc = "graph_tool" => runs["graph"] <= retry_count
  /\ retry_count <= MaxRetries

(* A generation about to be made is paid for by regenerate_count.          *)
GenerationInv ==
  /\ pc \in BeforeGeneration => generations = 0 /\ regenerate_count = 0
  /\ pc \in {"prompt_assembly", "llm_generate"} => generations <= regenerate_count
  /\ generations <= 1 + regenerate_count
  /\ regenerate_count <= MAX_REGENERATES

(* quality_check_node retries only below max_retries, and only a tool of   *)
(* the retried kind runs next.                                             *)
LEMMA QualityRetry ==
  ASSUME TypeOK
  PROVE  /\ QualityDecision \in Retries => retry_count < MaxRetries
         /\ QualityDecision \notin Retries =>
              quality_check_decision(QualityDecision) \notin {"rag_tool", "db_tool", "graph_tool"}
BY BoundsAssumption
   DEF TypeOK, QualityDecision, _decide_by_verdict, _make_decision, RetryOf, Retries,
       quality_check_decision, NodeOf

(* _dispose and the AST gate regenerate only below MAX_REGENERATES.        *)
LEMMA RegenerateBounded ==
  ASSUME TypeOK, NEW mode, NEW v \in HallucinationVerdicts(mode), v.action = "regenerate"
  PROVE  regenerate_count < MAX_REGENERATES
<1>1. ASSUME NEW f, _dispose(f) = "regenerate" PROVE regenerate_count < MAX_REGENERATES
  BY <1>1, BoundsAssumption DEF _dispose, TypeOK
<1>2. CASE v \in GatewayVerdicts(mode)
  BY <1>1, <1>2 DEF GatewayVerdicts, Verdict
<1>3. CASE v \notin GatewayVerdicts(mode)
  BY <1>3, BoundsAssumption DEF HallucinationVerdicts, Verdict, TypeOK
<1> QED BY <1>2, <1>3

LEMMA RetryInit == Init => RetryInv
<1> SUFFICES ASSUME Init PROVE RetryInv
  OBVIOUS
<1>1. pc = "question_input" /\ retry_count = 0 /\ \A s \in {"rag", "db", "graph"} : runs[s] = 0
  BY DEF Init, Sources
<1> QED BY <1>1, BoundsAssumption DEF RetryInv

(* Every node preserves RetryInv.                                          *)
LEMMA RetryNext == TypeOK /\ RetryInv /\ [Next]_vars => RetryInv'
<1> SUFFICES ASSUME TypeOK, RetryInv, [Next]_vars PROVE RetryInv'
  OBVIOUS
<1> USE BoundsAssumption
<1> USE DEF TypeOK, RetryInv, Step, toolVars, Early
<1>1. CASE user_question_node BY <1>1 DEF user_question_node
<1>2. CASE intent_router_node BY <1>2 DEF intent_router_node
<1>3. CASE intent_router_raises BY <1>3 DEF intent_router_raises
<1>4. CASE clarification_node BY <1>4 DEF clarification_node
<1>5. CASE aresume BY <1>5 DEF aresume
<1>6. CASE rag_tool_node
  BY <1>6 DEF rag_tool_node, after_rag_tool, Ran, Sources
<1>7. CASE rag_tool_raises BY <1>7 DEF rag_tool_raises
<1>8. CASE db_tool_node
  BY <1>8 DEF db_tool_node, Ran, Sources
<1>9. CASE web_tool_node
  BY <1>9 DEF web_tool_node, Ran, Sources
<1>10. CASE rest_tool_node BY <1>10 DEF rest_tool_node
<1>11. CASE graph_tool_node
  BY <1>11 DEF graph_tool_node, Ran, Sources
<1>12. CASE plan_executor_node BY <1>12 DEF plan_executor_node
<1>13. CASE react_subgraph_node BY <1>13 DEF react_subgraph_node
<1>14. CASE evidence_fusion_node BY <1>14 DEF evidence_fusion_node
<1>15. CASE reflection_node BY <1>15 DEF reflection_node
<1>16. CASE quality_check_node
  <2> DEFINE q == QualityDecision
             next == quality_check_decision(q)
  <2>1. /\ next \in Nodes
        /\ q \in Retries => retry_count < MaxRetries
        /\ q \notin Retries => next \notin {"rag_tool", "db_tool", "graph_tool"}
    BY QualityRetry, QualityNode
  <2>2. /\ pc = "quality_check" /\ pc' = next /\ runs' = runs
        /\ retry_count' = IF q \in Retries THEN retry_count + 1 ELSE retry_count
    BY <1>16 DEF quality_check_node
  <2>3. next \notin Early
    BY DEF quality_check_decision, NodeOf
  <2> HIDE DEF q, next
  <2>4. CASE q \in Retries
    <3>1. retry_count' = retry_count + 1 /\ retry_count < MaxRetries
      BY <2>1, <2>2, <2>4
    <3>2. \A s \in {"rag", "db", "graph"} : runs[s] \in Nat
      BY DEF Sources
    <3> QED BY <2>2, <2>3, <3>1, <3>2
  <2>5. CASE q \notin Retries
    <3>1. retry_count' = retry_count
      BY <2>2, <2>5
    <3> QED BY <2>1, <2>2, <2>3, <2>5, <3>1
  <2> QED BY <2>4, <2>5
<1>17. CASE fallback_node BY <1>17 DEF fallback_node
<1>18. CASE prompt_assembly_node BY <1>18 DEF prompt_assembly_node
<1>19. CASE llm_generate_node BY <1>19 DEF llm_generate_node
<1>20. CASE hallucination_node
  BY <1>20 DEF hallucination_node, hallucination_decision
<1>21. CASE answer_renderer_node BY <1>21 DEF answer_renderer_node
<1>22. CASE observability_node BY <1>22 DEF observability_node
<1>23. CASE final_answer_node BY <1>23 DEF final_answer_node
<1>24. CASE GraphRecursionError BY <1>24 DEF GraphRecursionError
<1>25. CASE UNCHANGED vars BY <1>25 DEF vars
<1> QED
  BY <1>1, <1>2, <1>3, <1>4, <1>5, <1>6, <1>7, <1>8, <1>9, <1>10, <1>11, <1>12, <1>13,
     <1>14, <1>15, <1>16, <1>17, <1>18, <1>19, <1>20, <1>21, <1>22, <1>23, <1>24, <1>25
  DEF Next, Finished

LEMMA GenerationInit == Init => GenerationInv
<1> SUFFICES ASSUME Init PROVE GenerationInv
  OBVIOUS
<1>1. pc = "question_input" /\ generations = 0 /\ regenerate_count = 0
  BY DEF Init
<1> QED BY <1>1, BoundsAssumption DEF GenerationInv

(* Every node preserves GenerationInv.                                     *)
LEMMA GenerationNext == TypeOK /\ GenerationInv /\ [Next]_vars => GenerationInv'
<1> SUFFICES ASSUME TypeOK, GenerationInv, [Next]_vars PROVE GenerationInv'
  OBVIOUS
<1> USE BoundsAssumption
<1> USE DEF TypeOK, GenerationInv, Step, answerVars, Early, BeforeGeneration
<1>1. CASE user_question_node BY <1>1 DEF user_question_node
<1>2. CASE intent_router_node BY <1>2 DEF intent_router_node
<1>3. CASE intent_router_raises BY <1>3 DEF intent_router_raises
<1>4. CASE clarification_node BY <1>4 DEF clarification_node
<1>5. CASE aresume BY <1>5 DEF aresume
<1>6. CASE rag_tool_node BY <1>6 DEF rag_tool_node
<1>7. CASE rag_tool_raises BY <1>7 DEF rag_tool_raises
<1>8. CASE db_tool_node BY <1>8 DEF db_tool_node
<1>9. CASE web_tool_node BY <1>9 DEF web_tool_node
<1>10. CASE rest_tool_node BY <1>10 DEF rest_tool_node
<1>11. CASE graph_tool_node BY <1>11 DEF graph_tool_node
<1>12. CASE plan_executor_node BY <1>12 DEF plan_executor_node
<1>13. CASE react_subgraph_node BY <1>13 DEF react_subgraph_node
<1>14. CASE evidence_fusion_node BY <1>14 DEF evidence_fusion_node
<1>15. CASE reflection_node BY <1>15 DEF reflection_node
<1>16. CASE quality_check_node BY <1>16 DEF quality_check_node
<1>17. CASE fallback_node BY <1>17 DEF fallback_node
<1>18. CASE prompt_assembly_node BY <1>18 DEF prompt_assembly_node
<1>19. CASE llm_generate_node BY <1>19 DEF llm_generate_node
<1>20. CASE hallucination_node
  <2> PICK v \in HallucinationVerdicts(resolve_enforcement) :
            /\ regenerate_count' = IF v.action = "regenerate" THEN regenerate_count + 1
                                                              ELSE regenerate_count
            /\ pc' = hallucination_decision(v.action)
    BY <1>20 DEF hallucination_node
  <2>1. CASE v.action = "regenerate"
    BY <1>20, <2>1, RegenerateBounded DEF hallucination_node, hallucination_decision
  <2>2. CASE v.action # "regenerate"
    BY <1>20, <2>2 DEF hallucination_node, hallucination_decision
  <2> QED BY <2>1, <2>2
<1>21. CASE answer_renderer_node BY <1>21 DEF answer_renderer_node
<1>22. CASE observability_node BY <1>22 DEF observability_node
<1>23. CASE final_answer_node BY <1>23 DEF final_answer_node
<1>24. CASE GraphRecursionError BY <1>24 DEF GraphRecursionError
<1>25. CASE UNCHANGED vars BY <1>25 DEF vars
<1> QED
  BY <1>1, <1>2, <1>3, <1>4, <1>5, <1>6, <1>7, <1>8, <1>9, <1>10, <1>11, <1>12, <1>13,
     <1>14, <1>15, <1>16, <1>17, <1>18, <1>19, <1>20, <1>21, <1>22, <1>23, <1>24, <1>25
  DEF Next, Finished

(* No tool and no generation is repeated unpaid, for any bounds, outcomes  *)
(* and configurations.                                                     *)
THEOREM Repetitions == Spec => []RepetitionsAreCounted
<1>1. RetryInv /\ GenerationInv => RepetitionsAreCounted
  BY DEF RetryInv, GenerationInv, RepetitionsAreCounted
<1> QED
  BY <1>1, TypeInit, TypeNext, RetryInit, RetryNext, GenerationInit, GenerationNext, PTL DEF Spec

-----------------------------------------------------------------------------
(* Evidence: every tool result passes evidence_fusion.                     *)

FusedInv == pc \in Early \cup AfterFusion => unfused = {}

(* Every node preserves FusedInv: the edges out of a tool lead to a tool or *)
(* to the fusion.                                                          *)
LEMMA FusedNext == TypeOK /\ FusedInv /\ [Next]_vars => FusedInv'
<1> SUFFICES ASSUME TypeOK, FusedInv, [Next]_vars PROVE FusedInv'
  OBVIOUS
<1> USE DEF FusedInv, Step, toolVars, Early, AfterFusion
<1>1. CASE user_question_node BY <1>1 DEF user_question_node
<1>2. CASE intent_router_node
  BY <1>2 DEF intent_router_node, route_decision, ToolOf
<1>3. CASE intent_router_raises BY <1>3 DEF intent_router_raises
<1>4. CASE clarification_node BY <1>4 DEF clarification_node
<1>5. CASE aresume BY <1>5 DEF aresume
<1>6. CASE rag_tool_node
  BY <1>6 DEF rag_tool_node, after_rag_tool
<1>7. CASE rag_tool_raises BY <1>7 DEF rag_tool_raises
<1>8. CASE db_tool_node BY <1>8 DEF db_tool_node
<1>9. CASE web_tool_node BY <1>9 DEF web_tool_node
<1>10. CASE rest_tool_node BY <1>10 DEF rest_tool_node
<1>11. CASE graph_tool_node BY <1>11 DEF graph_tool_node
<1>12. CASE plan_executor_node BY <1>12 DEF plan_executor_node
<1>13. CASE react_subgraph_node BY <1>13 DEF react_subgraph_node
<1>14. CASE evidence_fusion_node BY <1>14 DEF evidence_fusion_node
<1>15. CASE reflection_node BY <1>15 DEF reflection_node
<1>16. CASE quality_check_node BY <1>16 DEF quality_check_node
<1>17. CASE fallback_node BY <1>17 DEF fallback_node
<1>18. CASE prompt_assembly_node BY <1>18 DEF prompt_assembly_node
<1>19. CASE llm_generate_node BY <1>19 DEF llm_generate_node
<1>20. CASE hallucination_node
  BY <1>20 DEF hallucination_node, hallucination_decision
<1>21. CASE answer_renderer_node BY <1>21 DEF answer_renderer_node
<1>22. CASE observability_node BY <1>22 DEF observability_node
<1>23. CASE final_answer_node BY <1>23 DEF final_answer_node
<1>24. CASE GraphRecursionError BY <1>24 DEF GraphRecursionError
<1>25. CASE UNCHANGED vars BY <1>25 DEF vars
<1> QED
  BY <1>1, <1>2, <1>3, <1>4, <1>5, <1>6, <1>7, <1>8, <1>9, <1>10, <1>11, <1>12, <1>13,
     <1>14, <1>15, <1>16, <1>17, <1>18, <1>19, <1>20, <1>21, <1>22, <1>23, <1>24, <1>25
  DEF Next, Finished

(* No consumer of evidence runs before the tools' results are fused.       *)
THEOREM EvidenceIsFused == Spec => []OnlyFusedEvidenceIsUsed
<1>1. Init => FusedInv
  BY DEF Init, FusedInv
<1>2. FusedInv => OnlyFusedEvidenceIsUsed
  BY DEF FusedInv, OnlyFusedEvidenceIsUsed
<1> QED BY <1>1, <1>2, TypeInit, TypeNext, FusedNext, PTL DEF Spec

-----------------------------------------------------------------------------
(* Termination of the ReAct loop: the rest of the run only reports it.     *)

(* Nothing has run when the loop starts, and a terminated run stays on the *)
(* path from the loop through the fallback to the answer.                  *)
TerminatedInv ==
  /\ pc \in Early => termination_reason = ""
  /\ pc \in Early \cup {"react_subgraph"} => generations = 0 /\ \A s \in Sources : runs[s] = 0
  /\ termination_reason # "" =>
       /\ pc \in {"evidence_fusion", "reflection", "quality_check", "fallback",
                 "observability", "answer_output", "END", "recursion_error"}
       /\ generations = 0 /\ \A s \in Sources : runs[s] = 0

(* Every node preserves TerminatedInv.                                     *)
LEMMA TerminatedNext == TypeOK /\ TerminatedInv /\ [Next]_vars => TerminatedInv'
<1> SUFFICES ASSUME TypeOK, TerminatedInv, [Next]_vars PROVE TerminatedInv'
  OBVIOUS
<1> USE DEF TerminatedInv, Step, toolVars, answerVars, Early
<1>1. CASE user_question_node BY <1>1 DEF user_question_node
<1>2. CASE intent_router_node BY <1>2 DEF intent_router_node
<1>3. CASE intent_router_raises BY <1>3 DEF intent_router_raises
<1>4. CASE clarification_node BY <1>4 DEF clarification_node
<1>5. CASE aresume BY <1>5 DEF aresume
<1>6. CASE rag_tool_node
  BY <1>6 DEF rag_tool_node, after_rag_tool
<1>7. CASE rag_tool_raises BY <1>7 DEF rag_tool_raises
<1>8. CASE db_tool_node BY <1>8 DEF db_tool_node
<1>9. CASE web_tool_node BY <1>9 DEF web_tool_node
<1>10. CASE rest_tool_node BY <1>10 DEF rest_tool_node
<1>11. CASE graph_tool_node BY <1>11 DEF graph_tool_node
<1>12. CASE plan_executor_node BY <1>12 DEF plan_executor_node
<1>13. CASE react_subgraph_node BY <1>13 DEF react_subgraph_node
<1>14. CASE evidence_fusion_node BY <1>14 DEF evidence_fusion_node
<1>15. CASE reflection_node BY <1>15 DEF reflection_node
<1>16. CASE quality_check_node
  BY <1>16 DEF quality_check_node, quality_check_decision, NodeOf
<1>17. CASE fallback_node BY <1>17 DEF fallback_node
<1>18. CASE prompt_assembly_node BY <1>18 DEF prompt_assembly_node
<1>19. CASE llm_generate_node BY <1>19 DEF llm_generate_node
<1>20. CASE hallucination_node
  BY <1>20 DEF hallucination_node, hallucination_decision
<1>21. CASE answer_renderer_node BY <1>21 DEF answer_renderer_node
<1>22. CASE observability_node BY <1>22 DEF observability_node
<1>23. CASE final_answer_node BY <1>23 DEF final_answer_node
<1>24. CASE GraphRecursionError BY <1>24 DEF GraphRecursionError
<1>25. CASE UNCHANGED vars BY <1>25 DEF vars
<1> QED
  BY <1>1, <1>2, <1>3, <1>4, <1>5, <1>6, <1>7, <1>8, <1>9, <1>10, <1>11, <1>12, <1>13,
     <1>14, <1>15, <1>16, <1>17, <1>18, <1>19, <1>20, <1>21, <1>22, <1>23, <1>24, <1>25
  DEF Next, Finished

(* A terminated run neither repeats a tool nor generates an answer.        *)
THEOREM TerminatedRuns == Spec => []TerminatedRunIsNotContinued
<1>1. Init => TerminatedInv
  BY DEF Init, TerminatedInv, Early, Sources
<1>2. TerminatedInv => TerminatedRunIsNotContinued
  BY DEF TerminatedInv, TerminatedRunIsNotContinued
<1> QED BY <1>1, <1>2, TypeInit, TypeNext, TerminatedNext, PTL DEF Spec

-----------------------------------------------------------------------------
(* Enforcement: what an enforced run delivers was accepted by the verifier. *)

(* The answer on its way out of hallucination_node.                        *)
EnforcedInv ==
  /\ pc \in BeforeGeneration => generated_answer = "none"
  /\ /\ pc \in {"answer_renderer", "observability", "answer_output"}
     /\ resolve_enforcement = "enforced" /\ config.verify
     /\ hallucination_action \notin {"reject", "exhausted"} /\ generated_answer = "text"
     => checked = "verifier" /\ hallucination_action \in {"pass", "filter"}
  /\ EnforcedFailsClosed

(* hallucination_node passes an enforced, verified answer only on the word *)
(* of the verifier.                                                        *)
LEMMA EnforcedVerdict ==
  ASSUME generated_answer = "text", config.verify, NEW v \in HallucinationVerdicts("enforced"),
         v.action \in {"pass", "filter"}
  PROVE  v.by = "verifier"
BY DEF HallucinationVerdicts, GatewayVerdicts, Verdict

(* Every node preserves EnforcedInv.                                       *)
LEMMA EnforcedNext == TypeOK /\ EnforcedInv /\ [Next]_vars => EnforcedInv'
<1> SUFFICES ASSUME TypeOK, EnforcedInv, [Next]_vars PROVE EnforcedInv'
  OBVIOUS
<1> USE DEF EnforcedInv, EnforcedFailsClosed, Step, answerVars, resolve_enforcement,
            resolve_run_mode, Early, BeforeGeneration
<1>1. CASE user_question_node BY <1>1 DEF user_question_node
<1>2. CASE intent_router_node
  <2>1. pc' \in Nodes \ {"answer_renderer", "observability", "answer_output"}
    BY <1>2, RouteNode, RouteDecisionsType DEF intent_router_node, route_decision, ToolOf, Nodes
  <2> QED BY <1>2, <2>1 DEF intent_router_node, Nodes
<1>3. CASE intent_router_raises BY <1>3 DEF intent_router_raises
<1>4. CASE clarification_node BY <1>4 DEF clarification_node
<1>5. CASE aresume BY <1>5 DEF aresume
<1>6. CASE rag_tool_node
  BY <1>6 DEF rag_tool_node, after_rag_tool
<1>7. CASE rag_tool_raises BY <1>7 DEF rag_tool_raises
<1>8. CASE db_tool_node BY <1>8 DEF db_tool_node
<1>9. CASE web_tool_node BY <1>9 DEF web_tool_node
<1>10. CASE rest_tool_node BY <1>10 DEF rest_tool_node
<1>11. CASE graph_tool_node BY <1>11 DEF graph_tool_node
<1>12. CASE plan_executor_node BY <1>12 DEF plan_executor_node
<1>13. CASE react_subgraph_node BY <1>13 DEF react_subgraph_node
<1>14. CASE evidence_fusion_node BY <1>14 DEF evidence_fusion_node
<1>15. CASE reflection_node BY <1>15 DEF reflection_node
<1>16. CASE quality_check_node
  BY <1>16 DEF quality_check_node, quality_check_decision, NodeOf
<1>17. CASE fallback_node BY <1>17 DEF fallback_node
<1>18. CASE prompt_assembly_node BY <1>18 DEF prompt_assembly_node
<1>19. CASE llm_generate_node BY <1>19 DEF llm_generate_node
<1>20. CASE hallucination_node
  <2> HIDE DEF resolve_enforcement
  <2> PICK v \in HallucinationVerdicts(resolve_enforcement) :
            /\ hallucination_action' = v.action /\ checked' = v.by
            /\ pc' = hallucination_decision(v.action)
    BY <1>20 DEF hallucination_node
  <2>1. resolve_enforcement' = resolve_enforcement
    BY <1>20 DEF hallucination_node, resolve_enforcement
  <2> QED
    BY <1>20, <2>1, EnforcedVerdict, VerdictType
    DEF hallucination_node, hallucination_decision, HallucinationActions
<1>21. CASE answer_renderer_node BY <1>21 DEF answer_renderer_node
<1>22. CASE observability_node BY <1>22 DEF observability_node
<1>23. CASE final_answer_node
  BY <1>23 DEF final_answer_node, Text
<1>24. CASE GraphRecursionError BY <1>24 DEF GraphRecursionError
<1>25. CASE UNCHANGED vars BY <1>25 DEF vars
<1> QED
  BY <1>1, <1>2, <1>3, <1>4, <1>5, <1>6, <1>7, <1>8, <1>9, <1>10, <1>11, <1>12, <1>13,
     <1>14, <1>15, <1>16, <1>17, <1>18, <1>19, <1>20, <1>21, <1>22, <1>23, <1>24, <1>25
  DEF Next, Finished

(* An enforced run with verification on delivers no text the verifier did  *)
(* not accept.                                                             *)
THEOREM EnforcedRunsFailClosed == Spec => []EnforcedFailsClosed
<1>1. Init => EnforcedInv
  BY DEF Init, EnforcedInv, EnforcedFailsClosed
<1>2. EnforcedInv => EnforcedFailsClosed
  BY DEF EnforcedInv
<1> QED BY <1>1, <1>2, TypeInit, TypeNext, EnforcedNext, PTL DEF Spec

-----------------------------------------------------------------------------
(* The token budget: a route that retries without asking it spends none.   *)

(* rag_tool, the only node that spends tokens, runs on rag and hybrid      *)
(* routes only; the verdict rule retries on the database route only.       *)
BudgetInv ==
  /\ pc \in Early \/ route.target = "database" => retry_token_used = 0
  /\ pc = "rag_tool" => route.target \in {"rag", "hybrid"}

(* A retry is of the tool of the route, and is asked for within the budget *)
(* unless the verdict of the database exploration asks for it.             *)
LEMMA QualityBudget ==
  ASSUME quality_check_decision(QualityDecision) \in {"rag_tool", "db_tool", "graph_tool"}
  PROVE  /\ quality_check_decision(QualityDecision) = "rag_tool"
              => route.target \in {"rag", "hybrid"}
         /\ ~ (retry_token_used >= RetryTokenBudget) \/ route.target = "database"
BY DEF quality_check_decision, NodeOf, QualityDecision, _decide_by_verdict, _make_decision, RetryOf

(* Every node preserves BudgetInv.                                         *)
LEMMA BudgetNext == TypeOK /\ BudgetInv /\ [Next]_vars => BudgetInv'
<1> SUFFICES ASSUME TypeOK, BudgetInv, [Next]_vars PROVE BudgetInv'
  OBVIOUS
<1> USE DEF BudgetInv, Step, toolVars, Early
<1>1. CASE user_question_node BY <1>1 DEF user_question_node
<1>2. CASE intent_router_node
  BY <1>2 DEF intent_router_node, route_decision, ToolOf
<1>3. CASE intent_router_raises BY <1>3 DEF intent_router_raises
<1>4. CASE clarification_node BY <1>4 DEF clarification_node
<1>5. CASE aresume
  BY <1>5 DEF aresume, NoRoute
<1>6. CASE rag_tool_node
  BY <1>6 DEF rag_tool_node, after_rag_tool
<1>7. CASE rag_tool_raises BY <1>7 DEF rag_tool_raises
<1>8. CASE db_tool_node BY <1>8 DEF db_tool_node
<1>9. CASE web_tool_node BY <1>9 DEF web_tool_node
<1>10. CASE rest_tool_node BY <1>10 DEF rest_tool_node
<1>11. CASE graph_tool_node BY <1>11 DEF graph_tool_node
<1>12. CASE plan_executor_node BY <1>12 DEF plan_executor_node
<1>13. CASE react_subgraph_node BY <1>13 DEF react_subgraph_node
<1>14. CASE evidence_fusion_node BY <1>14 DEF evidence_fusion_node
<1>15. CASE reflection_node BY <1>15 DEF reflection_node
<1>16. CASE quality_check_node
  BY <1>16, QualityBudget DEF quality_check_node, quality_check_decision, NodeOf
<1>17. CASE fallback_node BY <1>17 DEF fallback_node
<1>18. CASE prompt_assembly_node BY <1>18 DEF prompt_assembly_node
<1>19. CASE llm_generate_node BY <1>19 DEF llm_generate_node
<1>20. CASE hallucination_node
  BY <1>20 DEF hallucination_node, hallucination_decision
<1>21. CASE answer_renderer_node BY <1>21 DEF answer_renderer_node
<1>22. CASE observability_node BY <1>22 DEF observability_node
<1>23. CASE final_answer_node BY <1>23 DEF final_answer_node
<1>24. CASE GraphRecursionError BY <1>24 DEF GraphRecursionError
<1>25. CASE UNCHANGED vars BY <1>25 DEF vars
<1> QED
  BY <1>1, <1>2, <1>3, <1>4, <1>5, <1>6, <1>7, <1>8, <1>9, <1>10, <1>11, <1>12, <1>13,
     <1>14, <1>15, <1>16, <1>17, <1>18, <1>19, <1>20, <1>21, <1>22, <1>23, <1>24, <1>25
  DEF Next, Finished

(* No retry starts once the budget is spent.                               *)
THEOREM RetriesRespectTheBudget == Spec => RetryWithinTokenBudget
<1> DEFINE Retry == pc = "quality_check" /\ pc' \in {"rag_tool", "db_tool", "graph_tool"}
                      => retry_token_used < RetryTokenBudget
<1>1. Init => BudgetInv
  BY DEF Init, BudgetInv, NoRoute
<1>2. TypeOK /\ BudgetInv /\ [Next]_vars => [Retry]_vars
  <2> SUFFICES ASSUME TypeOK, BudgetInv, Next, pc = "quality_check",
                      pc' \in {"rag_tool", "db_tool", "graph_tool"}
               PROVE  retry_token_used < RetryTokenBudget
    BY DEF vars
  <2>1. quality_check_node
    BY DEF Next, Step, Finished, Terminal, user_question_node, intent_router_node,
           intent_router_raises, clarification_node, aresume, rag_tool_node, rag_tool_raises,
           db_tool_node, web_tool_node, rest_tool_node, graph_tool_node, plan_executor_node,
           react_subgraph_node, evidence_fusion_node, reflection_node, fallback_node,
           prompt_assembly_node, llm_generate_node, hallucination_node, answer_renderer_node,
           observability_node, final_answer_node, GraphRecursionError
  <2>2. ~ (retry_token_used >= RetryTokenBudget) \/ route.target = "database"
    BY <2>1, QualityBudget DEF quality_check_node
  <2> QED BY <2>2, BoundsAssumption DEF BudgetInv, TypeOK
<1> QED
  BY <1>1, <1>2, TypeInit, TypeNext, BudgetNext, PTL DEF Spec, RetryWithinTokenBudget

-----------------------------------------------------------------------------
(* What the quality gate lets through rests on current evidence.           *)

(* Results without documents have no relevant ones, a result the token     *)
(* budget does not stop fits the prompt unless a plan produced it, and a   *)
(* positive score comes with data.                                         *)
ResultInv ==
  /\ pc \in Early => ~ rag.huge
  /\ pc = "plan_executor" => route.source = "planner"
  /\ rag.count > 0 => rag.docs
  /\ rag.huge => retry_token_used >= RetryTokenBudget \/ route.source = "planner"
  /\ db.rows > 0 \/ db.verdict # "" => db.present
  /\ graph.score > 0 => graph.rows > 0 /\ ~ graph.error

(* From the fusion to the gate the evidence describes the latest results.  *)
CurrentInv ==
  /\ pc \in {"reflection", "quality_check"} =>
       /\ rag.docs /\ ~ rag.huge => evidence["rag"] = "current"
       /\ db.present => evidence["db"] = "current"
       /\ graph.rows > 0 /\ ~ graph.error => evidence["graph"] = "current"
  /\ PassRestsOnCurrentEvidence

(* The numbers in a tool's result.                                         *)
LEMMA ResultFields ==
  /\ \A r \in RagResult : r.count \in Nat /\ r.tokens \in Nat
  /\ \A g \in GraphResult : g.score \in Nat
BY DEF RagResult, GraphResult

(* A score or count at a threshold is positive; adding keeps a threshold.  *)
LEMMA AtLeast ==
  /\ \A n \in Nat : n >= 2 => n > 0
  /\ \A n \in Nat : n >= 70 => n > 0
  /\ \A m, n, b \in Nat : n >= b => m + n >= b
OBVIOUS

(* The gate passes a retrieval route only on data of the judged tool.      *)
LEMMA PassHasData ==
  ASSUME TypeOK, ResultInv, termination_reason = "",
         quality_check_decision(QualityDecision) = "prompt_assembly"
  PROVE  /\ route.target \in {"rag", "hybrid"} =>
              rag.docs /\ (rag.huge => route.source = "planner")
         /\ route.target = "database" => db.present
         /\ route.target = "graph" => graph.rows > 0 /\ ~ graph.error
<1>1. QualityDecision = "pass"
  BY DEF quality_check_decision, NodeOf, QualityDecision, _decide_by_verdict,
         _make_decision, RetryOf
<1>2. \/ route.target = "database" /\ db.verdict # ""
      \/ ~ (retry_token_used >= RetryTokenBudget) /\ (route.target = "chitchat" \/ QualityOk)
  BY <1>1 DEF QualityDecision, _make_decision, RetryOf
<1>3. CASE route.target = "database" /\ db.verdict # ""
  BY <1>3 DEF ResultInv
<1>4. CASE ~ (retry_token_used >= RetryTokenBudget) /\ QualityOk
  <2>1. route.target \in {"rag", "hybrid"} => rag.count >= 2
    BY <1>4 DEF QualityOk, MIN_RELEVANT_DOCS
  <2>2. route.target = "database" => db.rows > 0
    BY <1>4 DEF QualityOk
  <2>3. route.target = "graph" => graph.score >= 70
    BY <1>4 DEF QualityOk, Threshold, GRAPH_PASS_THRESHOLD
  <2>4. rag.count \in Nat /\ graph.score \in Nat
    BY ResultFields DEF TypeOK
  <2>5. route.target \in {"rag", "hybrid"} => rag.docs /\ (rag.huge => route.source = "planner")
    <3>1. rag.count >= 2 => rag.count > 0
      BY <2>4, AtLeast, Zenon
    <3> QED BY <1>4, <2>1, <3>1 DEF ResultInv
  <2>6. route.target = "graph" => graph.rows > 0 /\ ~ graph.error
    <3>1. graph.score >= 70 => graph.score > 0
      BY <2>4, AtLeast, Zenon
    <3> QED BY <2>3, <3>1 DEF ResultInv
  <2>7. route.target = "database" => db.present
    BY <2>2 DEF ResultInv
  <2> QED BY <2>5, <2>6, <2>7
<1> QED BY <1>2, <1>3, <1>4

(* The empty results carry no data, and no positive count or score.        *)
LEMMA EmptyFlags ==
  /\ ~ NoRag.huge /\ ~ (NoRag.count > 0)
  /\ ~ (NoDb.rows > 0) /\ NoDb.verdict = ""
  /\ ~ (NoGraph.score > 0)
BY DEF NoRag, NoDb, NoGraph

(* The aggregated result of a plan has data where it counts some.          *)
LEMMA PlanFlags ==
  /\ \A p \in PlanRag : p.count > 0 => p.docs
  /\ \A p \in PlanDb : p.present
<1>1. ASSUME NEW p \in PlanRag, p # NoRag PROVE p.docs
  <2>1. PICK r \in RagOutcomes :
          p = [docs |-> TRUE, huge |-> r.huge, score |-> r.score, has_relevant |-> TRUE,
               count |-> IF r.count > 0 THEN r.count ELSE 1, source |-> "base", tokens |-> 0,
               infra |-> FALSE]
    BY <1>1 DEF PlanRag
  <2> QED BY <2>1
<1>2. ASSUME NEW p \in PlanDb, p # [present |-> TRUE, verdict |-> "", rows |-> 0, score |-> 0]
      PROVE  p.present
  <2>1. PICK d \in DbOutcomes :
          p = [present |-> TRUE, verdict |-> "", rows |-> d.rows, score |-> d.score]
    BY <1>2 DEF PlanDb
  <2> QED BY <2>1
<1>3. [present |-> TRUE, verdict |-> "", rows |-> 0, score |-> 0].present
  OBVIOUS
<1> QED BY <1>1, <1>2, <1>3, EmptyFlags

(* Every node preserves ResultInv.                                         *)
LEMMA ResultNext == TypeOK /\ ResultInv /\ [Next]_vars => ResultInv'
<1> SUFFICES ASSUME TypeOK, ResultInv, [Next]_vars PROVE ResultInv'
  OBVIOUS
<1> USE DEF ResultInv, Step, toolVars, Early
<1>1. CASE user_question_node BY <1>1 DEF user_question_node
<1>2. CASE intent_router_node
  BY <1>2 DEF intent_router_node, route_decision, ToolOf
<1>3. CASE intent_router_raises BY <1>3 DEF intent_router_raises
<1>4. CASE clarification_node BY <1>4 DEF clarification_node
<1>5. CASE aresume BY <1>5 DEF aresume
<1>6. CASE rag_tool_node
  <2>1. CASE RagFails
    BY <1>6, <2>1, EmptyFlags DEF rag_tool_node, RagFails, after_rag_tool
  <2>2. ASSUME NEW r \in RagOutcomes, RagReturns(r) PROVE ResultInv'
    <3>1. r.tokens \in Nat /\ retry_token_used' = retry_token_used + r.tokens
      BY <2>2, RagAssumption, ResultFields DEF RagReturns
    <3>2. /\ rag' = r /\ (r.count > 0 => r.docs) /\ (r.huge => r.tokens >= RetryTokenBudget)
      BY <2>2, RagAssumption DEF RagReturns
    <3>3. retry_token_used \in Nat /\ RetryTokenBudget \in Nat
      BY BoundsAssumption DEF TypeOK
    <3>4. r.tokens >= RetryTokenBudget => retry_token_used' >= RetryTokenBudget
      BY <3>1, <3>3, AtLeast, Zenon
    <3> QED BY <1>6, <3>2, <3>4 DEF rag_tool_node, after_rag_tool
  <2> QED BY <1>6, <2>1, <2>2 DEF rag_tool_node
<1>7. CASE rag_tool_raises BY <1>7 DEF rag_tool_raises
<1>8. CASE db_tool_node
  BY <1>8, DbAssumption, EmptyFlags DEF db_tool_node
<1>9. CASE web_tool_node BY <1>9 DEF web_tool_node
<1>10. CASE rest_tool_node BY <1>10 DEF rest_tool_node
<1>11. CASE graph_tool_node
  BY <1>11, GraphAssumption DEF graph_tool_node
<1>12. CASE plan_executor_node
  BY <1>12, PlanFlags, EmptyFlags DEF plan_executor_node
<1>13. CASE react_subgraph_node BY <1>13 DEF react_subgraph_node
<1>14. CASE evidence_fusion_node BY <1>14 DEF evidence_fusion_node
<1>15. CASE reflection_node BY <1>15 DEF reflection_node
<1>16. CASE quality_check_node
  BY <1>16 DEF quality_check_node, quality_check_decision, NodeOf
<1>17. CASE fallback_node BY <1>17 DEF fallback_node
<1>18. CASE prompt_assembly_node BY <1>18 DEF prompt_assembly_node
<1>19. CASE llm_generate_node BY <1>19 DEF llm_generate_node
<1>20. CASE hallucination_node
  BY <1>20 DEF hallucination_node, hallucination_decision
<1>21. CASE answer_renderer_node BY <1>21 DEF answer_renderer_node
<1>22. CASE observability_node BY <1>22 DEF observability_node
<1>23. CASE final_answer_node BY <1>23 DEF final_answer_node
<1>24. CASE GraphRecursionError BY <1>24 DEF GraphRecursionError
<1>25. CASE UNCHANGED vars BY <1>25 DEF vars
<1> QED
  BY <1>1, <1>2, <1>3, <1>4, <1>5, <1>6, <1>7, <1>8, <1>9, <1>10, <1>11, <1>12, <1>13,
     <1>14, <1>15, <1>16, <1>17, <1>18, <1>19, <1>20, <1>21, <1>22, <1>23, <1>24, <1>25
  DEF Next, Finished

(* Every node preserves CurrentInv.                                        *)
LEMMA CurrentNext == TypeOK /\ ResultInv /\ CurrentInv /\ [Next]_vars => CurrentInv'
<1> SUFFICES ASSUME TypeOK, ResultInv, CurrentInv, [Next]_vars PROVE CurrentInv'
  OBVIOUS
<1> USE DEF CurrentInv, PassRestsOnCurrentEvidence, JudgedSource, Step, toolVars
<1>1. CASE user_question_node BY <1>1 DEF user_question_node
<1>2. CASE intent_router_node
  BY <1>2 DEF intent_router_node, route_decision, ToolOf
<1>3. CASE intent_router_raises BY <1>3 DEF intent_router_raises
<1>4. CASE clarification_node BY <1>4 DEF clarification_node
<1>5. CASE aresume BY <1>5 DEF aresume
<1>6. CASE rag_tool_node
  BY <1>6 DEF rag_tool_node, after_rag_tool
<1>7. CASE rag_tool_raises BY <1>7 DEF rag_tool_raises
<1>8. CASE db_tool_node BY <1>8 DEF db_tool_node
<1>9. CASE web_tool_node BY <1>9 DEF web_tool_node
<1>10. CASE rest_tool_node BY <1>10 DEF rest_tool_node
<1>11. CASE graph_tool_node BY <1>11 DEF graph_tool_node
<1>12. CASE plan_executor_node BY <1>12 DEF plan_executor_node
<1>13. CASE react_subgraph_node BY <1>13 DEF react_subgraph_node
<1>14. CASE evidence_fusion_node
  <2> PICK ragDropped \in {FALSE, rag.huge} :
         \E cut \in SUBSET {"web"} :
           evidence' = [s \in Sources |->
             IF s \in cut THEN "none"
             ELSE _merge_with_replacement(_normalize_current_tool_results(ragDropped))[s]]
    BY <1>14 DEF evidence_fusion_node, CappedOut
  <2>1. /\ rag.docs /\ ~ rag.huge => evidence'["rag"] = "current"
        /\ db.present => evidence'["db"] = "current"
        /\ graph.rows > 0 /\ ~ graph.error => evidence'["graph"] = "current"
    BY DEF _merge_with_replacement, _normalize_current_tool_results, Sources
  <2> QED BY <1>14, <2>1 DEF evidence_fusion_node
<1>15. CASE reflection_node BY <1>15 DEF reflection_node
<1>16. CASE quality_check_node
  <2>1. CASE termination_reason = "" /\ pc' = "prompt_assembly"
    <3>1. /\ route.target \in {"rag", "hybrid"} =>
               rag.docs /\ (rag.huge => route.source = "planner")
          /\ route.target = "database" => db.present
          /\ route.target = "graph" => graph.rows > 0 /\ ~ graph.error
      BY <1>16, <2>1, PassHasData DEF quality_check_node
    <3> QED BY <1>16, <2>1, <3>1 DEF quality_check_node
  <2>2. CASE ~ (termination_reason = "" /\ pc' = "prompt_assembly")
    BY <1>16, <2>2 DEF quality_check_node, quality_check_decision, NodeOf
  <2> QED BY <2>1, <2>2
<1>17. CASE fallback_node BY <1>17 DEF fallback_node
<1>18. CASE prompt_assembly_node BY <1>18 DEF prompt_assembly_node
<1>19. CASE llm_generate_node BY <1>19 DEF llm_generate_node
<1>20. CASE hallucination_node
  BY <1>20 DEF hallucination_node, hallucination_decision
<1>21. CASE answer_renderer_node BY <1>21 DEF answer_renderer_node
<1>22. CASE observability_node BY <1>22 DEF observability_node
<1>23. CASE final_answer_node BY <1>23 DEF final_answer_node
<1>24. CASE GraphRecursionError BY <1>24 DEF GraphRecursionError
<1>25. CASE UNCHANGED vars BY <1>25 DEF vars
<1> QED
  BY <1>1, <1>2, <1>3, <1>4, <1>5, <1>6, <1>7, <1>8, <1>9, <1>10, <1>11, <1>12, <1>13,
     <1>14, <1>15, <1>16, <1>17, <1>18, <1>19, <1>20, <1>21, <1>22, <1>23, <1>24, <1>25
  DEF Next, Finished

(* The evidence behind a passed retrieval is that of the run that was      *)
(* judged.                                                                 *)
THEOREM PassIsJustified == Spec => []PassRestsOnCurrentEvidence
<1>1. Init => ResultInv
  BY EmptyFlags DEF Init, ResultInv
<1>2. Init => CurrentInv
  BY DEF Init, CurrentInv, PassRestsOnCurrentEvidence
<1>3. CurrentInv => PassRestsOnCurrentEvidence
  BY DEF CurrentInv
<1> QED
  BY <1>1, <1>2, <1>3, TypeInit, TypeNext, ResultNext, CurrentNext, PTL DEF Spec

=============================================================================
