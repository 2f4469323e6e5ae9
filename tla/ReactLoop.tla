----------------------------- MODULE ReactLoop -----------------------------
(***************************************************************************)
(* ReactSubgraph.run: the loop that lets the model pick tool calls until   *)
(* it finishes, the budget is spent, LoopGuard sees no progress or the     *)
(* policy guard keeps refusing.  One action is one way through the body of *)
(* the loop; the deadline may pass at any moment.                          *)
(*                                                                         *)
(* Scores are percent.  An action stands for its normalized arguments and  *)
(* carries what the policy guard says of it.                               *)
(***************************************************************************)
EXTENDS Integers, Sequences, FiniteSets

CONSTANTS
  max_steps, max_tool_calls, max_db_queries, max_llm_calls,   \* ReactBudget
  same_action_limit, rerank_drop_limit, min_rerank_drop,      \* LoopGuard
  min_evidence_gain, absolute_quality_floor,
  Args,               \* normalized arguments, with the retrieval scope
  Actions,            \* tool calls the model may ask for
  EvidenceIds,        \* evidence the tools may return
  Scores              \* rerank scores the tools may return

Decisions == {"allow", "deny", "needs_approval", "needs_clarification"}

(* "other": a tool the executor does not know.                             *)
Types == {"rag_search", "db_query", "web_search", "other"}

Action == [type : Types, args : Args, policy : Decisions]

Signature == [type : Types, args : Args]

NoScore == -1

ASSUME ReactBoundsAssumption ==
  /\ max_steps \in Nat /\ max_tool_calls \in Nat /\ max_db_queries \in Nat
  /\ max_llm_calls \in Nat /\ same_action_limit \in Nat \ {0, 1}
  /\ rerank_drop_limit \in Nat \ {0} /\ min_rerank_drop \in Nat \ {0}
  /\ min_evidence_gain \in Nat /\ absolute_quality_floor \in Nat

ASSUME ReactInputsAssumption ==
  Actions \subseteq Action /\ Scores \subseteq 1..100 /\ IsFiniteSet(EvidenceIds)

VARIABLES
  finish_reason,          \* "running" until the loop is left
  expired,                \* has deadline_ts passed?
  step_count, tool_call_count, db_query_count, llm_call_count,
  evidence,               \* ids of the accumulated evidence
  failures,               \* the step each failure happened in
  action_history,         \* each iteration's action and how it ended
  action_signature,       \* of the last successful call, <<>> if none
  same_action_count,
  rerank_score_history,
  rerank_drop_count,
  retrieval_observations  \* one entry per successful call

vars == <<finish_reason, expired, step_count, tool_call_count, db_query_count, llm_call_count,
          evidence, failures, action_history, action_signature, same_action_count,
          rerank_score_history, rerank_drop_count, retrieval_observations>>

guardVars == <<action_signature, same_action_count, rerank_score_history,
               rerank_drop_count, retrieval_observations>>

Init ==
  /\ finish_reason = "running" /\ expired = FALSE
  /\ step_count = 0 /\ tool_call_count = 0 /\ db_query_count = 0 /\ llm_call_count = 0
  /\ evidence = {} /\ failures = <<>> /\ action_history = <<>>
  /\ action_signature = <<>> /\ same_action_count = 0
  /\ rerank_score_history = <<>> /\ rerank_drop_count = 0
  /\ retrieval_observations = <<>>

-----------------------------------------------------------------------------
(* The checks at the top of the loop.                                      *)

(* Mutant: one database query too many.                                    *)
can_proceed_off_by_one ==
  /\ step_count < max_steps /\ tool_call_count < max_tool_calls
  /\ db_query_count <= max_db_queries /\ llm_call_count < max_llm_calls
  /\ ~ expired

(* token_budget never stops the loop: increment_llm_call() is called       *)
(* without the number of tokens, so token_used stays 0.                    *)
can_proceed ==
  /\ step_count < max_steps /\ tool_call_count < max_tool_calls
  /\ db_query_count < max_db_queries /\ llm_call_count < max_llm_calls
  /\ ~ expired

_check_loop_guard_termination ==
  IF same_action_count >= same_action_limit THEN "same_action_loop"
  ELSE IF rerank_drop_count >= rerank_drop_limit THEN "rerank_declining" ELSE "none"

(* An iteration gets past the checks and calls the model.                  *)
Iterate ==
  /\ finish_reason = "running" /\ can_proceed /\ _check_loop_guard_termination = "none"
  /\ llm_call_count' = llm_call_count + 1
  /\ UNCHANGED expired

-----------------------------------------------------------------------------
(* LoopGuard                                                               *)

SignatureOf(a) == [type |-> a.type, args |-> a.args]

(* Mutant: the count is not reset when a call brings new evidence.         *)
SameActionCount_gain_ignored(a, gain) ==
  IF SignatureOf(a) = action_signature THEN same_action_count + 1 ELSE 1

SameActionCount(a, gain) ==
  IF SignatureOf(a) = action_signature /\ gain < min_evidence_gain
  THEN same_action_count + 1 ELSE 1

(* Is the end of the score history h, three scores long, a decline?        *)
LastThreeDecline(h) ==
  /\ Len(h) >= 3
  /\ h[Len(h) - 2] - h[Len(h) - 1] >= min_rerank_drop
  /\ h[Len(h) - 1] - h[Len(h)] >= min_rerank_drop

(* Mutant: a score that does not decline leaves the count as it is.        *)
RerankDropCount_no_reset(h, gain) ==
  IF LastThreeDecline(h) /\ (gain < min_evidence_gain \/ h[Len(h)] < absolute_quality_floor)
  THEN rerank_drop_count + 1 ELSE rerank_drop_count

(* The count after the history grew to h; it starts with the third score.  *)
RerankDropCount(h, gain) ==
  IF LastThreeDecline(h) /\ (gain < min_evidence_gain \/ h[Len(h)] < absolute_quality_floor)
  THEN rerank_drop_count + 1
  ELSE IF Len(h) >= 3 THEN 0 ELSE rerank_drop_count

_update_loop_guard(a, gain, score) ==
  /\ same_action_count' = SameActionCount(a, gain)
  /\ action_signature' = SignatureOf(a)
  /\ IF score # NoScore
     THEN /\ rerank_score_history' = Append(rerank_score_history, score)
          /\ rerank_drop_count' = RerankDropCount(Append(rerank_score_history, score), gain)
     ELSE UNCHANGED <<rerank_score_history, rerank_drop_count>>
  /\ retrieval_observations' =
       Append(retrieval_observations, [signature |-> SignatureOf(a), gain |-> gain])

-----------------------------------------------------------------------------
(* The ways through the loop.                                              *)

(* Mutant: the loop is not left.                                           *)
BudgetExhausted_continues ==
  /\ finish_reason = "running" /\ ~ can_proceed
  /\ UNCHANGED vars

BudgetExhausted ==
  /\ finish_reason = "running" /\ ~ can_proceed
  /\ finish_reason' = "budget_exhausted"
  /\ UNCHANGED <<expired, step_count, tool_call_count, db_query_count, llm_call_count,
                 evidence, failures, action_history, guardVars>>

LoopGuardStops ==
  /\ finish_reason = "running" /\ can_proceed /\ _check_loop_guard_termination # "none"
  /\ finish_reason' = _check_loop_guard_termination
  /\ UNCHANGED <<expired, step_count, tool_call_count, db_query_count, llm_call_count,
                 evidence, failures, action_history, guardVars>>

ReasonFails ==
  /\ Iterate
  /\ finish_reason' = "error"
  /\ failures' = Append(failures, "reason")
  /\ UNCHANGED <<step_count, tool_call_count, db_query_count, evidence, action_history, guardVars>>

(* The model finishes, or its output cannot be parsed; or it asks the user. *)
ModelStops ==
  /\ Iterate
  /\ finish_reason' \in {"completed", "needs_clarification"}
  /\ UNCHANGED <<step_count, tool_call_count, db_query_count, evidence, failures,
                 action_history, guardVars>>

(* Policy refusals among the last five failures.                           *)
denied_count(fs) == Cardinality({i \in DOMAIN fs : i > Len(fs) - 5 /\ fs[i] = "policy"})

(* What both kinds of refusal record.                                      *)
Refuse(a, result) ==
  /\ failures' = Append(failures, "policy")
  /\ action_history' = Append(action_history, [action |-> a, result |-> result])
  /\ step_count' = step_count + 1
  /\ UNCHANGED <<tool_call_count, db_query_count, evidence, guardVars>>

PolicyDenies(a) ==
  /\ Iterate /\ a.policy = "deny"
  /\ Refuse(a, "denied")
  /\ finish_reason' = IF denied_count(failures') >= 3 THEN "policy_denied" ELSE "running"

NeedsApproval(a) ==
  /\ Iterate /\ a.policy = "needs_approval"
  /\ Refuse(a, "approval")
  /\ UNCHANGED finish_reason

(* needs_clarification is not told apart from allow.                       *)
Permitted(a) == a.policy \notin {"deny", "needs_approval"}

CountToolCall(a) ==
  /\ tool_call_count' = tool_call_count + 1
  /\ db_query_count' = IF a.type = "db_query" THEN db_query_count + 1 ELSE db_query_count

(* A search of the knowledge base has a score if it finds something scored. *)
RerankScores(a, found) ==
  IF a.type = "rag_search" /\ found # {} THEN Scores \cup {NoScore} ELSE {NoScore}

ToolSucceeds(a) ==
  /\ Iterate /\ Permitted(a) /\ a.type # "other"
  /\ CountToolCall(a)
  /\ \E found \in SUBSET EvidenceIds : \E score \in RerankScores(a, found) :
       /\ evidence' = evidence \cup found
       /\ _update_loop_guard(a, Cardinality(found \ evidence), score)
  /\ action_history' = Append(action_history, [action |-> a, result |-> "done"])
  /\ step_count' = step_count + 1
  /\ UNCHANGED <<finish_reason, failures>>

(* A timeout or an exception of the tool: no evidence, LoopGuard untouched. *)
ToolFails(a) ==
  /\ Iterate /\ Permitted(a)
  /\ CountToolCall(a)
  /\ failures' = Append(failures, "tool")
  /\ action_history' = Append(action_history, [action |-> a, result |-> "failed"])
  /\ step_count' = step_count + 1
  /\ UNCHANGED <<finish_reason, evidence, guardVars>>

(* The arguments or what the tool returned cannot be processed: the        *)
(* exception leaves run() and react_subgraph_node returns an error result  *)
(* without any evidence.                                                   *)
RunRaises(a) ==
  /\ Iterate
  /\ \/ Permitted(a) /\ CountToolCall(a)
     \/ UNCHANGED <<tool_call_count, db_query_count>>
  /\ finish_reason' = "error"
  /\ evidence' = {}
  /\ UNCHANGED <<step_count, failures, action_history, guardVars>>

DeadlinePasses ==
  /\ finish_reason = "running" /\ ~ expired
  /\ expired' = TRUE
  /\ UNCHANGED <<finish_reason, step_count, tool_call_count, db_query_count, llm_call_count,
                 evidence, failures, action_history, guardVars>>

Returned == finish_reason # "running" /\ UNCHANGED vars

Step ==
  \/ BudgetExhausted \/ LoopGuardStops \/ ReasonFails \/ ModelStops
  \/ \E a \in Actions : \/ PolicyDenies(a) \/ NeedsApproval(a)
                        \/ ToolSucceeds(a) \/ ToolFails(a) \/ RunRaises(a)

Next == Step \/ DeadlinePasses \/ Returned

(* The loop is awaited; every model and tool call returns or times out.    *)
Spec == Init /\ [][Next]_vars /\ WF_vars(Step)

-----------------------------------------------------------------------------
(* Properties                                                              *)

FinishReasons == {"running", "completed", "needs_clarification", "error", "budget_exhausted",
                  "same_action_loop", "rerank_declining", "policy_denied"}

HistoryEntry == [action : Action, result : {"denied", "approval", "done", "failed"}]

Observation == [signature : Signature, gain : Nat]

(* ReactState and LoopGuardState keep their types.                         *)
TypeOK ==
  /\ finish_reason \in FinishReasons /\ expired \in BOOLEAN
  /\ step_count \in Nat /\ tool_call_count \in Nat
  /\ db_query_count \in Nat /\ llm_call_count \in Nat
  /\ evidence \subseteq EvidenceIds
  /\ failures \in Seq({"policy", "tool", "reason"})
  /\ action_history \in Seq(HistoryEntry)
  /\ action_signature \in Signature \cup {<<>>}
  /\ same_action_count \in Nat /\ rerank_drop_count \in Nat
  /\ rerank_score_history \in Seq(1..100)
  /\ retrieval_observations \in Seq(Observation)

(* BudgetController: no counter passes its limit, and every model call is  *)
(* accounted for by a step, except the one that ended the loop.            *)
BudgetIsKept ==
  /\ step_count <= max_steps /\ tool_call_count <= max_tool_calls
  /\ db_query_count <= max_db_queries /\ llm_call_count <= max_llm_calls
  /\ db_query_count <= tool_call_count /\ tool_call_count <= llm_call_count
  /\ step_count <= llm_call_count /\ llm_call_count <= step_count + 1
  /\ finish_reason = "running" => llm_call_count = step_count

(* The n observations that end at i are one action without new evidence.   *)
StuckAt(i) ==
  /\ i >= same_action_limit
  /\ \A j \in (i - same_action_limit + 2)..i :
       /\ retrieval_observations[j].signature = retrieval_observations[j - 1].signature
       /\ retrieval_observations[j].gain < min_evidence_gain

(* LoopGuard counts the successful calls alone: the loop never goes on     *)
(* after same_action_limit identical ones without new evidence, whatever   *)
(* was refused or failed in between, and stops for no other reason.        *)
StagnationStops ==
  /\ \A i \in DOMAIN retrieval_observations : StuckAt(i) => i = Len(retrieval_observations)
  /\ finish_reason = "same_action_loop" => StuckAt(Len(retrieval_observations))

(* LoopGuard reports a decline only if the last rerank_drop_limit + 2      *)
(* scores fell without interruption.                                       *)
DeclineIsReal ==
  finish_reason = "rerank_declining" =>
    LET n == Len(rerank_score_history)
    IN  /\ n >= rerank_drop_limit + 2
        /\ \A i \in (n - rerank_drop_limit)..n :
             rerank_score_history[i - 1] - rerank_score_history[i] >= min_rerank_drop

(* ReactSubgraph.run returns: the budget bounds the loop even if the model *)
(* never finishes and every tool fails.                                    *)
LoopReturns == <>(finish_reason # "running")

(* Is the whole window of the last three iterations refused?               *)
LastThreeRefused ==
  /\ Len(action_history) >= 3
  /\ \A i \in (Len(action_history) - 2)..Len(action_history) :
       action_history[i].result \in {"denied", "approval"}

(* "Three refusals in a row also terminate": the loop ends for refusals    *)
(* only when the last three iterations were refused.                       *)
RefusalsAreConsecutive == finish_reason = "policy_denied" => LastThreeRefused

=============================================================================
