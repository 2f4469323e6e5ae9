---------------------------- MODULE DagScheduler ----------------------------
(***************************************************************************)
(* plan_executor_node with DAGScheduler.execute: the steps of a plan are   *)
(* put into layers, the layers run one after the other, the steps of a     *)
(* layer in parallel (asyncio.gather), and what they return is entered     *)
(* into the results, by step id, once the whole layer has ended.           *)
(*                                                                         *)
(* A step is known by its place in the plan: the model that writes the     *)
(* plan may give two steps one id, or name a dependency that is no step.   *)
(* A missing or unparsable plan is the empty one.                          *)
(***************************************************************************)
EXTENDS Integers, Sequences

CONSTANTS
  Ids,          \* step ids and dependencies
  Plans,        \* plans the planner may write
  Outcomes,     \* what a successful tool call returns
  Failed        \* ToolResult(success=False)

ASSUME PlansAssumption ==
  Plans \subseteq Seq([step_id : Ids, depends_on : SUBSET Ids])

ASSUME OutcomesAssumption == Failed \notin Outcomes

VARIABLES
  steps,        \* plan.steps
  pc,           \* "layering", "running", "done"
  remaining,    \* steps not yet in a layer
  completed,    \* ids in a layer
  layers,       \* layers[k]: the steps of layer k
  layer,        \* the layer that runs
  phase,        \* of every step: "waiting", "running", "ended"
  returned,     \* what the step's call returned
  results,      \* step id |-> the step whose result is entered, 0 if none
  plan_execution_status

vars == <<steps, pc, remaining, completed, layers, layer, phase, returned, results,
          plan_execution_status>>

Init ==
  /\ steps \in Plans /\ pc = "layering"
  /\ remaining = DOMAIN steps /\ completed = {} /\ layers = <<>> /\ layer = 1
  /\ phase = [i \in DOMAIN steps |-> "waiting"]
  /\ returned = [i \in DOMAIN steps |-> Failed]
  /\ results = [d \in Ids |-> 0] /\ plan_execution_status = "none"

-----------------------------------------------------------------------------
(* _topological_layers                                                     *)

Executable(i) == \A d \in steps[i].depends_on : d \in completed

current_layer == {i \in remaining : Executable(i)}

(* One round of the loop: the steps that can run form the next layer.      *)
next_layer ==
  /\ pc = "layering" /\ current_layer # {}
  /\ layers' = Append(layers, current_layer)
  /\ completed' = completed \cup {steps[i].step_id : i \in current_layer}
  /\ remaining' = remaining \ current_layer
  /\ UNCHANGED <<steps, pc, layer, phase, returned, results, plan_execution_status>>

(* An empty plan, or ValueError: no step can run.  The plan is dropped.    *)
_fallback_empty_result ==
  /\ pc = "layering" /\ current_layer = {} /\ (steps = <<>> \/ remaining # {})
  /\ pc' = "done" /\ plan_execution_status' = "failed"
  /\ UNCHANGED <<steps, remaining, completed, layers, layer, phase, returned, results>>

(* Mutant: the rest of a plan with a cycle is left out silently.           *)
layers_found_early ==
  /\ pc = "layering" /\ current_layer = {} /\ layers # <<>>
  /\ pc' = "running"
  /\ UNCHANGED <<steps, remaining, completed, layers, layer, phase, returned, results,
                 plan_execution_status>>

layers_found ==
  /\ pc = "layering" /\ remaining = {} /\ steps # <<>>
  /\ pc' = "running"
  /\ UNCHANGED <<steps, remaining, completed, layers, layer, phase, returned, results,
                 plan_execution_status>>

-----------------------------------------------------------------------------
(* execute                                                                 *)

(* _execute_step: a task of the gathered layer starts ...                  *)
step_starts(i) ==
  /\ pc = "running" /\ layer <= Len(layers) /\ i \in layers[layer] /\ phase[i] = "waiting"
  /\ phase' = [phase EXCEPT ![i] = "running"]
  /\ UNCHANGED <<steps, pc, remaining, completed, layers, layer, returned, results,
                 plan_execution_status>>

(* ... and ToolDispatcher.dispatch returns, with the tool's outcome or,    *)
(* after an exception, a result that says the step failed.                 *)
step_ends(i) ==
  /\ pc = "running" /\ phase[i] = "running"
  /\ phase' = [phase EXCEPT ![i] = "ended"]
  /\ \E out \in Outcomes \cup {Failed} : returned' = [returned EXCEPT ![i] = out]
  /\ UNCHANGED <<steps, pc, remaining, completed, layers, layer, results, plan_execution_status>>

(* Mutant: what raised is not entered.                                     *)
Collected_successes(entered) ==
  [d \in Ids |->
     LET same == {i \in layers[layer] : steps[i].step_id = d /\ returned[i] # Failed}
     IN IF same = {} THEN entered[d] ELSE CHOOSE i \in same : \A j \in same : j <= i]

(* The results after the layer's are entered: a later step of the same id  *)
(* replaces an earlier one.                                                *)
Collected(entered) ==
  [d \in Ids |->
     LET same == {i \in layers[layer] : steps[i].step_id = d}
     IN IF same = {} THEN entered[d] ELSE CHOOSE i \in same : \A j \in same : j <= i]

(* Mutant: gather returns with the first exception.                        *)
layer_ends_early ==
  /\ pc = "running" /\ layer <= Len(layers)
  /\ \/ \A i \in layers[layer] : phase[i] = "ended"
     \/ \E i \in layers[layer] : phase[i] = "ended" /\ returned[i] = Failed
  /\ layer' = layer + 1 /\ results' = Collected(results)
  /\ UNCHANGED <<steps, pc, remaining, completed, layers, phase, returned, plan_execution_status>>

layer_ends ==
  /\ pc = "running" /\ layer <= Len(layers)
  /\ \A i \in layers[layer] : phase[i] = "ended"
  /\ layer' = layer + 1 /\ results' = Collected(results)
  /\ UNCHANGED <<steps, pc, remaining, completed, layers, phase, returned, plan_execution_status>>

fail_count == {d \in Ids : results[d] # 0 /\ returned[results[d]] = Failed}

plan_returns ==
  /\ pc = "running" /\ layer > Len(layers)
  /\ pc' = "done"
  /\ plan_execution_status' = IF fail_count = {} THEN "completed" ELSE "partial"
  /\ UNCHANGED <<steps, remaining, completed, layers, layer, phase, returned, results>>

Next ==
  \/ next_layer \/ _fallback_empty_result \/ layers_found \/ layer_ends \/ plan_returns
  \/ \E i \in DOMAIN steps : step_starts(i) \/ step_ends(i)

(* The scheduler's code runs on, and every tool call returns or raises.    *)
Spec == Init /\ [][Next]_vars /\ WF_vars(Next)

-----------------------------------------------------------------------------
TypeOK ==
  /\ steps \in Plans /\ pc \in {"layering", "running", "done"}
  /\ remaining \in SUBSET DOMAIN steps /\ completed \in SUBSET Ids
  /\ layers \in Seq(SUBSET DOMAIN steps) /\ layer \in 1..(Len(layers) + 1)
  /\ phase \in [DOMAIN steps -> {"waiting", "running", "ended"}]
  /\ returned \in [DOMAIN steps -> Outcomes \cup {Failed}]
  /\ results \in [Ids -> {0} \cup DOMAIN steps]
  /\ plan_execution_status \in {"none", "completed", "partial", "failed"}

(* plan_executor: what the layered scheduler does is what PlanSpec allows: *)
(* each step once, after its dependencies, and a plan is dropped only if   *)
(* some of its steps can never start; with liveness, it always returns.    *)
Abstract == INSTANCE PlanSpec WITH
  plan <- steps,
  state <- CASE pc # "done" -> "open"
             [] pc = "done" /\ plan_execution_status = "failed" -> "dropped"
             [] OTHER -> "closed"

ImplementsPlanSpec == Abstract!PSpec

(* DAGScheduler._execute_step: a step that runs finds in previous_results  *)
(* an entry for every step it depends on, and the entry is that of a step  *)
(* that has ended: the dictionary only grows between two layers.           *)
DependenciesAreEntered ==
  \A i \in DOMAIN steps :
    phase[i] = "running" =>
      \A d \in steps[i].depends_on : results[d] # 0 /\ phase[results[d]] = "ended"

(* plan_executor_node: a plan is reported "completed" although a step      *)
(* failed only if another step with its id succeeded after it; nothing     *)
(* else is lost between the parallel calls and the report.                 *)
FailuresAreReported ==
  plan_execution_status = "completed" =>
    \A i \in DOMAIN steps :
      returned[i] = Failed =>
        \E j \in DOMAIN steps : j # i /\ steps[j].step_id = steps[i].step_id
                                /\ results[steps[i].step_id] = j

=============================================================================
