------------------------ MODULE PlanExecution_proofs ------------------------
(***************************************************************************)
(* Safety of DagScheduler for every set of plans and tool outcomes, the    *)
(* safety part of the refinement of PlanSpec, and what ResultAggregator    *)
(* keeps of the documents the steps return.                                *)
(***************************************************************************)
EXTENDS ResultAggregator, SequenceTheorems, WellFoundedInduction, TLAPS

-----------------------------------------------------------------------------
(* Plans and numbers                                                       *)

(* A nonempty set of places in a plan has a greatest one.                  *)
LEMMA Greatest ==
  ASSUME NEW n \in Nat, NEW T \in SUBSET (1..n), T # {}
  PROVE  \E i \in T : \A j \in T : j <= i
<1> DEFINE R == {ss \in Nat \X Nat : ss[1] < ss[2]}
           D == {m \in Nat : n - m \in T}
<1>1. IsWellFoundedOn(R, Nat)
  BY NatLessThanWellFounded DEF OpToRel
<1>2. D \subseteq Nat /\ D # {}
  <2>1. PICK i \in T : TRUE
    OBVIOUS
  <2>2. n - i \in Nat /\ n - (n - i) = i
    BY <2>1
  <2> QED BY <2>2
<1> HIDE DEF R
<1>3. PICK m \in D : \A y \in D : ~ (<<y, m>> \in R)
  BY <1>1, <1>2, WFMin
<1>4. \A y \in D : ~ (y < m)
  BY <1>3, <1>2 DEF R
<1>5. \A j \in T : n - j \in D
  OBVIOUS
<1> QED BY <1>4, <1>5

(* The steps of a plan.                                                    *)
LEMMA StepType ==
  ASSUME steps \in Plans
  PROVE  /\ Len(steps) \in Nat /\ DOMAIN steps = 1..Len(steps)
         /\ \A i \in DOMAIN steps : steps[i].step_id \in Ids /\ steps[i].depends_on \in SUBSET Ids
<1> DEFINE S == [step_id : Ids, depends_on : SUBSET Ids]
<1>1. steps \in Seq(S)
  BY PlansAssumption
<1>2. Len(steps) \in Nat /\ DOMAIN steps = 1..Len(steps)
  BY <1>1
<1>3. \A i \in DOMAIN steps : steps[i] \in S
  <2> HIDE DEF S
  <2> QED BY <1>1, <1>2
<1> QED BY <1>2, <1>3

(* What the layer adds to the results.                                     *)
LEMMA CollectedEntry ==
  ASSUME TypeOK, layer \in DOMAIN layers, NEW d \in Ids
  PROVE  LET same == {i \in layers[layer] : steps[i].step_id = d}
         IN  /\ same = {} => Collected(results)[d] = results[d]
             /\ same # {} => Collected(results)[d] \in same
<1> DEFINE same == {i \in layers[layer] : steps[i].step_id = d}
<1>1. layers[layer] \subseteq 1..Len(steps) /\ Len(steps) \in Nat
  BY StepType DEF TypeOK
<1>2. Collected(results)[d] =
        IF same = {} THEN results[d] ELSE CHOOSE i \in same : \A j \in same : j <= i
  BY DEF Collected
<1>3. CASE same # {}
  <2>1. same \in SUBSET (1..Len(steps))
    BY <1>1
  <2>2. \E i \in same : \A j \in same : j <= i
    <3> HIDE DEF same
    <3> QED BY <1>1, <1>3, <2>1, Greatest
  <2> HIDE DEF same
  <2>3. (CHOOSE i \in same : \A j \in same : j <= i) \in same
    BY <2>2
  <2>4. Collected(results)[d] \in same
    BY <1>2, <1>3, <2>3
  <2> QED BY <1>3, <2>4 DEF same
<1>4. CASE same = {}
  BY <1>2, <1>4
<1> QED BY <1>3, <1>4

-----------------------------------------------------------------------------
(* Types                                                                   *)

LEMMA TypeInit == Init => TypeOK
<1> SUFFICES ASSUME Init PROVE TypeOK
  OBVIOUS
<1>1. layers \in Seq(SUBSET DOMAIN steps) /\ Len(layers) = 0
  BY DEF Init
<1> QED BY <1>1 DEF Init, TypeOK

LEMMA TypeNext == TypeOK /\ [Next]_vars => TypeOK'
<1> SUFFICES ASSUME TypeOK, [Next]_vars PROVE TypeOK'
  OBVIOUS
<1> USE DEF TypeOK
<1>1. CASE next_layer
  <2>1. current_layer \in SUBSET DOMAIN steps /\ steps' = steps
    BY <1>1 DEF next_layer, current_layer
  <2>2. layers' \in Seq(SUBSET DOMAIN steps) /\ Len(layers') = Len(layers) + 1
    BY <1>1, <2>1 DEF next_layer
  <2>3. completed' \in SUBSET Ids
    BY <1>1, <2>1, StepType DEF next_layer
  <2>4. layer' \in 1..(Len(layers') + 1)
    BY <1>1, <2>2 DEF next_layer
  <2> QED BY <1>1, <2>1, <2>2, <2>3, <2>4 DEF next_layer
<1>2. CASE _fallback_empty_result
  BY <1>2 DEF _fallback_empty_result
<1>3. CASE layers_found
  BY <1>3 DEF layers_found
<1>4. CASE layer_ends
  <2>1. layer \in DOMAIN layers
    BY <1>4 DEF layer_ends
  <2>2. \A d \in Ids : Collected(results)[d] \in {0} \cup DOMAIN steps
    <3> TAKE d \in Ids
    <3>1. layers[layer] \in SUBSET DOMAIN steps
      BY <2>1
    <3> QED BY <2>1, <3>1, CollectedEntry
  <2>3. results' \in [Ids -> {0} \cup DOMAIN steps]
    BY <1>4, <2>2 DEF layer_ends, Collected
  <2> QED BY <1>4, <2>1, <2>3 DEF layer_ends
<1>5. CASE plan_returns
  BY <1>5 DEF plan_returns
<1>6. ASSUME NEW i \in DOMAIN steps, step_starts(i) PROVE TypeOK'
  BY <1>6 DEF step_starts
<1>7. ASSUME NEW i \in DOMAIN steps, step_ends(i) PROVE TypeOK'
  BY <1>7 DEF step_ends
<1>8. CASE UNCHANGED vars
  BY <1>8 DEF vars
<1> QED BY <1>1, <1>2, <1>3, <1>4, <1>5, <1>6, <1>7, <1>8 DEF Next

(* dag_scheduler.execute: all variables keep their types; the running      *)
(* layer is one of those found, or the one behind the last.                *)
THEOREM DagTypeCorrect == Spec => []TypeOK
BY TypeInit, TypeNext, PTL DEF Spec

-----------------------------------------------------------------------------
(* The layers                                                              *)

(* The steps in layers are those not remaining, and completed their ids.   *)
Covered ==
  /\ \A i \in DOMAIN steps : i \notin remaining <=> \E k \in DOMAIN layers : i \in layers[k]
  /\ \A i \in DOMAIN steps \ remaining : steps[i].step_id \in completed
  /\ \A d \in completed : \E i \in DOMAIN steps \ remaining : steps[i].step_id = d

(* A step is in one layer.                                                 *)
Disjoint == \A k, l \in DOMAIN layers : \A i \in layers[k] : i \in layers[l] => k = l

(* What a step depends on is in a layer below.                             *)
Ordered ==
  \A k \in DOMAIN layers : \A i \in layers[k] : \A d \in steps[i].depends_on :
    \E l \in DOMAIN layers : l < k /\ \E j \in layers[l] : steps[j].step_id = d

(* The layers below the running one have ended, those above have not begun.*)
Phased ==
  \A k \in DOMAIN layers : \A i \in layers[k] :
    (k < layer => phase[i] = "ended") /\ (k > layer => phase[i] = "waiting")

(* What holds at each stage of the plan.                                   *)
Staged ==
  /\ pc = "layering" => layer = 1 /\ \A i \in DOMAIN steps : phase[i] = "waiting"
  /\ pc = "running" => remaining = {} /\ steps # <<>>
  /\ pc # "done" <=> plan_execution_status = "none"
  /\ plan_execution_status = "failed" => \A i \in DOMAIN steps : phase[i] = "waiting"
  /\ plan_execution_status \in {"completed", "partial"} => remaining = {} /\ layer = Len(layers) + 1

(* The entered results are those of the layers that have ended.            *)
Entered ==
  /\ \A d \in Ids : results[d] # 0 =>
       \E k \in DOMAIN layers : k < layer /\ results[d] \in layers[k] /\ steps[results[d]].step_id = d
  /\ \A k \in DOMAIN layers : k < layer => \A i \in layers[k] : results[steps[i].step_id] # 0

(* A completed plan has no failure among the entered results.              *)
Successful ==
  plan_execution_status = "completed" =>
    \A d \in Ids : results[d] # 0 => returned[results[d]] # Failed

DagInv == Covered /\ Disjoint /\ Ordered /\ Phased /\ Staged /\ Entered /\ Successful

LEMMA DagInvInit == Init => DagInv
BY DEF Init, DagInv, Covered, Disjoint, Ordered, Phased, Staged, Entered, Successful

(* A new layer is made of remaining steps that depend on layers below.     *)
LEMMA DagInvLayer ==
  ASSUME TypeOK, DagInv, next_layer
  PROVE  DagInv'
<1> DEFINE n == Len(layers) + 1
<1>1. /\ Len(layers) \in Nat /\ DOMAIN layers = 1..Len(layers)
      /\ DOMAIN layers' = 1..n /\ layers'[n] = current_layer
      /\ \A k \in DOMAIN layers : layers'[k] = layers[k]
  BY DEF next_layer, TypeOK
<1>2. current_layer \subseteq remaining /\ remaining \subseteq DOMAIN steps
  BY DEF current_layer, TypeOK
<1>3. /\ steps' = steps /\ pc' = pc /\ layer' = layer /\ phase' = phase /\ results' = results
      /\ returned' = returned /\ plan_execution_status' = plan_execution_status
      /\ pc = "layering" /\ remaining' = remaining \ current_layer
      /\ completed' = completed \cup {steps[i].step_id : i \in current_layer}
  BY DEF next_layer
<1>4. Covered'
  BY <1>1, <1>2, <1>3 DEF Covered, DagInv
<1>5. Disjoint'
  BY <1>1, <1>2, <1>3 DEF Disjoint, Covered, DagInv, TypeOK
<1>6. Ordered'
  <2>1. ASSUME NEW i \in current_layer, NEW d \in steps[i].depends_on
        PROVE  \E l \in DOMAIN layers : \E j \in layers[l] : steps[j].step_id = d
    BY <2>1 DEF current_layer, Executable, Covered, DagInv
  <2> QED BY <1>1, <1>3, <2>1 DEF Ordered, DagInv
<1>7. Phased'
  BY <1>1, <1>2, <1>3 DEF Phased, Staged, DagInv
<1>8. Staged'
  BY <1>1, <1>3 DEF Staged, DagInv
<1>9. Entered'
  BY <1>1, <1>3 DEF Entered, Staged, DagInv
<1>10. Successful'
  BY <1>3 DEF Successful, DagInv
<1> QED BY <1>4, <1>5, <1>6, <1>7, <1>8, <1>9, <1>10 DEF DagInv

(* A step that runs is in the running layer.                               *)
LEMMA RunningLayer ==
  ASSUME TypeOK, DagInv, pc = "running", NEW i \in DOMAIN steps, phase[i] = "running"
  PROVE  layer \in DOMAIN layers /\ i \in layers[layer]
<1>1. PICK k \in DOMAIN layers : i \in layers[k]
  BY DEF DagInv, Covered, Staged
<1>2. ~ (k < layer) /\ ~ (k > layer)
  BY <1>1 DEF DagInv, Phased
<1> QED BY <1>1, <1>2 DEF TypeOK

(* A change of phase within the running layer.                             *)
LEMMA DagInvPhase ==
  ASSUME TypeOK, DagInv, pc = "running", layer \in DOMAIN layers,
         NEW i \in layers[layer], NEW p, phase' = [phase EXCEPT ![i] = p],
         UNCHANGED <<steps, pc, remaining, completed, layers, layer, results, plan_execution_status>>
  PROVE  DagInv'
<1>1. Covered' /\ Disjoint' /\ Ordered' /\ Entered'
  BY DEF DagInv, Covered, Disjoint, Ordered, Entered
<1>2. Phased'
  BY DEF DagInv, Phased, Disjoint, TypeOK
<1>3. Staged' /\ Successful'
  BY DEF DagInv, Staged, Successful
<1> QED BY <1>1, <1>2, <1>3 DEF DagInv

(* The end of a layer enters its results.                                  *)
LEMMA DagInvLayerEnds ==
  ASSUME TypeOK, DagInv, layer_ends
  PROVE  DagInv'
<1>1. /\ layer \in DOMAIN layers /\ layer \in Nat /\ Len(layers) \in Nat
      /\ DOMAIN layers = 1..Len(layers)
  BY DEF layer_ends, TypeOK
<1>2. /\ layer' = layer + 1 /\ results' = Collected(results) /\ pc = "running"
      /\ \A i \in layers[layer] : phase[i] = "ended"
      /\ UNCHANGED <<steps, pc, remaining, completed, layers, phase, returned, plan_execution_status>>
  BY DEF layer_ends
<1>3. Covered' /\ Disjoint' /\ Ordered'
  BY <1>2 DEF DagInv, Covered, Disjoint, Ordered
<1>4. Phased'
  BY <1>1, <1>2 DEF DagInv, Phased
<1>5. Staged' /\ Successful'
  BY <1>2 DEF DagInv, Staged, Successful
<1>6. Entered'
  <2> DEFINE same(d) == {i \in layers[layer] : steps[i].step_id = d}
  <2>1. \A d \in Ids : /\ same(d) = {} => results'[d] = results[d]
                       /\ same(d) # {} => results'[d] \in same(d)
    BY <1>1, <1>2, CollectedEntry
  <2>2. \A i \in layers[layer] : i \in DOMAIN steps /\ steps[i].step_id \in Ids /\ i # 0
    BY <1>1, StepType DEF TypeOK
  <2>3. ASSUME NEW d \in Ids, results'[d] # 0
        PROVE  \E k \in DOMAIN layers : k < layer' /\ results'[d] \in layers[k]
                                        /\ steps[results'[d]].step_id = d
    <3>1. CASE same(d) = {}
      BY <1>1, <1>2, <2>1, <2>3, <3>1 DEF DagInv, Entered
    <3>2. CASE same(d) # {}
      BY <1>1, <1>2, <2>1, <3>2
    <3> QED BY <3>1, <3>2
  <2>4. ASSUME NEW k \in DOMAIN layers, k < layer', NEW i \in layers[k]
        PROVE  results'[steps[i].step_id] # 0
    <3> DEFINE d == steps[i].step_id
    <3>1. d \in Ids
      BY StepType DEF TypeOK
    <3>2. CASE same(d) # {}
      BY <2>1, <2>2, <3>1, <3>2
    <3>3. CASE same(d) = {}
      <4>1. k # layer
        BY <3>3
      <4>2. k < layer
        BY <1>1, <1>2, <2>4, <4>1
      <4> QED BY <2>1, <3>1, <3>3, <4>2 DEF DagInv, Entered
    <3> QED BY <3>2, <3>3
  <2> HIDE DEF same
  <2> QED BY <1>2, <2>3, <2>4 DEF Entered
<1> QED BY <1>3, <1>4, <1>5, <1>6 DEF DagInv

LEMMA DagInvNext == TypeOK /\ DagInv /\ [Next]_vars => DagInv'
<1> SUFFICES ASSUME TypeOK, DagInv, [Next]_vars PROVE DagInv'
  OBVIOUS
<1>1. CASE next_layer
  BY <1>1, DagInvLayer
<1>2. CASE _fallback_empty_result
  BY <1>2 DEF _fallback_empty_result, DagInv, Covered, Disjoint, Ordered, Phased, Staged, Entered,
     Successful
<1>3. CASE layers_found
  BY <1>3 DEF layers_found, DagInv, Covered, Disjoint, Ordered, Phased, Staged, Entered, Successful
<1>4. CASE layer_ends
  BY <1>4, DagInvLayerEnds
<1>5. CASE plan_returns
  <2>1. layer = Len(layers) + 1
    BY <1>5 DEF plan_returns, TypeOK
  <2>2. Successful'
    BY <1>5 DEF plan_returns, fail_count, Successful, DagInv
  <2> QED BY <1>5, <2>1, <2>2 DEF plan_returns, DagInv, Covered, Disjoint, Ordered, Phased, Staged,
     Entered
<1>6. ASSUME NEW i \in DOMAIN steps, step_starts(i) PROVE DagInv'
  <2>1. layer \in DOMAIN layers /\ i \in layers[layer]
    BY <1>6 DEF step_starts, TypeOK
  <2> QED BY <1>6, <2>1, DagInvPhase DEF step_starts
<1>7. ASSUME NEW i \in DOMAIN steps, step_ends(i) PROVE DagInv'
  <2>1. layer \in DOMAIN layers /\ i \in layers[layer]
    BY <1>7, RunningLayer DEF step_ends
  <2> QED BY <1>7, <2>1, DagInvPhase DEF step_ends
<1>8. CASE UNCHANGED vars
  BY <1>8 DEF vars, DagInv, Covered, Disjoint, Ordered, Phased, Staged, Entered, Successful
<1> QED BY <1>1, <1>2, <1>3, <1>4, <1>5, <1>6, <1>7, <1>8 DEF Next

LEMMA DagInvariant == Spec => [](TypeOK /\ DagInv)
BY TypeInit, TypeNext, DagInvInit, DagInvNext, PTL DEF Spec

(* DAGScheduler._execute_step: whatever the plan, a step that runs finds   *)
(* an entry in previous_results for everything it depends on.              *)
THEOREM DependenciesEntered == Spec => []DependenciesAreEntered
<1>1. TypeOK /\ DagInv => DependenciesAreEntered
  <2> SUFFICES ASSUME TypeOK, DagInv, NEW i \in DOMAIN steps, phase[i] = "running",
                      NEW d \in steps[i].depends_on
               PROVE  results[d] # 0 /\ phase[results[d]] = "ended"
    BY DEF DependenciesAreEntered
  <2>1. PICK k \in DOMAIN layers : i \in layers[k]
    <3>1. pc # "layering"
      BY DEF DagInv, Staged
    <3>2. CASE pc = "running"
      BY <3>2 DEF DagInv, Staged, Covered
    <3>3. CASE pc = "done"
      BY <3>3 DEF DagInv, Staged, Covered, TypeOK
    <3> QED BY <3>1, <3>2, <3>3 DEF TypeOK
  <2>2. PICK l \in DOMAIN layers : l < k /\ \E j \in layers[l] : steps[j].step_id = d
    BY <2>1 DEF DagInv, Ordered
  <2>3. ~ (k < layer) /\ ~ (k > layer)
    BY <2>1 DEF DagInv, Phased
  <2>4. l < layer
    BY <2>2, <2>3 DEF TypeOK
  <2>5. results[d] # 0 /\ d \in Ids
    BY <2>2, <2>4, StepType DEF DagInv, Entered, TypeOK
  <2>6. PICK m \in DOMAIN layers : m < layer /\ results[d] \in layers[m]
    BY <2>5 DEF DagInv, Entered
  <2> QED BY <2>5, <2>6 DEF DagInv, Phased
<1> QED BY <1>1, DagInvariant, PTL

(* plan_executor_node: a failed step of a plan reported as completed was   *)
(* replaced by another step of the same id, and by nothing else.           *)
THEOREM FailuresReported == Spec => []FailuresAreReported
<1>1. TypeOK /\ DagInv => FailuresAreReported
  <2> SUFFICES ASSUME TypeOK, DagInv, plan_execution_status = "completed",
                      NEW i \in DOMAIN steps, returned[i] = Failed
               PROVE  \E j \in DOMAIN steps : j # i /\ steps[j].step_id = steps[i].step_id
                                               /\ results[steps[i].step_id] = j
    BY DEF FailuresAreReported
  <2> DEFINE d == steps[i].step_id
  <2>1. d \in Ids
    BY StepType DEF TypeOK
  <2>2. PICK k \in DOMAIN layers : i \in layers[k]
    BY DEF DagInv, Staged, Covered
  <2>3. k < layer
    BY <2>2 DEF DagInv, Staged, TypeOK
  <2>4. results[d] # 0
    BY <2>2, <2>3 DEF DagInv, Entered
  <2>5. PICK l \in DOMAIN layers : results[d] \in layers[l] /\ steps[results[d]].step_id = d
    BY <2>1, <2>4 DEF DagInv, Entered
  <2>6. returned[results[d]] # Failed
    BY <2>1, <2>4 DEF DagInv, Successful
  <2>7. results[d] \in DOMAIN steps
    BY <2>5 DEF TypeOK
  <2> QED BY <2>5, <2>6, <2>7
<1> QED BY <1>1, DagInvariant, PTL

-----------------------------------------------------------------------------
(* The refinement                                                          *)

LEMMA RefinesInit == Init => Abstract!PInit
BY DEF Init, Abstract!PInit

LEMMA RefinesNext ==
  TypeOK /\ DagInv /\ [Next]_vars => [Abstract!PNext]_(Abstract!specVars)
<1> SUFFICES ASSUME TypeOK, DagInv, [Next]_vars
             PROVE  Abstract!PNext \/ UNCHANGED Abstract!specVars
  OBVIOUS
<1> USE DEF Abstract!specVars, Abstract!PNext
<1>1. CASE next_layer
  BY <1>1 DEF next_layer
<1>2. CASE _fallback_empty_result
  <2>1. Abstract!Stuck(steps) \/ steps = <<>>
    <3> SUFFICES ASSUME steps # <<>> PROVE Abstract!Stuck(steps)
      OBVIOUS
    <3>1. remaining # {} /\ remaining \in SUBSET DOMAIN steps
      BY <1>2 DEF _fallback_empty_result, TypeOK
    <3>2. \A i \in remaining : \E d \in steps[i].depends_on : d \notin completed
      BY <1>2 DEF _fallback_empty_result, current_layer, Executable
    <3>3. \A j \in DOMAIN steps \ remaining : steps[j].step_id \in completed
      BY DEF DagInv, Covered
    <3>4. \A i \in remaining : \E d \in steps[i].depends_on :
            \A j \in DOMAIN steps \ remaining : steps[j].step_id # d
      BY <3>2, <3>3
    <3> QED BY <3>1, <3>4, Zenon DEF Abstract!Stuck
  <2>2. \A i \in DOMAIN steps : phase[i] = "waiting"
    BY <1>2 DEF _fallback_empty_result, DagInv, Staged
  <2> QED BY <1>2, <2>1, <2>2 DEF _fallback_empty_result, Abstract!Drop
<1>3. CASE layers_found
  BY <1>3 DEF layers_found
<1>4. CASE layer_ends
  BY <1>4 DEF layer_ends
<1>5. CASE plan_returns
  <2>1. \A i \in DOMAIN steps : phase[i] = "ended"
    <3> TAKE i \in DOMAIN steps
    <3>1. PICK k \in DOMAIN layers : i \in layers[k]
      BY <1>5 DEF plan_returns, DagInv, Staged, Covered
    <3>2. k < layer
      BY <1>5 DEF plan_returns, TypeOK
    <3> QED BY <3>1, <3>2 DEF DagInv, Phased
  <2>2. steps # <<>>
    BY <1>5 DEF plan_returns, DagInv, Staged
  <2> QED BY <1>5, <2>1, <2>2 DEF plan_returns, Abstract!Close
<1>6. ASSUME NEW i \in DOMAIN steps, step_starts(i) PROVE Abstract!Start(i)
  <2>1. ASSUME NEW d \in steps[i].depends_on
        PROVE  \E j \in DOMAIN steps : steps[j].step_id = d /\ phase[j] = "ended"
    <3>1. layer \in DOMAIN layers /\ i \in layers[layer]
      BY <1>6 DEF step_starts, TypeOK
    <3>2. PICK l \in DOMAIN layers : l < layer /\ \E j \in layers[l] : steps[j].step_id = d
      BY <3>1 DEF DagInv, Ordered
    <3>3. PICK j \in layers[l] : steps[j].step_id = d
      BY <3>2
    <3>4. phase[j] = "ended" /\ j \in DOMAIN steps
      BY <3>2 DEF DagInv, Phased, TypeOK
    <3> QED BY <3>3, <3>4
  <2> QED BY <1>6, <2>1 DEF step_starts, Abstract!Start
<1>7. ASSUME NEW i \in DOMAIN steps, step_ends(i) PROVE Abstract!End(i)
  BY <1>7 DEF step_ends, Abstract!End
<1>8. CASE UNCHANGED vars
  BY <1>8 DEF vars
<1> QED BY <1>1, <1>2, <1>3, <1>4, <1>5, <1>6, <1>7, <1>8 DEF Next

(* plan_executor: for every plan, the layered scheduler takes only steps   *)
(* PlanSpec allows: each step once, after what it depends on, and a plan   *)
(* is dropped only if some of its steps can never start.                   *)
THEOREM SchedulerRefinesPlanSpec == Spec => Abstract!PInit /\ [][Abstract!PNext]_(Abstract!specVars)
BY RefinesInit, RefinesNext, DagInvariant, PTL DEF Spec

-----------------------------------------------------------------------------
(* Induction, by the least counterexample, and recursion over a sequence.  *)

LEMMA LeastOf ==
  ASSUME NEW T \in SUBSET Nat, T # {}
  PROVE  \E x \in T : \A y \in T : x <= y
<1>1. PICK R : R = {p \in Nat \X Nat : p[1] < p[2]} /\ IsWellFoundedOn(R, Nat)
  BY NatLessThanWellFounded DEF OpToRel
<1>2. PICK x \in T : \A y \in T : ~ (<<y, x>> \in R)
  BY <1>1, WFMin
<1>3. \A y \in T : y < x => <<y, x>> \in R
  BY <1>1
<1>4. ASSUME NEW y \in T PROVE x <= y
  <2>1. x \in Nat /\ y \in Nat
    OBVIOUS
  <2>2. ~ (y < x)
    BY <1>2, <1>3
  <2> QED BY <2>1, <2>2
<1> QED BY <1>4

LEMMA Induction ==
  ASSUME NEW m \in Nat, NEW T, 0 \in T, \A n \in 1..m : n - 1 \in T => n \in T
  PROVE  0..m \subseteq T
<1> DEFINE C == (0..m) \ T
<1> SUFFICES ASSUME C # {} PROVE FALSE
  OBVIOUS
<1>1. C \in SUBSET Nat
  OBVIOUS
<1>2. PICK n \in C : \A k \in C : n <= k
  BY <1>1, LeastOf
<1>3. n \in 1..m /\ n - 1 \in 0..m
  BY <1>2
<1>4. n - 1 \notin C
  BY <1>2, <1>3
<1> QED BY <1>2, <1>3, <1>4

(* A function given step by step exists.                                   *)
Iterates(f, m, x, step) ==
  /\ f = [n \in 0..m |-> f[n]] /\ f[0] = x
  /\ \A n \in 1..m : f[n] = step[<<f[n - 1], n>>]

LEMMA IterationExists ==
  ASSUME NEW m \in Nat, NEW x, NEW step
  PROVE  \E f : Iterates(f, m, x, step)
<1> DEFINE T == {n \in 0..m : \E f : Iterates(f, n, x, step)}
<1>1. 0 \in T
  <2>1. Iterates([n \in 0..0 |-> x], 0, x, step)
    BY DEF Iterates
  <2> QED BY <2>1
<1>2. ASSUME NEW n \in 1..m, n - 1 \in T PROVE n \in T
  <2>1. PICK f : Iterates(f, n - 1, x, step)
    BY <1>2
  <2> DEFINE h == [i \in 0..n |-> IF i < n THEN f[i] ELSE step[<<f[n - 1], n>>]]
  <2>2. h = [i \in 0..n |-> h[i]] /\ h[0] = x
    BY <2>1 DEF Iterates
  <2>3. ASSUME NEW i \in 1..n PROVE h[i] = step[<<h[i - 1], i>>]
    <3>1. h[i - 1] = f[i - 1]
      OBVIOUS
    <3>2. CASE i < n
      <4>1. i \in 1..(n - 1) /\ h[i] = f[i]
        BY <3>2
      <4> QED BY <2>1, <3>1, <4>1 DEF Iterates
    <3>3. CASE i = n
      <4>1. h[n] = step[<<f[n - 1], n>>]
        OBVIOUS
      <4> HIDE DEF h
      <4> QED BY <3>1, <3>3, <4>1
    <3> QED BY <3>2, <3>3
  <2>4. Iterates(h, n, x, step)
    BY <2>2, <2>3 DEF Iterates
  <2> QED BY <2>4
<1> HIDE DEF T
<1>3. 0..m \subseteq T
  BY <1>1, <1>2, Induction
<1> USE DEF T
<1> QED BY <1>3

-----------------------------------------------------------------------------
(* Joining lists                                                           *)

FlattenBy(f, ss) == f = [i \in 1..Len(ss) |-> IF i = 1 THEN ss[i] ELSE f[i - 1] \o ss[i]]

(* The function FlattenSeq takes its value from.                           *)
LEMMA FlattenFunction ==
  ASSUME NEW S, NEW ss \in Seq(Seq(S)), Len(ss) # 0
  PROVE  \E f : FlattenBy(f, ss) /\ FlattenSeq(ss) = f[Len(ss)]
<1> DEFINE m == Len(ss)
           step == [z \in Seq(S) \X (1..m) |-> z[1] \o ss[z[2]]]
<1>1. m \in Nat /\ \A n \in 1..m : ss[n] \in Seq(S)
  OBVIOUS
<1>2. PICK h : Iterates(h, m, <<>>, step)
  BY <1>1, IterationExists
<1>3. ASSUME NEW n \in 1..m, h[n - 1] \in Seq(S)
      PROVE  h[n] = h[n - 1] \o ss[n] /\ h[n] \in Seq(S)
  <2>1. h[n] = step[<<h[n - 1], n>>]
    BY <1>2 DEF Iterates
  <2>2. <<h[n - 1], n>> \in Seq(S) \X (1..m)
    BY <1>3
  <2>3. step[<<h[n - 1], n>>] = h[n - 1] \o ss[n]
    BY <2>2
  <2> QED BY <1>1, <1>3, <2>1, <2>3, ConcatProperties
<1> HIDE DEF step, m
<1> DEFINE T == {n \in 0..m : h[n] \in Seq(S)}
<1>4. 0 \in T
  <2>1. h[0] = <<>> /\ 0 \in 0..m
    BY <1>1, <1>2 DEF Iterates
  <2> QED BY <2>1, EmptySeq
<1>5. ASSUME NEW n \in 1..m, n - 1 \in T PROVE n \in T
  <2>1. h[n - 1] \in Seq(S)
    BY <1>5
  <2>2. h[n] \in Seq(S)
    BY <1>3, <2>1
  <2>3. n \in 0..m
    BY <1>1
  <2> QED BY <2>2, <2>3
<1> HIDE DEF T
<1>6. 0..m \subseteq T
  BY <1>1, <1>4, <1>5, Induction
<1>7. \A n \in 1..m : h[n - 1] \in Seq(S) /\ h[n] = h[n - 1] \o ss[n]
  <2> TAKE n \in 1..m
  <2>1. n - 1 \in 0..m
    BY <1>1
  <2>2. h[n - 1] \in Seq(S)
    BY <1>6, <2>1 DEF T
  <2> QED BY <1>3, <2>2
<1>8. h[0] = <<>>
  BY <1>2 DEF Iterates
<1> DEFINE k == [i \in 1..m |-> h[i]]
<1>9. FlattenBy(k, ss)
  <2>1. ASSUME NEW i \in 1..m PROVE k[i] = IF i = 1 THEN ss[i] ELSE k[i - 1] \o ss[i]
    <3>1. CASE i = 1
      <4>1. 1 \in 1..m /\ ss[1] \in Seq(S) /\ 1 - 1 = 0
        BY <1>1, <3>1
      <4>2. h[1] = <<>> \o ss[1]
        BY <1>7, <1>8, <4>1
      <4>3. h[1] = ss[1]
        BY <4>1, <4>2, ConcatEmptySeq
      <4> QED BY <3>1, <4>1, <4>3
    <3>2. CASE i # 1
      <4>1. i - 1 \in 1..m
        BY <1>1, <3>2
      <4> QED BY <1>7, <3>2, <4>1
    <3> QED BY <3>1, <3>2
  <2> QED BY <2>1 DEF FlattenBy, m
<1> DEFINE f == CHOOSE f : FlattenBy(f, ss)
<1>10. FlattenBy(f, ss)
  BY <1>9
<1>11. FlattenSeq(ss) = f[m]
  BY DEF FlattenSeq, FlattenBy, m
<1> QED BY <1>10, <1>11 DEF m

(* Nothing is lost when lists are joined.                                  *)
LEMMA FlattenFacts ==
  ASSUME NEW S, NEW ss \in Seq(Seq(S))
  PROVE  /\ FlattenSeq(ss) \in Seq(S)
         /\ \A k \in 1..Len(ss) : \A i \in 1..Len(ss[k]) : \E j \in 1..Len(FlattenSeq(ss)) :
              FlattenSeq(ss)[j] = ss[k][i]
<1> DEFINE m == Len(ss)
           Holds(t, n) == /\ t \in Seq(S)
                          /\ \A k \in 1..n : \A i \in 1..Len(ss[k]) : \E j \in 1..Len(t) : t[j] = ss[k][i]
<1>1. m \in Nat /\ \A n \in 1..m : ss[n] \in Seq(S)
  OBVIOUS
<1>2. CASE m = 0
  <2>1. ss = <<>> /\ FlattenSeq(ss) = ss
    BY <1>2, EmptySeq DEF FlattenSeq
  <2>2. FlattenSeq(ss) \in Seq(S)
    BY <2>1, EmptySeq
  <2>3. 1..m = {}
    BY <1>2
  <2> QED BY <2>2, <2>3
<1>3. CASE m # 0
  <2>1. PICK f : FlattenBy(f, ss) /\ FlattenSeq(ss) = f[m]
    BY <1>3, FlattenFunction
  <2> DEFINE T == {n \in 0..m : n = 0 \/ Holds(f[n], n)}
  <2>2. 0 \in T
    BY <1>1
  <2>3. ASSUME NEW n \in 1..m, n - 1 \in T PROVE n \in T
    <3>1. f[n] = IF n = 1 THEN ss[n] ELSE f[n - 1] \o ss[n]
      BY <2>1 DEF FlattenBy
    <3>2. CASE n = 1
      BY <1>1, <3>1, <3>2
    <3>3. CASE n # 1
      <4>1. PICK t : t = f[n - 1]
        OBVIOUS
      <4>2. PICK u : u = f[n]
        OBVIOUS
      <4>3. Holds(t, n - 1) /\ u = t \o ss[n] /\ ss[n] \in Seq(S)
        <5>1. n - 1 # 0 /\ n \in 1..m
          BY <1>1, <3>3
        <5>2. Holds(f[n - 1], n - 1)
          BY <2>3, <5>1
        <5>3. ss[n] \in Seq(S)
          BY <1>1, <5>1
        <5>4. f[n] = f[n - 1] \o ss[n]
          BY <3>1, <3>3
        <5> QED BY <4>1, <4>2, <5>2, <5>3, <5>4, Zenon
      <4>4. /\ u \in Seq(S) /\ Len(u) = Len(t) + Len(ss[n])
            /\ \A j \in 1..(Len(t) + Len(ss[n])) : u[j] = IF j <= Len(t) THEN t[j] ELSE ss[n][j - Len(t)]
        BY <4>3, ConcatProperties
      <4>5. Len(t) \in Nat /\ Len(ss[n]) \in Nat
        BY <4>3
      <4>6. ASSUME NEW k \in 1..n, NEW i \in 1..Len(ss[k]) PROVE \E j \in 1..Len(u) : u[j] = ss[k][i]
        <5>1. CASE k = n
          <6>1. Len(t) + i \in 1..Len(u) /\ ~ (Len(t) + i <= Len(t)) /\ (Len(t) + i) - Len(t) = i
            BY <4>4, <4>5, <4>6, <5>1
          <6>2. u[Len(t) + i] = ss[n][i]
            BY <4>4, <6>1
          <6> QED BY <5>1, <6>1, <6>2
        <5>2. CASE k # n
          <6>1. PICK j \in 1..Len(t) : t[j] = ss[k][i]
            BY <4>3, <4>6, <5>2
          <6>2. j \in 1..Len(u) /\ u[j] = t[j]
            BY <4>4, <4>5, <6>1
          <6> QED BY <6>1, <6>2
        <5> QED BY <5>1, <5>2
      <4> QED BY <4>2, <4>4, <4>6
    <3> QED BY <3>2, <3>3
  <2> HIDE DEF T
  <2>4. 0..m \subseteq T
    BY <1>1, <2>2, <2>3, Induction
  <2>5. m \in T
    BY <1>1, <2>4
  <2> QED BY <1>3, <2>1, <2>5 DEF T
<1> QED BY <1>2, <1>3

-----------------------------------------------------------------------------
(* Sorting                                                                 *)

Sorted(s) == \A i, j \in 1..Len(s) : i <= j => s[i].score >= s[j].score

LEMMA DocType ==
  ASSUME NEW s \in Seq(Documents)
  PROVE  /\ Len(s) \in Nat /\ DOMAIN s = 1..Len(s)
         /\ \A i \in 1..Len(s) : s[i] \in Documents /\ s[i].score \in Int
<1>1. Len(s) \in Nat /\ DOMAIN s = 1..Len(s) /\ \A i \in 1..Len(s) : s[i] \in Documents
  OBVIOUS
<1>2. \A d \in Documents : d.score \in Int
  BY DEF Documents
<1> QED BY <1>1, <1>2

(* In a sorted list a document has its place.                              *)
LEMMA PlaceFacts ==
  ASSUME NEW s \in Seq(Documents), Sorted(s), NEW d \in Documents
  PROVE  /\ PlaceOf(d, s) \in 0..Len(s)
         /\ \A i \in 1..PlaceOf(d, s) : s[i].score >= d.score
         /\ \A i \in (PlaceOf(d, s) + 1)..Len(s) : s[i].score < d.score
<1> DEFINE T == {k \in 0..Len(s) : \A i \in (k + 1)..Len(s) : s[i].score < d.score}
<1>1. Len(s) \in Nat /\ d.score \in Int /\ \A i \in 1..Len(s) : s[i].score \in Int
  BY DocType DEF Documents
<1>2. Len(s) \in T /\ T \in SUBSET Nat
  BY <1>1
<1>3. PICK k \in T : \A l \in T : k <= l
  BY <1>2, LeastOf
<1>4. k \in 0..Len(s) /\ \A i \in (k + 1)..Len(s) : s[i].score < d.score
  BY <1>3
<1>5. ASSUME NEW i \in 1..k PROVE s[i].score >= d.score
  <2>0. k \in Nat /\ k - 1 \in 0..Len(s) /\ k \in 1..Len(s) /\ i \in 1..Len(s) /\ (k - 1) + 1 = k
    BY <1>1, <1>4, <1>5
  <2>1. k - 1 \notin T
    <3> HIDE DEF T
    <3> QED BY <1>3, <2>0
  <2>2. PICK j \in k..Len(s) : ~ (s[j].score < d.score)
    BY <2>0, <2>1
  <2>3. j = k
    BY <1>1, <1>4, <2>2
  <2>4. s[k].score >= d.score
    BY <1>1, <2>0, <2>2, <2>3
  <2>5. s[i].score >= s[k].score
    BY <1>1, <2>0 DEF Sorted
  <2> QED BY <1>1, <2>0, <2>4, <2>5
<1>6. \E l \in 0..Len(s) : /\ \A i \in 1..l : s[i].score >= d.score
                           /\ \A i \in (l + 1)..Len(s) : s[i].score < d.score
  BY <1>4, <1>5
<1> QED BY <1>6 DEF PlaceOf

LEMMA InsertFacts ==
  ASSUME NEW s \in Seq(Documents), NEW d \in Documents, NEW k \in 0..Len(s)
  PROVE  \A t : t = InsertAt(s, k + 1, d) =>
           /\ t \in Seq(Documents) /\ Len(t) = Len(s) + 1
           /\ \A j \in 1..k : t[j] = s[j]
           /\ t[k + 1] = d
           /\ \A j \in (k + 2)..Len(t) : t[j] = s[j - 1]
<1> SUFFICES ASSUME NEW t, t = InsertAt(s, k + 1, d)
             PROVE  /\ t \in Seq(Documents) /\ Len(t) = Len(s) + 1
                    /\ \A j \in 1..k : t[j] = s[j]
                    /\ t[k + 1] = d
                    /\ \A j \in (k + 2)..Len(t) : t[j] = s[j - 1]
  OBVIOUS
<1>0. Len(s) \in Nat /\ k \in Nat /\ k <= Len(s) /\ (k + 1) - 1 = k
  OBVIOUS
<1>1. PICK a : a = SubSeq(s, 1, k)
  OBVIOUS
<1>2. PICK b : b = SubSeq(s, k + 1, Len(s))
  OBVIOUS
<1>3. PICK c : c = a \o <<d>>
  OBVIOUS
<1>4. a \in Seq(Documents) /\ Len(a) = k /\ \A j \in 1..k : a[j] = s[j]
  BY <1>0, <1>1, SubSeqProperties
<1>5. b \in Seq(Documents) /\ Len(b) = Len(s) - k /\ \A j \in 1..(Len(s) - k) : b[j] = s[k + j]
  BY <1>0, <1>2, SubSeqProperties
<1>6. <<d>> \in Seq(Documents) /\ Len(<<d>>) = 1 /\ <<d>>[1] = d
  OBVIOUS
<1>7. c \in Seq(Documents) /\ Len(c) = k + 1 /\ (\A j \in 1..k : c[j] = s[j]) /\ c[k + 1] = d
  <2>1. /\ c \in Seq(Documents) /\ Len(c) = k + 1
        /\ \A j \in 1..(k + 1) : c[j] = IF j <= k THEN a[j] ELSE <<d>>[j - k]
    BY <1>3, <1>4, <1>6, ConcatProperties
  <2>2. (k + 1) - k = 1 /\ ~ (k + 1 <= k) /\ k + 1 \in 1..(k + 1)
    BY <1>0
  <2>3. c[k + 1] = d
    BY <1>6, <2>1, <2>2
  <2>4. \A j \in 1..k : j \in 1..(k + 1) /\ j <= k
    BY <1>0
  <2> QED BY <1>4, <2>1, <2>3, <2>4
<1>8. t = c \o b
  BY <1>0, <1>1, <1>2, <1>3 DEF InsertAt
<1>9. /\ t \in Seq(Documents) /\ Len(t) = (k + 1) + (Len(s) - k)
      /\ \A j \in 1..((k + 1) + (Len(s) - k)) : t[j] = IF j <= k + 1 THEN c[j] ELSE b[j - (k + 1)]
  <2>1. /\ t \in Seq(Documents) /\ Len(t) = Len(c) + Len(b)
        /\ \A j \in 1..(Len(c) + Len(b)) : t[j] = IF j <= Len(c) THEN c[j] ELSE b[j - Len(c)]
    <3>1. c \in Seq(Documents) /\ b \in Seq(Documents)
      BY <1>5, <1>7
    <3>2. /\ c \o b \in Seq(Documents) /\ Len(c \o b) = Len(c) + Len(b)
          /\ \A j \in 1..(Len(c) + Len(b)) : (c \o b)[j] = IF j <= Len(c) THEN c[j] ELSE b[j - Len(c)]
      BY <3>1, ConcatProperties, Zenon
    <3> QED BY <1>8, <3>2, Zenon
  <2> QED BY <1>5, <1>7, <2>1
<1>10. Len(t) = Len(s) + 1
  BY <1>0, <1>9
<1>11. \A j \in 1..(k + 1) : j \in 1..((k + 1) + (Len(s) - k)) /\ j <= k + 1
  BY <1>0
<1>12. \A j \in 1..(k + 1) : t[j] = c[j]
  BY <1>9, <1>11
<1>13. ASSUME NEW j \in (k + 2)..Len(t) PROVE t[j] = s[j - 1]
  <2>1. /\ j \in 1..((k + 1) + (Len(s) - k)) /\ ~ (j <= k + 1) /\ j - (k + 1) \in 1..(Len(s) - k)
        /\ k + (j - (k + 1)) = j - 1
    BY <1>0, <1>10
  <2> QED BY <1>5, <1>9, <2>1
<1>14. \A j \in 1..k : t[j] = s[j]
  BY <1>0, <1>7, <1>12
<1>15. t[k + 1] = d
  BY <1>0, <1>7, <1>12
<1> QED BY <1>9, <1>10, <1>13, <1>14, <1>15

LEMMA InsertSorts ==
  ASSUME NEW s \in Seq(Documents), Sorted(s), NEW d \in Documents
  PROVE  \A t : t = InsertAt(s, PlaceOf(d, s) + 1, d) =>
           /\ t \in Seq(Documents) /\ Sorted(t)
           /\ \A i \in 1..Len(s) : \E j \in 1..Len(t) : t[j] = s[i]
           /\ \E j \in 1..Len(t) : t[j] = d
<1> SUFFICES ASSUME NEW t, t = InsertAt(s, PlaceOf(d, s) + 1, d)
             PROVE  /\ t \in Seq(Documents) /\ Sorted(t)
                    /\ \A i \in 1..Len(s) : \E j \in 1..Len(t) : t[j] = s[i]
                    /\ \E j \in 1..Len(t) : t[j] = d
  OBVIOUS
<1>1. PICK k : k = PlaceOf(d, s)
  OBVIOUS
<1>2. /\ k \in 0..Len(s) /\ (\A i \in 1..k : s[i].score >= d.score)
      /\ \A i \in (k + 1)..Len(s) : s[i].score < d.score
  BY <1>1, PlaceFacts
<1>3. /\ t \in Seq(Documents) /\ Len(t) = Len(s) + 1 /\ (\A j \in 1..k : t[j] = s[j])
      /\ t[k + 1] = d /\ \A j \in (k + 2)..Len(t) : t[j] = s[j - 1]
  <2>1. t = InsertAt(s, k + 1, d)
    BY <1>1
  <2>2. k \in 0..Len(s)
    BY <1>2
  <2>3. \A u : u = InsertAt(s, k + 1, d) =>
          /\ u \in Seq(Documents) /\ Len(u) = Len(s) + 1
          /\ \A j \in 1..k : u[j] = s[j]
          /\ u[k + 1] = d
          /\ \A j \in (k + 2)..Len(u) : u[j] = s[j - 1]
    BY <2>2, InsertFacts, Zenon
  <2> QED BY <2>1, <2>3, Zenon
<1>4. Len(s) \in Nat /\ d.score \in Int /\ \A i \in 1..Len(s) : s[i].score \in Int
  BY DocType DEF Documents
<1>5. \A j \in 1..Len(t) : j \in 1..k \/ j = k + 1 \/ (j \in (k + 2)..Len(t) /\ j - 1 \in (k + 1)..Len(s))
  BY <1>2, <1>3, <1>4
<1>6. ASSUME NEW i \in 1..Len(t), NEW j \in 1..Len(t), i <= j PROVE t[i].score >= t[j].score
  <2>1. CASE i \in 1..k /\ j \in 1..k
    BY <1>2, <1>3, <1>4, <1>6, <2>1 DEF Sorted
  <2>2. CASE i \in 1..k /\ j = k + 1
    BY <1>2, <1>3, <2>2
  <2>3. CASE i \in 1..k /\ j \in (k + 2)..Len(t)
    <3>1. t[i] = s[i] /\ t[j] = s[j - 1] /\ i \in 1..Len(s) /\ j - 1 \in 1..Len(s) /\ i <= j - 1
      BY <1>2, <1>3, <1>4, <2>3
    <3> QED BY <3>1 DEF Sorted
  <2>4. CASE i = k + 1 /\ j = k + 1
    BY <1>3, <1>4, <2>4
  <2>5. CASE i = k + 1 /\ j \in (k + 2)..Len(t)
    <3>1. t[j] = s[j - 1] /\ j - 1 \in (k + 1)..Len(s) /\ j - 1 \in 1..Len(s)
      BY <1>2, <1>3, <1>4, <2>5
    <3>2. s[j - 1].score < d.score /\ s[j - 1].score \in Int
      BY <1>2, <1>4, <3>1
    <3> QED BY <1>3, <1>4, <2>5, <3>1, <3>2
  <2>6. CASE i \in (k + 2)..Len(t) /\ j \in (k + 2)..Len(t)
    <3>1. /\ t[i] = s[i - 1] /\ t[j] = s[j - 1] /\ i - 1 \in 1..Len(s) /\ j - 1 \in 1..Len(s)
          /\ i - 1 <= j - 1
      BY <1>2, <1>3, <1>4, <1>6, <2>6
    <3> QED BY <3>1 DEF Sorted
  <2>7. ~ (i = k + 1 /\ j \in 1..k) /\ ~ (i \in (k + 2)..Len(t) /\ (j \in 1..k \/ j = k + 1))
    BY <1>2, <1>3, <1>4, <1>6
  <2> QED BY <1>5, <2>1, <2>2, <2>3, <2>4, <2>5, <2>6, <2>7
<1>7. Sorted(t)
  BY <1>6 DEF Sorted
<1>8. ASSUME NEW i \in 1..Len(s) PROVE \E j \in 1..Len(t) : t[j] = s[i]
  <2>1. CASE i \in 1..k
    BY <1>2, <1>3, <1>4, <2>1
  <2>2. CASE i \notin 1..k
    <3>1. i + 1 \in (k + 2)..Len(t) /\ (i + 1) - 1 = i /\ i + 1 \in 1..Len(t)
      BY <1>2, <1>3, <1>4, <2>2
    <3>2. t[i + 1] = s[i]
      BY <1>3, <3>1
    <3> QED BY <3>1, <3>2
  <2> QED BY <2>1, <2>2
<1>9. k + 1 \in 1..Len(t)
  BY <1>2, <1>3, <1>4
<1> QED BY <1>3, <1>7, <1>8, <1>9

(* A function given step by step within a set.                             *)
LEMMA RecursionExists ==
  ASSUME NEW m \in Nat, NEW V, NEW x, x \in V, NEW step, step \in [V \X (1..m) -> V]
  PROVE  \E f : Iterates(f, m, x, step) /\ f \in [0..m -> V]
<1>1. PICK f : Iterates(f, m, x, step)
  BY IterationExists
<1>2. f = [n \in 0..m |-> f[n]] /\ f[0] = x /\ \A n \in 1..m : f[n] = step[<<f[n - 1], n>>]
  BY <1>1 DEF Iterates
<1> DEFINE T == {n \in 0..m : f[n] \in V}
<1>3. 0 \in T
  BY <1>2
<1>4. ASSUME NEW n \in 1..m, n - 1 \in T PROVE n \in T
  <2>1. f[n - 1] \in V /\ n \in 0..m
    BY <1>4
  <2>2. step[<<f[n - 1], n>>] \in V
    BY <2>1
  <2> QED BY <1>2, <2>1, <2>2
<1> HIDE DEF T
<1>5. 0..m \subseteq T
  BY <1>3, <1>4, Induction
<1>6. \A n \in 0..m : f[n] \in V
  BY <1>5 DEF T
<1>7. f \in [0..m -> V]
  BY <1>2, <1>6
<1> QED BY <1>1, <1>7

SortedLists == {s \in Seq(Documents) : Sorted(s)}

SortBy(f, docs) ==
  f = [n \in 0..Len(docs) |->
         IF n = 0 THEN <<>>
         ELSE InsertAt(f[n - 1], PlaceOf(docs[n], f[n - 1]) + 1, docs[n])]

(* The function ByScore takes its value from.                              *)
LEMMA SortFunction ==
  ASSUME NEW docs \in Seq(Documents)
  PROVE  \E f : SortBy(f, docs) /\ ByScore(docs) = f[Len(docs)]
<1> DEFINE Put(s, n) == InsertAt(s, PlaceOf(docs[n], s) + 1, docs[n])
<1>0. PICK m \in Nat : m = Len(docs)
  BY DocType
<1>1. \A n \in 1..m : docs[n] \in Documents
  BY <1>0, DocType
<1>2. <<>> \in SortedLists
  <2>1. <<>> \in Seq(Documents) /\ Len(<<>>) = 0
    BY EmptySeq
  <2> QED BY <2>1 DEF Sorted, SortedLists
<1>3. ASSUME NEW s \in SortedLists, NEW n \in 1..m PROVE Put(s, n) \in SortedLists
  <2>1. s \in Seq(Documents) /\ Sorted(s) /\ docs[n] \in Documents
    BY <1>1, <1>3 DEF SortedLists
  <2>2. Put(s, n) \in Seq(Documents) /\ Sorted(Put(s, n))
    BY <2>1, InsertSorts, Zenon
  <2> QED BY <2>2 DEF SortedLists
<1> HIDE DEF Put
<1>4. PICK step \in [SortedLists \X (1..m) -> SortedLists] :
        \A s \in SortedLists : \A n \in 1..m : step[<<s, n>>] = Put(s, n)
  <2> DEFINE g == [z \in SortedLists \X (1..m) |-> Put(z[1], z[2])]
  <2>1. g \in [SortedLists \X (1..m) -> SortedLists]
    BY <1>3
  <2>2. \A s \in SortedLists : \A n \in 1..m : g[<<s, n>>] = Put(s, n)
    OBVIOUS
  <2> QED BY <2>1, <2>2
<1>5. PICK h : Iterates(h, m, <<>>, step) /\ h \in [0..m -> SortedLists]
  BY <1>2, RecursionExists, Zenon
<1>6. h \in [0..m -> SortedLists] /\ h[0] = <<>> /\ \A n \in 1..m : h[n] = step[<<h[n - 1], n>>]
  BY <1>5 DEF Iterates
<1>7. \A n \in 1..m : h[n] = Put(h[n - 1], n)
  <2> TAKE n \in 1..m
  <2>1. n - 1 \in 0..m
    OBVIOUS
  <2>2. h[n - 1] \in SortedLists
    BY <1>6, <2>1
  <2> QED BY <1>4, <1>6, <2>2
<1>8. \A n \in 0..m : h[n] = IF n = 0 THEN <<>> ELSE Put(h[n - 1], n)
  BY <1>6, <1>7
<1>9. h = [n \in 0..m |-> IF n = 0 THEN <<>> ELSE Put(h[n - 1], n)]
  BY <1>6, <1>8
<1>10. SortBy(h, docs)
  BY <1>0, <1>9 DEF SortBy, Put
<1> DEFINE f == CHOOSE f : SortBy(f, docs)
<1>11. SortBy(f, docs)
  BY <1>10
<1>12. ByScore(docs) = f[Len(docs)]
  BY DEF ByScore, SortBy
<1> QED BY <1>11, <1>12

(* ByScore sorts and loses nothing.                                        *)
LEMMA SortFacts ==
  ASSUME NEW docs \in Seq(Documents)
  PROVE  /\ ByScore(docs) \in Seq(Documents) /\ Sorted(ByScore(docs))
         /\ \A i \in 1..Len(docs) : \E j \in 1..Len(ByScore(docs)) : ByScore(docs)[j] = docs[i]
<1> DEFINE m == Len(docs)
           Holds(t, n) == /\ t \in Seq(Documents) /\ Sorted(t)
                          /\ \A i \in 1..n : \E j \in 1..Len(t) : t[j] = docs[i]
<1>1. m \in Nat /\ \A n \in 1..m : docs[n] \in Documents
  BY DocType
<1>2. PICK f : SortBy(f, docs) /\ ByScore(docs) = f[m]
  BY SortFunction
<1>3. f[0] = <<>>
  BY <1>1, <1>2 DEF SortBy
<1>4. \A n \in 1..m : f[n] = InsertAt(f[n - 1], PlaceOf(docs[n], f[n - 1]) + 1, docs[n])
  BY <1>1, <1>2 DEF SortBy
<1> HIDE DEF m
<1> DEFINE T == {n \in 0..m : Holds(f[n], n)}
<1>5. 0 \in T
  <2>1. <<>> \in Seq(Documents) /\ Len(<<>>) = 0 /\ 0 \in 0..m /\ 1..0 = {}
    BY <1>1, EmptySeq
  <2>2. Sorted(<<>>)
    BY <2>1 DEF Sorted
  <2>3. Holds(<<>>, 0)
    BY <2>1, <2>2
  <2> QED BY <1>3, <2>1, <2>3
<1>6. ASSUME NEW n \in 1..m, n - 1 \in T PROVE n \in T
  <2>1. PICK s : s = f[n - 1]
    OBVIOUS
  <2>2. PICK t : t = f[n]
    OBVIOUS
  <2>3. s \in Seq(Documents) /\ Sorted(s) /\ \A i \in 1..(n - 1) : \E j \in 1..Len(s) : s[j] = docs[i]
    BY <1>6, <2>1
  <2>4. t = InsertAt(s, PlaceOf(docs[n], s) + 1, docs[n])
    BY <1>4, <2>1, <2>2
  <2>5. docs[n] \in Documents
    BY <1>1
  <2>6. /\ t \in Seq(Documents) /\ Sorted(t)
        /\ \A i \in 1..Len(s) : \E j \in 1..Len(t) : t[j] = s[i]
        /\ \E j \in 1..Len(t) : t[j] = docs[n]
    <3>1. s \in Seq(Documents) /\ Sorted(s)
      BY <2>3
    <3>2. \A u : u = InsertAt(s, PlaceOf(docs[n], s) + 1, docs[n]) =>
            /\ u \in Seq(Documents) /\ Sorted(u)
            /\ \A i \in 1..Len(s) : \E j \in 1..Len(u) : u[j] = s[i]
            /\ \E j \in 1..Len(u) : u[j] = docs[n]
      BY <2>5, <3>1, InsertSorts, Zenon
    <3> QED BY <2>4, <3>2, Zenon
  <2>7. ASSUME NEW i \in 1..n PROVE \E j \in 1..Len(t) : t[j] = docs[i]
    <3>1. CASE i = n
      BY <2>6, <3>1
    <3>2. CASE i # n
      <4>1. PICK j \in 1..Len(s) : s[j] = docs[i]
        BY <2>3, <3>2
      <4> QED BY <2>6, <4>1
    <3> QED BY <3>1, <3>2
  <2>8. n \in 0..m
    BY <1>1
  <2> QED BY <2>2, <2>6, <2>7, <2>8
<1> HIDE DEF T
<1>7. 0..m \subseteq T
  BY <1>1, <1>5, <1>6, Induction
<1>8. m \in 0..m
  BY <1>1
<1>9. Holds(f[m], m)
  BY <1>7, <1>8, Zenon DEF T
<1> QED BY <1>2, <1>9 DEF m

-----------------------------------------------------------------------------
(* Taking out duplicates                                                   *)

DedupeStep(t, d) == IF d.id # "" /\ d.id \in seen_doc_ids(t) THEN t ELSE Append(t, d)

DedupeBy(f, docs) ==
  f = [n \in 0..Len(docs) |-> IF n = 0 THEN <<>> ELSE DedupeStep(f[n - 1], docs[n])]

(* The function Deduped takes its value from.                              *)
LEMMA DedupeFunction ==
  ASSUME NEW docs \in Seq(Documents)
  PROVE  \E f : DedupeBy(f, docs) /\ Deduped(docs) = f[Len(docs)]
<1> DEFINE L == Seq(Documents)
<1>0. PICK m \in Nat : m = Len(docs)
  BY DocType
<1>1. \A n \in 1..m : docs[n] \in Documents
  BY <1>0, DocType
<1>2. <<>> \in L
  BY EmptySeq
<1>3. ASSUME NEW s \in L, NEW n \in 1..m PROVE DedupeStep(s, docs[n]) \in L
  <2>1. Append(s, docs[n]) \in L
    BY <1>1, AppendProperties
  <2> QED BY <2>1 DEF DedupeStep
<1>4. PICK step \in [L \X (1..m) -> L] :
        \A s \in L : \A n \in 1..m : step[<<s, n>>] = DedupeStep(s, docs[n])
  <2> DEFINE g == [z \in L \X (1..m) |-> DedupeStep(z[1], docs[z[2]])]
  <2> HIDE DEF L
  <2>1. g \in [L \X (1..m) -> L]
    BY <1>3
  <2>2. \A s \in L : \A n \in 1..m : g[<<s, n>>] = DedupeStep(s, docs[n])
    OBVIOUS
  <2> QED BY <2>1, <2>2
<1>5. PICK h : Iterates(h, m, <<>>, step) /\ h \in [0..m -> L]
  BY <1>2, RecursionExists, Zenon
<1> HIDE DEF L
<1>6. h \in [0..m -> L] /\ h[0] = <<>> /\ \A n \in 1..m : h[n] = step[<<h[n - 1], n>>]
  BY <1>5 DEF Iterates
<1>7. \A n \in 1..m : h[n] = DedupeStep(h[n - 1], docs[n])
  <2> TAKE n \in 1..m
  <2>1. n - 1 \in 0..m
    OBVIOUS
  <2>2. h[n - 1] \in L
    BY <1>6, <2>1
  <2> QED BY <1>4, <1>6, <2>2
<1>8. \A n \in 0..m : h[n] = IF n = 0 THEN <<>> ELSE DedupeStep(h[n - 1], docs[n])
  BY <1>6, <1>7
<1>9. h = [n \in 0..m |-> IF n = 0 THEN <<>> ELSE DedupeStep(h[n - 1], docs[n])]
  BY <1>6, <1>8
<1>10. DedupeBy(h, docs)
  BY <1>0, <1>9 DEF DedupeBy
<1> DEFINE f == CHOOSE f : DedupeBy(f, docs)
<1>11. DedupeBy(f, docs)
  BY <1>10
<1>12. Deduped(docs) = f[Len(docs)]
  BY DEF Deduped, DedupeBy, DedupeStep
<1> QED BY <1>11, <1>12

Distinct(t) == \A k, l \in 1..Len(t) : k # l /\ t[k].id = t[l].id => t[k].id = ""

(* The list t stands for the first n documents: it is made of them, has no *)
(* id twice, and each of them is there or a copy at least as good.         *)
StandsFor(t, docs, n) ==
  /\ t \in Seq(Documents) /\ Sorted(t) /\ Distinct(t)
  /\ \A k \in 1..Len(t) : \E p \in 1..n : t[k] = docs[p]
  /\ \A i \in 1..n : \E k \in 1..Len(t) : t[k].id = docs[i].id /\ t[k].score >= docs[i].score

LEMMA DedupeKeeps ==
  ASSUME NEW docs \in Seq(Documents), Sorted(docs), NEW n \in 1..Len(docs),
         NEW s, StandsFor(s, docs, n - 1)
  PROVE  \A t : t = DedupeStep(s, docs[n]) => StandsFor(t, docs, n)
<1> SUFFICES ASSUME NEW t, t = DedupeStep(s, docs[n]) PROVE StandsFor(t, docs, n)
  OBVIOUS
<1>1. /\ s \in Seq(Documents) /\ Sorted(s) /\ Distinct(s)
      /\ \A k \in 1..Len(s) : \E p \in 1..(n - 1) : s[k] = docs[p]
      /\ \A i \in 1..(n - 1) : \E k \in 1..Len(s) : s[k].id = docs[i].id /\ s[k].score >= docs[i].score
  BY DEF StandsFor
<1>2. /\ Len(docs) \in Nat /\ docs[n] \in Documents
      /\ \A i \in 1..Len(docs) : docs[i].score \in Int
  BY DocType
<1>3. Len(s) \in Nat /\ DOMAIN s = 1..Len(s) /\ \A k \in 1..Len(s) : s[k].score \in Int
  BY <1>1, DocType
<1>4. \A p \in 1..(n - 1) : p \in 1..n /\ p \in 1..Len(docs) /\ p <= n
  BY <1>2
<1>5. \A k \in 1..Len(s) : s[k].score >= docs[n].score
  <2> TAKE k \in 1..Len(s)
  <2>1. PICK p \in 1..(n - 1) : s[k] = docs[p]
    BY <1>1
  <2>2. docs[p].score >= docs[n].score
    BY <1>4, <2>1 DEF Sorted
  <2> QED BY <2>1, <2>2
<1>6. CASE docs[n].id # "" /\ docs[n].id \in seen_doc_ids(s)
  <2>1. t = s
    BY <1>6 DEF DedupeStep
  <2>2. PICK k \in 1..Len(s) : s[k].id = docs[n].id
    BY <1>3, <1>6 DEF seen_doc_ids
  <2>3. ASSUME NEW i \in 1..n
        PROVE  \E l \in 1..Len(s) : s[l].id = docs[i].id /\ s[l].score >= docs[i].score
    <3>1. CASE i = n
      BY <1>5, <2>2, <3>1
    <3>2. CASE i # n
      <4>1. i \in 1..(n - 1)
        BY <3>2
      <4> QED BY <1>1, <4>1
    <3> QED BY <3>1, <3>2
  <2>4. \A l \in 1..Len(s) : \E p \in 1..n : s[l] = docs[p]
    BY <1>1, <1>4
  <2>5. StandsFor(s, docs, n)
    BY <1>1, <2>3, <2>4 DEF StandsFor
  <2> QED BY <2>1, <2>5
<1>7. CASE ~ (docs[n].id # "" /\ docs[n].id \in seen_doc_ids(s))
  <2> DEFINE e == Len(s) + 1
  <2>1. t = Append(s, docs[n])
    BY <1>7 DEF DedupeStep
  <2>2. /\ t \in Seq(Documents) /\ Len(t) = e
        /\ (\A k \in 1..Len(s) : t[k] = s[k]) /\ t[e] = docs[n]
    BY <1>1, <1>2, <2>1, AppendProperties
  <2>3. \A k \in 1..e : k \in 1..Len(s) \/ k = e
    BY <1>3
  <2>4. e \in 1..e /\ (\A k \in 1..Len(s) : k \in 1..e /\ k # e /\ ~ (e <= k))
    BY <1>3
  <2> HIDE DEF e
  <2>5. ASSUME NEW i \in 1..e, NEW j \in 1..e, i <= j PROVE t[i].score >= t[j].score
    <3>1. CASE i \in 1..Len(s) /\ j \in 1..Len(s)
      BY <1>1, <2>2, <2>5, <3>1 DEF Sorted
    <3>2. CASE i \in 1..Len(s) /\ j = e
      BY <1>5, <2>2, <3>2
    <3>3. CASE i = e /\ j = e
      <4>1. t[i] = docs[n] /\ t[j] = docs[n] /\ docs[n].score \in Int
        BY <1>2, <2>2, <3>3
      <4> QED BY <4>1
    <3>4. ~ (i = e /\ j \in 1..Len(s))
      BY <2>4, <2>5
    <3> QED BY <2>3, <3>1, <3>2, <3>3, <3>4
  <2>6. \A k \in 1..Len(s) : s[k].id = docs[n].id => docs[n].id = ""
    BY <1>3, <1>7 DEF seen_doc_ids
  <2>7. ASSUME NEW i \in 1..e, NEW j \in 1..e, i # j, t[i].id = t[j].id PROVE t[i].id = ""
    <3>1. CASE i \in 1..Len(s) /\ j \in 1..Len(s)
      BY <1>1, <2>2, <2>7, <3>1 DEF Distinct
    <3>2. CASE i \in 1..Len(s) /\ j = e
      BY <2>2, <2>6, <2>7, <3>2
    <3>3. CASE i = e /\ j \in 1..Len(s)
      BY <2>2, <2>6, <2>7, <3>3
    <3> QED BY <2>3, <2>7, <3>1, <3>2, <3>3
  <2>8. \A k \in 1..e : \E p \in 1..n : t[k] = docs[p]
    <3> TAKE k \in 1..e
    <3>1. n \in 1..n
      OBVIOUS
    <3>2. CASE k = e
      BY <2>2, <3>1, <3>2
    <3>3. CASE k \in 1..Len(s)
      BY <1>1, <1>4, <2>2, <3>3
    <3> QED BY <2>3, <3>2, <3>3
  <2>9. ASSUME NEW i \in 1..n
        PROVE  \E k \in 1..e : t[k].id = docs[i].id /\ t[k].score >= docs[i].score
    <3>1. CASE i = n
      <4>1. docs[n].score >= docs[n].score
        BY <1>2
      <4> QED BY <2>2, <2>4, <3>1, <4>1
    <3>2. CASE i # n
      <4>1. i \in 1..(n - 1)
        BY <3>2
      <4>2. PICK k \in 1..Len(s) : s[k].id = docs[i].id /\ s[k].score >= docs[i].score
        BY <1>1, <4>1
      <4>3. k \in 1..e /\ t[k] = s[k]
        BY <2>2, <2>4
      <4> QED BY <4>2, <4>3
    <3> QED BY <3>1, <3>2
  <2>10. Sorted(t)
    BY <2>2, <2>5 DEF Sorted
  <2>11. Distinct(t)
    BY <2>2, <2>7 DEF Distinct
  <2> QED BY <2>2, <2>8, <2>9, <2>10, <2>11 DEF StandsFor
<1> QED BY <1>6, <1>7

(* Deduped keeps the best copy of every document.                          *)
LEMMA DedupeFacts ==
  ASSUME NEW docs \in Seq(Documents), Sorted(docs)
  PROVE  StandsFor(Deduped(docs), docs, Len(docs))
<1>0. PICK m \in Nat : m = Len(docs)
  BY DocType
<1>1. PICK f : DedupeBy(f, docs) /\ Deduped(docs) = f[m]
  BY <1>0, DedupeFunction
<1>2. f[0] = <<>>
  BY <1>0, <1>1 DEF DedupeBy
<1>3. \A n \in 1..m : f[n] = DedupeStep(f[n - 1], docs[n])
  BY <1>0, <1>1 DEF DedupeBy
<1> DEFINE T == {n \in 0..m : StandsFor(f[n], docs, n)}
<1>4. 0 \in T
  <2>1. <<>> \in Seq(Documents) /\ 1..Len(<<>>) = {} /\ 0 \in 0..m /\ 1..0 = {}
    BY EmptySeq
  <2>2. StandsFor(<<>>, docs, 0)
    BY <2>1 DEF StandsFor, Sorted, Distinct
  <2> QED BY <1>2, <2>1, <2>2
<1>5. ASSUME NEW n \in 1..m, n - 1 \in T PROVE n \in T
  <2>1. PICK s : s = f[n - 1]
    OBVIOUS
  <2>2. StandsFor(s, docs, n - 1)
    BY <1>5, <2>1
  <2>3. n \in 1..Len(docs) /\ n \in 0..m
    BY <1>0
  <2>4. \A t : t = DedupeStep(s, docs[n]) => StandsFor(t, docs, n)
    BY <2>2, <2>3, DedupeKeeps, Zenon
  <2>5. f[n] = DedupeStep(s, docs[n])
    BY <1>3, <2>1
  <2>6. StandsFor(f[n], docs, n)
    BY <2>4, <2>5, Zenon
  <2> QED BY <2>3, <2>6
<1> HIDE DEF T
<1>6. 0..m \subseteq T
  BY <1>4, <1>5, Induction
<1>7. m \in 0..m
  OBVIOUS
<1>8. StandsFor(f[m], docs, m)
  BY <1>6, <1>7, Zenon DEF T
<1> QED BY <1>0, <1>1, <1>8

-----------------------------------------------------------------------------
(* The documents the node returns                                          *)

(* What is cut off is no better than what is kept.                         *)
LEMMA CutFacts ==
  ASSUME NEW docs \in Seq(Documents), NEW u, StandsFor(u, docs, Len(docs))
  PROVE  \A t : t = Truncated(u) =>
           /\ t \in Seq(Documents) /\ Len(t) <= max_keep /\ Distinct(t)
           /\ \A i \in 1..Len(docs) :
                \/ \E k \in 1..Len(t) : t[k].id = docs[i].id /\ t[k].score >= docs[i].score
                \/ Len(t) = max_keep /\ \A k \in 1..Len(t) : t[k].score >= docs[i].score
<1> SUFFICES ASSUME NEW t, t = Truncated(u)
             PROVE  /\ t \in Seq(Documents) /\ Len(t) <= max_keep /\ Distinct(t)
                    /\ \A i \in 1..Len(docs) :
                         \/ \E k \in 1..Len(t) : t[k].id = docs[i].id /\ t[k].score >= docs[i].score
                         \/ Len(t) = max_keep /\ \A k \in 1..Len(t) : t[k].score >= docs[i].score
  OBVIOUS
<1>1. /\ u \in Seq(Documents) /\ Sorted(u) /\ Distinct(u)
      /\ \A i \in 1..Len(docs) : \E k \in 1..Len(u) : u[k].id = docs[i].id /\ u[k].score >= docs[i].score
  BY DEF StandsFor
<1>2. Len(u) \in Nat /\ max_keep \in Nat /\ \A i \in 1..Len(u) : u[i] \in Documents /\ u[i].score \in Int
  BY <1>1, DocType, AggregatorAssumption
<1>3. PICK n : n = IF Len(u) < max_keep THEN Len(u) ELSE max_keep
  OBVIOUS
<1>4. n \in Nat /\ n <= Len(u) /\ n <= max_keep /\ (n = Len(u) \/ n = max_keep)
  BY <1>2, <1>3
<1>5. t = SubSeq(u, 1, n)
  BY <1>3 DEF Truncated
<1>6. t \in Seq(Documents) /\ Len(t) = n /\ \A k \in 1..n : t[k] = u[k]
  BY <1>1, <1>2, <1>4, <1>5, SubSeqProperties
<1>7. \A k \in 1..n : k \in 1..Len(u)
  BY <1>2, <1>4
<1>8. Distinct(t)
  <2> SUFFICES ASSUME NEW k \in 1..n, NEW l \in 1..n, k # l, t[k].id = t[l].id PROVE t[k].id = ""
    BY <1>6 DEF Distinct
  <2>1. t[k] = u[k] /\ t[l] = u[l] /\ k \in 1..Len(u) /\ l \in 1..Len(u)
    BY <1>6, <1>7
  <2> QED BY <1>1, <2>1 DEF Distinct
<1>9. ASSUME NEW i \in 1..Len(docs)
      PROVE  \/ \E k \in 1..n : t[k].id = docs[i].id /\ t[k].score >= docs[i].score
             \/ n = max_keep /\ \A k \in 1..n : t[k].score >= docs[i].score
  <2>1. PICK l \in 1..Len(u) : u[l].id = docs[i].id /\ u[l].score >= docs[i].score
    BY <1>1
  <2>2. CASE l \in 1..n
    BY <1>6, <2>1, <2>2
  <2>3. CASE l \notin 1..n
    <3>1. n = max_keep /\ \A k \in 1..n : k <= l
      BY <1>2, <1>4, <2>1, <2>3
    <3>2. ASSUME NEW k \in 1..n PROVE t[k].score >= docs[i].score
      <4>1. t[k] = u[k] /\ k \in 1..Len(u) /\ k <= l
        BY <1>6, <1>7, <3>1
      <4>2. u[k].score >= u[l].score
        BY <1>1, <4>1 DEF Sorted
      <4>3. u[k].score \in Int /\ u[l].score \in Int /\ docs[i].score \in Int
        BY <1>2, <4>1, DocType
      <4> QED BY <2>1, <4>1, <4>2, <4>3
    <3> QED BY <3>1, <3>2
  <2> QED BY <2>2, <2>3
<1> QED BY <1>4, <1>6, <1>8, <1>9

Returned == plan_execution_status \in {"completed", "partial"}

(* When the plan has returned, every step has an entry of a known kind.    *)
LEMMA EveryStepEntered ==
  ASSUME TypeOK, DagInv, Returned
  PROVE  /\ \A i \in DOMAIN steps : \E k \in DOMAIN layers : i \in layers[k]
         /\ \A k \in DOMAIN layers : \A i \in layers[k] :
              i \in DOMAIN steps /\ docs_of(i) \in Seq(Documents)
<1>1. remaining = {} /\ layer = Len(layers) + 1
  BY DEF DagInv, Staged, Returned
<1>2. \A i \in DOMAIN steps : \E k \in DOMAIN layers : i \in layers[k]
  BY <1>1 DEF DagInv, Covered
<1>3. ASSUME NEW k \in DOMAIN layers, NEW i \in layers[k]
      PROVE  i \in DOMAIN steps /\ docs_of(i) \in Seq(Documents)
  <2>1. i \in DOMAIN steps /\ k < layer
    BY <1>1, <1>3 DEF TypeOK
  <2>2. steps[i].step_id \in Ids
    BY <2>1, StepType DEF TypeOK
  <2>3. PICK e : e = results[steps[i].step_id]
    OBVIOUS
  <2>4. e # 0
    BY <1>3, <2>1, <2>3 DEF DagInv, Entered
  <2>5. e \in DOMAIN steps
    BY <2>2, <2>3, <2>4 DEF TypeOK
  <2>6. returned[e] \in Outcomes \cup {Failed}
    BY <2>5 DEF TypeOK
  <2>7. <<>> \in Seq(Documents)
    BY EmptySeq
  <2>8. docs_of(i) = IF returned[e] = Failed THEN <<>> ELSE returned[e]
    BY <2>3 DEF docs_of
  <2> QED BY <2>1, <2>6, <2>7, <2>8, AggregatorAssumption
<1> QED BY <1>2, <1>3

(* Every step's id has a first entry.                                      *)
LEMMA FirstEntry ==
  ASSUME TypeOK, DagInv, Returned, NEW i \in DOMAIN steps
  PROVE  \E k \in DOMAIN layers : \E j \in layers[k] :
           EntersFirst(k, j) /\ steps[j].step_id = steps[i].step_id
<1> DEFINE same(k) == {j \in layers[k] : steps[j].step_id = steps[i].step_id}
           K == {k \in DOMAIN layers : same(k) # {}}
<1>1. DOMAIN layers = 1..Len(layers) /\ Len(layers) \in Nat /\ \A k \in DOMAIN layers : layers[k] \subseteq DOMAIN steps
  BY DEF TypeOK
<1>2. DOMAIN steps \subseteq Nat
  BY StepType DEF TypeOK
<1>3. K \in SUBSET Nat /\ K # {}
  <2>1. PICK k \in DOMAIN layers : i \in layers[k]
    BY EveryStepEntered
  <2> QED BY <1>1, <2>1
<1>4. PICK k \in K : \A l \in K : k <= l
  BY <1>3, LeastOf
<1>5. same(k) \in SUBSET Nat /\ same(k) # {}
  BY <1>1, <1>2, <1>4
<1>6. PICK j \in same(k) : \A p \in same(k) : j <= p
  BY <1>5, LeastOf
<1>7. ASSUME NEW l \in 1..k, NEW p \in layers[l], steps[p].step_id = steps[j].step_id
      PROVE  l = k /\ j <= p
  <2>1. l \in DOMAIN layers /\ k \in Nat
    BY <1>1, <1>4
  <2>2. steps[p].step_id = steps[i].step_id
    BY <1>6, <1>7
  <2>3. p \in same(l)
    BY <1>7, <2>2
  <2>4. l \in K
    BY <2>1, <2>3
  <2>5. k <= l
    BY <1>4, <2>4
  <2>6. l = k
    BY <2>1, <2>5
  <2> QED BY <1>6, <2>3, <2>6
<1>8. j \in layers[k] /\ steps[j].step_id = steps[i].step_id /\ k \in DOMAIN layers
  BY <1>4, <1>6
<1>9. EntersFirst(k, j)
  BY <1>7, <1>8 DEF EntersFirst
<1> QED BY <1>8, <1>9

(* The documents of a layer.                                               *)
LEMMA LayerDocs ==
  ASSUME TypeOK, DagInv, Returned, NEW k \in DOMAIN layers
  PROVE  /\ docs_of_layer(k) \in Seq(Documents)
         /\ \A j \in layers[k] : EntersFirst(k, j) =>
              \A i \in 1..Len(docs_of(j)) : \E p \in 1..Len(docs_of_layer(k)) :
                docs_of_layer(k)[p] = docs_of(j)[i]
<1>1. PICK ss : ss = [i \in DOMAIN steps |-> IF EntersFirst(k, i) THEN docs_of(i) ELSE <<>>]
  OBVIOUS
<1>2. DOMAIN steps = 1..Len(steps) /\ Len(steps) \in Nat
  BY StepType DEF TypeOK
<1>3. \A i \in DOMAIN steps : ss[i] = IF EntersFirst(k, i) THEN docs_of(i) ELSE <<>>
  BY <1>1
<1>4. ASSUME NEW i \in 1..Len(steps) PROVE ss[i] \in Seq(Documents)
  <2>1. CASE EntersFirst(k, i)
    <3>1. i \in layers[k]
      BY <2>1 DEF EntersFirst
    <3>2. docs_of(i) \in Seq(Documents)
      BY <3>1, EveryStepEntered
    <3> QED BY <1>2, <1>3, <2>1, <3>2
  <2>2. CASE ~ EntersFirst(k, i)
    BY <1>2, <1>3, <2>2, EmptySeq
  <2> QED BY <2>1, <2>2
<1>5. ss \in Seq(Seq(Documents)) /\ Len(ss) = Len(steps)
  <2> DEFINE L == Seq(Documents)
  <2> HIDE DEF L
  <2>1. ss = [i \in 1..Len(steps) |-> ss[i]] /\ \A i \in 1..Len(steps) : ss[i] \in L
    BY <1>1, <1>2, <1>4 DEF L
  <2>2. ss \in Seq(L) /\ Len(ss) = Len(steps)
    BY <1>2, <2>1
  <2> QED BY <2>2 DEF L
<1>6. docs_of_layer(k) = FlattenSeq(ss)
  BY <1>1 DEF docs_of_layer
<1>7. /\ FlattenSeq(ss) \in Seq(Documents)
      /\ \A j \in 1..Len(ss) : \A i \in 1..Len(ss[j]) : \E p \in 1..Len(FlattenSeq(ss)) :
           FlattenSeq(ss)[p] = ss[j][i]
  BY <1>5, FlattenFacts
<1>8. ASSUME NEW j \in layers[k], EntersFirst(k, j), NEW i \in 1..Len(docs_of(j))
      PROVE  \E p \in 1..Len(FlattenSeq(ss)) : FlattenSeq(ss)[p] = docs_of(j)[i]
  <2>1. j \in DOMAIN steps
    BY EveryStepEntered
  <2>2. ss[j] = docs_of(j)
    BY <1>3, <1>8, <2>1
  <2>3. j \in 1..Len(ss)
    BY <1>2, <1>5, <2>1
  <2> QED BY <1>7, <2>2, <2>3, Zenon
<1> QED BY <1>6, <1>7, <1>8

(* all_rag_docs has every document of a successful step whose result       *)
(* stands.                                                                 *)
LEMMA AllDocs ==
  ASSUME TypeOK, DagInv, Returned
  PROVE  /\ all_rag_docs \in Seq(Documents)
         /\ \A i \in DOMAIN steps : results[steps[i].step_id] = i /\ returned[i] # Failed =>
              /\ returned[i] \in Seq(Documents)
              /\ \A n \in 1..Len(returned[i]) : \E p \in 1..Len(all_rag_docs) :
                   all_rag_docs[p] = returned[i][n]
<1>1. PICK ss : ss = [k \in DOMAIN layers |-> docs_of_layer(k)]
  OBVIOUS
<1>2. DOMAIN layers = 1..Len(layers) /\ Len(layers) \in Nat
  BY DEF TypeOK
<1>3. \A k \in DOMAIN layers : ss[k] = docs_of_layer(k) /\ ss[k] \in Seq(Documents)
  BY <1>1, LayerDocs
<1>4. ss \in Seq(Seq(Documents)) /\ Len(ss) = Len(layers)
  <2> DEFINE L == Seq(Documents)
  <2>1. ss = [k \in 1..Len(layers) |-> ss[k]] /\ \A k \in 1..Len(layers) : ss[k] \in L
    BY <1>1, <1>2, <1>3
  <2> HIDE DEF L
  <2>2. ss \in Seq(L) /\ Len(ss) = Len(layers)
    BY <1>2, <2>1
  <2> QED BY <2>2 DEF L
<1>5. all_rag_docs = FlattenSeq(ss)
  BY <1>1 DEF all_rag_docs
<1>6. /\ FlattenSeq(ss) \in Seq(Documents)
      /\ \A j \in 1..Len(ss) : \A i \in 1..Len(ss[j]) : \E p \in 1..Len(FlattenSeq(ss)) :
           FlattenSeq(ss)[p] = ss[j][i]
  BY <1>4, FlattenFacts
<1>7. ASSUME NEW i \in DOMAIN steps, results[steps[i].step_id] = i, returned[i] # Failed
      PROVE  /\ returned[i] \in Seq(Documents)
             /\ \A n \in 1..Len(returned[i]) : \E p \in 1..Len(FlattenSeq(ss)) :
                  FlattenSeq(ss)[p] = returned[i][n]
  <2>1. returned[i] \in Seq(Documents)
    BY <1>7, AggregatorAssumption DEF TypeOK
  <2>2. PICK k \in DOMAIN layers :
          \E j \in layers[k] : EntersFirst(k, j) /\ steps[j].step_id = steps[i].step_id
    BY FirstEntry
  <2>3. PICK j \in layers[k] : EntersFirst(k, j) /\ steps[j].step_id = steps[i].step_id
    BY <2>2
  <2>4. docs_of(j) = returned[i]
    BY <1>7, <2>3 DEF docs_of
  <2>5. ASSUME NEW n \in 1..Len(returned[i])
        PROVE  \E p \in 1..Len(FlattenSeq(ss)) : FlattenSeq(ss)[p] = returned[i][n]
    <3>1. PICK q \in 1..Len(docs_of_layer(k)) : docs_of_layer(k)[q] = returned[i][n]
      BY <2>3, <2>4, <2>5, LayerDocs
    <3>2. k \in 1..Len(ss) /\ q \in 1..Len(ss[k]) /\ ss[k][q] = returned[i][n]
      BY <1>2, <1>3, <1>4, <3>1
    <3> QED BY <1>6, <3>2, Zenon
  <2> QED BY <2>1, <2>5
<1> QED BY <1>5, <1>6, <1>7

LEMMA BestDocuments == TypeOK /\ DagInv => BestDocumentsAreKept
<1> SUFFICES ASSUME TypeOK, DagInv, Returned PROVE BestDocumentsAreKept
  BY DEF BestDocumentsAreKept, Returned
<1>1. PICK docs : docs = all_rag_docs
  OBVIOUS
<1>2. docs \in Seq(Documents)
  BY <1>1, AllDocs
<1>3. PICK s : s = ByScore(docs)
  OBVIOUS
<1>4. /\ s \in Seq(Documents) /\ Sorted(s)
      /\ \A i \in 1..Len(docs) : \E j \in 1..Len(s) : s[j] = docs[i]
  BY <1>2, <1>3, SortFacts
<1>5. StandsFor(Deduped(s), s, Len(s))
  BY <1>4, DedupeFacts
<1>6. PICK t : t = Truncated(Deduped(s))
  OBVIOUS
<1>7. /\ t \in Seq(Documents) /\ Len(t) <= max_keep /\ Distinct(t)
      /\ \A i \in 1..Len(s) :
           \/ \E k \in 1..Len(t) : t[k].id = s[i].id /\ t[k].score >= s[i].score
           \/ Len(t) = max_keep /\ \A k \in 1..Len(t) : t[k].score >= s[i].score
  <2>1. s \in Seq(Documents)
    BY <1>4
  <2>2. \A u : u = Truncated(Deduped(s)) =>
          /\ u \in Seq(Documents) /\ Len(u) <= max_keep /\ Distinct(u)
          /\ \A i \in 1..Len(s) :
               \/ \E k \in 1..Len(u) : u[k].id = s[i].id /\ u[k].score >= s[i].score
               \/ Len(u) = max_keep /\ \A k \in 1..Len(u) : u[k].score >= s[i].score
    BY <1>5, <2>1, CutFacts, Zenon
  <2> QED BY <1>6, <2>2, Zenon
<1>8. rag_docs = t /\ DOMAIN t = 1..Len(t)
  BY <1>1, <1>3, <1>6, <1>7, DocType DEF rag_docs
<1>9. ASSUME NEW i \in DOMAIN steps, results[steps[i].step_id] = i, returned[i] # Failed,
             NEW n \in DOMAIN returned[i]
      PROVE  \/ \E k \in 1..Len(t) : t[k].id = returned[i][n].id /\ t[k].score >= returned[i][n].score
             \/ Len(t) = max_keep /\ \A k \in 1..Len(t) : t[k].score >= returned[i][n].score
  <2>1. returned[i] \in Seq(Documents)
    BY <1>9, AllDocs
  <2>2. n \in 1..Len(returned[i])
    BY <1>9, <2>1, DocType
  <2>3. PICK p \in 1..Len(docs) : docs[p] = returned[i][n]
    BY <1>1, <1>9, <2>2, AllDocs
  <2>4. PICK q \in 1..Len(s) : s[q] = returned[i][n]
    BY <1>4, <2>3
  <2> QED BY <1>7, <2>4, Zenon
<1>10. \A k, l \in 1..Len(t) : k # l /\ t[k].id = t[l].id => t[k].id = ""
  BY <1>7 DEF Distinct
<1> QED BY <1>7, <1>8, <1>9, <1>10 DEF BestDocumentsAreKept

(* ResultAggregator.aggregate: for every plan, whatever the steps return   *)
(* and whatever the limit, no document of an entered successful step is    *)
(* lost to a worse one, to a duplicate of lower score or to the order the  *)
(* parallel steps end in.                                                  *)
THEOREM BestDocumentsKept == Spec => []BestDocumentsAreKept
BY DagInvariant, BestDocuments, PTL

=============================================================================
