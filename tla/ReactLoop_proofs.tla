-------------------------- MODULE ReactLoop_proofs --------------------------
(***************************************************************************)
(* Safety of ReactLoop for every budget, LoopGuard configuration and set   *)
(* of tool calls.                                                          *)
(***************************************************************************)
EXTENDS ReactLoop, FiniteSetTheorems, TLAPS

-----------------------------------------------------------------------------
(* Types                                                                   *)

(* The signature of an action.                                             *)
LEMMA SignatureType == \A a \in Action : SignatureOf(a) \in Signature
BY DEF Action, Signature, SignatureOf

(* The gain of a call is a number.                                         *)
LEMMA GainType ==
  ASSUME NEW found \in SUBSET EvidenceIds
  PROVE  Cardinality(found \ evidence) \in Nat
<1>1. IsFiniteSet(found \ evidence)
  BY ReactInputsAssumption, FS_Subset
<1> QED BY <1>1, FS_CardinalityType

(* What _update_loop_guard records.                                        *)
LEMMA ObservationType ==
  ASSUME NEW s \in Signature, NEW g \in Nat
  PROVE  [signature |-> s, gain |-> g] \in Observation
BY DEF Observation

(* An iteration appends an entry to the history.                           *)
LEMMA EntryType ==
  ASSUME NEW h \in Seq(HistoryEntry), NEW a \in Action,
         NEW r \in {"denied", "approval", "done", "failed"}
  PROVE  Append(h, [action |-> a, result |-> r]) \in Seq(HistoryEntry)
<1>1. [action |-> a, result |-> r] \in HistoryEntry
  BY DEF HistoryEntry
<1> QED BY <1>1

(* A score is appended to the score history.                               *)
LEMMA ScoreType ==
  ASSUME NEW h \in Seq(1..100), NEW score \in 1..100
  PROVE  Append(h, score) \in Seq(1..100)
OBVIOUS

LEMMA TypeInit == Init => TypeOK
<1> SUFFICES ASSUME Init PROVE TypeOK
  OBVIOUS
<1>1. /\ failures \in Seq({"policy", "tool", "reason"}) /\ action_history \in Seq(HistoryEntry)
      /\ rerank_score_history \in Seq(1..100) /\ retrieval_observations \in Seq(Observation)
  BY DEF Init
<1> QED BY <1>1 DEF Init, TypeOK, FinishReasons

(* _update_loop_guard keeps the types of LoopGuardState.                   *)
LEMMA GuardType ==
  ASSUME TypeOK, NEW a \in Action, NEW gain \in Nat, NEW score \in (1..100) \cup {NoScore},
         _update_loop_guard(a, gain, score)
  PROVE  /\ action_signature' \in Signature
         /\ same_action_count' \in Nat /\ rerank_drop_count' \in Nat
         /\ rerank_score_history' \in Seq(1..100)
         /\ retrieval_observations' \in Seq(Observation)
<1>1. action_signature' \in Signature /\ retrieval_observations' \in Seq(Observation)
  BY SignatureType, ObservationType DEF _update_loop_guard, TypeOK
<1>2. same_action_count' \in Nat
  BY DEF _update_loop_guard, TypeOK, SameActionCount
<1>3. rerank_drop_count' \in Nat
  BY DEF _update_loop_guard, TypeOK, RerankDropCount
<1>4. rerank_score_history' \in Seq(1..100)
  <2>1. CASE score = NoScore
    BY <2>1 DEF _update_loop_guard, TypeOK
  <2>2. CASE score # NoScore
    <3>1. score \in 1..100 /\ rerank_score_history \in Seq(1..100)
      BY <2>2 DEF TypeOK
    <3> QED BY <2>2, <3>1, ScoreType DEF _update_loop_guard
  <2> QED BY <2>1, <2>2
<1> QED BY <1>1, <1>2, <1>3, <1>4

LEMMA TypeNext == TypeOK /\ [Next]_vars => TypeOK'
<1> SUFFICES ASSUME TypeOK, [Next]_vars PROVE TypeOK'
  OBVIOUS
<1>a. \A a \in Actions : a \in Action
  BY ReactInputsAssumption
<1>b. action_history \in Seq(HistoryEntry)
  BY DEF TypeOK
<1> USE DEF TypeOK, Iterate, guardVars, FinishReasons
<1>1. CASE BudgetExhausted BY <1>1 DEF BudgetExhausted
<1>2. CASE LoopGuardStops BY <1>2 DEF LoopGuardStops, _check_loop_guard_termination
<1>3. CASE ReasonFails BY <1>3 DEF ReasonFails
<1>4. CASE ModelStops BY <1>4 DEF ModelStops
<1>5. ASSUME NEW a \in Actions, PolicyDenies(a) PROVE TypeOK'
  <2>1. action_history' \in Seq(HistoryEntry)
    BY <1>a, <1>b, <1>5, EntryType, Zenon DEF PolicyDenies, Refuse
  <2> QED BY <1>5, <2>1 DEF PolicyDenies, Refuse
<1>6. ASSUME NEW a \in Actions, NeedsApproval(a) PROVE TypeOK'
  <2>1. action_history' \in Seq(HistoryEntry)
    BY <1>a, <1>b, <1>6, EntryType, Zenon DEF NeedsApproval, Refuse
  <2> QED BY <1>6, <2>1 DEF NeedsApproval, Refuse
<1>7. ASSUME NEW a \in Actions, ToolSucceeds(a) PROVE TypeOK'
  <2> PICK found \in SUBSET EvidenceIds : \E score \in RerankScores(a, found) :
           /\ evidence' = evidence \cup found
           /\ _update_loop_guard(a, Cardinality(found \ evidence), score)
    BY <1>7 DEF ToolSucceeds
  <2> PICK score \in RerankScores(a, found) :
           /\ evidence' = evidence \cup found
           /\ _update_loop_guard(a, Cardinality(found \ evidence), score)
    OBVIOUS
  <2>1. score \in (1..100) \cup {NoScore}
    BY ReactInputsAssumption DEF RerankScores
  <2>2. /\ action_signature' \in Signature
        /\ same_action_count' \in Nat /\ rerank_drop_count' \in Nat
        /\ rerank_score_history' \in Seq(1..100)
        /\ retrieval_observations' \in Seq(Observation)
    BY <1>a, <2>1, GainType, GuardType
  <2>3. action_history' \in Seq(HistoryEntry)
    BY <1>a, <1>b, <1>7, EntryType, Zenon DEF ToolSucceeds
  <2> QED BY <1>7, <2>2, <2>3 DEF ToolSucceeds, CountToolCall
<1>8. ASSUME NEW a \in Actions, ToolFails(a) PROVE TypeOK'
  <2>1. action_history' \in Seq(HistoryEntry)
    BY <1>a, <1>b, <1>8, EntryType, Zenon DEF ToolFails
  <2> QED BY <1>8, <2>1 DEF ToolFails, CountToolCall
<1>9. ASSUME NEW a \in Actions, RunRaises(a) PROVE TypeOK'
  BY <1>9 DEF RunRaises, CountToolCall
<1>10. CASE DeadlinePasses BY <1>10 DEF DeadlinePasses
<1>11. CASE UNCHANGED vars BY <1>11 DEF vars
<1> QED
  BY <1>1, <1>2, <1>3, <1>4, <1>5, <1>6, <1>7, <1>8, <1>9, <1>10, <1>11
  DEF Next, Step, Returned

(* ReactState and LoopGuardState keep their types.                         *)
THEOREM ReactTypeCorrect == Spec => []TypeOK
BY TypeInit, TypeNext, PTL DEF Spec

-----------------------------------------------------------------------------
(* The budget                                                              *)

LEMMA BudgetNext == TypeOK /\ BudgetIsKept /\ [Next]_vars => BudgetIsKept'
<1> SUFFICES ASSUME TypeOK, BudgetIsKept, [Next]_vars PROVE BudgetIsKept'
  OBVIOUS
<1>a. step_count \in Nat /\ tool_call_count \in Nat /\ db_query_count \in Nat
      /\ llm_call_count \in Nat
  BY DEF TypeOK
<1> USE <1>a, ReactBoundsAssumption
<1> USE DEF BudgetIsKept, Iterate, can_proceed
<1>1. CASE BudgetExhausted BY <1>1 DEF BudgetExhausted
<1>2. CASE LoopGuardStops BY <1>2 DEF LoopGuardStops
<1>3. CASE ReasonFails BY <1>3 DEF ReasonFails
<1>4. CASE ModelStops BY <1>4 DEF ModelStops
<1>5. ASSUME NEW a \in Actions, PolicyDenies(a) PROVE BudgetIsKept'
  BY <1>5 DEF PolicyDenies, Refuse
<1>6. ASSUME NEW a \in Actions, NeedsApproval(a) PROVE BudgetIsKept'
  BY <1>6 DEF NeedsApproval, Refuse
<1>7. ASSUME NEW a \in Actions, ToolSucceeds(a) PROVE BudgetIsKept'
  BY <1>7 DEF ToolSucceeds, CountToolCall
<1>8. ASSUME NEW a \in Actions, ToolFails(a) PROVE BudgetIsKept'
  BY <1>8 DEF ToolFails, CountToolCall
<1>9. ASSUME NEW a \in Actions, RunRaises(a) PROVE BudgetIsKept'
  BY <1>9 DEF RunRaises, CountToolCall
<1>10. CASE DeadlinePasses BY <1>10 DEF DeadlinePasses
<1>11. CASE UNCHANGED vars BY <1>11 DEF vars
<1> QED
  BY <1>1, <1>2, <1>3, <1>4, <1>5, <1>6, <1>7, <1>8, <1>9, <1>10, <1>11
  DEF Next, Step, Returned

(* No counter of the budget passes its limit, whatever the model asks for. *)
THEOREM BudgetHolds == Spec => []BudgetIsKept
<1>1. Init => BudgetIsKept
  BY ReactBoundsAssumption DEF Init, BudgetIsKept
<1> QED BY <1>1, TypeInit, TypeNext, BudgetNext, PTL DEF Spec

-----------------------------------------------------------------------------
(* The decline of the rerank scores                                        *)

(* A count of c means that the last c + 2 scores of h fell in a row.       *)
Falling(h, c) ==
  c > 0 => /\ Len(h) >= c + 2
           /\ \A i \in (Len(h) - c)..Len(h) : h[i - 1] - h[i] >= min_rerank_drop

(* DeclineIsReal is not inductive: it says nothing of the count.           *)
DropInv ==
  /\ Falling(rerank_score_history, rerank_drop_count)
  /\ finish_reason = "rerank_declining" => rerank_drop_count >= rerank_drop_limit

(* One more score that continues the decline.                              *)
LEMMA FallingExtends ==
  ASSUME NEW h \in Seq(1..100), NEW score \in 1..100, NEW c \in Nat,
         Falling(h, c), LastThreeDecline(Append(h, score))
  PROVE  Falling(Append(h, score), c + 1)
<1> DEFINE g == Append(h, score)
<1>1. Len(g) = Len(h) + 1 /\ Len(h) \in Nat
  OBVIOUS
<1>2. \A i \in 1..Len(h) : g[i] = h[i]
  OBVIOUS
<1>3. Len(g) >= 3 /\ g[Len(g) - 2] - g[Len(g) - 1] >= min_rerank_drop
      /\ g[Len(g) - 1] - g[Len(g)] >= min_rerank_drop
  BY DEF LastThreeDecline
<1>4. CASE c = 0
  <2>1. \A i \in (Len(g) - 1)..Len(g) : i = Len(g) - 1 \/ i = Len(g)
    BY <1>1
  <2>2. \A i \in (Len(g) - 1)..Len(g) : g[i - 1] - g[i] >= min_rerank_drop
    <3> TAKE i \in (Len(g) - 1)..Len(g)
    <3>1. CASE i = Len(g)
      BY <3>1, <1>3
    <3>2. CASE i = Len(g) - 1
      <4>1. i - 1 = Len(g) - 2
        BY <3>2, <1>1
      <4> QED BY <4>1, <3>2, <1>3
    <3> QED BY <3>1, <3>2, <2>1
  <2> QED BY <1>4, <1>1, <1>3, <2>2 DEF Falling
<1>5. CASE c > 0
  <2>1. Len(h) >= c + 2 /\ \A i \in (Len(h) - c)..Len(h) : h[i - 1] - h[i] >= min_rerank_drop
    BY <1>5 DEF Falling
  <2>2. \A i \in (Len(g) - (c + 1))..Len(g) : g[i - 1] - g[i] >= min_rerank_drop
    <3> TAKE i \in (Len(g) - (c + 1))..Len(g)
    <3>1. CASE i = Len(g)
      BY <3>1, <1>3
    <3>2. CASE i # Len(g)
      <4>1. i \in (Len(h) - c)..Len(h) /\ i \in 1..Len(h) /\ i - 1 \in 1..Len(h)
        BY <3>2, <1>1, <2>1
      <4>2. g[i] = h[i] /\ g[i - 1] = h[i - 1]
        BY <4>1, <1>2
      <4> QED BY <4>1, <4>2, <2>1
    <3> QED BY <3>1, <3>2
  <2>3. Len(g) >= (c + 1) + 2
    BY <1>1, <2>1
  <2> HIDE DEF g
  <2>4. Falling(g, c + 1)
    BY <2>2, <2>3 DEF Falling
  <2> QED BY <2>4 DEF g
<1> QED BY <1>4, <1>5

(* Before the third score the count is 0 and stays 0.                      *)
LEMMA DropUpdate ==
  ASSUME NEW a \in Action, NEW gain \in Nat, NEW score \in (1..100) \cup {NoScore},
         TypeOK, DropInv, _update_loop_guard(a, gain, score)
  PROVE  Falling(rerank_score_history', rerank_drop_count')
<1>a. rerank_score_history \in Seq(1..100) /\ rerank_drop_count \in Nat
  BY DEF TypeOK
<1>b. Falling(rerank_score_history, rerank_drop_count)
  BY DEF DropInv
<1>1. CASE score = NoScore
  BY <1>1, <1>b DEF _update_loop_guard
<1>2. CASE score # NoScore
  <2> DEFINE g == Append(rerank_score_history, score)
  <2>1. score \in 1..100
    BY <1>2
  <2>2. rerank_score_history' = g /\ rerank_drop_count' = RerankDropCount(g, gain)
    BY <1>2 DEF _update_loop_guard
  <2>3. CASE rerank_drop_count' = rerank_drop_count + 1
    <3>1. LastThreeDecline(g) \/ rerank_drop_count' \in {0, rerank_drop_count}
      BY <2>2 DEF RerankDropCount
    <3>2. LastThreeDecline(g)
      BY <3>1, <2>3, <1>a
    <3> HIDE DEF g
    <3>3. Falling(g, rerank_drop_count + 1)
      BY <3>2, <2>1, <1>a, <1>b, FallingExtends DEF g
    <3> QED BY <2>2, <2>3, <3>3
  <2>4. CASE rerank_drop_count' = 0
    BY <2>4 DEF Falling
  <2>5. CASE rerank_drop_count' = rerank_drop_count /\ Len(g) < 3
    <3>1. Len(rerank_score_history) < 2
      BY <2>5, <1>a
    <3>2. rerank_drop_count = 0
      BY <3>1, <1>a, <1>b DEF Falling
    <3> QED BY <3>2, <2>5 DEF Falling
  <2>6. Len(g) \in Nat
    BY <2>1, <1>a
  <2> QED BY <2>2, <2>3, <2>4, <2>5, <2>6 DEF RerankDropCount
<1> QED BY <1>1, <1>2

LEMMA DropNext == TypeOK /\ DropInv /\ [Next]_vars => DropInv'
<1> SUFFICES ASSUME TypeOK, DropInv, [Next]_vars PROVE DropInv'
  OBVIOUS
<1> USE ReactBoundsAssumption
<1>a. ASSUME UNCHANGED guardVars, finish_reason' # "rerank_declining" PROVE DropInv'
  BY <1>a DEF DropInv, guardVars, Falling
<1>1. CASE BudgetExhausted BY <1>a, <1>1 DEF BudgetExhausted
<1>2. CASE LoopGuardStops
  <2>1. finish_reason' = "rerank_declining" => rerank_drop_count >= rerank_drop_limit
    BY <1>2 DEF LoopGuardStops, _check_loop_guard_termination
  <2> QED BY <1>2, <2>1 DEF LoopGuardStops, guardVars, DropInv, Falling
<1>3. CASE ReasonFails BY <1>a, <1>3 DEF ReasonFails
<1>4. CASE ModelStops BY <1>a, <1>4 DEF ModelStops
<1>5. ASSUME NEW a \in Actions, PolicyDenies(a) PROVE DropInv'
  BY <1>a, <1>5 DEF PolicyDenies, Refuse
<1>6. ASSUME NEW a \in Actions, NeedsApproval(a) PROVE DropInv'
  BY <1>a, <1>6 DEF NeedsApproval, Refuse, Iterate
<1>7. ASSUME NEW a \in Actions, ToolSucceeds(a) PROVE DropInv'
  <2> PICK found \in SUBSET EvidenceIds : \E score \in RerankScores(a, found) :
           _update_loop_guard(a, Cardinality(found \ evidence), score)
    BY <1>7 DEF ToolSucceeds
  <2> PICK score \in RerankScores(a, found) :
           _update_loop_guard(a, Cardinality(found \ evidence), score)
    OBVIOUS
  <2>1. score \in (1..100) \cup {NoScore} /\ a \in Action
    BY ReactInputsAssumption DEF RerankScores
  <2>2. Falling(rerank_score_history', rerank_drop_count')
    BY <2>1, GainType, DropUpdate
  <2>3. finish_reason' = "running"
    BY <1>7 DEF ToolSucceeds, Iterate
  <2> QED BY <2>2, <2>3 DEF DropInv
<1>8. ASSUME NEW a \in Actions, ToolFails(a) PROVE DropInv'
  BY <1>a, <1>8 DEF ToolFails, Iterate
<1>9. ASSUME NEW a \in Actions, RunRaises(a) PROVE DropInv'
  BY <1>a, <1>9 DEF RunRaises
<1>10. CASE DeadlinePasses BY <1>a, <1>10 DEF DeadlinePasses
<1>11. CASE UNCHANGED vars BY <1>11 DEF vars, DropInv, Falling
<1> QED
  BY <1>1, <1>2, <1>3, <1>4, <1>5, <1>6, <1>7, <1>8, <1>9, <1>10, <1>11
  DEF Next, Step, Returned

(* LoopGuard never ends a run for a decline its score history does not     *)
(* show, for any limits and any scores.                                    *)
THEOREM DeclinesAreReal == Spec => []DeclineIsReal
<1>1. Init => DropInv
  BY DEF Init, DropInv, Falling
<1>2. TypeOK /\ DropInv => DeclineIsReal
  <2> SUFFICES ASSUME TypeOK, DropInv, finish_reason = "rerank_declining"
               PROVE  LET n == Len(rerank_score_history)
                      IN  /\ n >= rerank_drop_limit + 2
                          /\ \A i \in (n - rerank_drop_limit)..n :
                               rerank_score_history[i - 1] - rerank_score_history[i]
                                 >= min_rerank_drop
    BY DEF DeclineIsReal
  <2> DEFINE n == Len(rerank_score_history)
  <2>1. n \in Nat /\ rerank_drop_count \in Nat /\ rerank_drop_count >= rerank_drop_limit
        /\ rerank_drop_limit > 0
    BY ReactBoundsAssumption DEF TypeOK, DropInv
  <2>2. /\ n >= rerank_drop_count + 2
        /\ \A i \in (n - rerank_drop_count)..n :
             rerank_score_history[i - 1] - rerank_score_history[i] >= min_rerank_drop
    BY <2>1, ReactBoundsAssumption DEF DropInv, Falling
  <2>3. \A i \in (n - rerank_drop_limit)..n : i \in (n - rerank_drop_count)..n
    BY <2>1, ReactBoundsAssumption
  <2> QED BY <2>1, <2>2, <2>3, ReactBoundsAssumption
<1> QED BY <1>1, <1>2, TypeInit, TypeNext, DropNext, PTL DEF Spec

-----------------------------------------------------------------------------
(* Stagnation                                                              *)

(* Does observation j of o repeat the one before without new evidence?     *)
Repeats(o, j) == o[j].signature = o[j - 1].signature /\ o[j].gain < min_evidence_gain

(* StuckAt for any sequence of observations.                               *)
StuckIn(o, i) ==
  i >= same_action_limit /\ \A j \in (i - same_action_limit + 2)..i : Repeats(o, j)

(* c is the length of the run of repetitions at the end of o.              *)
RunLength(o, c) ==
  /\ c <= Len(o) /\ (Len(o) > 0 => c >= 1)
  /\ \A j \in (Len(o) - c + 2)..Len(o) : Repeats(o, j)
  /\ c < Len(o) => ~ Repeats(o, Len(o) - c + 1)

(* Nothing went on after a run of same_action_limit.                       *)
NoneStuck(o) == \A i \in 1..Len(o) : StuckIn(o, i) => i = Len(o)

(* StagnationStops relates observations; LoopGuard only has its count and  *)
(* the last signature, so the invariant says what they stand for.          *)
StagInv ==
  /\ RunLength(retrieval_observations, same_action_count)
  /\ NoneStuck(retrieval_observations)
  /\ Len(retrieval_observations) > 0
       => action_signature = retrieval_observations[Len(retrieval_observations)].signature
  /\ finish_reason = "same_action_loop" => same_action_count >= same_action_limit

(* Earlier observations are kept when one is added.                        *)
LEMMA AppendKeeps ==
  ASSUME NEW o \in Seq(Observation), NEW x \in Observation
  PROVE  /\ Append(o, x) \in Seq(Observation)
         /\ Len(Append(o, x)) = Len(o) + 1 /\ Len(o) \in Nat
         /\ Append(o, x)[Len(o) + 1] = x
         /\ \A i \in 1..Len(o) : Append(o, x)[i] = o[i]
         /\ \A j \in 2..Len(o) : Repeats(Append(o, x), j) <=> Repeats(o, j)
<1>1. /\ Append(o, x) \in Seq(Observation)
      /\ Len(Append(o, x)) = Len(o) + 1 /\ Len(o) \in Nat
      /\ Append(o, x)[Len(o) + 1] = x
  OBVIOUS
<1>2. \A i \in 1..Len(o) : Append(o, x)[i] = o[i]
  OBVIOUS
<1>3. ASSUME NEW j \in 2..Len(o) PROVE Repeats(Append(o, x), j) <=> Repeats(o, j)
  <2>1. j \in 1..Len(o) /\ j - 1 \in 1..Len(o)
    BY <1>1
  <2> QED BY <2>1, <1>2 DEF Repeats
<1> QED BY <1>1, <1>2, <1>3

(* A run shorter than the limit is not stuck, and stays so in the past.    *)
LEMMA NotStuck ==
  ASSUME NEW o \in Seq(Observation), NEW x \in Observation, NEW c \in Nat,
         RunLength(o, c), NoneStuck(o), c < same_action_limit
  PROVE  NoneStuck(Append(o, x))
<1> DEFINE g == Append(o, x)
<1>1. Len(g) = Len(o) + 1 /\ Len(o) \in Nat
  BY AppendKeeps
<1>2. \A j \in 2..Len(o) : Repeats(g, j) <=> Repeats(o, j)
  BY AppendKeeps
<1>a. same_action_limit \in Nat /\ same_action_limit > 1
  BY ReactBoundsAssumption
<1> HIDE DEF g
<1>3. ASSUME NEW i \in 1..Len(g), StuckIn(g, i), i # Len(g) PROVE FALSE
  <2>1. i \in 1..Len(o) /\ i >= same_action_limit
    BY <1>3, <1>1 DEF StuckIn
  <2>2. \A j \in (i - same_action_limit + 2)..i : j \in 2..Len(o)
    BY <2>1, <1>1, <1>a
  <2>3. StuckIn(o, i)
    BY <1>3, <2>1, <2>2, <1>2 DEF StuckIn
  <2>4. i = Len(o)
    BY <2>1, <2>3 DEF NoneStuck
  <2>5. c < Len(o) /\ c >= 1
    BY <2>1, <2>4, <1>1, <1>a DEF RunLength
  <2>6. ~ Repeats(o, Len(o) - c + 1)
    BY <2>5 DEF RunLength
  <2>7. Len(o) - c + 1 \in (i - same_action_limit + 2)..i
    BY <2>4, <2>5, <1>1, <1>a
  <2> QED BY <2>3, <2>6, <2>7 DEF StuckIn
<1>4. NoneStuck(g)
  BY <1>3 DEF NoneStuck
<1> QED BY <1>4 DEF g

(* The count LoopGuard keeps is the length of the last run.                *)
LEMMA RunExtends ==
  ASSUME NEW o \in Seq(Observation), NEW x \in Observation, NEW c \in Nat, NEW d \in Nat,
         RunLength(o, c),
         Len(o) = 0 => d = 1,
         Len(o) > 0 /\ Repeats(Append(o, x), Len(o) + 1) => d = c + 1,
         Len(o) > 0 /\ ~ Repeats(Append(o, x), Len(o) + 1) => d = 1
  PROVE  RunLength(Append(o, x), d)
<1> DEFINE g == Append(o, x)
<1>1. Len(g) = Len(o) + 1 /\ Len(o) \in Nat
  BY AppendKeeps
<1>2. \A j \in 2..Len(o) : Repeats(g, j) <=> Repeats(o, j)
  BY AppendKeeps
<1>3. /\ Len(o) > 0 /\ Repeats(g, Len(o) + 1) => d = c + 1
      /\ Len(o) > 0 /\ ~ Repeats(g, Len(o) + 1) => d = 1
  OBVIOUS
<1> HIDE DEF g
<1>4. CASE Len(o) = 0
  <2>1. Len(g) = 1 /\ d = 1
    BY <1>1, <1>4
  <2> QED BY <2>1 DEF RunLength, g
<1>5. CASE Len(o) > 0 /\ ~ Repeats(g, Len(o) + 1)
  <2>1. d = 1 /\ ~ Repeats(g, Len(g) - d + 1) /\ Len(g) - d + 2 > Len(g) /\ d <= Len(g)
    BY <1>1, <1>3, <1>5
  <2>2. RunLength(g, d)
    BY <1>1, <2>1 DEF RunLength
  <2> QED BY <2>2 DEF g
<1>6. CASE Len(o) > 0 /\ Repeats(g, Len(o) + 1)
  <2>1. d = c + 1 /\ c <= Len(o) /\ c >= 1
    BY <1>3, <1>6 DEF RunLength
  <2>2. ASSUME NEW j \in (Len(g) - d + 2)..Len(g) PROVE Repeats(g, j)
    <3>1. CASE j = Len(o) + 1
      BY <3>1, <1>6
    <3>2. CASE j # Len(o) + 1
      <4>1. j \in (Len(o) - c + 2)..Len(o) /\ j \in 2..Len(o)
        BY <3>2, <2>1, <1>1
      <4> QED BY <4>1, <1>2 DEF RunLength
    <3> QED BY <3>1, <3>2
  <2>3. ASSUME d < Len(g) PROVE ~ Repeats(g, Len(g) - d + 1)
    <3>1. c < Len(o) /\ Len(g) - d + 1 = Len(o) - c + 1 /\ Len(o) - c + 1 \in 2..Len(o)
      BY <2>1, <2>3, <1>1
    <3>2. ~ Repeats(o, Len(o) - c + 1)
      BY <3>1 DEF RunLength
    <3> QED BY <3>1, <3>2, <1>2
  <2>4. d <= Len(g) /\ d >= 1
    BY <2>1, <1>1
  <2>5. RunLength(g, d)
    BY <2>2, <2>3, <2>4 DEF RunLength
  <2> QED BY <2>5 DEF g
<1> QED BY <1>1, <1>4, <1>5, <1>6

(* A successful call.                                                      *)
LEMMA StagUpdate ==
  ASSUME NEW a \in Action, NEW gain \in Nat, NEW score, TypeOK, StagInv,
         same_action_count < same_action_limit, _update_loop_guard(a, gain, score)
  PROVE  /\ RunLength(retrieval_observations', same_action_count')
         /\ NoneStuck(retrieval_observations')
         /\ Len(retrieval_observations') > 0
              => action_signature' = retrieval_observations'[Len(retrieval_observations')].signature
<1> DEFINE o == retrieval_observations
           x == [signature |-> SignatureOf(a), gain |-> gain]
           c == same_action_count
           d == same_action_count'
<1>1. o \in Seq(Observation) /\ c \in Nat
  BY DEF TypeOK
<1>2. x \in Observation /\ x.signature = SignatureOf(a) /\ x.gain = gain
  BY SignatureType DEF Observation
<1>3. retrieval_observations' = Append(o, x) /\ action_signature' = SignatureOf(a)
  BY DEF _update_loop_guard
<1>4. d = SameActionCount(a, gain)
  BY DEF _update_loop_guard
<1>5. RunLength(o, c) /\ NoneStuck(o) /\ (Len(o) > 0 => action_signature = o[Len(o)].signature)
  BY DEF StagInv
<1>6. d \in Nat
  BY <1>1, <1>4 DEF SameActionCount
<1>7. Len(o) \in Nat /\ Append(o, x)[Len(o) + 1] = x /\ Len(Append(o, x)) = Len(o) + 1
      /\ \A i \in 1..Len(o) : Append(o, x)[i] = o[i]
  BY <1>1, <1>2, AppendKeeps
<1>8. Len(o) = 0 => d = 1
  BY <1>1, <1>4, <1>5, <1>7 DEF SameActionCount, RunLength
<1>9. ASSUME Len(o) > 0
      PROVE  Repeats(Append(o, x), Len(o) + 1)
               <=> SignatureOf(a) = action_signature /\ gain < min_evidence_gain
  <2>1. (Len(o) + 1) - 1 = Len(o) /\ Len(o) \in 1..Len(o)
    BY <1>7, <1>9
  <2>2. Append(o, x)[(Len(o) + 1) - 1] = o[Len(o)]
    BY <2>1, <1>7
  <2> HIDE DEF o, x
  <2> QED BY <2>2, <1>2, <1>5, <1>7, <1>9 DEF Repeats
<1>10. /\ Len(o) > 0 /\ Repeats(Append(o, x), Len(o) + 1) => d = c + 1
       /\ Len(o) > 0 /\ ~ Repeats(Append(o, x), Len(o) + 1) => d = 1
  BY <1>4, <1>9 DEF SameActionCount
<1>11. c < same_action_limit
  OBVIOUS
<1> HIDE DEF o, x, c, d
<1>12. RunLength(Append(o, x), d)
  BY <1>1, <1>2, <1>5, <1>6, <1>8, <1>10, RunExtends
<1>13. NoneStuck(Append(o, x))
  BY <1>1, <1>2, <1>5, <1>11, NotStuck
<1>14. Append(o, x)[Len(Append(o, x))].signature = SignatureOf(a)
  BY <1>2, <1>7
<1> QED BY <1>3, <1>12, <1>13, <1>14 DEF d

LEMMA StagNext == TypeOK /\ StagInv /\ [Next]_vars => StagInv'
<1> SUFFICES ASSUME TypeOK, StagInv, [Next]_vars PROVE StagInv'
  OBVIOUS
<1>a. ASSUME UNCHANGED guardVars, finish_reason' # "same_action_loop" PROVE StagInv'
  BY <1>a DEF StagInv, guardVars
<1>1. CASE BudgetExhausted BY <1>a, <1>1 DEF BudgetExhausted
<1>2. CASE LoopGuardStops
  <2>1. finish_reason' = "same_action_loop" => same_action_count >= same_action_limit
    BY <1>2 DEF LoopGuardStops, _check_loop_guard_termination
  <2> QED BY <1>2, <2>1 DEF LoopGuardStops, guardVars, StagInv
<1>3. CASE ReasonFails BY <1>a, <1>3 DEF ReasonFails
<1>4. CASE ModelStops BY <1>a, <1>4 DEF ModelStops
<1>5. ASSUME NEW a \in Actions, PolicyDenies(a) PROVE StagInv'
  BY <1>a, <1>5 DEF PolicyDenies, Refuse
<1>6. ASSUME NEW a \in Actions, NeedsApproval(a) PROVE StagInv'
  BY <1>a, <1>6 DEF NeedsApproval, Refuse, Iterate
<1>7. ASSUME NEW a \in Actions, ToolSucceeds(a) PROVE StagInv'
  <2> PICK found \in SUBSET EvidenceIds : \E score \in RerankScores(a, found) :
           _update_loop_guard(a, Cardinality(found \ evidence), score)
    BY <1>7 DEF ToolSucceeds
  <2> PICK score \in RerankScores(a, found) :
           _update_loop_guard(a, Cardinality(found \ evidence), score)
    OBVIOUS
  <2>1. a \in Action
    BY ReactInputsAssumption
  <2>2. same_action_count < same_action_limit
    BY <1>7, ReactBoundsAssumption
    DEF ToolSucceeds, Iterate, _check_loop_guard_termination, TypeOK
  <2>3. finish_reason' = "running"
    BY <1>7 DEF ToolSucceeds, Iterate
  <2>4. /\ RunLength(retrieval_observations', same_action_count')
        /\ NoneStuck(retrieval_observations')
        /\ Len(retrieval_observations') > 0
             => action_signature' = retrieval_observations'[Len(retrieval_observations')].signature
    BY <2>1, <2>2, GainType, StagUpdate
  <2> QED BY <2>3, <2>4 DEF StagInv
<1>8. ASSUME NEW a \in Actions, ToolFails(a) PROVE StagInv'
  BY <1>a, <1>8 DEF ToolFails, Iterate
<1>9. ASSUME NEW a \in Actions, RunRaises(a) PROVE StagInv'
  BY <1>a, <1>9 DEF RunRaises
<1>10. CASE DeadlinePasses BY <1>a, <1>10 DEF DeadlinePasses
<1>11. CASE UNCHANGED vars BY <1>11 DEF vars, StagInv
<1> QED
  BY <1>1, <1>2, <1>3, <1>4, <1>5, <1>6, <1>7, <1>8, <1>9, <1>10, <1>11
  DEF Next, Step, Returned

(* LoopGuard ends a run exactly when same_action_limit successful calls    *)
(* were one action without new evidence, for any limit and any calls.      *)
THEOREM StagnationEnds == Spec => []StagnationStops
<1>1. Init => StagInv
  <2> SUFFICES ASSUME Init PROVE StagInv
    OBVIOUS
  <2>1. Len(retrieval_observations) = 0 /\ same_action_count = 0 /\ finish_reason = "running"
    BY DEF Init
  <2> QED BY <2>1 DEF StagInv, RunLength, NoneStuck
<1>2. TypeOK /\ StagInv => StagnationStops
  <2> SUFFICES ASSUME TypeOK, StagInv PROVE StagnationStops
    OBVIOUS
  <2> DEFINE o == retrieval_observations
  <2>1. \A i \in DOMAIN o : StuckAt(i) <=> StuckIn(o, i)
    BY DEF StuckAt, StuckIn, Repeats
  <2>2. Len(o) \in Nat /\ DOMAIN o = 1..Len(o)
    BY DEF TypeOK
  <2>3. \A i \in DOMAIN o : StuckAt(i) => i = Len(o)
    BY <2>1, <2>2 DEF StagInv, NoneStuck
  <2>4. ASSUME finish_reason = "same_action_loop" PROVE StuckAt(Len(o))
    <3>1. /\ same_action_count \in Nat /\ same_action_count >= same_action_limit
          /\ same_action_count <= Len(o) /\ same_action_limit \in Nat
      BY <2>4, ReactBoundsAssumption DEF StagInv, RunLength, TypeOK
    <3>2. \A j \in (Len(o) - same_action_count + 2)..Len(o) : Repeats(o, j)
      BY DEF StagInv, RunLength
    <3>3. \A j \in (Len(o) - same_action_limit + 2)..Len(o) :
             j \in (Len(o) - same_action_count + 2)..Len(o)
      BY <3>1, <2>2
    <3> QED BY <3>1, <3>2, <3>3, <2>2 DEF StuckAt, Repeats
  <2> QED BY <2>3, <2>4 DEF StagnationStops
<1> QED BY <1>1, <1>2, TypeInit, TypeNext, StagNext, PTL DEF Spec

=============================================================================
