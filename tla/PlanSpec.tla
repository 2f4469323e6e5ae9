------------------------------ MODULE PlanSpec ------------------------------
(***************************************************************************)
(* What plan_executor promises of an execution plan, without layers: every *)
(* step is executed once, after a step of each id it depends on has ended, *)
(* whether that one succeeded or not; a plan some steps of which can never *)
(* start is dropped as a whole, before any step has started.               *)
(***************************************************************************)
EXTENDS Integers, Sequences

CONSTANTS Ids, Plans

VARIABLES
  plan,     \* sequence of steps, each an id and the ids it depends on
  state,    \* "open", "dropped" or "closed"
  phase     \* of every step: "waiting", "running" or "ended"

specVars == <<plan, state, phase>>

(* Some steps wait for ids that only they carry, or nobody.                *)
Stuck(p) ==
  \E S \in SUBSET DOMAIN p :
    /\ S # {}
    /\ \A i \in S : \E d \in p[i].depends_on : \A j \in DOMAIN p \ S : p[j].step_id # d

PInit ==
  /\ plan \in Plans /\ state = "open" /\ phase = [i \in DOMAIN plan |-> "waiting"]

Drop ==
  /\ state = "open" /\ (plan = <<>> \/ Stuck(plan))
  /\ \A i \in DOMAIN plan : phase[i] = "waiting"
  /\ state' = "dropped" /\ UNCHANGED <<plan, phase>>

Start(i) ==
  /\ state = "open" /\ phase[i] = "waiting"
  /\ \A d \in plan[i].depends_on :
       \E j \in DOMAIN plan : plan[j].step_id = d /\ phase[j] = "ended"
  /\ phase' = [phase EXCEPT ![i] = "running"] /\ UNCHANGED <<plan, state>>

End(i) ==
  /\ state = "open" /\ phase[i] = "running"
  /\ phase' = [phase EXCEPT ![i] = "ended"] /\ UNCHANGED <<plan, state>>

Close ==
  /\ state = "open" /\ plan # <<>>
  /\ \A i \in DOMAIN plan : phase[i] = "ended"
  /\ state' = "closed" /\ UNCHANGED <<plan, phase>>

PNext == Drop \/ Close \/ \E i \in DOMAIN plan : Start(i) \/ End(i)

(* Every plan is closed or dropped in the end.                             *)
PSpec == PInit /\ [][PNext]_specVars /\ WF_specVars(PNext)

=============================================================================
