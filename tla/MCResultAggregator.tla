------------------------- MODULE MCResultAggregator -------------------------
(* Plans of up to three steps: every choice of dependencies among them and *)
(* one that is no step, cycles included, and plans with a repeated id.     *)
EXTENDS ResultAggregator

Step(id, deps) == [step_id |-> id, depends_on |-> deps]

Doc(id, score) == [id |-> id, score |-> score]

MCPlans ==
  {<<>>}
  \cup {<<Step("a", x), Step("b", y), Step("c", z)>> :
          x \in SUBSET {"b", "c"}, y \in SUBSET Ids, z \in SUBSET Ids}
  \cup {<<Step("a", x), Step("b", y), Step("a", z)>> :
          x \in SUBSET {"b"}, y \in SUBSET {"a"}, z \in SUBSET {"a", "b"}}

(* Duplicates across steps, a better and a worse copy, one without an id.  *)
MCOutcomes ==
  { <<>>, <<Doc("d1", 1), Doc("d2", 3)>>, <<Doc("d1", 2), Doc("", 1)>> }

=============================================================================
