-------------------------- MODULE ResultAggregator --------------------------
(***************************************************************************)
(* plan_executor_node as a whole: the scheduler, and the documents         *)
(* ResultAggregator.aggregate makes of the results it returns.  An outcome *)
(* is the sequence of documents a retrieval step returned; a document has  *)
(* an id, "" if it has none, and a normalized relevance score.             *)
(***************************************************************************)
EXTENDS DagScheduler, SequencesExt

CONSTANT max_keep

Documents == [id : STRING, score : Int]

ASSUME AggregatorAssumption == max_keep \in Nat /\ Outcomes \subseteq Seq(Documents)

(* Step i of layer k is the first of its id to be entered.                 *)
EntersFirst(k, i) ==
  /\ i \in layers[k]
  /\ \A l \in 1..k : \A j \in layers[l] :
       steps[j].step_id = steps[i].step_id => l = k /\ i <= j

(* list(results.values()), reduced to the documents of the successful      *)
(* steps: an id keeps the place of its first entry, the layers come one    *)
(* after the other and the steps of a layer in the order of the plan.      *)
docs_of(i) ==
  LET entry == results[steps[i].step_id]
  IN IF returned[entry] = Failed THEN <<>> ELSE returned[entry]

docs_of_layer(k) ==
  FlattenSeq([i \in DOMAIN steps |-> IF EntersFirst(k, i) THEN docs_of(i) ELSE <<>>])

all_rag_docs == FlattenSeq([k \in DOMAIN layers |-> docs_of_layer(k)])

(* Where document d belongs in a sorted list: behind those as good as it.  *)
PlaceOf(d, docs) ==
  CHOOSE k \in 0..Len(docs) :
    /\ \A i \in 1..k : docs[i].score >= d.score
    /\ \A i \in (k + 1)..Len(docs) : docs[i].score < d.score

(* sort(reverse=True) by score; Python's sort is stable.                   *)
ByScore(docs) ==
  LET sorted[n \in 0..Len(docs)] ==
        IF n = 0 THEN <<>>
        ELSE InsertAt(sorted[n - 1], PlaceOf(docs[n], sorted[n - 1]) + 1, docs[n])
  IN sorted[Len(docs)]

seen_doc_ids(docs) == {docs[k].id : k \in DOMAIN docs}

(* The first document of every id; those without an id all stay.           *)
Deduped(docs) ==
  LET deduped[n \in 0..Len(docs)] ==
        IF n = 0 THEN <<>>
        ELSE IF docs[n].id # "" /\ docs[n].id \in seen_doc_ids(deduped[n - 1]) THEN deduped[n - 1]
        ELSE Append(deduped[n - 1], docs[n])
  IN deduped[Len(docs)]

Truncated(docs) == SubSeq(docs, 1, IF Len(docs) < max_keep THEN Len(docs) ELSE max_keep)

(* Mutant: the list is cut before the duplicates are taken out.            *)
rag_docs_cut_first == Deduped(Truncated(ByScore(all_rag_docs)))

rag_docs == Truncated(Deduped(ByScore(all_rag_docs)))

(* ResultAggregator.aggregate: the node returns the best documents of the  *)
(* parallel steps.  Ids are not repeated, and a document of a successful   *)
(* step whose result stands is missing only if a better or equal copy of   *)
(* it is there or the list is full of documents at least as good.          *)
BestDocumentsAreKept ==
  plan_execution_status \in {"completed", "partial"} =>
    LET kept == rag_docs
    IN /\ Len(kept) <= max_keep
       /\ \A k, l \in DOMAIN kept : k # l /\ kept[k].id = kept[l].id => kept[k].id = ""
       /\ \A i \in DOMAIN steps :
            results[steps[i].step_id] = i /\ returned[i] # Failed =>
              \A n \in DOMAIN returned[i] :
                \/ \E k \in DOMAIN kept :
                     kept[k].id = returned[i][n].id /\ kept[k].score >= returned[i][n].score
                \/ Len(kept) = max_keep
                   /\ \A k \in DOMAIN kept : kept[k].score >= returned[i][n].score

=============================================================================
