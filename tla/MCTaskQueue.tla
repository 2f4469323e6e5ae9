---------------------------- MODULE MCTaskQueue ----------------------------
(* Small instances of TaskQueue.                                           *)
EXTENDS TaskQueue, TLC

(* Executors differ in their names only.                                   *)
Symmetry == Permutations(Workers)
=============================================================================
