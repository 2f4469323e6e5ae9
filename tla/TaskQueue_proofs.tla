-------------------------- MODULE TaskQueue_proofs --------------------------
(***************************************************************************)
(* Safety of TaskQueue for any number of executors, parts, runs, crashes   *)
(* and cancel requests: no task is lost, attempts are bounded, a cancelled *)
(* document stays cancelled, and what the rows say of the chunks is true.  *)
(***************************************************************************)
EXTENDS TaskQueue, FiniteSetTheorems, TLAPS

-----------------------------------------------------------------------------
(* The inductive invariant.                                                *)

Steps == {"idle", "build", "inserting", "inserted", "count", "finish", "finally", "log", "down"}

Busy(w) == at[w] \notin {"idle", "down"}

(* TypeOK, and that task is a function.                                    *)
Types == TypeOK /\ task \in [Workers -> Tasks \cup {None}]

(* What the progress thread may write.                                     *)
SyncInv == sync = NoSync \/ sync.run \in {"UNSTART", "RUNNING", "DONE", "FAIL"}

(* The rows are those of the last run, or none.                            *)
RowsInv == rows = IF run = "removed" \/ runs = 0 THEN {} ELSE {runs} \X Parts

(* What is not parsed yet has left no trace.                               *)
FutureInv ==
  /\ \A t \in Tasks : t[1] > runs => ~ chunk_ids[t] /\ attempts[t] = 0
  /\ \A t \in to_push \cup stream \cup unsent : t[1] <= runs
  /\ \A w \in Workers : \A t \in pending[w] : t[1] <= runs

(* A message is in one place: to be pushed, in the stream, not sent, or    *)
(* pending at one executor, which has not seen it since it restarted, or   *)
(* works on it, or has left it.                                            *)
MessageInv ==
  /\ to_push \cap stream = {} /\ unsent \cap (to_push \cup stream) = {}
  /\ \A w \in Workers : pending[w] \cap (to_push \cup stream \cup unsent) = {}
  /\ \A v, w \in Workers : v # w => pending[v] \cap pending[w] = {}
  /\ \A w \in Workers : unacked[w] \subseteq pending[w]
  /\ \A w \in Workers : Busy(w) => task[w] \in pending[w] \ unacked[w]

(* A handler settles its task before it acknowledges, and finishes it only *)
(* after indexing.                                                         *)
SettledInv ==
  \A w \in Workers : task[w] \in rows =>
    /\ at[w] \in {"log", "finally"} => ~ Unfinished(task[w])
    /\ at[w] \in {"build", "inserting", "inserted"} => progress[task[w]] # Finished

FlagInv == canceled \subseteq flagged

AttemptInv ==
  \A t \in Tasks : attempts[t] <= retry_count[t] /\ attempts[t] <= max_attempts

(* While nobody cancels, what the rows claim is in the store.              *)
IndexInv ==
  flagged = {} =>
    /\ \A t \in rows : chunk_ids[t] => Part(t) \in store
    /\ \A w \in Workers : at[w] = "inserted" /\ task[w] \in rows => Part(task[w]) \in store

(* Chunk ids are noted in the course of an attempt.                        *)
NotedInv ==
  /\ \A t \in to_push \cup stream : attempts[t] = 0 => ~ chunk_ids[t]
  /\ \A w \in Workers : \A t \in pending[w] : attempts[t] = 0 => ~ chunk_ids[t]
  /\ \A w \in Workers : Busy(w) => attempts[task[w]] > 0
  /\ \A w \in Workers :
       at[w] \in {"build", "inserting", "inserted"} /\ attempts[task[w]] <= 1 =>
         ~ chunk_ids[task[w]]

(* Without an overlap every message is of the last run.                    *)
CurrentInv ==
  ~ overlapped =>
    /\ \A t \in to_push \cup stream : t[1] = runs
    /\ \A w \in Workers : \A t \in pending[w] : t[1] = runs

(* The tasks whose chunks were counted are a set X of the rows: those that *)
(* finished with chunks are in it, a handler about to count is not.        *)
CountedSet(X) ==
  /\ X \subseteq rows /\ IsFiniteSet(X) /\ chunk_num = Cardinality(X)
  /\ \A t \in X : chunk_ids[t]
  /\ \A t \in rows : progress[t] = Finished /\ chunk_ids[t] => t \in X
  /\ \A w \in Workers :
       at[w] = "count" => task[w] \notin X /\ (task[w] \in rows => chunk_ids[task[w]])
  /\ \A w \in Workers : at[w] = "finish" /\ task[w] \in rows => task[w] \in X

HandledOnce == ~ overlapped /\ flagged = {} /\ \A t \in rows : attempts[t] <= 1

CountInv == HandledOnce => \E X \in SUBSET rows : CountedSet(X)

(* After the removal every message is flagged, and what is in the store    *)
(* has a handler that will see the flag and clean up.                      *)
Cleans(w) == at[w] \in {"inserted", "count", "finish", "finally"} /\ task[w] \in flagged

RemovedInv ==
  run = "removed" /\ ~ overlapped =>
    /\ to_push \cup stream \subseteq flagged
    /\ \A w \in Workers : pending[w] \subseteq flagged
    /\ crashes = 0 /\ canceled = flagged /\ store # {} => \E w \in Workers : Cleans(w)

(* The parts that need no counting of chunks, and all of it.               *)
QueueInv ==
  /\ Types /\ SyncInv /\ RowsInv /\ FutureInv /\ MessageInv /\ SettledInv /\ FlagInv
  /\ AttemptInv /\ NoTaskIsLost /\ IndexInv /\ NotedInv /\ CurrentInv /\ CountInv /\ RemovedInv

-----------------------------------------------------------------------------
(* Tasks and their messages.                                               *)

LEMMA TaskFacts ==
  /\ MaxRuns \in Nat /\ max_attempts \in Nat
  /\ \A t \in Tasks : t[1] \in Nat /\ t[1] <= MaxRuns /\ t[1] > 0 /\ Part(t) \in Parts
                      /\ t = <<t[1], Part(t)>>
  /\ \A n \in 1..MaxRuns : \A p \in Parts : <<n, p>> \in Tasks /\ Part(<<n, p>>) = p
BY QueueAssumption DEF Tasks, Part

(* The rows a request to parse keeps, and the parts it finds chunks for.   *)
Kept(d) == IF d THEN {} ELSE rows

Reused(d) == {p \in Parts : Reusable(p, Kept(d)) # {}}

(* What a request to parse does to the rows, the messages and the store.   *)
LEMMA RunFacts ==
  ASSUME Types, NEW d \in BOOLEAN, run_document(d)
  PROVE  /\ run # "removed" /\ run' = "RUNNING" /\ runs' = runs + 1 /\ runs + 1 \in 1..MaxRuns
         /\ rows' = {runs + 1} \X Parts /\ rows' \subseteq Tasks
         /\ to_push' = to_push \cup {t \in rows' : Part(t) \notin Reused(d)}
         /\ \A t \in rows' : Part(t) \in Reused(d) => progress'[t] = Finished /\ chunk_ids'[t] = TRUE
         /\ \A t \in Tasks : t \notin rows' \/ Part(t) \notin Reused(d) =>
              progress'[t] = progress[t] /\ chunk_ids'[t] = chunk_ids[t]
         /\ progress' \in [Tasks -> -1..2] /\ chunk_ids' \in [Tasks -> BOOLEAN]
         /\ chunk_num' = Cardinality(Reused(d))
         /\ store' \subseteq store /\ (~ d => store \cap Reused(d) \subseteq store')
         /\ doc_progress' = Started /\ retry_count' = retry_count
<1> DEFINE indexed == IF d THEN {} ELSE store
           new(p) == <<runs + 1, p>>
           old == {Part(t) : t \in {u \in Kept(d) : chunk_ids[u]}}
<1>1. queue_tasks(Kept(d), indexed) /\ run # "removed" /\ runs < MaxRuns /\ runs' = runs + 1
  BY DEF run_document, Kept
<1>2. runs \in Nat /\ MaxRuns \in Nat /\ runs + 1 \in 1..MaxRuns
  BY <1>1, QueueAssumption DEF Types, TypeOK
<1>3. /\ rows' = {new(p) : p \in Parts}
      /\ progress' = [t \in Tasks |-> IF t \in {new(p) : p \in Reused(d)} THEN Finished ELSE progress[t]]
      /\ chunk_ids' = [t \in Tasks |-> IF t \in {new(p) : p \in Reused(d)} THEN TRUE ELSE chunk_ids[t]]
      /\ to_push' = to_push \cup {new(p) : p \in Parts \ Reused(d)}
      /\ run' = "RUNNING" /\ chunk_num' = Cardinality(Reused(d))
      /\ store' = indexed \ (old \ Reused(d)) /\ doc_progress' = Started /\ retry_count' = retry_count
  BY <1>1 DEF queue_tasks, Reused
<1>4. Reused(d) \subseteq Parts
  BY DEF Reused
<1>5. rows' = {runs + 1} \X Parts
  BY <1>3
<1>6. rows' \subseteq Tasks
  BY <1>2, <1>5 DEF Tasks
<1>7. \A t \in rows' : t = new(Part(t)) /\ Part(t) \in Parts
  BY <1>5 DEF Part
<1>8. \A p : Part(new(p)) = p
  BY DEF Part
<1>9. {new(p) : p \in Reused(d)} = {t \in rows' : Part(t) \in Reused(d)}
  BY <1>3, <1>4, <1>7, <1>8
<1>10. {new(p) : p \in Parts \ Reused(d)} = {t \in rows' : Part(t) \notin Reused(d)}
  BY <1>3, <1>7, <1>8
<1>11. progress \in [Tasks -> -1..2] /\ chunk_ids \in [Tasks -> BOOLEAN]
  BY DEF Types, TypeOK
<1>12. \A t \in rows' : Part(t) \in Reused(d) => progress'[t] = Finished /\ chunk_ids'[t] = TRUE
  BY <1>3, <1>6, <1>9
<1>13. \A t \in Tasks : t \notin rows' \/ Part(t) \notin Reused(d) =>
         progress'[t] = progress[t] /\ chunk_ids'[t] = chunk_ids[t]
  BY <1>3, <1>9
<1>14. progress' \in [Tasks -> -1..2]
  <2>1. Finished \in -1..2
    BY DEF Finished
  <2> QED BY <1>3, <1>11, <2>1, Zenon
<1>15. chunk_ids' \in [Tasks -> BOOLEAN]
  BY <1>3, <1>11, Zenon
<1>16. store' \subseteq store /\ (~ d => store \cap Reused(d) \subseteq store')
  BY <1>3
<1> QED BY <1>1, <1>2, <1>3, <1>5, <1>6, <1>10, <1>12, <1>13, <1>14, <1>15, <1>16

-----------------------------------------------------------------------------
(* Types.                                                                  *)

LEMMA TypesInit == Init => Types
<1> SUFFICES ASSUME Init PROVE Types
  OBVIOUS
<1>1. /\ run \in Runs /\ doc_progress \in -1..2 /\ chunk_num \in Nat /\ runs \in 0..MaxRuns
      /\ crashes \in 0..MaxCrashes /\ cancels \in 0..MaxCancels
  BY QueueAssumption DEF Init, Runs, NotStarted
<1>2. progress \in [Tasks -> -1..2] /\ retry_count \in [Tasks -> Nat] /\ attempts \in [Tasks -> Nat]
  BY DEF Init, NotStarted
<1>3. chunk_ids \in [Tasks -> BOOLEAN] /\ overlapped \in BOOLEAN
  BY Zenon DEF Init
<1>4. sync \in [run : Runs \cup {"none"}, progress : -1..3]
  BY DEF Init, NoSync, NotStarted
<1> QED BY <1>1, <1>2, <1>3, <1>4 DEF Init, Types, TypeOK

LEMMA TypesNext ==
  ASSUME Types, SyncInv, [Next]_vars
  PROVE  Types'
<1> USE QueueAssumption DEF Types, TypeOK, Runs, NotStarted, Started, Finished, Bad, Keep
<1>1. ASSUME NEW d \in BOOLEAN, run_document(d) PROVE Types'
  <2>1. Cardinality(Reused(d)) \in Nat
    <3>1. IsFiniteSet(Reused(d))
      BY FS_Subset DEF Reused
    <3> QED BY <3>1, FS_CardinalityType
  <2>2. overlapped' \in BOOLEAN
    BY <1>1 DEF run_document
  <2> HIDE DEF Types, TypeOK
  <2>3. /\ run' \in Runs /\ runs' \in 0..MaxRuns /\ rows' \in SUBSET Tasks /\ progress' \in [Tasks -> -1..2]
        /\ chunk_ids' \in [Tasks -> BOOLEAN] /\ to_push' \subseteq to_push \cup rows' /\ chunk_num' \in Nat
        /\ store' \subseteq store /\ doc_progress' \in -1..2 /\ retry_count' = retry_count
    <3>1. runs + 1 \in 1..MaxRuns => runs + 1 \in 0..MaxRuns
      OBVIOUS
    <3>2. Started \in -1..2 /\ "RUNNING" \in Runs
      OBVIOUS
    <3>3. /\ run' = "RUNNING" /\ runs' = runs + 1 /\ runs + 1 \in 1..MaxRuns
          /\ rows' \subseteq Tasks /\ to_push' \subseteq to_push \cup rows'
          /\ progress' \in [Tasks -> -1..2] /\ chunk_ids' \in [Tasks -> BOOLEAN]
          /\ chunk_num' = Cardinality(Reused(d)) /\ store' \subseteq store
          /\ doc_progress' = Started /\ retry_count' = retry_count
      BY <1>1, RunFacts
    <3> QED BY <2>1, <3>1, <3>2, <3>3
  <2> USE DEF Types, TypeOK
  <2> QED BY <1>1, <2>2, <2>3 DEF run_document, execVars
<1>2. CASE cancel_document
  BY <1>2 DEF cancel_document, cancel_all_task_of, rowVars, execVars
<1>3. CASE stop_parsing
  BY <1>3 DEF stop_parsing, cancel_all_task_of, rowVars, execVars
<1>4. CASE remove_document
  BY <1>4 DEF remove_document, cancel_all_task_of, execVars
<1>5. CASE queue_product
  BY <1>5 DEF queue_product, docVars, rowVars, execVars, ghosts
<1>6. CASE queue_product_fails
  BY <1>6 DEF queue_product_fails, docVars, rowVars, execVars, ghosts
<1>7. CASE cancel_flag_expires
  BY <1>7 DEF cancel_flag_expires, docVars, rowVars, execVars, ghosts
<1>8. CASE sync_read
BY <1>8 DEF sync_read, docVars, rowVars, redisVars, execVars, ghosts, NoSync
<1>9. CASE sync_write
  BY <1>9 DEF sync_write, rowVars, redisVars, execVars, ghosts, SyncInv, NoSync
<1>10. ASSUME NEW w \in Workers, collect_unacked(w) PROVE Types'
  BY <1>10, SMTT(30) DEF collect_unacked, Collected, Idle, get_task, docVars, redisVars
<1>11. ASSUME NEW w \in Workers, collect_new(w) PROVE Types'
  BY <1>11, SMTT(30) DEF collect_new, Collected, Idle, get_task, docVars
<1>12. ASSUME NEW w \in Workers, build_chunks(w) PROVE Types'
  BY <1>12 DEF build_chunks, Goes, update_progress, docVars, redisVars, ghosts
<1>13. ASSUME NEW w \in Workers, build_fails(w) PROVE Types'
  BY <1>13 DEF build_fails, gives_up, Goes, update_progress, docVars, redisVars, ghosts
<1>14. ASSUME NEW w \in Workers, insert_chunks(w) PROVE Types'
  BY <1>14, TaskFacts DEF insert_chunks, Goes, docVars, rowVars, redisVars, ghosts
<1>15. ASSUME NEW w \in Workers, update_chunk_ids(w) PROVE Types'
  BY <1>15 DEF update_chunk_ids, Goes, docVars, redisVars, ghosts
<1>16. ASSUME NEW w \in Workers, increment_chunk_num(w) PROVE Types'
  BY <1>16 DEF increment_chunk_num, Goes, rowVars, redisVars, ghosts
<1>17. ASSUME NEW w \in Workers, task_done(w) PROVE Types'
  BY <1>17 DEF task_done, Goes, update_progress, docVars, redisVars, ghosts
<1>18. ASSUME NEW w \in Workers, index_fails(w) PROVE Types'
  BY <1>18 DEF index_fails, gives_up, Goes, update_progress, docVars, redisVars, ghosts
<1>19. ASSUME NEW w \in Workers, ack(w) PROVE Types'
  BY <1>19 DEF ack, Idle, Ack, docVars, rowVars, redisVars, ghosts
<1>20. ASSUME NEW w \in Workers, crash(w) PROVE Types'
  BY <1>20 DEF crash, docVars, rowVars, redisVars, ghosts
<1>21. ASSUME NEW w \in Workers, restart(w) PROVE Types'
  BY <1>21 DEF restart, docVars, rowVars, redisVars, ghosts
<1>22. CASE UNCHANGED vars
  BY <1>22 DEF vars
<1> QED BY <1>1, <1>2, <1>3, <1>4, <1>5, <1>6, <1>7, <1>8, <1>9, <1>10, <1>11, <1>12, <1>13,
  <1>14, <1>15, <1>16, <1>17, <1>18, <1>19, <1>20, <1>21, <1>22 DEF Next, Users, Pushes,
  Synchronizes, Executor, Handles

-----------------------------------------------------------------------------
(* The document, the rows and the flags.                                   *)

LEMMA SyncNext ==
  ASSUME Types, SyncInv, [Next]_vars
  PROVE  SyncInv'
<1> USE DEF SyncInv
<1>0. run \in Runs
  BY DEF Types, TypeOK
<1>1. ASSUME NEW d \in BOOLEAN, run_document(d) PROVE SyncInv'
  BY <1>1 DEF run_document, execVars
<1>2. CASE cancel_document
  BY <1>2 DEF cancel_document, cancel_all_task_of, rowVars, execVars
<1>3. CASE stop_parsing
  BY <1>3 DEF stop_parsing, cancel_all_task_of, rowVars, execVars
<1>4. CASE remove_document
  BY <1>4 DEF remove_document, cancel_all_task_of, execVars
<1>5. CASE queue_product
  BY <1>5 DEF queue_product, docVars, rowVars, execVars, ghosts
<1>6. CASE queue_product_fails
  BY <1>6 DEF queue_product_fails, docVars, rowVars, execVars, ghosts
<1>7. CASE cancel_flag_expires
  BY <1>7 DEF cancel_flag_expires, docVars, rowVars, execVars, ghosts
<1>8. CASE sync_read
BY <1>8, <1>0 DEF sync_read, Runs
<1>9. CASE sync_write
BY <1>9 DEF sync_write
<1>10. ASSUME NEW w \in Workers, collect_unacked(w) PROVE SyncInv'
  BY <1>10 DEF collect_unacked, Collected, Idle, get_task, docVars, redisVars
<1>11. ASSUME NEW w \in Workers, collect_new(w) PROVE SyncInv'
  BY <1>11 DEF collect_new, Collected, Idle, get_task, docVars
<1>12. ASSUME NEW w \in Workers, build_chunks(w) PROVE SyncInv'
  BY <1>12 DEF build_chunks, Goes, update_progress, docVars, redisVars, ghosts
<1>13. ASSUME NEW w \in Workers, build_fails(w) PROVE SyncInv'
  BY <1>13 DEF build_fails, gives_up, Goes, update_progress, docVars, redisVars, ghosts
<1>14. ASSUME NEW w \in Workers, insert_chunks(w) PROVE SyncInv'
  BY <1>14 DEF insert_chunks, Goes, docVars, rowVars, redisVars, ghosts
<1>15. ASSUME NEW w \in Workers, update_chunk_ids(w) PROVE SyncInv'
  BY <1>15 DEF update_chunk_ids, Goes, docVars, redisVars, ghosts
<1>16. ASSUME NEW w \in Workers, increment_chunk_num(w) PROVE SyncInv'
  BY <1>16 DEF increment_chunk_num, Goes, rowVars, redisVars, ghosts
<1>17. ASSUME NEW w \in Workers, task_done(w) PROVE SyncInv'
  BY <1>17 DEF task_done, Goes, update_progress, docVars, redisVars, ghosts
<1>18. ASSUME NEW w \in Workers, index_fails(w) PROVE SyncInv'
  BY <1>18 DEF index_fails, gives_up, Goes, update_progress, docVars, redisVars, ghosts
<1>19. ASSUME NEW w \in Workers, ack(w) PROVE SyncInv'
  BY <1>19 DEF ack, Idle, Ack, docVars, rowVars, redisVars, ghosts
<1>20. ASSUME NEW w \in Workers, crash(w) PROVE SyncInv'
  BY <1>20 DEF crash, docVars, rowVars, redisVars, ghosts
<1>21. ASSUME NEW w \in Workers, restart(w) PROVE SyncInv'
  BY <1>21 DEF restart, docVars, rowVars, redisVars, ghosts
<1>22. CASE UNCHANGED vars
  BY <1>22 DEF vars
<1> QED BY <1>1, <1>2, <1>3, <1>4, <1>5, <1>6, <1>7, <1>8, <1>9, <1>10, <1>11, <1>12, <1>13,
  <1>14, <1>15, <1>16, <1>17, <1>18, <1>19, <1>20, <1>21, <1>22 DEF Next, Users, Pushes,
  Synchronizes, Executor, Handles

LEMMA RowsNext ==
  ASSUME Types, SyncInv, RowsInv, [Next]_vars
  PROVE  RowsInv'
<1> USE DEF RowsInv
<1>0. runs \in Nat
  BY QueueAssumption DEF Types, TypeOK
<1>1. ASSUME NEW d \in BOOLEAN, run_document(d) PROVE RowsInv'
  <2>1. run' = "RUNNING" /\ runs' = runs + 1 /\ rows' = {runs + 1} \X Parts
    BY <1>1, RunFacts
  <2> QED BY <1>0, <2>1
<1>2. CASE cancel_document
  BY <1>2 DEF cancel_document, cancel_all_task_of, rowVars, execVars
<1>3. CASE stop_parsing
  BY <1>3 DEF stop_parsing, cancel_all_task_of, rowVars, execVars
<1>4. CASE remove_document
  BY <1>4 DEF remove_document, cancel_all_task_of, execVars
<1>5. CASE queue_product
  BY <1>5 DEF queue_product, docVars, rowVars, execVars, ghosts
<1>6. CASE queue_product_fails
  BY <1>6 DEF queue_product_fails, docVars, rowVars, execVars, ghosts
<1>7. CASE cancel_flag_expires
  BY <1>7 DEF cancel_flag_expires, docVars, rowVars, execVars, ghosts
<1>8. CASE sync_read
  BY <1>8 DEF sync_read, docVars, rowVars, redisVars, execVars, ghosts
<1>9. CASE sync_write
BY <1>9 DEF sync_write, rowVars, redisVars, execVars, ghosts, SyncInv
<1>10. ASSUME NEW w \in Workers, collect_unacked(w) PROVE RowsInv'
  BY <1>10 DEF collect_unacked, Collected, Idle, get_task, docVars, redisVars
<1>11. ASSUME NEW w \in Workers, collect_new(w) PROVE RowsInv'
  BY <1>11 DEF collect_new, Collected, Idle, get_task, docVars
<1>12. ASSUME NEW w \in Workers, build_chunks(w) PROVE RowsInv'
  BY <1>12 DEF build_chunks, Goes, update_progress, docVars, redisVars, ghosts
<1>13. ASSUME NEW w \in Workers, build_fails(w) PROVE RowsInv'
  BY <1>13 DEF build_fails, gives_up, Goes, update_progress, docVars, redisVars, ghosts
<1>14. ASSUME NEW w \in Workers, insert_chunks(w) PROVE RowsInv'
  BY <1>14 DEF insert_chunks, Goes, docVars, rowVars, redisVars, ghosts
<1>15. ASSUME NEW w \in Workers, update_chunk_ids(w) PROVE RowsInv'
  BY <1>15 DEF update_chunk_ids, Goes, docVars, redisVars, ghosts
<1>16. ASSUME NEW w \in Workers, increment_chunk_num(w) PROVE RowsInv'
  BY <1>16 DEF increment_chunk_num, Goes, rowVars, redisVars, ghosts
<1>17. ASSUME NEW w \in Workers, task_done(w) PROVE RowsInv'
  BY <1>17 DEF task_done, Goes, update_progress, docVars, redisVars, ghosts
<1>18. ASSUME NEW w \in Workers, index_fails(w) PROVE RowsInv'
  BY <1>18 DEF index_fails, gives_up, Goes, update_progress, docVars, redisVars, ghosts
<1>19. ASSUME NEW w \in Workers, ack(w) PROVE RowsInv'
  BY <1>19 DEF ack, Idle, Ack, docVars, rowVars, redisVars, ghosts
<1>20. ASSUME NEW w \in Workers, crash(w) PROVE RowsInv'
  BY <1>20 DEF crash, docVars, rowVars, redisVars, ghosts
<1>21. ASSUME NEW w \in Workers, restart(w) PROVE RowsInv'
  BY <1>21 DEF restart, docVars, rowVars, redisVars, ghosts
<1>22. CASE UNCHANGED vars
  BY <1>22 DEF vars
<1> QED BY <1>1, <1>2, <1>3, <1>4, <1>5, <1>6, <1>7, <1>8, <1>9, <1>10, <1>11, <1>12, <1>13,
  <1>14, <1>15, <1>16, <1>17, <1>18, <1>19, <1>20, <1>21, <1>22 DEF Next, Users, Pushes,
  Synchronizes, Executor, Handles

LEMMA FlagNext ==
  ASSUME FlagInv, [Next]_vars
  PROVE  FlagInv'
<1> USE DEF FlagInv
<1>1. ASSUME NEW d \in BOOLEAN, run_document(d) PROVE FlagInv'
  BY <1>1 DEF run_document, execVars
<1>2. CASE cancel_document
  BY <1>2 DEF cancel_document, cancel_all_task_of, rowVars, execVars
<1>3. CASE stop_parsing
  BY <1>3 DEF stop_parsing, cancel_all_task_of, rowVars, execVars
<1>4. CASE remove_document
  BY <1>4 DEF remove_document, cancel_all_task_of, execVars
<1>5. CASE queue_product
  BY <1>5 DEF queue_product, docVars, rowVars, execVars, ghosts
<1>6. CASE queue_product_fails
  BY <1>6 DEF queue_product_fails, docVars, rowVars, execVars, ghosts
<1>7. CASE cancel_flag_expires
  BY <1>7 DEF cancel_flag_expires, docVars, rowVars, execVars, ghosts
<1>8. CASE sync_read
  BY <1>8 DEF sync_read, docVars, rowVars, redisVars, execVars, ghosts
<1>9. CASE sync_write
  BY <1>9 DEF sync_write, rowVars, redisVars, execVars, ghosts
<1>10. ASSUME NEW w \in Workers, collect_unacked(w) PROVE FlagInv'
  BY <1>10 DEF collect_unacked, Collected, Idle, get_task, docVars, redisVars
<1>11. ASSUME NEW w \in Workers, collect_new(w) PROVE FlagInv'
  BY <1>11 DEF collect_new, Collected, Idle, get_task, docVars
<1>12. ASSUME NEW w \in Workers, build_chunks(w) PROVE FlagInv'
  BY <1>12 DEF build_chunks, Goes, update_progress, docVars, redisVars, ghosts
<1>13. ASSUME NEW w \in Workers, build_fails(w) PROVE FlagInv'
  BY <1>13 DEF build_fails, gives_up, Goes, update_progress, docVars, redisVars, ghosts
<1>14. ASSUME NEW w \in Workers, insert_chunks(w) PROVE FlagInv'
  BY <1>14 DEF insert_chunks, Goes, docVars, rowVars, redisVars, ghosts
<1>15. ASSUME NEW w \in Workers, update_chunk_ids(w) PROVE FlagInv'
  BY <1>15 DEF update_chunk_ids, Goes, docVars, redisVars, ghosts
<1>16. ASSUME NEW w \in Workers, increment_chunk_num(w) PROVE FlagInv'
  BY <1>16 DEF increment_chunk_num, Goes, rowVars, redisVars, ghosts
<1>17. ASSUME NEW w \in Workers, task_done(w) PROVE FlagInv'
  BY <1>17 DEF task_done, Goes, update_progress, docVars, redisVars, ghosts
<1>18. ASSUME NEW w \in Workers, index_fails(w) PROVE FlagInv'
  BY <1>18 DEF index_fails, gives_up, Goes, update_progress, docVars, redisVars, ghosts
<1>19. ASSUME NEW w \in Workers, ack(w) PROVE FlagInv'
  BY <1>19 DEF ack, Idle, Ack, docVars, rowVars, redisVars, ghosts
<1>20. ASSUME NEW w \in Workers, crash(w) PROVE FlagInv'
  BY <1>20 DEF crash, docVars, rowVars, redisVars, ghosts
<1>21. ASSUME NEW w \in Workers, restart(w) PROVE FlagInv'
  BY <1>21 DEF restart, docVars, rowVars, redisVars, ghosts
<1>22. CASE UNCHANGED vars
  BY <1>22 DEF vars
<1> QED BY <1>1, <1>2, <1>3, <1>4, <1>5, <1>6, <1>7, <1>8, <1>9, <1>10, <1>11, <1>12, <1>13,
  <1>14, <1>15, <1>16, <1>17, <1>18, <1>19, <1>20, <1>21, <1>22 DEF Next, Users, Pushes,
  Synchronizes, Executor, Handles

LEMMA AttemptNext ==
  ASSUME Types, AttemptInv, [Next]_vars
  PROVE  AttemptInv'
<1> USE DEF AttemptInv
<1>0. /\ attempts \in [Tasks -> Nat] /\ retry_count \in [Tasks -> Nat] /\ max_attempts \in Nat
      /\ stream \subseteq Tasks /\ \A w \in Workers : unacked[w] \subseteq Tasks
  BY QueueAssumption DEF Types, TypeOK
<1>1. ASSUME NEW d \in BOOLEAN, run_document(d) PROVE AttemptInv'
  <2>1. retry_count' = retry_count
    BY <1>1, RunFacts
  <2> QED BY <1>1, <2>1 DEF run_document
<1>2. CASE cancel_document
  BY <1>2, <1>0 DEF cancel_document, cancel_all_task_of, rowVars, execVars
<1>3. CASE stop_parsing
  BY <1>3, <1>0 DEF stop_parsing, cancel_all_task_of, rowVars, execVars
<1>4. CASE remove_document
  BY <1>4, <1>0 DEF remove_document, cancel_all_task_of, execVars
<1>5. CASE queue_product
  BY <1>5, <1>0 DEF queue_product, docVars, rowVars, execVars, ghosts
<1>6. CASE queue_product_fails
  BY <1>6, <1>0 DEF queue_product_fails, docVars, rowVars, execVars, ghosts
<1>7. CASE cancel_flag_expires
  BY <1>7, <1>0 DEF cancel_flag_expires, docVars, rowVars, execVars, ghosts
<1>8. CASE sync_read
  BY <1>8, <1>0 DEF sync_read, docVars, rowVars, redisVars, execVars, ghosts
<1>9. CASE sync_write
  BY <1>9, <1>0 DEF sync_write, rowVars, redisVars, execVars, ghosts
<1>10. ASSUME NEW w \in Workers, collect_unacked(w) PROVE AttemptInv'
  BY <1>10, <1>0 DEF collect_unacked, Collected, Idle, get_task, docVars, redisVars
<1>11. ASSUME NEW w \in Workers, collect_new(w) PROVE AttemptInv'
  BY <1>11, <1>0 DEF collect_new, Collected, Idle, get_task, docVars
<1>12. ASSUME NEW w \in Workers, build_chunks(w) PROVE AttemptInv'
  BY <1>12, <1>0 DEF build_chunks, Goes, update_progress, docVars, redisVars, ghosts
<1>13. ASSUME NEW w \in Workers, build_fails(w) PROVE AttemptInv'
  BY <1>13, <1>0 DEF build_fails, gives_up, Goes, update_progress, docVars, redisVars, ghosts
<1>14. ASSUME NEW w \in Workers, insert_chunks(w) PROVE AttemptInv'
  BY <1>14, <1>0 DEF insert_chunks, Goes, docVars, rowVars, redisVars, ghosts
<1>15. ASSUME NEW w \in Workers, update_chunk_ids(w) PROVE AttemptInv'
  BY <1>15, <1>0 DEF update_chunk_ids, Goes, docVars, redisVars, ghosts
<1>16. ASSUME NEW w \in Workers, increment_chunk_num(w) PROVE AttemptInv'
  BY <1>16, <1>0 DEF increment_chunk_num, Goes, rowVars, redisVars, ghosts
<1>17. ASSUME NEW w \in Workers, task_done(w) PROVE AttemptInv'
  BY <1>17, <1>0 DEF task_done, Goes, update_progress, docVars, redisVars, ghosts
<1>18. ASSUME NEW w \in Workers, index_fails(w) PROVE AttemptInv'
  BY <1>18, <1>0 DEF index_fails, gives_up, Goes, update_progress, docVars, redisVars, ghosts
<1>19. ASSUME NEW w \in Workers, ack(w) PROVE AttemptInv'
  BY <1>19, <1>0 DEF ack, Idle, Ack, docVars, rowVars, redisVars, ghosts
<1>20. ASSUME NEW w \in Workers, crash(w) PROVE AttemptInv'
  BY <1>20, <1>0 DEF crash, docVars, rowVars, redisVars, ghosts
<1>21. ASSUME NEW w \in Workers, restart(w) PROVE AttemptInv'
  BY <1>21, <1>0 DEF restart, docVars, rowVars, redisVars, ghosts
<1>22. CASE UNCHANGED vars
  BY <1>22, <1>0 DEF vars
<1> QED BY <1>1, <1>2, <1>3, <1>4, <1>5, <1>6, <1>7, <1>8, <1>9, <1>10, <1>11, <1>12, <1>13,
  <1>14, <1>15, <1>16, <1>17, <1>18, <1>19, <1>20, <1>21, <1>22 DEF Next, Users, Pushes,
  Synchronizes, Executor, Handles

LEMMA FutureNext ==
  ASSUME Types, MessageInv, FutureInv, [Next]_vars
  PROVE  FutureInv'
<1> USE DEF FutureInv
<1>0. /\ attempts \in [Tasks -> Nat] /\ chunk_ids \in [Tasks -> BOOLEAN] /\ runs \in Nat
      /\ pending \in [Workers -> SUBSET Tasks] /\ task \in [Workers -> Tasks \cup {None}]
      /\ stream \subseteq Tasks /\ to_push \subseteq Tasks /\ unsent \subseteq Tasks
      /\ \A t \in Tasks : t[1] \in Nat
  BY QueueAssumption, TaskFacts DEF Types, TypeOK
<1>m. /\ \A w \in Workers : unacked[w] \subseteq pending[w]
      /\ \A w \in Workers : Busy(w) => task[w] \in pending[w]
  BY DEF MessageInv
<1>1. ASSUME NEW d \in BOOLEAN, run_document(d) PROVE FutureInv'
  <2>1. /\ runs' = runs + 1 /\ rows' = {runs + 1} \X Parts
        /\ to_push' \subseteq to_push \cup rows'
        /\ \A t \in Tasks : t \notin rows' => chunk_ids'[t] = chunk_ids[t]
    BY <1>1, RunFacts
  <2>2. \A t \in rows' : t[1] = runs + 1
    BY <2>1
  <2> QED BY <1>1, <1>0, <2>1, <2>2 DEF run_document, execVars
<1>2. CASE cancel_document
  BY <1>2, <1>0 DEF cancel_document, cancel_all_task_of, rowVars, execVars
<1>3. CASE stop_parsing
  BY <1>3, <1>0 DEF stop_parsing, cancel_all_task_of, rowVars, execVars
<1>4. CASE remove_document
  BY <1>4, <1>0 DEF remove_document, cancel_all_task_of, execVars
<1>5. CASE queue_product
  BY <1>5, <1>0 DEF queue_product, docVars, rowVars, execVars, ghosts
<1>6. CASE queue_product_fails
  BY <1>6, <1>0 DEF queue_product_fails, docVars, rowVars, execVars, ghosts
<1>7. CASE cancel_flag_expires
  BY <1>7, <1>0 DEF cancel_flag_expires, docVars, rowVars, execVars, ghosts
<1>8. CASE sync_read
  BY <1>8, <1>0 DEF sync_read, docVars, rowVars, redisVars, execVars, ghosts
<1>9. CASE sync_write
  BY <1>9, <1>0 DEF sync_write, rowVars, redisVars, execVars, ghosts
<1>10. ASSUME NEW w \in Workers, collect_unacked(w) PROVE FutureInv'
  BY <1>10, <1>0, <1>m DEF collect_unacked, Collected, Idle, get_task, docVars, redisVars
<1>11. ASSUME NEW w \in Workers, collect_new(w) PROVE FutureInv'
  BY <1>11, <1>0, <1>m DEF collect_new, Collected, Idle, get_task, docVars
<1>12. ASSUME NEW w \in Workers, build_chunks(w) PROVE FutureInv'
  BY <1>12, <1>0 DEF build_chunks, Goes, update_progress, docVars, redisVars, ghosts
<1>13. ASSUME NEW w \in Workers, build_fails(w) PROVE FutureInv'
  BY <1>13, <1>0 DEF build_fails, gives_up, Goes, update_progress, docVars, redisVars, ghosts
<1>14. ASSUME NEW w \in Workers, insert_chunks(w) PROVE FutureInv'
  BY <1>14, <1>0 DEF insert_chunks, Goes, docVars, rowVars, redisVars, ghosts
<1>15. ASSUME NEW w \in Workers, update_chunk_ids(w) PROVE FutureInv'
  BY <1>15, <1>0, <1>m DEF update_chunk_ids, Goes, docVars, redisVars, ghosts, Busy
<1>16. ASSUME NEW w \in Workers, increment_chunk_num(w) PROVE FutureInv'
  BY <1>16, <1>0 DEF increment_chunk_num, Goes, rowVars, redisVars, ghosts
<1>17. ASSUME NEW w \in Workers, task_done(w) PROVE FutureInv'
  BY <1>17, <1>0 DEF task_done, Goes, update_progress, docVars, redisVars, ghosts
<1>18. ASSUME NEW w \in Workers, index_fails(w) PROVE FutureInv'
  BY <1>18, <1>0 DEF index_fails, gives_up, Goes, update_progress, docVars, redisVars, ghosts
<1>19. ASSUME NEW w \in Workers, ack(w) PROVE FutureInv'
  BY <1>19, <1>0 DEF ack, Idle, Ack, docVars, rowVars, redisVars, ghosts
<1>20. ASSUME NEW w \in Workers, crash(w) PROVE FutureInv'
  BY <1>20, <1>0 DEF crash, docVars, rowVars, redisVars, ghosts
<1>21. ASSUME NEW w \in Workers, restart(w) PROVE FutureInv'
  BY <1>21, <1>0 DEF restart, docVars, rowVars, redisVars, ghosts
<1>22. CASE UNCHANGED vars
  BY <1>22, <1>0 DEF vars
<1> QED BY <1>1, <1>2, <1>3, <1>4, <1>5, <1>6, <1>7, <1>8, <1>9, <1>10, <1>11, <1>12, <1>13,
  <1>14, <1>15, <1>16, <1>17, <1>18, <1>19, <1>20, <1>21, <1>22 DEF Next, Users, Pushes,
  Synchronizes, Executor, Handles

LEMMA MessageNext ==
  ASSUME Types, FutureInv, MessageInv, [Next]_vars
  PROVE  MessageInv'
<1> USE DEF MessageInv, Busy
<1>0. /\ pending \in [Workers -> SUBSET Tasks] /\ unacked \in [Workers -> SUBSET Tasks]
      /\ at \in [Workers -> Steps] /\ task \in [Workers -> Tasks \cup {None}]
  BY DEF Types, TypeOK, Steps
<1>1. ASSUME NEW d \in BOOLEAN, run_document(d) PROVE MessageInv'
  <2>0. to_push' \subseteq to_push \cup rows' /\ rows' = {runs + 1} \X Parts
    BY <1>1, RunFacts
  <2>1. to_push' \subseteq to_push \cup rows' /\ \A t \in rows' : t[1] = runs + 1
    BY <2>0
  <2>2. runs \in Nat
    BY QueueAssumption DEF Types, TypeOK
  <2>3. rows' \cap (stream \cup unsent) = {} /\ \A w \in Workers : rows' \cap pending[w] = {}
    BY <2>1, <2>2 DEF FutureInv
  <2> QED BY <1>1, <2>1, <2>3 DEF run_document, execVars
<1>2. CASE cancel_document
  BY <1>2, <1>0 DEF cancel_document, cancel_all_task_of, rowVars, execVars
<1>3. CASE stop_parsing
  BY <1>3, <1>0 DEF stop_parsing, cancel_all_task_of, rowVars, execVars
<1>4. CASE remove_document
  BY <1>4, <1>0 DEF remove_document, cancel_all_task_of, execVars
<1>5. CASE queue_product
  BY <1>5, <1>0 DEF queue_product, docVars, rowVars, execVars, ghosts
<1>6. CASE queue_product_fails
  BY <1>6, <1>0 DEF queue_product_fails, docVars, rowVars, execVars, ghosts
<1>7. CASE cancel_flag_expires
  BY <1>7, <1>0 DEF cancel_flag_expires, docVars, rowVars, execVars, ghosts
<1>8. CASE sync_read
  BY <1>8, <1>0 DEF sync_read, docVars, rowVars, redisVars, execVars, ghosts
<1>9. CASE sync_write
  BY <1>9, <1>0 DEF sync_write, rowVars, redisVars, execVars, ghosts
<1>10. ASSUME NEW w \in Workers, collect_unacked(w) PROVE MessageInv'
  BY <1>10, <1>0 DEF collect_unacked, Collected, Idle, get_task, docVars, redisVars
<1>11. ASSUME NEW w \in Workers, collect_new(w) PROVE MessageInv'
  BY <1>11, <1>0 DEF collect_new, Collected, Idle, get_task, docVars
<1>12. ASSUME NEW w \in Workers, build_chunks(w) PROVE MessageInv'
  BY <1>12, <1>0 DEF build_chunks, Goes, update_progress, docVars, redisVars, ghosts
<1>13. ASSUME NEW w \in Workers, build_fails(w) PROVE MessageInv'
  BY <1>13, <1>0 DEF build_fails, gives_up, Goes, update_progress, docVars, redisVars, ghosts
<1>14. ASSUME NEW w \in Workers, insert_chunks(w) PROVE MessageInv'
  BY <1>14, <1>0 DEF insert_chunks, Goes, docVars, rowVars, redisVars, ghosts
<1>15. ASSUME NEW w \in Workers, update_chunk_ids(w) PROVE MessageInv'
  BY <1>15, <1>0 DEF update_chunk_ids, Goes, docVars, redisVars, ghosts
<1>16. ASSUME NEW w \in Workers, increment_chunk_num(w) PROVE MessageInv'
  BY <1>16, <1>0 DEF increment_chunk_num, Goes, rowVars, redisVars, ghosts
<1>17. ASSUME NEW w \in Workers, task_done(w) PROVE MessageInv'
  BY <1>17, <1>0 DEF task_done, Goes, update_progress, docVars, redisVars, ghosts
<1>18. ASSUME NEW w \in Workers, index_fails(w) PROVE MessageInv'
  BY <1>18, <1>0 DEF index_fails, gives_up, Goes, update_progress, docVars, redisVars, ghosts
<1>19. ASSUME NEW w \in Workers, ack(w) PROVE MessageInv'
  BY <1>19, <1>0 DEF ack, Idle, Ack, docVars, rowVars, redisVars, ghosts
<1>20. ASSUME NEW w \in Workers, crash(w) PROVE MessageInv'
  BY <1>20, <1>0 DEF crash, docVars, rowVars, redisVars, ghosts
<1>21. ASSUME NEW w \in Workers, restart(w) PROVE MessageInv'
  BY <1>21, <1>0 DEF restart, docVars, rowVars, redisVars, ghosts
<1>22. CASE UNCHANGED vars
  BY <1>22, <1>0 DEF vars
<1> QED BY <1>1, <1>2, <1>3, <1>4, <1>5, <1>6, <1>7, <1>8, <1>9, <1>10, <1>11, <1>12, <1>13,
  <1>14, <1>15, <1>16, <1>17, <1>18, <1>19, <1>20, <1>21, <1>22 DEF Next, Users, Pushes,
  Synchronizes, Executor, Handles

-----------------------------------------------------------------------------
(* No task is lost.                                                        *)

LEMMA SettledNext ==
  ASSUME Types, FutureInv, MessageInv, SettledInv, [Next]_vars
  PROVE  SettledInv'
<1> USE DEF SettledInv, Busy, Unfinished, NotStarted, Started, Finished, Bad
<1>0. /\ at \in [Workers -> Steps] /\ task \in [Workers -> Tasks \cup {None}]
      /\ progress \in [Tasks -> -1..2] /\ rows \subseteq Tasks
  BY DEF Types, TypeOK, Steps
<1>m. /\ \A w \in Workers : Busy(w) => task[w] \in pending[w] \ unacked[w]
      /\ \A v, w \in Workers : v # w => pending[v] \cap pending[w] = {}
      /\ \A w \in Workers : pending[w] \cap stream = {} /\ unacked[w] \subseteq pending[w]
  BY DEF MessageInv
<1>1. ASSUME NEW d \in BOOLEAN, run_document(d) PROVE SettledInv'
  <2>1. rows' \subseteq Tasks /\ rows' = {runs + 1} \X Parts
    BY <1>1, RunFacts
  <2>2. \A t \in rows' : t[1] = runs + 1
    BY <2>1
  <2>3. runs \in Nat
    BY QueueAssumption DEF Types, TypeOK
  <2>4. \A w \in Workers : Busy(w) => task[w] \notin rows'
    BY <1>m, <2>2, <2>3 DEF FutureInv
  <2> QED BY <1>1, <2>4 DEF run_document, execVars
<1>2. CASE cancel_document
  BY <1>2, <1>0 DEF cancel_document, cancel_all_task_of, rowVars, execVars
<1>3. CASE stop_parsing
  BY <1>3, <1>0 DEF stop_parsing, cancel_all_task_of, rowVars, execVars
<1>4. CASE remove_document
  BY <1>4, <1>0 DEF remove_document, cancel_all_task_of, execVars
<1>5. CASE queue_product
  BY <1>5, <1>0 DEF queue_product, docVars, rowVars, execVars, ghosts
<1>6. CASE queue_product_fails
  BY <1>6, <1>0 DEF queue_product_fails, docVars, rowVars, execVars, ghosts
<1>7. CASE cancel_flag_expires
  BY <1>7, <1>0 DEF cancel_flag_expires, docVars, rowVars, execVars, ghosts
<1>8. CASE sync_read
  BY <1>8, <1>0 DEF sync_read, docVars, rowVars, redisVars, execVars, ghosts
<1>9. CASE sync_write
  BY <1>9, <1>0 DEF sync_write, rowVars, redisVars, execVars, ghosts
<1>10. ASSUME NEW w \in Workers, collect_unacked(w) PROVE SettledInv'
  BY <1>10, <1>0, <1>m DEF collect_unacked, Collected, Idle, get_task, docVars, redisVars
<1>11. ASSUME NEW w \in Workers, collect_new(w) PROVE SettledInv'
  BY <1>11, <1>0, <1>m DEF collect_new, Collected, Idle, get_task, docVars
<1>12. ASSUME NEW w \in Workers, build_chunks(w) PROVE SettledInv'
  BY <1>12, <1>0, <1>m DEF build_chunks, Goes, update_progress, docVars, redisVars, ghosts
<1>13. ASSUME NEW w \in Workers, build_fails(w) PROVE SettledInv'
  BY <1>13, <1>0 DEF build_fails, gives_up, Goes, update_progress, docVars, redisVars, ghosts
<1>14. ASSUME NEW w \in Workers, insert_chunks(w) PROVE SettledInv'
  BY <1>14, <1>0 DEF insert_chunks, Goes, docVars, rowVars, redisVars, ghosts
<1>15. ASSUME NEW w \in Workers, update_chunk_ids(w) PROVE SettledInv'
  BY <1>15, <1>0 DEF update_chunk_ids, Goes, docVars, redisVars, ghosts
<1>16. ASSUME NEW w \in Workers, increment_chunk_num(w) PROVE SettledInv'
  BY <1>16, <1>0 DEF increment_chunk_num, Goes, rowVars, redisVars, ghosts
<1>17. ASSUME NEW w \in Workers, task_done(w) PROVE SettledInv'
  BY <1>17, <1>0, <1>m DEF task_done, Goes, update_progress, docVars, redisVars, ghosts
<1>18. ASSUME NEW w \in Workers, index_fails(w) PROVE SettledInv'
  BY <1>18, <1>0 DEF index_fails, gives_up, Goes, update_progress, docVars, redisVars, ghosts
<1>19. ASSUME NEW w \in Workers, ack(w) PROVE SettledInv'
  BY <1>19, <1>0 DEF ack, Idle, Ack, docVars, rowVars, redisVars, ghosts
<1>20. ASSUME NEW w \in Workers, crash(w) PROVE SettledInv'
  BY <1>20, <1>0 DEF crash, docVars, rowVars, redisVars, ghosts
<1>21. ASSUME NEW w \in Workers, restart(w) PROVE SettledInv'
  BY <1>21, <1>0 DEF restart, docVars, rowVars, redisVars, ghosts
<1>22. CASE UNCHANGED vars
  BY <1>22, <1>0 DEF vars
<1> QED BY <1>1, <1>2, <1>3, <1>4, <1>5, <1>6, <1>7, <1>8, <1>9, <1>10, <1>11, <1>12, <1>13,
  <1>14, <1>15, <1>16, <1>17, <1>18, <1>19, <1>20, <1>21, <1>22 DEF Next, Users, Pushes,
  Synchronizes, Executor, Handles

LEMMA LostNext ==
  ASSUME Types, RowsInv, MessageInv, SettledInv, FlagInv, NoTaskIsLost, [Next]_vars
  PROVE  NoTaskIsLost'
<1> USE DEF NoTaskIsLost, Unfinished, NotStarted, Started, Finished, Bad
<1>0. /\ pending \in [Workers -> SUBSET Tasks] /\ progress \in [Tasks -> -1..2]
      /\ retry_count \in [Tasks -> Nat] /\ max_attempts \in Nat
      /\ rows \subseteq Tasks /\ (run = "removed" => rows = {})
  BY QueueAssumption DEF Types, TypeOK, RowsInv
<1>1. ASSUME NEW d \in BOOLEAN, run_document(d) PROVE NoTaskIsLost'
  <2>1. /\ rows' \subseteq Tasks
        /\ to_push' = to_push \cup {t \in rows' : Part(t) \notin Reused(d)}
        /\ \A t \in rows' : Part(t) \in Reused(d) => progress'[t] = Finished
    BY <1>1, RunFacts
  <2> QED BY <2>1
<1>2. CASE cancel_document
  BY <1>2, <1>0 DEF cancel_document, cancel_all_task_of, rowVars, execVars
<1>3. CASE stop_parsing
  BY <1>3, <1>0 DEF stop_parsing, cancel_all_task_of, rowVars, execVars
<1>4. CASE remove_document
  BY <1>4, <1>0 DEF remove_document, cancel_all_task_of, execVars
<1>5. CASE queue_product
  BY <1>5, <1>0 DEF queue_product, docVars, rowVars, execVars, ghosts
<1>6. CASE queue_product_fails
  BY <1>6, <1>0 DEF queue_product_fails, docVars, rowVars, execVars, ghosts
<1>7. CASE cancel_flag_expires
  BY <1>7, <1>0 DEF cancel_flag_expires, docVars, rowVars, execVars, ghosts
<1>8. CASE sync_read
  BY <1>8, <1>0 DEF sync_read, docVars, rowVars, redisVars, execVars, ghosts
<1>9. CASE sync_write
  BY <1>9, <1>0 DEF sync_write, rowVars, redisVars, execVars, ghosts
<1>10. ASSUME NEW w \in Workers, collect_unacked(w) PROVE NoTaskIsLost'
  <2>1. PICK t \in unacked[w] : Collected(w, t, pending[w])
    BY <1>10 DEF collect_unacked
  <2>2. UNCHANGED <<rows, to_push, stream, unsent, flagged>>
    BY <1>10 DEF collect_unacked, redisVars
  <2>3. \A u \in rows \ {t} : u \in UNION {pending[v] : v \in Workers}
                             => u \in UNION {pending'[v] : v \in Workers}
    BY <1>0, <2>1 DEF Collected
  <2>4. \A u \in rows \ {t} : progress'[u] = progress[u]
    BY <1>0, <2>1 DEF Collected, get_task
  <2>5. CASE t \notin rows
    BY <2>2, <2>3, <2>4, <2>5
  <2>6. CASE t \in rows /\ (retry_count[t] >= max_attempts \/ t \in canceled)
    <3>1. progress'[t] = Bad \/ t \in flagged
      BY <1>0, <2>1, <2>6 DEF Collected, get_task, FlagInv
    <3> QED BY <2>2, <2>3, <2>4, <3>1
  <2>7. CASE t \in rows /\ retry_count[t] < max_attempts /\ t \notin canceled
    <3>1. pending' = pending /\ t \in pending[w]
      BY <1>0, <2>1, <2>7 DEF Collected, MessageInv
    <3> QED BY <2>2, <2>3, <2>4, <3>1
  <2> QED BY <1>0, <2>1, <2>5, <2>6, <2>7 DEF Types, TypeOK
<1>11. ASSUME NEW w \in Workers, collect_new(w) PROVE NoTaskIsLost'
  BY <1>11, <1>0 DEF collect_new, Collected, Idle, get_task, docVars, FlagInv
<1>12. ASSUME NEW w \in Workers, build_chunks(w) PROVE NoTaskIsLost'
  BY <1>12, <1>0 DEF build_chunks, Goes, update_progress, docVars, redisVars, ghosts
<1>13. ASSUME NEW w \in Workers, build_fails(w) PROVE NoTaskIsLost'
  BY <1>13, <1>0 DEF build_fails, gives_up, Goes, update_progress, docVars, redisVars, ghosts
<1>14. ASSUME NEW w \in Workers, insert_chunks(w) PROVE NoTaskIsLost'
  BY <1>14, <1>0 DEF insert_chunks, Goes, docVars, rowVars, redisVars, ghosts
<1>15. ASSUME NEW w \in Workers, update_chunk_ids(w) PROVE NoTaskIsLost'
  BY <1>15, <1>0 DEF update_chunk_ids, Goes, docVars, redisVars, ghosts
<1>16. ASSUME NEW w \in Workers, increment_chunk_num(w) PROVE NoTaskIsLost'
  BY <1>16, <1>0 DEF increment_chunk_num, Goes, rowVars, redisVars, ghosts
<1>17. ASSUME NEW w \in Workers, task_done(w) PROVE NoTaskIsLost'
  BY <1>17, <1>0 DEF task_done, Goes, update_progress, docVars, redisVars, ghosts
<1>18. ASSUME NEW w \in Workers, index_fails(w) PROVE NoTaskIsLost'
  BY <1>18, <1>0 DEF index_fails, gives_up, Goes, update_progress, docVars, redisVars, ghosts
<1>19. ASSUME NEW w \in Workers, ack(w) PROVE NoTaskIsLost'
  BY <1>19, <1>0 DEF ack, Idle, Ack, docVars, rowVars, redisVars, ghosts, SettledInv
<1>20. ASSUME NEW w \in Workers, crash(w) PROVE NoTaskIsLost'
  BY <1>20, <1>0 DEF crash, docVars, rowVars, redisVars, ghosts
<1>21. ASSUME NEW w \in Workers, restart(w) PROVE NoTaskIsLost'
  BY <1>21, <1>0 DEF restart, docVars, rowVars, redisVars, ghosts
<1>22. CASE UNCHANGED vars
  BY <1>22, <1>0 DEF vars
<1> QED BY <1>1, <1>2, <1>3, <1>4, <1>5, <1>6, <1>7, <1>8, <1>9, <1>10, <1>11, <1>12, <1>13,
  <1>14, <1>15, <1>16, <1>17, <1>18, <1>19, <1>20, <1>21, <1>22 DEF Next, Users, Pushes,
  Synchronizes, Executor, Handles

-----------------------------------------------------------------------------
(* Chunks.                                                                 *)

LEMMA IndexNext ==
  ASSUME Types, FutureInv, MessageInv, FlagInv, IndexInv, [Next]_vars
  PROVE  IndexInv'
<1> USE DEF IndexInv
<1>0. /\ at \in [Workers -> Steps] /\ task \in [Workers -> Tasks \cup {None}]
      /\ chunk_ids \in [Tasks -> BOOLEAN] /\ rows \subseteq Tasks
  BY DEF Types, TypeOK, Steps
<1>1. ASSUME NEW d \in BOOLEAN, run_document(d) PROVE IndexInv'
  <2>1. rows' \subseteq Tasks /\ rows' = {runs + 1} \X Parts
    BY <1>1, RunFacts
  <2>2. \A t \in rows' : t[1] = runs + 1
    BY <2>1
  <2>3. runs \in Nat
    BY QueueAssumption DEF Types, TypeOK
  <2>4. \A w \in Workers : at[w] = "inserted" => task[w] \notin rows'
    BY <2>2, <2>3 DEF FutureInv, MessageInv, Busy
  <2>5. \A t \in rows' : Part(t) \notin Reused(d) => ~ chunk_ids'[t]
    <3>1. \A t \in rows' : Part(t) \notin Reused(d) => chunk_ids'[t] = chunk_ids[t]
      BY <1>1, <2>1, RunFacts
    <3> QED BY <2>1, <2>2, <2>3, <3>1 DEF FutureInv
  <2>6. flagged = {} => Reused(d) \subseteq store'
    <3>1. d \/ store \cap Reused(d) \subseteq store'
      BY <1>1, RunFacts
    <3>2. d => Reused(d) = {}
      BY DEF Reused, Reusable, Kept
    <3>3. flagged = {} /\ ~ d => Reused(d) \subseteq store
      BY DEF Reused, Reusable, Kept
    <3> QED BY <3>1, <3>2, <3>3
  <2> QED BY <1>1, <2>4, <2>5, <2>6 DEF run_document, execVars
<1>2. CASE cancel_document
  BY <1>2, <1>0 DEF cancel_document, cancel_all_task_of, rowVars, execVars
<1>3. CASE stop_parsing
  BY <1>3, <1>0 DEF stop_parsing, cancel_all_task_of, rowVars, execVars
<1>4. CASE remove_document
  BY <1>4, <1>0 DEF remove_document, cancel_all_task_of, execVars
<1>5. CASE queue_product
  BY <1>5, <1>0 DEF queue_product, docVars, rowVars, execVars, ghosts
<1>6. CASE queue_product_fails
  BY <1>6, <1>0 DEF queue_product_fails, docVars, rowVars, execVars, ghosts
<1>7. CASE cancel_flag_expires
  BY <1>7, <1>0 DEF cancel_flag_expires, docVars, rowVars, execVars, ghosts
<1>8. CASE sync_read
  BY <1>8, <1>0 DEF sync_read, docVars, rowVars, redisVars, execVars, ghosts
<1>9. CASE sync_write
  BY <1>9, <1>0 DEF sync_write, rowVars, redisVars, execVars, ghosts
<1>10. ASSUME NEW w \in Workers, collect_unacked(w) PROVE IndexInv'
  BY <1>10, <1>0 DEF collect_unacked, Collected, Idle, get_task, docVars, redisVars
<1>11. ASSUME NEW w \in Workers, collect_new(w) PROVE IndexInv'
  BY <1>11, <1>0 DEF collect_new, Collected, Idle, get_task, docVars
<1>12. ASSUME NEW w \in Workers, build_chunks(w) PROVE IndexInv'
  BY <1>12, <1>0 DEF build_chunks, Goes, update_progress, docVars, redisVars, ghosts
<1>13. ASSUME NEW w \in Workers, build_fails(w) PROVE IndexInv'
  BY <1>13, <1>0 DEF build_fails, gives_up, Goes, update_progress, docVars, redisVars, ghosts
<1>14. ASSUME NEW w \in Workers, insert_chunks(w) PROVE IndexInv'
  BY <1>14, <1>0 DEF insert_chunks, Goes, docVars, rowVars, redisVars, ghosts
<1>15. ASSUME NEW w \in Workers, update_chunk_ids(w) PROVE IndexInv'
  BY <1>15, <1>0 DEF update_chunk_ids, Goes, docVars, redisVars, ghosts
<1>16. ASSUME NEW w \in Workers, increment_chunk_num(w) PROVE IndexInv'
  BY <1>16, <1>0 DEF increment_chunk_num, Goes, rowVars, redisVars, ghosts
<1>17. ASSUME NEW w \in Workers, task_done(w) PROVE IndexInv'
  BY <1>17, <1>0 DEF task_done, Goes, update_progress, docVars, redisVars, ghosts
<1>18. ASSUME NEW w \in Workers, index_fails(w) PROVE IndexInv'
  BY <1>18, <1>0 DEF index_fails, gives_up, Goes, update_progress, docVars, redisVars, ghosts
<1>19. ASSUME NEW w \in Workers, ack(w) PROVE IndexInv'
BY <1>19, <1>0 DEF ack, Idle, Ack, docVars, rowVars, redisVars, ghosts, FlagInv
<1>20. ASSUME NEW w \in Workers, crash(w) PROVE IndexInv'
  BY <1>20, <1>0 DEF crash, docVars, rowVars, redisVars, ghosts
<1>21. ASSUME NEW w \in Workers, restart(w) PROVE IndexInv'
  BY <1>21, <1>0 DEF restart, docVars, rowVars, redisVars, ghosts
<1>22. CASE UNCHANGED vars
  BY <1>22, <1>0 DEF vars
<1> QED BY <1>1, <1>2, <1>3, <1>4, <1>5, <1>6, <1>7, <1>8, <1>9, <1>10, <1>11, <1>12, <1>13,
  <1>14, <1>15, <1>16, <1>17, <1>18, <1>19, <1>20, <1>21, <1>22 DEF Next, Users, Pushes,
  Synchronizes, Executor, Handles

LEMMA NotedNext ==
  ASSUME Types, FutureInv, MessageInv, NotedInv, [Next]_vars
  PROVE  NotedInv'
<1> USE DEF NotedInv, Busy
<1>0. /\ at \in [Workers -> Steps] /\ task \in [Workers -> Tasks \cup {None}]
      /\ chunk_ids \in [Tasks -> BOOLEAN] /\ attempts \in [Tasks -> Nat]
      /\ pending \in [Workers -> SUBSET Tasks] /\ stream \subseteq Tasks /\ to_push \subseteq Tasks
  BY DEF Types, TypeOK, Steps
<1>m. /\ \A w \in Workers : Busy(w) => task[w] \in pending[w] \ unacked[w]
      /\ \A v, w \in Workers : v # w => pending[v] \cap pending[w] = {}
      /\ \A w \in Workers : pending[w] \cap stream = {} /\ unacked[w] \subseteq pending[w]
  BY DEF MessageInv
<1>1. ASSUME NEW d \in BOOLEAN, run_document(d) PROVE NotedInv'
  <2>1. rows' \subseteq Tasks /\ rows' = {runs + 1} \X Parts
    BY <1>1, RunFacts
  <2>2. \A t \in rows' : t[1] = runs + 1
    BY <2>1
  <2>3. runs \in Nat
    BY QueueAssumption DEF Types, TypeOK
  <2>4. /\ to_push' = to_push \cup {t \in rows' : Part(t) \notin Reused(d)}
        /\ \A t \in Tasks : t \notin rows' \/ Part(t) \notin Reused(d) => chunk_ids'[t] = chunk_ids[t]
    BY <1>1, RunFacts
  <2>5. /\ rows' \cap (to_push \cup stream) = {} /\ \A w \in Workers : rows' \cap pending[w] = {}
        /\ \A t \in rows' : ~ chunk_ids[t]
    BY <2>1, <2>2, <2>3 DEF FutureInv
  <2>6. \A t \in to_push' \cup stream' : attempts'[t] = 0 => ~ chunk_ids'[t]
    BY <1>1, <1>0, <2>1, <2>4, <2>5 DEF run_document
  <2>7. \A w \in Workers : \A t \in pending[w] : chunk_ids'[t] = chunk_ids[t]
    BY <1>0, <2>4, <2>5
  <2> QED BY <1>1, <1>0, <1>m, <2>6, <2>7 DEF run_document, execVars
<1>2. CASE cancel_document
  BY <1>2, <1>0 DEF cancel_document, cancel_all_task_of, rowVars, execVars
<1>3. CASE stop_parsing
  BY <1>3, <1>0 DEF stop_parsing, cancel_all_task_of, rowVars, execVars
<1>4. CASE remove_document
  BY <1>4, <1>0 DEF remove_document, cancel_all_task_of, execVars
<1>5. CASE queue_product
  BY <1>5, <1>0 DEF queue_product, docVars, rowVars, execVars, ghosts
<1>6. CASE queue_product_fails
  BY <1>6, <1>0 DEF queue_product_fails, docVars, rowVars, execVars, ghosts
<1>7. CASE cancel_flag_expires
  BY <1>7, <1>0 DEF cancel_flag_expires, docVars, rowVars, execVars, ghosts
<1>8. CASE sync_read
  BY <1>8, <1>0 DEF sync_read, docVars, rowVars, redisVars, execVars, ghosts
<1>9. CASE sync_write
  BY <1>9, <1>0 DEF sync_write, rowVars, redisVars, execVars, ghosts
<1>10. ASSUME NEW w \in Workers, collect_unacked(w) PROVE NotedInv'
  BY <1>10, <1>0, <1>m DEF collect_unacked, Collected, Idle, get_task, docVars, redisVars
<1>11. ASSUME NEW w \in Workers, collect_new(w) PROVE NotedInv'
  BY <1>11, <1>0, <1>m DEF collect_new, Collected, Idle, get_task, docVars
<1>12. ASSUME NEW w \in Workers, build_chunks(w) PROVE NotedInv'
  BY <1>12, <1>0 DEF build_chunks, Goes, update_progress, docVars, redisVars, ghosts
<1>13. ASSUME NEW w \in Workers, build_fails(w) PROVE NotedInv'
  BY <1>13, <1>0 DEF build_fails, gives_up, Goes, update_progress, docVars, redisVars, ghosts
<1>14. ASSUME NEW w \in Workers, insert_chunks(w) PROVE NotedInv'
  BY <1>14, <1>0 DEF insert_chunks, Goes, docVars, rowVars, redisVars, ghosts
<1>15. ASSUME NEW w \in Workers, update_chunk_ids(w) PROVE NotedInv'
  BY <1>15, <1>0, <1>m DEF update_chunk_ids, Goes, docVars, redisVars, ghosts
<1>16. ASSUME NEW w \in Workers, increment_chunk_num(w) PROVE NotedInv'
  BY <1>16, <1>0 DEF increment_chunk_num, Goes, rowVars, redisVars, ghosts
<1>17. ASSUME NEW w \in Workers, task_done(w) PROVE NotedInv'
  BY <1>17, <1>0 DEF task_done, Goes, update_progress, docVars, redisVars, ghosts
<1>18. ASSUME NEW w \in Workers, index_fails(w) PROVE NotedInv'
  BY <1>18, <1>0 DEF index_fails, gives_up, Goes, update_progress, docVars, redisVars, ghosts
<1>19. ASSUME NEW w \in Workers, ack(w) PROVE NotedInv'
  BY <1>19, <1>0 DEF ack, Idle, Ack, docVars, rowVars, redisVars, ghosts
<1>20. ASSUME NEW w \in Workers, crash(w) PROVE NotedInv'
  BY <1>20, <1>0 DEF crash, docVars, rowVars, redisVars, ghosts
<1>21. ASSUME NEW w \in Workers, restart(w) PROVE NotedInv'
  BY <1>21, <1>0 DEF restart, docVars, rowVars, redisVars, ghosts
<1>22. CASE UNCHANGED vars
  BY <1>22, <1>0 DEF vars
<1> QED BY <1>1, <1>2, <1>3, <1>4, <1>5, <1>6, <1>7, <1>8, <1>9, <1>10, <1>11, <1>12, <1>13,
  <1>14, <1>15, <1>16, <1>17, <1>18, <1>19, <1>20, <1>21, <1>22 DEF Next, Users, Pushes,
  Synchronizes, Executor, Handles

LEMMA CurrentNext ==
  ASSUME Types, MessageInv, CurrentInv, [Next]_vars
  PROVE  CurrentInv'
<1> USE DEF CurrentInv
<1>0. pending \in [Workers -> SUBSET Tasks] /\ \A w \in Workers : unacked[w] \subseteq pending[w]
  BY DEF Types, TypeOK, MessageInv
<1>1. ASSUME NEW d \in BOOLEAN, run_document(d) PROVE CurrentInv'
  <2>1. rows' \subseteq Tasks /\ rows' = {runs + 1} \X Parts
    BY <1>1, RunFacts
  <2>2. \A t \in rows' : t[1] = runs + 1
    BY <2>1
  <2>3. runs \in Nat
    BY QueueAssumption DEF Types, TypeOK
  <2>4. to_push' \subseteq to_push \cup rows' /\ runs' = runs + 1
    BY <1>1, RunFacts
  <2>5. ~ overlapped' => to_push = {} /\ stream = {} /\ \A w \in Workers : pending[w] = {}
    BY <1>1 DEF run_document, InFlight
  <2> QED BY <1>1, <2>2, <2>4, <2>5 DEF run_document, execVars
<1>2. CASE cancel_document
  BY <1>2, <1>0 DEF cancel_document, cancel_all_task_of, rowVars, execVars
<1>3. CASE stop_parsing
  BY <1>3, <1>0 DEF stop_parsing, cancel_all_task_of, rowVars, execVars
<1>4. CASE remove_document
  BY <1>4, <1>0 DEF remove_document, cancel_all_task_of, execVars
<1>5. CASE queue_product
  BY <1>5, <1>0 DEF queue_product, docVars, rowVars, execVars, ghosts
<1>6. CASE queue_product_fails
  BY <1>6, <1>0 DEF queue_product_fails, docVars, rowVars, execVars, ghosts
<1>7. CASE cancel_flag_expires
  BY <1>7, <1>0 DEF cancel_flag_expires, docVars, rowVars, execVars, ghosts
<1>8. CASE sync_read
  BY <1>8, <1>0 DEF sync_read, docVars, rowVars, redisVars, execVars, ghosts
<1>9. CASE sync_write
  BY <1>9, <1>0 DEF sync_write, rowVars, redisVars, execVars, ghosts
<1>10. ASSUME NEW w \in Workers, collect_unacked(w) PROVE CurrentInv'
  BY <1>10, <1>0 DEF collect_unacked, Collected, Idle, get_task, docVars, redisVars
<1>11. ASSUME NEW w \in Workers, collect_new(w) PROVE CurrentInv'
  BY <1>11, <1>0 DEF collect_new, Collected, Idle, get_task, docVars
<1>12. ASSUME NEW w \in Workers, build_chunks(w) PROVE CurrentInv'
  BY <1>12, <1>0 DEF build_chunks, Goes, update_progress, docVars, redisVars, ghosts
<1>13. ASSUME NEW w \in Workers, build_fails(w) PROVE CurrentInv'
  BY <1>13, <1>0 DEF build_fails, gives_up, Goes, update_progress, docVars, redisVars, ghosts
<1>14. ASSUME NEW w \in Workers, insert_chunks(w) PROVE CurrentInv'
  BY <1>14, <1>0 DEF insert_chunks, Goes, docVars, rowVars, redisVars, ghosts
<1>15. ASSUME NEW w \in Workers, update_chunk_ids(w) PROVE CurrentInv'
  BY <1>15, <1>0 DEF update_chunk_ids, Goes, docVars, redisVars, ghosts
<1>16. ASSUME NEW w \in Workers, increment_chunk_num(w) PROVE CurrentInv'
  BY <1>16, <1>0 DEF increment_chunk_num, Goes, rowVars, redisVars, ghosts
<1>17. ASSUME NEW w \in Workers, task_done(w) PROVE CurrentInv'
  BY <1>17, <1>0 DEF task_done, Goes, update_progress, docVars, redisVars, ghosts
<1>18. ASSUME NEW w \in Workers, index_fails(w) PROVE CurrentInv'
  BY <1>18, <1>0 DEF index_fails, gives_up, Goes, update_progress, docVars, redisVars, ghosts
<1>19. ASSUME NEW w \in Workers, ack(w) PROVE CurrentInv'
  BY <1>19, <1>0 DEF ack, Idle, Ack, docVars, rowVars, redisVars, ghosts
<1>20. ASSUME NEW w \in Workers, crash(w) PROVE CurrentInv'
  BY <1>20, <1>0 DEF crash, docVars, rowVars, redisVars, ghosts
<1>21. ASSUME NEW w \in Workers, restart(w) PROVE CurrentInv'
  BY <1>21, <1>0 DEF restart, docVars, rowVars, redisVars, ghosts
<1>22. CASE UNCHANGED vars
  BY <1>22, <1>0 DEF vars
<1> QED BY <1>1, <1>2, <1>3, <1>4, <1>5, <1>6, <1>7, <1>8, <1>9, <1>10, <1>11, <1>12, <1>13,
  <1>14, <1>15, <1>16, <1>17, <1>18, <1>19, <1>20, <1>21, <1>22 DEF Next, Users, Pushes,
  Synchronizes, Executor, Handles

LEMMA RemovedNext ==
  ASSUME Types, SyncInv, RowsInv, MessageInv, FlagInv, CurrentInv, RemovedInv, [Next]_vars
  PROVE  RemovedInv'
<1> USE DEF RemovedInv, Cleans
<1>0. /\ pending \in [Workers -> SUBSET Tasks] /\ at \in [Workers -> Steps]
      /\ task \in [Workers -> Tasks \cup {None}] /\ crashes \in Nat /\ (run = "removed" => rows = {})
  BY QueueAssumption DEF Types, TypeOK, Steps, RowsInv
<1>m. /\ \A w \in Workers : Busy(w) => task[w] \in pending[w]
      /\ \A w \in Workers : unacked[w] \subseteq pending[w]
  BY DEF MessageInv
<1>1. ASSUME NEW d \in BOOLEAN, run_document(d) PROVE RemovedInv'
  <2>1. run' # "removed"
    BY <1>1, RunFacts
  <2> QED BY <2>1
<1>2. CASE cancel_document
  BY <1>2, <1>0 DEF cancel_document, cancel_all_task_of, rowVars, execVars
<1>3. CASE stop_parsing
  BY <1>3, <1>0 DEF stop_parsing, cancel_all_task_of, rowVars, execVars
<1>4. CASE remove_document
  <2>1. rows = {runs} \X Parts
    BY <1>4, QueueAssumption DEF remove_document, RowsInv, Types, TypeOK
  <2>2. \A t \in Tasks : t[1] = runs => t \in rows
    BY <2>1, TaskFacts
  <2>3. /\ to_push \cup stream \subseteq Tasks /\ \A w \in Workers : pending[w] \subseteq Tasks
    BY DEF Types, TypeOK
  <2>4. ~ overlapped => to_push \cup stream \subseteq rows /\ \A w \in Workers : pending[w] \subseteq rows
    BY <2>2, <2>3 DEF CurrentInv
  <2> QED BY <1>4, <2>4 DEF remove_document, cancel_all_task_of, execVars
<1>5. CASE queue_product
  BY <1>5, <1>0 DEF queue_product, docVars, rowVars, execVars, ghosts
<1>6. CASE queue_product_fails
  BY <1>6, <1>0 DEF queue_product_fails, docVars, rowVars, execVars, ghosts
<1>7. CASE cancel_flag_expires
  BY <1>7, <1>0 DEF cancel_flag_expires, docVars, rowVars, execVars, ghosts, FlagInv
<1>8. CASE sync_read
  BY <1>8, <1>0 DEF sync_read, docVars, rowVars, redisVars, execVars, ghosts
<1>9. CASE sync_write
BY <1>9 DEF sync_write, rowVars, redisVars, execVars, ghosts, SyncInv
<1>10. ASSUME NEW w \in Workers, collect_unacked(w) PROVE RemovedInv'
  BY <1>10, <1>0 DEF collect_unacked, Collected, Idle, get_task, docVars, redisVars
<1>11. ASSUME NEW w \in Workers, collect_new(w) PROVE RemovedInv'
  BY <1>11, <1>0 DEF collect_new, Collected, Idle, get_task, docVars
<1>12. ASSUME NEW w \in Workers, build_chunks(w) PROVE RemovedInv'
  BY <1>12, <1>0 DEF build_chunks, Goes, update_progress, docVars, redisVars, ghosts
<1>13. ASSUME NEW w \in Workers, build_fails(w) PROVE RemovedInv'
  BY <1>13, <1>0 DEF build_fails, gives_up, Goes, update_progress, docVars, redisVars, ghosts
<1>14. ASSUME NEW w \in Workers, insert_chunks(w) PROVE RemovedInv'
  BY <1>14, <1>0, <1>m DEF insert_chunks, Goes, docVars, rowVars, redisVars, ghosts, Busy
<1>15. ASSUME NEW w \in Workers, update_chunk_ids(w) PROVE RemovedInv'
  BY <1>15, <1>0 DEF update_chunk_ids, Goes, docVars, redisVars, ghosts
<1>16. ASSUME NEW w \in Workers, increment_chunk_num(w) PROVE RemovedInv'
  BY <1>16, <1>0 DEF increment_chunk_num, Goes, rowVars, redisVars, ghosts
<1>17. ASSUME NEW w \in Workers, task_done(w) PROVE RemovedInv'
  BY <1>17, <1>0 DEF task_done, Goes, update_progress, docVars, redisVars, ghosts
<1>18. ASSUME NEW w \in Workers, index_fails(w) PROVE RemovedInv'
  BY <1>18, <1>0 DEF index_fails, gives_up, Goes, update_progress, docVars, redisVars, ghosts
<1>19. ASSUME NEW w \in Workers, ack(w) PROVE RemovedInv'
  BY <1>19, <1>0 DEF ack, Idle, Ack, docVars, rowVars, redisVars, ghosts
<1>20. ASSUME NEW w \in Workers, crash(w) PROVE RemovedInv'
  BY <1>20, <1>0 DEF crash, docVars, rowVars, redisVars, ghosts
<1>21. ASSUME NEW w \in Workers, restart(w) PROVE RemovedInv'
  BY <1>21, <1>0 DEF restart, docVars, rowVars, redisVars, ghosts
<1>22. CASE UNCHANGED vars
  BY <1>22, <1>0 DEF vars
<1> QED BY <1>1, <1>2, <1>3, <1>4, <1>5, <1>6, <1>7, <1>8, <1>9, <1>10, <1>11, <1>12, <1>13,
  <1>14, <1>15, <1>16, <1>17, <1>18, <1>19, <1>20, <1>21, <1>22 DEF Next, Users, Pushes,
  Synchronizes, Executor, Handles

-----------------------------------------------------------------------------
(* The count of chunks.                                                    *)

(* A step that keeps every set of counted tasks keeps the invariant.       *)
LEMMA CountKept ==
  ASSUME CountInv, HandledOnce' => HandledOnce, rows' = rows,
         \A X \in SUBSET rows : HandledOnce' /\ CountedSet(X) => CountedSet(X)'
  PROVE  CountInv'
BY DEF CountInv

LEMMA NothingCounted ==
  ASSUME rows' = {}, chunk_num' = 0
  PROVE  CountInv'
<1>1. IsFiniteSet({}) /\ Cardinality({}) = 0
  BY FS_EmptySet
<1>2. CountedSet({})'
  BY <1>1 DEF CountedSet
<1> QED BY <1>2 DEF CountInv

(* The reused parts are counted through their new tasks.                   *)
LEMMA ReusedAreCounted ==
  ASSUME NEW n, NEW R \in SUBSET Parts
  PROVE  IsFiniteSet({n} \X R) /\ Cardinality({n} \X R) = Cardinality(R)
<1>1. IsFiniteSet(R) /\ Cardinality(R) \in Nat
  BY QueueAssumption, FS_Subset, FS_CardinalityType
<1>2. IsFiniteSet({n}) /\ Cardinality({n}) = 1
  BY FS_Singleton
<1>3. IsFiniteSet({n} \X R) /\ Cardinality({n} \X R) = 1 * Cardinality(R)
  BY <1>1, <1>2, FS_Product
<1> QED BY <1>1, <1>3

LEMMA CountNext ==
  ASSUME Types, RowsInv, FutureInv, MessageInv, SettledInv, NotedInv, CurrentInv, CountInv, [Next]_vars
  PROVE  CountInv'
<1> USE DEF Busy
<1>0. /\ at \in [Workers -> Steps] /\ task \in [Workers -> Tasks \cup {None}]
      /\ chunk_ids \in [Tasks -> BOOLEAN] /\ attempts \in [Tasks -> Nat] /\ progress \in [Tasks -> -1..2]
      /\ rows \subseteq Tasks /\ stream \subseteq Tasks /\ \A w \in Workers : pending[w] \subseteq Tasks
  BY DEF Types, TypeOK, Steps
<1>m. /\ \A w \in Workers : Busy(w) => task[w] \in pending[w] \ unacked[w]
      /\ \A v, w \in Workers : v # w => pending[v] \cap pending[w] = {}
      /\ \A w \in Workers : pending[w] \cap stream = {} /\ unacked[w] \subseteq pending[w]
  BY DEF MessageInv
<1>1. ASSUME NEW d \in BOOLEAN, run_document(d) PROVE CountInv'
  <2>1. rows' \subseteq Tasks /\ rows' = {runs + 1} \X Parts
    BY <1>1, RunFacts
  <2>2. \A t \in rows' : t[1] = runs + 1
    BY <2>1
  <2>3. runs \in Nat
    BY QueueAssumption DEF Types, TypeOK
  <2>4. Reused(d) \subseteq Parts
    BY DEF Reused
  <2>x. PICK X : X = {runs + 1} \X Reused(d)
    OBVIOUS
  <2>5. /\ chunk_num' = Cardinality(Reused(d))
        /\ \A t \in rows' : Part(t) \in Reused(d) => chunk_ids'[t] = TRUE
        /\ \A t \in rows' : Part(t) \notin Reused(d) => chunk_ids'[t] = chunk_ids[t]
    BY <1>1, <2>1, RunFacts
  <2>6. IsFiniteSet(X) /\ Cardinality(X) = Cardinality(Reused(d))
    BY <2>4, <2>x, ReusedAreCounted
  <2>7. X \subseteq rows' /\ \A t \in rows' : t \in X <=> Part(t) \in Reused(d)
    BY <2>1, <2>4, <2>x DEF Part
  <2>8. \A t \in rows' : chunk_ids'[t] <=> t \in X
    BY <2>1, <2>2, <2>3, <2>5, <2>7 DEF FutureInv
  <2>9. \A w \in Workers : Busy(w) => task[w] \notin rows'
    BY <1>m, <2>2, <2>3 DEF FutureInv
  <2>10. CountedSet(X)'
    BY <1>1, <2>5, <2>6, <2>7, <2>8, <2>9 DEF CountedSet, run_document, execVars
  <2> QED BY <2>7, <2>10 DEF CountInv
<1>2. CASE cancel_document
  <2>1. flagged' = flagged \cup rows
    BY <1>2 DEF cancel_document, cancel_all_task_of, rowVars, execVars
  <2>2. rows' = rows /\ (HandledOnce' => HandledOnce)
    BY <1>2, <2>1 DEF cancel_document, cancel_all_task_of, rowVars, execVars, HandledOnce
  <2>3. ASSUME NEW X \in SUBSET rows, HandledOnce', CountedSet(X) PROVE CountedSet(X)'
    BY <1>2, <2>3 DEF cancel_document, cancel_all_task_of, rowVars, execVars, CountedSet
  <2> QED BY <2>2, <2>3, CountKept
<1>3. CASE stop_parsing
  <2>1. rows' = rows /\ chunk_num' = 0 /\ flagged' = flagged \cup rows
    BY <1>3 DEF stop_parsing, cancel_all_task_of, rowVars, execVars
  <2>2. CASE rows = {}
    BY <2>1, <2>2, NothingCounted
  <2>3. CASE rows # {}
    BY <2>1, <2>3 DEF CountInv, HandledOnce
  <2> QED BY <2>2, <2>3
<1>4. CASE remove_document
  BY <1>4, NothingCounted DEF remove_document
<1>5. CASE queue_product
  <2>1. rows' = rows /\ (HandledOnce' => HandledOnce)
    BY <1>5, <1>0 DEF queue_product, docVars, rowVars, execVars, ghosts, HandledOnce
  <2>2. ASSUME NEW X \in SUBSET rows, HandledOnce', CountedSet(X) PROVE CountedSet(X)'
    BY <1>5, <1>0, <1>m, <2>1, <2>2 DEF queue_product, docVars, rowVars, execVars, ghosts,
       CountedSet, HandledOnce, Finished, Started, Bad
  <2> QED BY <2>1, <2>2, CountKept
<1>6. CASE queue_product_fails
  <2>1. rows' = rows /\ (HandledOnce' => HandledOnce)
    BY <1>6, <1>0 DEF queue_product_fails, docVars, rowVars, execVars, ghosts, HandledOnce
  <2>2. ASSUME NEW X \in SUBSET rows, HandledOnce', CountedSet(X) PROVE CountedSet(X)'
    BY <1>6, <1>0, <1>m, <2>1, <2>2 DEF queue_product_fails, docVars, rowVars, execVars, ghosts,
       CountedSet, HandledOnce, Finished, Started, Bad
  <2> QED BY <2>1, <2>2, CountKept
<1>7. CASE cancel_flag_expires
  <2>1. rows' = rows /\ (HandledOnce' => HandledOnce)
    BY <1>7, <1>0 DEF cancel_flag_expires, docVars, rowVars, execVars, ghosts, HandledOnce
  <2>2. ASSUME NEW X \in SUBSET rows, HandledOnce', CountedSet(X) PROVE CountedSet(X)'
    BY <1>7, <1>0, <1>m, <2>1, <2>2 DEF cancel_flag_expires, docVars, rowVars, execVars, ghosts,
       CountedSet, HandledOnce, Finished, Started, Bad
  <2> QED BY <2>1, <2>2, CountKept
<1>8. CASE sync_read
  <2>1. rows' = rows /\ (HandledOnce' => HandledOnce)
    BY <1>8, <1>0 DEF sync_read, docVars, rowVars, redisVars, execVars, ghosts, HandledOnce
  <2>2. ASSUME NEW X \in SUBSET rows, HandledOnce', CountedSet(X) PROVE CountedSet(X)'
    BY <1>8, <1>0, <1>m, <2>1, <2>2 DEF sync_read, docVars, rowVars, redisVars, execVars, ghosts,
       CountedSet, HandledOnce, Finished, Started, Bad
  <2> QED BY <2>1, <2>2, CountKept
<1>9. CASE sync_write
  <2>1. rows' = rows /\ (HandledOnce' => HandledOnce)
    BY <1>9, <1>0 DEF sync_write, rowVars, redisVars, execVars, ghosts, HandledOnce
  <2>2. ASSUME NEW X \in SUBSET rows, HandledOnce', CountedSet(X) PROVE CountedSet(X)'
    BY <1>9, <1>0, <1>m, <2>1, <2>2 DEF sync_write, rowVars, redisVars, execVars, ghosts,
       CountedSet, HandledOnce, Finished, Started, Bad
  <2> QED BY <2>1, <2>2, CountKept
<1>10. ASSUME NEW w \in Workers, collect_unacked(w) PROVE CountInv'
  <2>1. rows' = rows /\ (HandledOnce' => HandledOnce)
    BY <1>10, <1>0 DEF collect_unacked, Collected, Idle, get_task, docVars, redisVars, HandledOnce
  <2>2. ASSUME NEW X \in SUBSET rows, HandledOnce', CountedSet(X) PROVE CountedSet(X)'
    BY <1>10, <1>0, <1>m, <2>1, <2>2 DEF collect_unacked, Collected, Idle, get_task, docVars,
       redisVars, CountedSet, HandledOnce, Finished, Started, Bad
  <2> QED BY <2>1, <2>2, CountKept
<1>11. ASSUME NEW w \in Workers, collect_new(w) PROVE CountInv'
  <2>1. rows' = rows /\ (HandledOnce' => HandledOnce)
    BY <1>11, <1>0 DEF collect_new, Collected, Idle, get_task, docVars, HandledOnce
  <2>2. ASSUME NEW X \in SUBSET rows, HandledOnce', CountedSet(X) PROVE CountedSet(X)'
    BY <1>11, <1>0, <1>m, <2>1, <2>2 DEF collect_new, Collected, Idle, get_task, docVars,
       CountedSet, HandledOnce, Finished, Started, Bad
  <2> QED BY <2>1, <2>2, CountKept
<1>12. ASSUME NEW w \in Workers, build_chunks(w) PROVE CountInv'
  <2>1. rows' = rows /\ (HandledOnce' => HandledOnce)
    BY <1>12 DEF build_chunks, Goes, update_progress, docVars, redisVars, ghosts, HandledOnce
  <2>2. HandledOnce' /\ task[w] \in rows => ~ chunk_ids[task[w]] /\ progress[task[w]] # Finished
    BY <1>12, <2>1 DEF build_chunks, HandledOnce, NotedInv, SettledInv
  <2>3. ASSUME NEW X \in SUBSET rows, HandledOnce', CountedSet(X) PROVE CountedSet(X)'
    BY <1>12, <1>0, <1>m, <2>1, <2>2, <2>3 DEF build_chunks, Goes, update_progress, docVars,
       redisVars, ghosts, CountedSet, Finished
  <2> QED BY <2>1, <2>3, CountKept
<1>13. ASSUME NEW w \in Workers, build_fails(w) PROVE CountInv'
  <2>1. rows' = rows /\ (HandledOnce' => HandledOnce)
    BY <1>13, <1>0 DEF build_fails, gives_up, Goes, update_progress, docVars, redisVars, ghosts,
       HandledOnce
  <2>2. ASSUME NEW X \in SUBSET rows, HandledOnce', CountedSet(X) PROVE CountedSet(X)'
    BY <1>13, <1>0, <1>m, <2>1, <2>2 DEF build_fails, gives_up, Goes, update_progress, docVars,
       redisVars, ghosts, CountedSet, HandledOnce, Finished, Started, Bad
  <2> QED BY <2>1, <2>2, CountKept
<1>14. ASSUME NEW w \in Workers, insert_chunks(w) PROVE CountInv'
  <2>1. rows' = rows /\ (HandledOnce' => HandledOnce)
    BY <1>14, <1>0 DEF insert_chunks, Goes, docVars, rowVars, redisVars, ghosts, HandledOnce
  <2>2. ASSUME NEW X \in SUBSET rows, HandledOnce', CountedSet(X) PROVE CountedSet(X)'
    BY <1>14, <1>0, <1>m, <2>1, <2>2 DEF insert_chunks, Goes, docVars, rowVars, redisVars, ghosts,
       CountedSet, HandledOnce, Finished, Started, Bad
  <2> QED BY <2>1, <2>2, CountKept
<1>15. ASSUME NEW w \in Workers, update_chunk_ids(w) PROVE CountInv'
  <2>1. rows' = rows /\ (HandledOnce' => HandledOnce)
    BY <1>15 DEF update_chunk_ids, Goes, docVars, redisVars, ghosts, HandledOnce
  <2>2. HandledOnce' /\ task[w] \in rows => ~ chunk_ids[task[w]] /\ progress[task[w]] # Finished
    BY <1>15, <2>1 DEF update_chunk_ids, HandledOnce, NotedInv, SettledInv
  <2>3. ASSUME NEW X \in SUBSET rows, HandledOnce', CountedSet(X) PROVE CountedSet(X)'
    BY <1>15, <1>0, <1>m, <2>1, <2>2, <2>3 DEF update_chunk_ids, Goes, docVars, redisVars, ghosts,
       CountedSet, Finished
  <2> QED BY <2>1, <2>3, CountKept
<1>16. ASSUME NEW w \in Workers, increment_chunk_num(w) PROVE CountInv'
  <2> DEFINE t == task[w]
  <2>1. rows' = rows /\ (HandledOnce' => HandledOnce)
    BY <1>16 DEF increment_chunk_num, Goes, rowVars, redisVars, ghosts, HandledOnce
  <2>2. CASE t \notin rows
    <3>1. ~ overlapped => run = "removed"
      <4>1. t \in Tasks /\ t \in pending[w]
        BY <1>16, <1>0, <1>m DEF increment_chunk_num
      <4>2. ~ overlapped => t[1] = runs /\ t[1] > 0 /\ t \in {t[1]} \X Parts
        BY <4>1, TaskFacts DEF CurrentInv, Tasks
      <4> QED BY <2>2, <4>2 DEF RowsInv
    <3>2. ASSUME NEW X \in SUBSET rows, HandledOnce', CountedSet(X) PROVE CountedSet(X)'
      BY <1>16, <1>0, <2>1, <2>2, <3>1, <3>2 DEF increment_chunk_num, Goes, rowVars, redisVars,
         ghosts, CountedSet, HandledOnce
    <3> QED BY <2>1, <3>2, CountKept
  <2>3. CASE t \in rows
    <3> SUFFICES ASSUME HandledOnce'
                 PROVE  \E X \in SUBSET rows : CountedSet(X)'
      BY <2>1 DEF CountInv
    <3>1. PICK Y \in SUBSET rows : CountedSet(Y)
      BY <2>1 DEF CountInv
    <3>2. t \notin Y /\ chunk_ids[t] /\ IsFiniteSet(Y) /\ chunk_num = Cardinality(Y)
      BY <1>16, <2>3, <3>1 DEF CountedSet, increment_chunk_num
    <3>x. PICK X : X = Y \cup {t}
      OBVIOUS
    <3>3. IsFiniteSet(X) /\ Cardinality(X) = chunk_num + 1
      BY <3>2, <3>x, FS_AddElement
    <3>4. chunk_num' = chunk_num + 1
      BY <1>16, <2>3 DEF increment_chunk_num, RowsInv
    <3>5. \A v \in Workers : v # w /\ at[v] = "count" => task[v] # t
      BY <1>16, <1>m DEF increment_chunk_num
    <3>6. at' = [at EXCEPT ![w] = "finish"] /\ UNCHANGED <<task, rows, progress, chunk_ids>>
      BY <1>16 DEF increment_chunk_num, Goes, rowVars
    <3>7. CountedSet(X)'
      BY <1>0, <2>3, <3>x, <3>1, <3>2, <3>3, <3>4, <3>5, <3>6 DEF CountedSet
    <3> QED BY <2>3, <3>x, <3>7
  <2> QED BY <2>2, <2>3
<1>17. ASSUME NEW w \in Workers, task_done(w) PROVE CountInv'
  <2>1. rows' = rows /\ (HandledOnce' => HandledOnce)
    BY <1>17, <1>0 DEF task_done, Goes, update_progress, docVars, redisVars, ghosts, HandledOnce
  <2>2. ASSUME NEW X \in SUBSET rows, HandledOnce', CountedSet(X) PROVE CountedSet(X)'
    BY <1>17, <1>0, <1>m, <2>1, <2>2 DEF task_done, Goes, update_progress, docVars, redisVars,
       ghosts, CountedSet, HandledOnce, Finished, Started, Bad
  <2> QED BY <2>1, <2>2, CountKept
<1>18. ASSUME NEW w \in Workers, index_fails(w) PROVE CountInv'
  <2>1. rows' = rows /\ (HandledOnce' => HandledOnce)
    BY <1>18, <1>0 DEF index_fails, gives_up, Goes, update_progress, docVars, redisVars, ghosts,
       HandledOnce
  <2>2. ASSUME NEW X \in SUBSET rows, HandledOnce', CountedSet(X) PROVE CountedSet(X)'
    BY <1>18, <1>0, <1>m, <2>1, <2>2 DEF index_fails, gives_up, Goes, update_progress, docVars,
       redisVars, ghosts, CountedSet, HandledOnce, Finished, Started, Bad
  <2> QED BY <2>1, <2>2, CountKept
<1>19. ASSUME NEW w \in Workers, ack(w) PROVE CountInv'
  <2>1. rows' = rows /\ (HandledOnce' => HandledOnce)
    BY <1>19, <1>0 DEF ack, Idle, Ack, docVars, rowVars, redisVars, ghosts, HandledOnce
  <2>2. ASSUME NEW X \in SUBSET rows, HandledOnce', CountedSet(X) PROVE CountedSet(X)'
    BY <1>19, <1>0, <1>m, <2>1, <2>2 DEF ack, Idle, Ack, docVars, rowVars, redisVars, ghosts,
       CountedSet, HandledOnce, Finished, Started, Bad
  <2> QED BY <2>1, <2>2, CountKept
<1>20. ASSUME NEW w \in Workers, crash(w) PROVE CountInv'
  <2>1. rows' = rows /\ (HandledOnce' => HandledOnce)
    BY <1>20, <1>0 DEF crash, docVars, rowVars, redisVars, ghosts, HandledOnce
  <2>2. ASSUME NEW X \in SUBSET rows, HandledOnce', CountedSet(X) PROVE CountedSet(X)'
    BY <1>20, <1>0, <1>m, <2>1, <2>2 DEF crash, docVars, rowVars, redisVars, ghosts, CountedSet,
       HandledOnce, Finished, Started, Bad
  <2> QED BY <2>1, <2>2, CountKept
<1>21. ASSUME NEW w \in Workers, restart(w) PROVE CountInv'
  <2>1. rows' = rows /\ (HandledOnce' => HandledOnce)
    BY <1>21, <1>0 DEF restart, docVars, rowVars, redisVars, ghosts, HandledOnce
  <2>2. ASSUME NEW X \in SUBSET rows, HandledOnce', CountedSet(X) PROVE CountedSet(X)'
    BY <1>21, <1>0, <1>m, <2>1, <2>2 DEF restart, docVars, rowVars, redisVars, ghosts, CountedSet,
       HandledOnce, Finished, Started, Bad
  <2> QED BY <2>1, <2>2, CountKept
<1>22. CASE UNCHANGED vars
  <2>1. rows' = rows /\ (HandledOnce' => HandledOnce)
    BY <1>22, <1>0 DEF vars, HandledOnce
  <2>2. ASSUME NEW X \in SUBSET rows, HandledOnce', CountedSet(X) PROVE CountedSet(X)'
    BY <1>22, <1>0, <1>m, <2>1, <2>2 DEF vars, CountedSet, HandledOnce, Finished, Started, Bad
  <2> QED BY <2>1, <2>2, CountKept
<1> QED BY <1>1, <1>2, <1>3, <1>4, <1>5, <1>6, <1>7, <1>8, <1>9, <1>10, <1>11, <1>12, <1>13,
  <1>14, <1>15, <1>16, <1>17, <1>18, <1>19, <1>20, <1>21, <1>22 DEF Next, Users, Pushes,
  Synchronizes, Executor, Handles

-----------------------------------------------------------------------------
(* The invariant, and what follows.                                        *)

LEMMA QueueInvInit == Init => QueueInv
<1> SUFFICES ASSUME Init PROVE QueueInv
  OBVIOUS
<1>1. Types
  BY TypesInit
<1>2. SyncInv /\ RowsInv /\ FlagInv /\ NoTaskIsLost
  BY DEF Init, SyncInv, RowsInv, FlagInv, NoTaskIsLost
<1>3. FutureInv /\ AttemptInv /\ NotedInv
  BY QueueAssumption DEF Init, FutureInv, AttemptInv, NotedInv, Busy
<1>4. MessageInv /\ SettledInv
  BY DEF Init, MessageInv, SettledInv, Busy
<1>5. IndexInv /\ CurrentInv /\ RemovedInv
  BY DEF Init, IndexInv, CurrentInv, RemovedInv
<1>6. CountInv
  <2>1. IsFiniteSet({}) /\ Cardinality({}) = 0
    BY FS_EmptySet
  <2>2. CountedSet({})
    BY <2>1 DEF CountedSet, Init
  <2> QED BY <2>2 DEF CountInv
<1> QED BY <1>1, <1>2, <1>3, <1>4, <1>5, <1>6 DEF QueueInv

LEMMA QueueInvNext == QueueInv /\ [Next]_vars => QueueInv'
<1> SUFFICES ASSUME QueueInv, [Next]_vars PROVE QueueInv'
  OBVIOUS
<1>1. Types /\ SyncInv /\ RowsInv /\ FutureInv /\ MessageInv /\ SettledInv /\ FlagInv
  BY DEF QueueInv
<1>2. AttemptInv /\ NoTaskIsLost /\ IndexInv /\ NotedInv /\ CurrentInv /\ CountInv /\ RemovedInv
  BY DEF QueueInv
<1>3. Types' /\ SyncInv' /\ RowsInv' /\ FutureInv' /\ MessageInv' /\ SettledInv' /\ FlagInv'
  BY <1>1, TypesNext, SyncNext, RowsNext, FutureNext, MessageNext, SettledNext, FlagNext
<1>4. AttemptInv' /\ NoTaskIsLost' /\ IndexInv' /\ NotedInv'
  BY <1>1, <1>2, AttemptNext, LostNext, IndexNext, NotedNext
<1>5. CurrentInv' /\ CountInv' /\ RemovedInv'
  BY <1>1, <1>2, CurrentNext, CountNext, RemovedNext
<1> QED BY <1>3, <1>4, <1>5 DEF QueueInv

LEMMA QueueInvHolds == Spec => []QueueInv
<1>1. Init /\ [][Next]_vars => []QueueInv
  BY QueueInvInit, QueueInvNext, PTL
<1> QED BY <1>1, PTL DEF Spec

(* The rows, the messages and the handlers keep their types for every      *)
(* number of executors, parts, runs, crashes and cancel requests.          *)
THEOREM QueueTypeCorrect == Spec => []TypeOK
<1>1. QueueInv => TypeOK
  BY DEF QueueInv, Types
<1> QED BY <1>1, QueueInvHolds, PTL

(* collect, handle_task and ack: however often executors crash, a task of  *)
(* the current run that is not settled has its message in the stream or    *)
(* pending, unless its push failed or a user cancelled it.                 *)
THEOREM TasksAreNotLost == Spec => []NoTaskIsLost
<1>1. QueueInv => NoTaskIsLost
  BY DEF QueueInv
<1> QED BY <1>1, QueueInvHolds, PTL

(* TaskService.get_task: no task is handled more than max_attempts times,  *)
(* for every max_attempts and every number of executors, crashes and runs. *)
THEOREM AttemptsBounded == Spec => []AttemptsAreBounded
<1>1. QueueInv => AttemptsAreBounded
  BY DEF QueueInv, AttemptInv, AttemptsAreBounded
<1> QED BY <1>1, QueueInvHolds, PTL

(* reuse_prev_task_chunks, insert_chunks and update_chunk_ids: while       *)
(* nobody cancels, a document that is DONE has all the chunks its rows     *)
(* claim, through overlapping runs and crashes.                            *)
THEOREM DoneIsIndexed == Spec => []DoneMeansIndexedUnlessCanceled
<1>1. QueueInv => DoneMeansIndexedUnlessCanceled
  BY DEF QueueInv, IndexInv, DoneMeansIndexedUnlessCanceled, Indexed
<1> QED BY <1>1, QueueInvHolds, PTL

(* increment_chunk_num against queue_tasks: the count of a finished        *)
(* document is that of its tasks with chunks, when each was handled once.  *)
THEOREM ChunkCountExact == Spec => []ChunkCountIsExact
<1>1. QueueInv => ChunkCountIsExact
  <2> SUFFICES ASSUME QueueInv, flagged = {}, ~ overlapped,
                      \A t \in rows : progress[t] = Finished /\ attempts[t] <= 1
               PROVE  chunk_num = Cardinality({t \in rows : chunk_ids[t]})
    BY DEF ChunkCountIsExact
  <2>1. CountInv /\ HandledOnce
    BY DEF QueueInv, HandledOnce
  <2>2. PICK X \in SUBSET rows : CountedSet(X)
    BY <2>1 DEF CountInv
  <2>3. X = {t \in rows : chunk_ids[t]}
    BY <2>2 DEF CountedSet
  <2> QED BY <2>2, <2>3 DEF CountedSet
<1> QED BY <1>1, QueueInvHolds, PTL

(* remove_document against the handlers at work: what they index after the *)
(* removal is deleted again, as long as none crashes, no flag expires and  *)
(* no two runs overlapped.                                                 *)
THEOREM RemovalIsClean == Spec => []RemovedDocumentLeavesNoChunks
<1>1. QueueInv => RemovedDocumentLeavesNoChunks
  BY DEF QueueInv, RemovedInv, Cleans, RemovedDocumentLeavesNoChunks
<1> QED BY <1>1, QueueInvHolds, PTL

(* _sync_progress: the conditional update; only a parse request takes a    *)
(* document out of CANCEL, whatever the thread had read.                   *)
THEOREM CancelIsKept == Spec => CancelStays
<1> DEFINE StaysCanceled == run = "CANCEL" /\ runs' = runs => run' \in {"CANCEL", "removed"}
<1>1. QueueInv /\ [Next]_vars => [StaysCanceled]_vars
  <2> SUFFICES ASSUME QueueInv, Next, run = "CANCEL", runs' = runs
               PROVE  run' \in {"CANCEL", "removed"}
    OBVIOUS
  <2>1. runs \in Nat
    BY QueueAssumption DEF QueueInv, Types, TypeOK
  <2>2. CASE Users
    BY <2>1, <2>2 DEF Users, run_document, cancel_document, stop_parsing, remove_document
  <2>3. CASE Pushes \/ cancel_flag_expires
    BY <2>3 DEF Pushes, queue_product, queue_product_fails, cancel_flag_expires, docVars
  <2>4. CASE Synchronizes
    BY <2>4 DEF Synchronizes, sync_read, sync_write, docVars
  <2>5. ASSUME NEW w \in Workers, Executor(w) \/ crash(w)
        PROVE  run' = run
    BY <2>5 DEF Executor, Handles, crash, collect_unacked, collect_new, build_chunks, build_fails,
         insert_chunks, update_chunk_ids, increment_chunk_num, task_done, index_fails, ack, restart,
         docVars
  <2> QED BY <2>2, <2>3, <2>4, <2>5 DEF Next
<1>2. Spec => [][Next]_vars
  BY PTL DEF Spec
<1> QED BY <1>1, <1>2, QueueInvHolds, PTL DEF CancelStays

=============================================================================
