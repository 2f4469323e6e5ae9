----------------------------- MODULE TaskQueue -----------------------------
(***************************************************************************)
(* How one document is parsed: the API server cuts it into tasks (rows of  *)
(* the task table and messages of a Redis stream), task executors collect  *)
(* messages through a consumer group, parse, index and acknowledge, and    *)
(* a thread of the API server copies the progress of the tasks to the      *)
(* document.  Executors crash and restart under their old consumer name;   *)
(* users cancel, parse again and remove the document at any moment.        *)
(*                                                                         *)
(* The processes share the database, Redis and the document store only, so *)
(* one action ends where another process can come in between: at every     *)
(* look at the cancel flag.  A request of the API server is one action,    *)
(* but for the pushes to Redis.                                            *)
(*                                                                         *)
(* The chunks of a part have ids made of their content: indexing a part    *)
(* twice leaves one copy.  A progress is 0, started, 1.0 or -1.            *)
(***************************************************************************)
EXTENDS Integers, FiniteSets

CONSTANTS
  Workers,           \* executors, one of the concurrent handlers of each
  Parts,             \* page ranges the document is cut into
  max_attempts,      \* 3 in TaskService.get_task
  MaxRuns,           \* bound: times the document is parsed
  MaxCrashes,        \* bound: crashes of executors
  MaxCancels         \* bound: cancel requests

ASSUME QueueAssumption ==
  /\ max_attempts \in Nat /\ IsFiniteSet(Parts)
  /\ MaxRuns \in Nat /\ MaxCrashes \in Nat /\ MaxCancels \in Nat

(* The task of a part in the n-th run.                                     *)
Tasks == (1..MaxRuns) \X Parts

Part(t) == t[2]

None == <<>>

NotStarted == 0
Started == 1
Finished == 2
Bad == -1
Keep == 3            \* the progress thread leaves the document's as it is

Runs == {"UNSTART", "RUNNING", "CANCEL", "DONE", "FAIL", "removed"}

VARIABLES
  run, doc_progress, chunk_num,    \* the document's row
  runs,                            \* times it was parsed
  rows,                            \* ids in the task table
  progress, retry_count, chunk_ids,
  canceled,                        \* tasks with a cancel flag in Redis
  to_push,                         \* rows whose message is still to be sent
  stream,                          \* messages not yet delivered
  pending,                         \* delivered and not acknowledged, by consumer
  unacked,                         \* what a restarted executor has yet to take up
  at, task,                        \* every executor's step and task
  store,                           \* parts whose chunks are indexed
  sync,                            \* what the progress thread is about to write
  crashes, cancels,
  attempts,                        \* times a task was handled
  unsent,                          \* tasks whose push failed
  flagged,                         \* tasks ever canceled
  overlapped                       \* parsed again while old tasks were about

docVars == <<run, doc_progress, chunk_num, runs>>
rowVars == <<rows, progress, retry_count, chunk_ids>>
redisVars == <<canceled, to_push, stream, unsent>>
execVars == <<pending, unacked, at, task>>
ghosts == <<attempts, flagged, overlapped>>

vars == <<run, doc_progress, chunk_num, runs, rows, progress, retry_count, chunk_ids, canceled,
          to_push, stream, pending, unacked, at, task, store, sync, crashes, cancels, attempts,
          unsent, flagged, overlapped>>

NoSync == [run |-> "none", progress |-> NotStarted]

Init ==
  /\ run = "UNSTART" /\ doc_progress = NotStarted /\ chunk_num = 0 /\ runs = 0
  /\ rows = {} /\ progress = [t \in Tasks |-> NotStarted]
  /\ retry_count = [t \in Tasks |-> 0] /\ chunk_ids = [t \in Tasks |-> FALSE]
  /\ canceled = {} /\ to_push = {} /\ stream = {} /\ unsent = {}
  /\ pending = [w \in Workers |-> {}] /\ unacked = [w \in Workers |-> {}]
  /\ at = [w \in Workers |-> "idle"] /\ task = [w \in Workers |-> None]
  /\ store = {} /\ sync = NoSync /\ crashes = 0 /\ cancels = 0
  /\ attempts = [t \in Tasks |-> 0] /\ flagged = {} /\ overlapped = FALSE

-----------------------------------------------------------------------------
(* The API server.                                                         *)

(* The finished task of an earlier run that part p can take its chunks of. *)
Reusable(p, kept) ==
  {t \in kept : Part(t) = p /\ progress[t] = Finished /\ chunk_ids[t]}

(* Tasks somewhere between the queue and an acknowledgement.               *)
InFlight == to_push \cup stream \cup UNION {pending[w] : w \in Workers}

(* Mutant: the reused ids stay in the list of chunks to delete.            *)
queue_tasks_deleting(kept, indexed) ==
  LET new(p) == <<runs + 1, p>>
      reused == {p \in Parts : Reusable(p, kept) # {}}
      old == {Part(t) : t \in {u \in kept : chunk_ids[u]}}
  IN /\ rows' = {new(p) : p \in Parts}
     /\ progress' = [t \in Tasks |-> IF t \in {new(p) : p \in reused} THEN Finished ELSE progress[t]]
     /\ chunk_ids' = [t \in Tasks |-> IF t \in {new(p) : p \in reused} THEN TRUE ELSE chunk_ids[t]]
     /\ store' = indexed \ old
     /\ chunk_num' = Cardinality(reused)
     /\ to_push' = to_push \cup {new(p) : p \in Parts \ reused}
     /\ run' = "RUNNING" /\ doc_progress' = Started
     /\ UNCHANGED retry_count

(* Mutant: the reused chunks are added to the count of the last run.       *)
queue_tasks_adding(kept, indexed) ==
  LET new(p) == <<runs + 1, p>>
      reused == {p \in Parts : Reusable(p, kept) # {}}
      old == {Part(t) : t \in {u \in kept : chunk_ids[u]}}
  IN /\ rows' = {new(p) : p \in Parts}
     /\ progress' = [t \in Tasks |-> IF t \in {new(p) : p \in reused} THEN Finished ELSE progress[t]]
     /\ chunk_ids' = [t \in Tasks |-> IF t \in {new(p) : p \in reused} THEN TRUE ELSE chunk_ids[t]]
     /\ store' = indexed \ (old \ reused)
     /\ chunk_num' = chunk_num + Cardinality(reused)
     /\ to_push' = to_push \cup {new(p) : p \in Parts \ reused}
     /\ run' = "RUNNING" /\ doc_progress' = Started
     /\ UNCHANGED retry_count

(* queue_tasks with the rows kept: new rows, some with the chunks of an    *)
(* old one; the other old chunks are deleted.                              *)
queue_tasks(kept, indexed) ==
  LET new(p) == <<runs + 1, p>>
      reused == {p \in Parts : Reusable(p, kept) # {}}
      old == {Part(t) : t \in {u \in kept : chunk_ids[u]}}
  IN /\ rows' = {new(p) : p \in Parts}
     /\ progress' = [t \in Tasks |-> IF t \in {new(p) : p \in reused} THEN Finished ELSE progress[t]]
     /\ chunk_ids' = [t \in Tasks |-> IF t \in {new(p) : p \in reused} THEN TRUE ELSE chunk_ids[t]]
     /\ store' = indexed \ (old \ reused)
     /\ chunk_num' = Cardinality(reused)
     /\ to_push' = to_push \cup {new(p) : p \in Parts \ reused}
     /\ run' = "RUNNING" /\ doc_progress' = Started
     /\ UNCHANGED retry_count

(* document_app.run with RUNNING, with or without delete, and the SDK's    *)
(* parse, which deletes and refuses a running document.                    *)
run_document(delete) ==
  /\ run # "removed" /\ runs < MaxRuns
  /\ runs' = runs + 1
  /\ IF delete THEN queue_tasks({}, {}) ELSE queue_tasks(rows, store)
  /\ overlapped' = (overlapped \/ InFlight # {})
  /\ UNCHANGED <<canceled, stream, unsent, execVars, sync, crashes, cancels, attempts, flagged>>

queue_product ==
  /\ \E t \in to_push : to_push' = to_push \ {t} /\ stream' = stream \cup {t}
  /\ UNCHANGED <<docVars, rowVars, canceled, unsent, execVars, store, sync, crashes, cancels, ghosts>>

(* Redis cannot be reached, or the API server dies: the rest is not sent.  *)
queue_product_fails ==
  /\ to_push # {} /\ unsent' = unsent \cup to_push /\ to_push' = {}
  /\ UNCHANGED <<docVars, rowVars, canceled, stream, execVars, store, sync, crashes, cancels, ghosts>>

cancel_all_task_of ==
  canceled' = canceled \cup rows /\ flagged' = flagged \cup rows

(* document_app.run with CANCEL.                                           *)
cancel_document ==
  /\ run # "removed" /\ cancels < MaxCancels
  /\ run \in {"RUNNING", "CANCEL"} \/ \E t \in rows : progress[t] # Finished
  /\ cancel_all_task_of
  /\ run' = "CANCEL" /\ doc_progress' = NotStarted /\ cancels' = cancels + 1
  /\ UNCHANGED <<chunk_num, runs, rowVars, to_push, stream, unsent, execVars, store, sync, crashes,
                 attempts, overlapped>>

(* The SDK's stop_parsing also drops the chunks.                           *)
stop_parsing ==
  /\ run = "RUNNING" /\ cancels < MaxCancels
  /\ cancel_all_task_of
  /\ run' = "CANCEL" /\ doc_progress' = NotStarted /\ chunk_num' = 0 /\ store' = {}
  /\ cancels' = cancels + 1
  /\ UNCHANGED <<runs, rowVars, to_push, stream, unsent, execVars, sync, crashes, attempts, overlapped>>

(* The row of the document goes first, then flags, task rows and chunks.   *)
remove_document ==
  /\ run # "removed" /\ runs > 0
  /\ run' = "removed" /\ doc_progress' = NotStarted /\ chunk_num' = 0
  /\ cancel_all_task_of /\ rows' = {} /\ store' = {}
  /\ UNCHANGED <<runs, progress, retry_count, chunk_ids, to_push, stream, unsent, execVars, sync,
                 crashes, cancels, attempts, overlapped>>

(* REDIS_CONN.set keeps a flag for an hour.                                *)
cancel_flag_expires ==
  /\ \E t \in canceled : canceled' = canceled \ {t}
  /\ UNCHANGED <<docVars, rowVars, to_push, stream, unsent, execVars, store, sync, crashes, cancels,
                 ghosts>>

-----------------------------------------------------------------------------
(* The progress thread: _sync_progress reads, computes and writes.         *)

Unfinished(t) == progress[t] \in {NotStarted, Started}

sync_read ==
  /\ sync = NoSync /\ run \notin {"CANCEL", "removed"} /\ rows # {}
  /\ doc_progress = Started \/ \E t \in rows : Unfinished(t)
  /\ sync' = CASE \E t \in rows : Unfinished(t) ->
                    [run |-> run,
                     progress |-> IF \A t \in rows : progress[t] \in {NotStarted, Bad}
                                  THEN Keep ELSE Started]
               [] (\A t \in rows : ~ Unfinished(t)) /\ (\E t \in rows : progress[t] = Bad) ->
                    [run |-> "FAIL", progress |-> Bad]
               [] OTHER -> [run |-> "DONE", progress |-> Finished]
  /\ UNCHANGED <<docVars, rowVars, redisVars, execVars, store, crashes, cancels, ghosts>>

(* Mutant: the update is not conditional.                                  *)
sync_write_always ==
  /\ sync # NoSync /\ sync' = NoSync
  /\ run' = (IF run = "removed" THEN run ELSE sync.run)
  /\ doc_progress' = (IF run = "removed" \/ sync.progress = Keep THEN doc_progress ELSE sync.progress)
  /\ UNCHANGED <<chunk_num, runs, rowVars, redisVars, execVars, store, crashes, cancels, ghosts>>

(* Mutant: a mean progress of 0 is written as well.                        *)
sync_write_zero ==
  /\ sync # NoSync /\ sync' = NoSync
  /\ run' = (IF run \in {"removed", "CANCEL"} THEN run ELSE sync.run)
  /\ doc_progress' = (IF run \in {"removed", "CANCEL"} THEN doc_progress ELSE sync.progress)
  /\ UNCHANGED <<chunk_num, runs, rowVars, redisVars, execVars, store, crashes, cancels, ghosts>>

(* Update ... where run != CANCEL.                                         *)
sync_write ==
  /\ sync # NoSync /\ sync' = NoSync
  /\ run' = (IF run \in {"removed", "CANCEL"} THEN run ELSE sync.run)
  /\ doc_progress' = (IF run \in {"removed", "CANCEL"} \/ sync.progress = Keep
                      THEN doc_progress ELSE sync.progress)
  /\ UNCHANGED <<chunk_num, runs, rowVars, redisVars, execVars, store, crashes, cancels, ghosts>>

-----------------------------------------------------------------------------
(* A task executor.                                                        *)

(* TaskService.update_progress: never from -1, and never back.             *)
update_progress(t, p) ==
  progress' = IF t \in rows /\ progress[t] # Bad /\ (p = Bad \/ p > progress[t])
              THEN [progress EXCEPT ![t] = p] ELSE progress

Goes(w, step) == at' = [at EXCEPT ![w] = step] /\ UNCHANGED task

Ack(w, t) == pending' = [pending EXCEPT ![w] = @ \ {t}]

Idle(w) == at' = [at EXCEPT ![w] = "idle"] /\ task' = [task EXCEPT ![w] = None]

(* Mutant: the attempts are counted when a task is given up.               *)
get_task_counts_late(t) ==
  /\ progress' = [progress EXCEPT ![t] = IF retry_count[t] >= max_attempts THEN Bad ELSE Started]
  /\ retry_count' = retry_count

(* TaskService.get_task for a row that is there.                           *)
get_task(t) ==
  /\ progress' = [progress EXCEPT ![t] = IF retry_count[t] >= max_attempts THEN Bad ELSE Started]
  /\ retry_count' = [retry_count EXCEPT ![t] = @ + 1]

(* collect: message t is pending at w by now.  Unknown, given up and       *)
(* canceled tasks are acknowledged at once.                                *)
Collected(w, t, held) ==
  \/ /\ t \notin rows \/ run = "removed"
     /\ pending' = [pending EXCEPT ![w] = held \ {t}] /\ Idle(w)
     /\ UNCHANGED <<progress, retry_count, attempts>>
  \/ /\ t \in rows /\ run # "removed" /\ (retry_count[t] >= max_attempts \/ t \in canceled)
     /\ get_task(t) /\ pending' = [pending EXCEPT ![w] = held \ {t}] /\ Idle(w)
     /\ UNCHANGED attempts
  \/ /\ t \in rows /\ run # "removed" /\ retry_count[t] < max_attempts /\ t \notin canceled
     /\ get_task(t) /\ pending' = [pending EXCEPT ![w] = held]
     /\ at' = [at EXCEPT ![w] = "build"] /\ task' = [task EXCEPT ![w] = t]
     /\ attempts' = [attempts EXCEPT ![t] = @ + 1]

(* The iterator over the messages of an earlier life comes first.          *)
collect_unacked(w) ==
  /\ at[w] = "idle"
  /\ \E t \in unacked[w] :
       unacked' = [unacked EXCEPT ![w] = @ \ {t}] /\ Collected(w, t, pending[w])
  /\ UNCHANGED <<docVars, rows, chunk_ids, redisVars, store, sync, crashes, cancels, flagged,
                 overlapped>>

collect_new(w) ==
  /\ at[w] = "idle" /\ unacked[w] = {}
  /\ \E t \in stream : stream' = stream \ {t} /\ Collected(w, t, pending[w] \cup {t})
  /\ UNCHANGED <<docVars, rows, chunk_ids, canceled, to_push, unsent, unacked, store, sync, crashes,
                 cancels, flagged, overlapped>>

(* The handler at step here sees the flag or an error: the task is bad.    *)
gives_up(w, here, next) ==
  /\ at[w] = here /\ update_progress(task[w], Bad) /\ Goes(w, next)

(* Binding the model, parsing, embedding fail or see the flag; this is     *)
(* before the try ... finally.                                             *)
build_fails(w) ==
  /\ gives_up(w, "build", "log")
  /\ UNCHANGED <<docVars, rows, retry_count, chunk_ids, redisVars, pending, unacked, store, sync,
                 crashes, cancels, ghosts>>

(* Mutant: the message is acknowledged before the chunks are indexed.      *)
build_chunks_acks(w) ==
  /\ at[w] = "build" /\ task[w] \notin canceled
  /\ Goes(w, "inserting") /\ Ack(w, task[w])
  /\ UNCHANGED <<docVars, rowVars, redisVars, unacked, store, sync, crashes, cancels, ghosts>>

(* Chunks are built and the flag is looked at once more, or there are none.*)
build_chunks(w) ==
  /\ at[w] = "build" /\ task[w] \notin canceled
  /\ \/ Goes(w, "inserting") /\ UNCHANGED progress
     \/ update_progress(task[w], Finished) /\ Goes(w, "log")
  /\ UNCHANGED <<docVars, rows, retry_count, chunk_ids, redisVars, pending, unacked, store, sync,
                 crashes, cancels, ghosts>>

(* The store's thread writes ...                                           *)
insert_chunks(w) ==
  /\ at[w] = "inserting" /\ store' = store \cup {Part(task[w])} /\ Goes(w, "inserted")
  /\ UNCHANGED <<docVars, rowVars, redisVars, pending, unacked, sync, crashes, cancels, ghosts>>

(* ... and the ids are noted in the task's row, if it is still there.      *)
update_chunk_ids(w) ==
  /\ at[w] = "inserted" /\ task[w] \notin canceled
  /\ chunk_ids' = (IF task[w] \in rows THEN [chunk_ids EXCEPT ![task[w]] = TRUE] ELSE chunk_ids)
  /\ Goes(w, "count")
  /\ UNCHANGED <<docVars, rows, progress, retry_count, redisVars, pending, unacked, store, sync,
                 crashes, cancels, ghosts>>

increment_chunk_num(w) ==
  /\ at[w] = "count" /\ task[w] \notin canceled
  /\ chunk_num' = (IF run = "removed" THEN chunk_num ELSE chunk_num + 1)
  /\ Goes(w, "finish")
  /\ UNCHANGED <<run, doc_progress, runs, rowVars, redisVars, pending, unacked, store, sync, crashes,
                 cancels, ghosts>>

task_done(w) ==
  /\ at[w] = "finish" /\ task[w] \notin canceled
  /\ update_progress(task[w], Finished) /\ Goes(w, "finally")
  /\ UNCHANGED <<docVars, rows, retry_count, chunk_ids, redisVars, pending, unacked, store, sync,
                 crashes, cancels, ghosts>>

(* The flag is seen inside the try, or the store reports an error.         *)
index_fails(w) ==
  /\ \/ \E here \in {"inserted", "count", "finish"} :
          task[w] \in canceled /\ gives_up(w, here, "finally")
     \/ gives_up(w, "inserting", "finally")
  /\ UNCHANGED <<docVars, rows, retry_count, chunk_ids, redisVars, pending, unacked, store, sync,
                 crashes, cancels, ghosts>>

(* Mutant: a canceled task leaves what it indexed.                         *)
ack_without_cleaning(w) ==
  /\ at[w] \in {"log", "finally"} /\ Idle(w) /\ (Ack(w, task[w]) \/ UNCHANGED pending)
  /\ UNCHANGED <<docVars, rowVars, redisVars, unacked, store, sync, crashes, cancels, ghosts>>

(* finally: a canceled task deletes every chunk of the document.  Then     *)
(* record_pipeline_operation raises and the message stays pending, or the  *)
(* message is acknowledged.                                                *)
ack(w) ==
  /\ at[w] \in {"log", "finally"}
  /\ store' = (IF at[w] = "finally" /\ task[w] \in canceled THEN {} ELSE store)
  /\ Idle(w) /\ (Ack(w, task[w]) \/ UNCHANGED pending)
  /\ UNCHANGED <<docVars, rowVars, redisVars, unacked, sync, crashes, cancels, ghosts>>

crash(w) ==
  /\ at[w] # "down" /\ crashes < MaxCrashes /\ crashes' = crashes + 1
  /\ at' = [at EXCEPT ![w] = "down"] /\ task' = [task EXCEPT ![w] = None]
  /\ unacked' = [unacked EXCEPT ![w] = {}]
  /\ UNCHANGED <<docVars, rowVars, redisVars, pending, store, sync, cancels, ghosts>>

(* Mutant: the messages of the earlier life are not taken up.              *)
restart_afresh(w) ==
  /\ at[w] = "down" /\ at' = [at EXCEPT ![w] = "idle"]
  /\ UNCHANGED <<docVars, rowVars, redisVars, pending, unacked, task, store, sync, crashes, cancels,
                 ghosts>>

(* entrypoint.sh starts the executor again, with its consumer name.        *)
restart(w) ==
  /\ at[w] = "down" /\ at' = [at EXCEPT ![w] = "idle"]
  /\ unacked' = [unacked EXCEPT ![w] = pending[w]]
  /\ UNCHANGED <<docVars, rowVars, redisVars, pending, task, store, sync, crashes, cancels, ghosts>>

Handles(w) ==
  \/ build_chunks(w) \/ build_fails(w) \/ insert_chunks(w) \/ update_chunk_ids(w)
  \/ increment_chunk_num(w) \/ task_done(w) \/ index_fails(w) \/ ack(w)

Executor(w) == collect_unacked(w) \/ collect_new(w) \/ Handles(w) \/ restart(w)

Synchronizes == sync_read \/ sync_write

Pushes == queue_product \/ queue_product_fails

Users ==
  \/ \E delete \in BOOLEAN : run_document(delete)
  \/ cancel_document \/ stop_parsing \/ remove_document

Next ==
  \/ Users \/ Pushes \/ cancel_flag_expires \/ Synchronizes
  \/ \E w \in Workers : Executor(w) \/ crash(w)

(* The executors are started again and work on, the server sends what it   *)
(* began to send, the progress thread runs every six seconds.              *)
Spec ==
  /\ Init /\ [][Next]_vars
  /\ WF_vars(Pushes) /\ WF_vars(Synchronizes) /\ \A w \in Workers : WF_vars(Executor(w))

-----------------------------------------------------------------------------
TypeOK ==
  /\ run \in Runs /\ doc_progress \in -1..2 /\ chunk_num \in Nat /\ runs \in 0..MaxRuns
  /\ rows \in SUBSET Tasks /\ progress \in [Tasks -> -1..2]
  /\ retry_count \in [Tasks -> Nat] /\ chunk_ids \in [Tasks -> BOOLEAN]
  /\ canceled \in SUBSET Tasks /\ to_push \in SUBSET Tasks
  /\ stream \in SUBSET Tasks /\ unsent \in SUBSET Tasks
  /\ pending \in [Workers -> SUBSET Tasks] /\ unacked \in [Workers -> SUBSET Tasks]
  /\ at \in [Workers -> {"idle", "build", "inserting", "inserted", "count", "finish",
                         "finally", "log", "down"}]
  /\ \A w \in Workers : task[w] \in IF at[w] \in {"idle", "down"} THEN {None} ELSE Tasks
  /\ store \in SUBSET Parts
  /\ sync \in [run : Runs \cup {"none"}, progress : -1..3]
  /\ crashes \in 0..MaxCrashes /\ cancels \in 0..MaxCancels
  /\ attempts \in [Tasks -> Nat] /\ flagged \in SUBSET Tasks /\ overlapped \in BOOLEAN

(* collect, handle_task and queue_tasks: a task of the current run that is *)
(* neither finished nor bad nor canceled has its message somewhere, so a   *)
(* crash of an executor never strands it; only a failed push does.         *)
NoTaskIsLost ==
  \A t \in rows :
    Unfinished(t) => t \in to_push \cup stream \cup unsent \cup flagged
                          \cup UNION {pending[w] : w \in Workers}

(* TaskService.get_task: a task that takes its executor down with it is    *)
(* handled max_attempts times at most, whoever collects it.                *)
AttemptsAreBounded == \A t \in Tasks : attempts[t] <= max_attempts

(* _sync_progress: a cancelled document stays cancelled until a user       *)
(* parses it again, whatever the thread had read before the request.       *)
CancelStays ==
  [][run = "CANCEL" /\ runs' = runs => run' \in {"CANCEL", "removed"}]_vars

Indexed ==
  \A t \in rows : progress[t] = Finished /\ chunk_ids[t] => Part(t) \in store

(* reuse_prev_task_chunks: a document that is DONE has the chunks of all   *)
(* its tasks in the store, as long as nobody ever cancelled one.           *)
DoneMeansIndexedUnlessCanceled == run = "DONE" /\ flagged = {} => Indexed

(* reuse_prev_task_chunks: a document that is DONE has the chunks of all   *)
(* its tasks in the store, if it was parsed again only after every task    *)
(* of the run before had been acknowledged.                                *)
DoneMeansIndexed == run = "DONE" /\ ~ overlapped => Indexed

(* increment_chunk_num and queue_tasks: the count of a document that is    *)
(* DONE is the number of its chunks, unless a task was handled twice.  The *)
(* tasks are looked at too: a progress read before the last parse request  *)
(* can make the document DONE while they run.                              *)
ChunkCountIsExact ==
  ( /\ run = "DONE" /\ flagged = {} /\ ~ overlapped
    /\ \A t \in rows : progress[t] = Finished /\ attempts[t] <= 1 ) =>
    chunk_num = Cardinality({t \in rows : chunk_ids[t]})

(* remove_document against running handlers: once they have all returned,  *)
(* a removed document has no chunks, unless an executor crashed, a cancel  *)
(* flag expired or tasks of two runs overlapped.                           *)
RemovedDocumentLeavesNoChunks ==
  (run = "removed" /\ crashes = 0 /\ canceled = flagged /\ ~ overlapped
     /\ \A w \in Workers : at[w] = "idle") => store = {}

(* queue_tasks, the executors and the progress thread together: a running  *)
(* document ends up DONE, FAIL, cancelled or removed, through crashes and  *)
(* restarts, unless its messages were never sent.                          *)
DocumentSettles == run = "RUNNING" ~> (run # "RUNNING" \/ unsent # {})

=============================================================================
