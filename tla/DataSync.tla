------------------------------ MODULE DataSync ------------------------------
(***************************************************************************)
(* The synchronisation of a data source (one connector) with the knowledge *)
(* bases it is linked to: sync logs are the queue, the status of the       *)
(* connector gates it, the sync service runs the logs of a round one after *)
(* the other and writes a new log for the next poll.  Users link, unlink,  *)
(* cancel, resume and rebuild meanwhile; the service dies and is started   *)
(* again.                                                                  *)
(*                                                                         *)
(* No _generate awaits, so a task of a round runs to its end before the    *)
(* next begins and its asyncio timeout cannot fire.  The API server comes  *)
(* in between any two statements on the database.  A document version is   *)
(* the time of its update.  Logs that are finished and not the latest of   *)
(* their knowledge base are never read again and are left out.             *)
(***************************************************************************)
EXTENDS Integers, Sequences, FiniteSets

CONSTANTS
  KBs,               \* knowledge bases
  Ids,               \* bound: ids of the sync logs that are there at a time
  MaxTime,           \* bound: updates at the source
  MaxFaults,         \* bound: failures and crashes
  MaxRequests        \* bound: requests of users, links apart

ASSUME SyncAssumption ==
  MaxTime \in Nat /\ MaxFaults \in Nat /\ MaxRequests \in Nat /\ IsFiniteSet(KBs)
  /\ "none" \notin KBs

Null == -1           \* no poll_range_start
Epoch == 0           \* 1970

Times == 1..MaxTime

Largest(S) == CHOOSE x \in S : \A y \in S : y <= x
Smallest(S) == CHOOSE x \in S : \A y \in S : x <= y

Statuses == {"SCHEDULE", "RUNNING", "DONE", "FAIL", "CANCEL"}
Log == [id : Ids, status : Statuses, start : -1..MaxTime, end : -1..MaxTime, reindex : BOOLEAN]
Task == [kb : KBs, id : Ids, start : -1..MaxTime, reindex : BOOLEAN]
NoTask == [kb |-> "none"]

VARIABLES
  now,               \* updates at the source so far
  conn,              \* status of the connector
  linked,            \* knowledge bases linked to it
  logs,              \* of each knowledge base, by update_time
  round,             \* tasks of this round that have not begun
  task, at,          \* the running one and its step
  todo,              \* versions its generator has still to give
  next_update,
  offered,           \* versions uploaded to a knowledge base
  dropped,           \* versions of batches that failed
  faults, requests,
  disturbed,         \* something failed or a user interfered
  meddled,           \* knowledge bases unlinked or rebuilt under a task
  half               \* ... whose full poll without reindex has not ended

sourceVars == <<now, offered, dropped>>
ghosts == <<requests, disturbed, meddled, half>>
taskVars == <<round, task, at, todo, next_update>>

vars == <<now, conn, linked, logs, round, task, at, todo, next_update, offered, dropped, faults,
          requests, disturbed, meddled, half>>

Init ==
  /\ now = 0 /\ conn = "SCHEDULE" /\ linked = {} /\ logs = [k \in KBs |-> <<>>]
  /\ round = {} /\ task = NoTask /\ at = "idle" /\ todo = {} /\ next_update = Epoch
  /\ offered = [k \in KBs |-> {}] /\ dropped = [k \in KBs |-> {}] /\ faults = 0
  /\ requests = 0 /\ disturbed = FALSE /\ meddled = {} /\ half = {}

-----------------------------------------------------------------------------
(* The tables.                                                             *)

get_latest_task(k) == logs[k][Len(logs[k])]

(* The elements of s at the positions in S, in their order.                *)
Kept(s, S) ==
  LET f[n \in 0..Len(s)] ==
        IF n = 0 THEN <<>> ELSE IF n \in S THEN Append(f[n - 1], s[n]) ELSE f[n - 1]
  IN f[Len(s)]

Open == {"SCHEDULE", "RUNNING"}

(* Logs nobody reads again go away.                                        *)
Seen(s) == Kept(s, {i \in DOMAIN s : s[i].status \in Open \/ i = Len(s)})

Held(s) == {s[i].id : i \in DOMAIN s}

LogOf(s, id) == s[CHOOSE i \in DOMAIN s : s[i].id = id]

(* update_by_id: the log becomes the latest; nothing if it is gone.        *)
Updated(s, id, l) ==
  IF id \in Held(s) THEN Seen(Append(Kept(s, {i \in DOMAIN s : s[i].id # id}), l)) ELSE s

WithStatus(s, id, status) == Updated(s, id, [LogOf(s, id) EXCEPT !.status = status])

Scheduled(s) == {i \in DOMAIN s : s[i].status = "SCHEDULE"}

SetConn(status) == conn' = IF conn = "removed" THEN conn ELSE status

(* get_uuid.                                                               *)
FreeIds(k) ==
  {i \in Ids : /\ i \notin Held(logs[k]) /\ (task # NoTask /\ task.kb = k => i # task.id)
              /\ \A t \in round : t.kb = k => t.id # i}

NewLog(k, start, reindex) ==
  [id |-> CHOOSE i \in FreeIds(k) : TRUE, status |-> "SCHEDULE", start |-> start, end |-> Null, reindex |-> reindex]

(* Mutant: a log that waits already is not looked for.                     *)
schedule_again(k, start, reindex) ==
  /\ FreeIds(k) # {}
  /\ logs' = [logs EXCEPT ![k] = Seen(Append(@, NewLog(k, start, reindex)))]
  /\ SetConn("SCHEDULE")

(* SyncLogsService.schedule.                                               *)
schedule(k, start, reindex) ==
  IF Scheduled(logs[k]) # {}
  THEN UNCHANGED <<logs, conn>>
  ELSE /\ FreeIds(k) # {}
       /\ logs' = [logs EXCEPT ![k] = Seen(Append(@, NewLog(k, start, reindex)))]
       /\ SetConn("SCHEDULE")

-----------------------------------------------------------------------------
(* The source and the users.                                               *)

source_updates ==
  /\ now < MaxTime /\ now' = now + 1
  /\ UNCHANGED <<conn, linked, logs, taskVars, offered, dropped, faults, ghosts>>

Requested ==
  requests < MaxRequests /\ requests' = requests + 1 /\ disturbed' = TRUE

(* A task of the knowledge base is running or about to.                    *)
Busy(k) == (task # NoTask /\ task.kb = k) \/ \E t \in round : t.kb = k

Meddles(k) == meddled' = (IF Busy(k) THEN meddled \cup {k} ELSE meddled)

(* link_connectors with a new connector ...                                *)
link(k) ==
  /\ k \notin linked /\ conn # "removed" /\ linked' = linked \cup {k}
  /\ schedule(k, Null, TRUE)
  /\ UNCHANGED <<sourceVars, taskVars, faults, ghosts>>

(* ... and without an old one: its documents stay.                         *)
unlink(k) ==
  /\ k \in linked /\ conn # "removed" /\ linked' = linked \ {k}
  /\ logs' = [logs EXCEPT ![k] =
                [i \in DOMAIN @ |-> IF @[i].status \in Open
                                    THEN [@[i] EXCEPT !.status = "CANCEL"] ELSE @[i]]]
  /\ Meddles(k) /\ Requested
  /\ UNCHANGED <<sourceVars, conn, taskVars, faults, half>>

(* ConnectorService.resume with SCHEDULE (order: the links, in any order): *)
(* the first knowledge base whose last task is done gets a new log and     *)
(* ends the loop; the logs of those before it are scheduled once more.     *)
resume ==
  /\ conn # "removed" /\ Requested
  /\ LET idle == {k \in linked : logs[k] = <<>> \/ get_latest_task(k).status = "DONE"}
         again(K) == [k \in KBs |-> IF k \in K
                                    THEN WithStatus(logs[k], get_latest_task(k).id, "SCHEDULE")
                                    ELSE logs[k]]
         from(k) == IF logs[k] = <<>> THEN Null ELSE get_latest_task(k).end
     IN \/ idle = {} /\ logs' = again(linked)
        \/ \E k \in idle, K \in SUBSET (linked \ idle) :
             /\ FreeIds(k) # {}
             /\ logs' = [again(K) EXCEPT ![k] =
                        IF Scheduled(@) # {} THEN @ ELSE Seen(Append(@, NewLog(k, from(k), FALSE)))]
  /\ conn' = "SCHEDULE"
  /\ UNCHANGED <<sourceVars, linked, taskVars, faults, meddled, half>>

Canceled ==
  logs' = [k \in KBs |-> IF k \in linked /\ logs[k] # <<>>
                         THEN WithStatus(logs[k], get_latest_task(k).id, "CANCEL") ELSE logs[k]]

(* ConnectorService.resume with CANCEL.                                    *)
cancel ==
  /\ conn # "removed" /\ conn' = "CANCEL" /\ Requested
  /\ \A k \in linked : logs[k] # <<>>
  /\ Canceled
  /\ UNCHANGED <<sourceVars, linked, taskVars, faults, meddled, half>>

(* rm_connector.                                                           *)
rm_connector ==
  /\ conn # "removed" /\ conn' = "removed" /\ Requested
  /\ \A k \in linked : logs[k] # <<>>
  /\ Canceled
  /\ UNCHANGED <<sourceVars, linked, taskVars, faults, meddled, half>>

(* ConnectorService.rebuild: logs and documents go, everything is polled   *)
(* again.                                                                  *)
rebuild(k) ==
  /\ conn # "removed" /\ k \in linked /\ FreeIds(k) # {}
  /\ logs' = [logs EXCEPT ![k] = <<NewLog(k, Null, TRUE)>>] /\ conn' = "SCHEDULE"
  /\ offered' = [offered EXCEPT ![k] = {}] /\ dropped' = [dropped EXCEPT ![k] = {}]
  /\ Meddles(k) /\ Requested
  /\ UNCHANGED <<now, linked, taskVars, faults, half>>

-----------------------------------------------------------------------------
(* The sync service.                                                       *)

TaskOf(k, l) == [kb |-> k, id |-> l.id, start |-> l.start, reindex |-> l.reindex]

(* list_sync_tasks and dispatch_tasks: one look at the tables a round.     *)
dispatch_tasks ==
  /\ at = "idle" /\ round = {} /\ conn = "SCHEDULE"
  /\ round' = UNION {{TaskOf(k, logs[k][i]) : i \in Scheduled(logs[k])} : k \in linked}
  /\ round' # {}
  /\ UNCHANGED <<sourceVars, conn, linked, logs, task, at, todo, next_update, faults, ghosts>>

Full(t) == t.reindex \/ t.start = Null

(* Mutant: a poll from the beginning has no first watermark.               *)
start_without_epoch(t) ==
  /\ at = "idle" /\ t \in round /\ round' = round \ {t} /\ task' = t /\ at' = "batches"
  /\ logs' = [logs EXCEPT ![t.kb] = WithStatus(@, t.id, "RUNNING")] /\ SetConn("RUNNING")
  /\ todo' = {v \in 1..now : Full(t) \/ v > t.start}
  /\ next_update' = t.start
  /\ half' = (IF t.start = Null /\ ~ t.reindex THEN half \cup {t.kb} ELSE half)
  /\ UNCHANGED <<sourceVars, linked, faults, requests, disturbed, meddled>>

(* SyncBase.__call__: the task is marked whatever became of it meanwhile,  *)
(* and polls everything or what is newer than its start.                   *)
start(t) ==
  /\ at = "idle" /\ t \in round /\ round' = round \ {t} /\ task' = t /\ at' = "batches"
  /\ logs' = [logs EXCEPT ![t.kb] = WithStatus(@, t.id, "RUNNING")] /\ SetConn("RUNNING")
  /\ todo' = {v \in 1..now : Full(t) \/ v > t.start}
  /\ next_update' = (IF t.start = Null THEN Epoch ELSE t.start)
  /\ half' = (IF t.start = Null /\ ~ t.reindex THEN half \cup {t.kb} ELSE half)
  /\ UNCHANGED <<sourceVars, linked, faults, requests, disturbed, meddled>>

(* Mutant: the range follows the newest document.                          *)
increase_docs_greatest(s, id, batch) ==
  Updated(s, id, [LogOf(s, id) EXCEPT !.start = Largest(batch \cup {@}),
                                      !.end = Largest(batch \cup {@})])

(* increase_docs: LEAST and GREATEST of what is there.                     *)
increase_docs(s, id, batch) ==
  Updated(s, id, [LogOf(s, id) EXCEPT !.start = Smallest((batch \cup {@}) \ {Null}),
                                      !.end = Largest(batch \cup {@})])

(* A batch, in whatever order the source lists its documents.              *)
batch_synced ==
  /\ at = "batches"
  /\ \E batch \in (SUBSET todo) \ {{}} :
       /\ todo' = todo \ batch
       /\ next_update' = Largest(batch \cup {next_update})
       /\ offered' = [offered EXCEPT ![task.kb] = @ \cup batch]
       /\ logs' = [logs EXCEPT ![task.kb] = increase_docs(@, task.id, batch)]
  /\ UNCHANGED <<now, conn, linked, round, task, at, dropped, faults, ghosts>>

(* except ... continue: the batch is counted and skipped.                  *)
batch_fails ==
  /\ at = "batches" /\ faults < MaxFaults /\ faults' = faults + 1
  /\ \E batch \in (SUBSET todo) \ {{}} :
       /\ todo' = todo \ batch
       /\ next_update' = Largest(batch \cup {next_update})
       /\ dropped' = [dropped EXCEPT ![task.kb] = @ \cup batch]
  /\ UNCHANGED <<now, conn, linked, logs, round, task, at, offered, ghosts>>

(* The source raises: the log fails, the connector stays RUNNING.          *)
task_fails ==
  /\ at = "batches" /\ faults < MaxFaults /\ faults' = faults + 1
  /\ logs' = [logs EXCEPT ![task.kb] = WithStatus(@, task.id, "FAIL")]
  /\ task' = NoTask /\ at' = "idle" /\ todo' = {} /\ next_update' = Epoch /\ disturbed' = TRUE
  /\ UNCHANGED <<sourceVars, conn, linked, round, requests, meddled, half>>

done ==
  /\ at = "batches" /\ todo = {} /\ at' = "schedule"
  /\ logs' = [logs EXCEPT ![task.kb] = WithStatus(@, task.id, "DONE")] /\ SetConn("DONE")
  /\ half' = (IF task.start = Null THEN half \ {task.kb} ELSE half)
  /\ UNCHANGED <<sourceVars, linked, round, task, todo, next_update, faults, requests, disturbed, meddled>>

(* Mutant: the connector is marked done last.                              *)
schedule_next_then_done ==
  /\ at = "schedule" /\ FreeIds(task.kb) # {} /\ task' = NoTask /\ at' = "idle" /\ next_update' = Epoch
  /\ logs' = [logs EXCEPT ![task.kb] = Seen(Append(@, NewLog(task.kb, next_update, FALSE)))]
  /\ SetConn("DONE")
  /\ UNCHANGED <<sourceVars, linked, round, todo, faults, ghosts>>

schedule_next ==
  /\ at = "schedule" /\ schedule(task.kb, next_update, FALSE)
  /\ task' = NoTask /\ at' = "idle" /\ next_update' = Epoch
  /\ UNCHANGED <<sourceVars, linked, round, todo, faults, ghosts>>

(* The service dies and entrypoint.sh starts it again.                     *)
crash ==
  /\ faults < MaxFaults /\ faults' = faults + 1
  /\ round' = {} /\ task' = NoTask /\ at' = "idle" /\ todo' = {} /\ next_update' = Epoch
  /\ disturbed' = TRUE
  /\ UNCHANGED <<sourceVars, conn, linked, logs, requests, meddled, half>>

Service ==
  \/ dispatch_tasks \/ (\E t \in round : start(t)) \/ batch_synced \/ done \/ schedule_next

Users ==
  \/ \E k \in KBs : link(k) \/ unlink(k) \/ rebuild(k)
  \/ resume \/ cancel \/ rm_connector

Next == source_updates \/ Users \/ Service \/ batch_fails \/ task_fails \/ crash

(* The service loops for ever; whatever it does next, it does.             *)
Spec == Init /\ [][Next]_vars /\ WF_vars(Service)

-----------------------------------------------------------------------------
TypeOK ==
  /\ now \in 0..MaxTime /\ conn \in Statuses \cup {"removed"} /\ linked \in SUBSET KBs
  /\ logs \in [KBs -> Seq(Log)]
  /\ round \in SUBSET Task /\ task \in Task \cup {NoTask}
  /\ at \in {"idle", "batches", "schedule"} /\ (at = "idle" <=> task = NoTask)
  /\ todo \in SUBSET Times /\ next_update \in 0..MaxTime
  /\ offered \in [KBs -> SUBSET Times] /\ dropped \in [KBs -> SUBSET Times]
  /\ faults \in 0..MaxFaults /\ requests \in 0..MaxRequests /\ disturbed \in BOOLEAN
  /\ meddled \in SUBSET KBs /\ half \in SUBSET KBs

(* SyncLogsService.schedule calls a second scheduled log of a knowledge    *)
(* base abnormal: there is never one, unless the knowledge base was        *)
(* unlinked or rebuilt while a task of it was running or about to.         *)
OneScheduledLog ==
  \A k \in KBs \ meddled : Cardinality(Scheduled(logs[k])) <= 1

(* _run_task_logic, increase_docs, done, schedule and resume, with crashes *)
(* and failures anywhere: a log that will poll from a time on leaves       *)
(* nothing behind; what is older was uploaded or was in a batch that       *)
(* failed.  Not so when a rebuild met a running task, or a full poll that  *)
(* was not asked for as such did not end.                                  *)
WatermarkCovers ==
  \A k \in KBs \ (meddled \cup half) : \A i \in Scheduled(logs[k]) :
    LET l == logs[k][i]
    IN ~ Full(l) => 1..l.start \subseteq offered[k] \cup dropped[k]

(* dispatch_tasks and schedule: as long as nothing fails and no user but   *)
(* to link comes in, every update at the source reaches every knowledge    *)
(* base.                                                                   *)
UpdatesArrive ==
  \A k \in KBs : \A v \in Times :
    (k \in linked /\ v <= now) ~> (v \in offered[k] \cup dropped[k] \/ disturbed)

=============================================================================
