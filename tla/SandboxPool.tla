---------------------------- MODULE SandboxPool ----------------------------
(***************************************************************************)
(* The sandbox executor manager: a pool of containers for each language,   *)
(* guarded by a semaphore of the pool's size, one queue of container names *)
(* for each language and one lock around every look at a container.  A     *)
(* request takes a slot, a container and, twice, the lock; Docker commands *)
(* fail or time out and containers stop at any moment.                     *)
(*                                                                         *)
(* An action ends where the coroutine awaits.  The order of the names in a *)
(* queue tells nothing apart, so queued counts the copies of each name.    *)
(***************************************************************************)
EXTENDS Integers, FiniteSets

CONSTANTS
  Requests,          \* clients, each with one request at a time
  Languages,         \* SupportLanguage
  size,              \* SANDBOX_EXECUTOR_MANAGER_POOL_SIZE
  None

Containers == Languages \X (1..size)

ASSUME PoolAssumption ==
  size \in Nat /\ IsFiniteSet(Requests) /\ None \notin Containers \cup Requests

Pool(l) == {l} \X (1..size)

Steps == {"out", "waiting", "allocating", "sleeping", "lock_to_allocate", "check", "recreate",
          "allocated", "executing", "lock_to_release", "check_released", "recreate_released"}

VARIABLES
  phase,             \* of the manager: starting, serving, stopping, stopped
  unprepared,        \* containers init_containers has still to prepare
  queued,            \* copies of a name in its queue
  up,                \* containers that run
  slots,             \* free slots of the semaphores
  lock,              \* the request that holds _CONTAINER_LOCK
  at, language, container

vars == <<phase, unprepared, queued, up, slots, lock, at, language, container>>

poolVars == <<phase, unprepared, slots>>

Init ==
  /\ phase = "starting" /\ unprepared = Containers
  /\ queued = [c \in Containers |-> 0] /\ up \in SUBSET Containers
  /\ slots = [l \in Languages |-> size] /\ lock = None
  /\ at = [r \in Requests |-> "out"]
  /\ language \in [Requests -> Languages]
  /\ container = [r \in Requests |-> None]

Goes(r, step) == at' = [at EXCEPT ![r] = step]

-----------------------------------------------------------------------------
(* Start and stop of the manager.                                          *)

(* _prepare_container, for all of them at once.                            *)
prepare_container(c) ==
  /\ phase = "starting" /\ c \in unprepared /\ unprepared' = unprepared \ {c}
  /\ \/ up' = up \cup {c} /\ queued' = [queued EXCEPT ![c] = @ + 1]
     \/ up' \in {up, up \ {c}, up \cup {c}} /\ UNCHANGED queued
  /\ UNCHANGED <<phase, slots, lock, at, language, container>>

serve ==
  /\ phase = "starting" /\ unprepared = {} /\ phase' = "serving"
  /\ UNCHANGED <<unprepared, queued, up, slots, lock, at, language, container>>

(* The server ends its requests before the lifespan goes on.               *)
stop ==
  /\ phase = "serving" /\ \A r \in Requests : at[r] = "out"
  /\ phase' = "stopping"
  /\ UNCHANGED <<unprepared, queued, up, slots, lock, at, language, container>>

(* teardown_containers takes the names off the queues; an error of docker  *)
(* ends it.                                                                *)
teardown_container ==
  /\ phase = "stopping"
  /\ \E c \in {d \in Containers : queued[d] > 0} :
       /\ queued' = [queued EXCEPT ![c] = @ - 1]
       /\ \/ up' = up \ {c} /\ UNCHANGED phase
          \/ up' \in {up, up \ {c}} /\ phase' = "stopped"
  /\ UNCHANGED <<unprepared, slots, lock, at, language, container>>

teardown_ends ==
  /\ phase = "stopping" /\ phase' = "stopped"
  /\ \A c \in Containers : queued[c] = 0
  /\ UNCHANGED <<unprepared, queued, up, slots, lock, at, language, container>>

(* init_containers of the next start: new queues, new semaphores.          *)
init_containers ==
  /\ phase = "stopped" /\ phase' = "starting" /\ unprepared' = Containers
  /\ queued' = [c \in Containers |-> 0] /\ slots' = [l \in Languages |-> size]
  /\ UNCHANGED <<up, lock, at, language, container>>

container_stops(c) ==
  /\ c \in up /\ up' = up \ {c}
  /\ UNCHANGED <<poolVars, queued, lock, at, language, container>>

-----------------------------------------------------------------------------
(* A request.                                                              *)

run_code(r) ==
  /\ phase = "serving" /\ at[r] = "out" /\ Goes(r, "waiting")
  /\ \E l \in Languages : language' = [language EXCEPT ![r] = l]
  /\ UNCHANGED <<poolVars, queued, up, lock, container>>

(* Mutant: the semaphore lets one more request in than it has slots.       *)
enter_over(r) ==
  /\ at[r] = "waiting" /\ slots[language[r]] >= 0
  /\ \/ slots' = [slots EXCEPT ![language[r]] = @ - 1] /\ Goes(r, "allocating")
     \/ Goes(r, "out") /\ UNCHANGED slots
  /\ UNCHANGED <<phase, unprepared, queued, up, lock, language, container>>

(* Mutant: a request that is refused gives back a slot it did not take.    *)
enter_refunds(r) ==
  /\ at[r] = "waiting" /\ slots[language[r]] > 0
  /\ \/ slots' = [slots EXCEPT ![language[r]] = @ - 1] /\ Goes(r, "allocating")
     \/ Goes(r, "out") /\ slots' = [slots EXCEPT ![language[r]] = @ + 1]
  /\ UNCHANGED <<phase, unprepared, queued, up, lock, language, container>>

(* async with the semaphore; code that cannot be decoded or is not safe    *)
(* ends the request at once.                                               *)
enter(r) ==
  /\ at[r] = "waiting" /\ slots[language[r]] > 0
  /\ \/ slots' = [slots EXCEPT ![language[r]] = @ - 1] /\ Goes(r, "allocating")
     \/ Goes(r, "out") /\ UNCHANGED slots
  /\ UNCHANGED <<phase, unprepared, queued, up, lock, language, container>>

Leave(r) ==
  /\ Goes(r, "out") /\ slots' = [slots EXCEPT ![language[r]] = @ + 1]
  /\ container' = [container EXCEPT ![r] = None]

(* Mutant: the name is looked up in the queue and not taken off.           *)
get_nowait_peeks(r) ==
  /\ at[r] = "allocating"
  /\ \E c \in {d \in Pool(language[r]) : queued[d] > 0} :
       container' = [container EXCEPT ![r] = c]
  /\ Goes(r, "lock_to_allocate")
  /\ UNCHANGED <<poolVars, queued, up, lock, language>>

get_nowait(r) ==
  /\ at[r] = "allocating"
  /\ \E c \in {d \in Pool(language[r]) : queued[d] > 0} :
       /\ queued' = [queued EXCEPT ![c] = @ - 1]
       /\ container' = [container EXCEPT ![r] = c]
  /\ Goes(r, "lock_to_allocate")
  /\ UNCHANGED <<poolVars, up, lock, language>>

(* except Empty.                                                           *)
sleep(r) ==
  /\ at[r] = "allocating" /\ \A c \in Pool(language[r]) : queued[c] = 0
  /\ Goes(r, "sleeping")
  /\ UNCHANGED <<poolVars, queued, up, lock, language, container>>

tries_again(r) ==
  /\ at[r] = "sleeping" /\ Goes(r, "allocating")
  /\ UNCHANGED <<poolVars, queued, up, lock, language, container>>

(* Mutant: the time is taken anew in every turn of the loop.               *)
busy_never(r) ==
  /\ at[r] = "sleeping" /\ Goes(r, "allocating")
  /\ UNCHANGED <<poolVars, queued, up, lock, language, container>>

(* Ten seconds are over: "Container pool is busy".                         *)
busy(r) ==
  /\ at[r] = "sleeping" /\ Leave(r)
  /\ UNCHANGED <<phase, unprepared, queued, up, lock, language>>

(* async with _CONTAINER_LOCK.                                             *)
acquires(r) ==
  /\ lock = None /\ lock' = r
  /\ \/ at[r] = "lock_to_allocate" /\ Goes(r, "check")
     \/ at[r] = "lock_to_release" /\ Goes(r, "check_released")
  /\ UNCHANGED <<poolVars, queued, up, language, container>>

(* docker inspect finds the container, or not, or fails.                   *)
is_running(r) ==
  /\ at[r] = "check"
  /\ \/ container[r] \in up /\ lock' = None /\ Goes(r, "allocated")
     \/ Goes(r, "recreate") /\ UNCHANGED lock
  /\ UNCHANGED <<poolVars, queued, up, language, container>>

(* docker rm and docker run, the first or the second of which can fail.    *)
Recreated(c) == up' = up \cup {c}

RecreateFails(c) == up' \in {up, up \ {c}, up \cup {c}}

(* allocate_container_blocking with a container that does not run: the     *)
(* name is dropped when it cannot be recreated, and the time is looked at. *)
recreate_container(r) ==
  /\ at[r] = "recreate" /\ lock' = None
  /\ \/ Recreated(container[r]) /\ Goes(r, "allocated") /\ UNCHANGED <<slots, container>>
     \/ /\ RecreateFails(container[r]) /\ Goes(r, "allocating")
        /\ container' = [container EXCEPT ![r] = None] /\ UNCHANGED slots
     \/ RecreateFails(container[r]) /\ Leave(r)
  /\ UNCHANGED <<phase, unprepared, queued, language>>

(* os.makedirs stands before the try: when it raises nothing is released.  *)
makedirs(r) ==
  /\ at[r] = "allocated"
  /\ \/ Goes(r, "executing") /\ UNCHANGED <<slots, container>>
     \/ Leave(r)
  /\ UNCHANGED <<phase, unprepared, queued, up, lock, language>>

(* Every result and every error of execute_code, then the cleaning.        *)
execute_code(r) ==
  /\ at[r] = "executing" /\ Goes(r, "lock_to_release")
  /\ UNCHANGED <<poolVars, queued, up, lock, language, container>>

Put(c) == queued' = [queued EXCEPT ![c] = @ + 1]

(* release_container.                                                      *)
release_container(r) ==
  /\ at[r] = "check_released"
  /\ \/ container[r] \in up /\ Put(container[r]) /\ lock' = None /\ Leave(r)
     \/ Goes(r, "recreate_released") /\ UNCHANGED <<queued, lock, slots, container>>
  /\ UNCHANGED <<phase, unprepared, up, language>>

(* ... of one that does not run.                                           *)
recreate_released(r) ==
  /\ at[r] = "recreate_released" /\ lock' = None /\ Leave(r)
  /\ \/ Recreated(container[r]) /\ Put(container[r])
     \/ RecreateFails(container[r]) /\ UNCHANGED queued
  /\ UNCHANGED <<phase, unprepared, language>>

Handles(r) ==
  \/ get_nowait(r) \/ sleep(r) \/ tries_again(r) \/ busy(r) \/ is_running(r)
  \/ recreate_container(r) \/ makedirs(r) \/ execute_code(r) \/ release_container(r)
  \/ recreate_released(r)

Next ==
  \/ \E c \in Containers : prepare_container(c) \/ container_stops(c)
  \/ serve \/ stop \/ teardown_container \/ teardown_ends \/ init_containers
  \/ \E r \in Requests : run_code(r) \/ enter(r) \/ acquires(r) \/ Handles(r)

(* A request that is not waiting goes on: every command but the copying    *)
(* has a timeout, and copying is taken to end.  asyncio's semaphore and    *)
(* lock serve first those that waited first.  The clock ends the sleeps.   *)
Spec ==
  /\ Init /\ [][Next]_vars
  /\ \A r \in Requests :
       WF_vars(Handles(r)) /\ SF_vars(enter(r)) /\ SF_vars(acquires(r)) /\ SF_vars(busy(r))

-----------------------------------------------------------------------------
TypeOK ==
  /\ phase \in {"starting", "serving", "stopping", "stopped"}
  /\ unprepared \in SUBSET Containers /\ queued \in [Containers -> Nat]
  /\ up \in SUBSET Containers /\ slots \in [Languages -> 0..size]
  /\ lock \in Requests \cup {None}
  /\ at \in [Requests -> Steps] /\ language \in [Requests -> Languages]
  /\ container \in [Requests -> Containers \cup {None}]

InUse == {container[r] : r \in Requests} \ {None}

(* The names neither queued nor with a request: a failed creation or       *)
(* recreation, or an error before the try, dropped them.                   *)
Lost == {c \in Containers : queued[c] = 0 /\ c \notin InUse}

(* allocate_container_blocking, release_container and every error path of  *)
(* execute_code: no two requests run in one container, and none is offered *)
(* to a second request while a first one has it.                           *)
OneRequestPerContainer ==
  /\ \A c \in Containers : queued[c] <= (IF c \in InUse THEN 0 ELSE 1)
  /\ \A r, s \in Requests : r # s /\ container[r] = container[s] => container[r] = None

(* The semaphore and the queue together: "Container pool is busy" is said  *)
(* only after the pool lost a container of the language; a full pool has   *)
(* one for every request that the semaphore let in.                        *)
BusyOnlyAfterLoss ==
  \A r \in Requests : at[r] = "sleeping" => Pool(language[r]) \cap Lost # {}

(* run_code_handler: with failing commands, lost containers and two locks  *)
(* on the way, every request is answered.                                  *)
RequestsAreAnswered == \A r \in Requests : at[r] = "waiting" ~> at[r] = "out"

=============================================================================
