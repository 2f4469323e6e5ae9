---------------------------- MODULE RouterState ----------------------------
(***************************************************************************)
(* What concurrent requests share in the three-layer intent router: the    *)
(* configuration object load_config() caches, the LLMRouter and Planner    *)
(* singletons that keep the object they were built with, and the circuit   *)
(* breaker in front of the routing model.                                  *)
(*                                                                         *)
(* One action is the code a request runs between two awaits, the two model *)
(* calls.  asyncio.wait_for awaits the coroutine in place (Python 3.12),   *)
(* so a call reads its tenant in the step that starts it.                  *)
(*                                                                         *)
(* Time is one bit: is the breaker open and have recovery_timeout_s passed *)
(* since the last failure?                                                 *)
(* A request id is used again once the request has returned, and a         *)
(* configuration object nobody refers to any more may be allocated again.  *)
(***************************************************************************)
EXTENDS Integers

CONSTANTS
  Requests,            \* requests in flight at one time
  Tenants,             \* tenant ids
  Objects,             \* identities of IntentRouterConfig objects
  failure_threshold

NoTenant == ""         \* the tenant_id of a configuration just read

NoConfig == "NoConfig"

ASSUME RouterAssumption ==
  /\ failure_threshold \in Nat \ {0}
  /\ NoTenant \notin Tenants /\ NoConfig \notin Objects

VARIABLES
  file,                \* the YAML file: as loaded, modified since, unreadable
  loaded,              \* ConfigLoader._config
  tenant_id,           \* the tenant_id of both sections of every object
  router_config,       \* LLMRouter._config of the singleton
  planner_config,      \* Planner._config of the singleton
  failure_count, is_open, recovered,
  pc,                  \* where the request awaits
  config, tenant,      \* its object and its own tenant
  gated,               \* the rule decision carries complexity "complex"
  asked,               \* tenant its model call was made for
  overtaken,           \* another tenant was written into its object meanwhile
  streak               \* routing calls since the last usable answer, capped

breaker == <<failure_count, is_open, recovered, streak>>

configVars == <<file, loaded, tenant_id>>

requestVars == <<pc, config, tenant, gated, asked, overtaken>>

vars == <<file, loaded, tenant_id, router_config, planner_config, failure_count, is_open,
          recovered, pc, config, tenant, gated, asked, overtaken, streak>>

Fresh == [llm_router |-> NoTenant, planner |-> NoTenant]

Init ==
  /\ file = "modified" /\ loaded = NoConfig /\ tenant_id = [o \in Objects |-> Fresh]
  /\ router_config = NoConfig /\ planner_config = NoConfig
  /\ failure_count = 0 /\ is_open = FALSE /\ recovered = FALSE /\ streak = 0
  /\ pc = [r \in Requests |-> "idle"]
  /\ config = [r \in Requests |-> NoConfig]
  /\ tenant = [r \in Requests |-> NoTenant]
  /\ gated = [r \in Requests |-> FALSE]
  /\ asked = [r \in Requests |-> NoTenant]
  /\ overtaken = [r \in Requests |-> FALSE]

-----------------------------------------------------------------------------
(* The circuit breaker.                                                    *)

(* One more call without a usable answer, counted up to the threshold.     *)
OneMore == IF streak < failure_threshold THEN streak + 1 ELSE streak

(* Mutant: the breaker counts failures but never forgets them.             *)
record_success_keeps_count ==
  /\ is_open' = FALSE /\ recovered' = FALSE /\ UNCHANGED failure_count
  /\ streak' = 0

record_success ==
  /\ failure_count' = 0 /\ is_open' = FALSE /\ recovered' = FALSE
  /\ streak' = 0

record_failure ==
  /\ failure_count' = failure_count + 1 /\ recovered' = FALSE
  /\ is_open' = (is_open \/ failure_count + 1 >= failure_threshold)
  /\ streak' = OneMore

(* An answer that cannot be parsed is recorded as a success first and then *)
(* as a failure, without an await in between.                              *)
record_unparsed ==
  /\ failure_count' = 1 /\ recovered' = FALSE
  /\ is_open' = (1 >= failure_threshold)
  /\ streak' = OneMore

(* Mutant: after the recovery time calls pass, but the breaker stays open. *)
CanExecute_stays_open ==
  \/ ~ is_open /\ UNCHANGED breaker
  \/ is_open /\ recovered /\ failure_count' = 0 /\ UNCHANGED <<is_open, recovered, streak>>

(* After the recovery time the breaker closes for everyone.                *)
CanExecute ==
  \/ ~ is_open /\ UNCHANGED breaker
  \/ /\ is_open /\ recovered
     /\ is_open' = FALSE /\ failure_count' = 0 /\ recovered' = FALSE /\ UNCHANGED streak

CannotExecute == is_open /\ ~ recovered /\ UNCHANGED breaker

(* recovery_timeout_s go by without a failure.                             *)
recovery_timeout ==
  /\ is_open /\ ~ recovered /\ recovered' = TRUE
  /\ UNCHANGED <<failure_count, is_open, streak, configVars, router_config, planner_config,
                 requestVars>>

-----------------------------------------------------------------------------
(* The shared configuration.                                               *)

(* An operator edits the file, breaks it or puts the old one back.         *)
file_changes ==
  /\ \E f \in {"as_loaded", "modified", "unreadable"} :
       /\ file' = f /\ f # file
       /\ f = "as_loaded" => loaded # NoConfig
  /\ UNCHANGED <<loaded, tenant_id, router_config, planner_config, breaker, requestVars>>

Referenced ==
  {loaded, router_config, planner_config} \cup {config[r] : r \in Requests}

NewObject == CHOOSE o \in Objects : o \notin Referenced

(* Mutant: the modification time is noted even if the file is unreadable.  *)
load_config_notes_time(o) ==
  \/ file = "as_loaded" /\ o = loaded /\ UNCHANGED <<file, loaded>>
  \/ /\ file # "as_loaded" /\ Objects \ Referenced # {} /\ o = NewObject
     /\ file' = "as_loaded" /\ loaded' = IF file = "modified" THEN o ELSE loaded

(* load_config() returns o: the cached object, a new one that becomes the  *)
(* cached one, or a new default object that is not kept.                   *)
load_config(o) ==
  \/ file = "as_loaded" /\ o = loaded /\ UNCHANGED <<file, loaded>>
  \/ /\ file # "as_loaded" /\ Objects \ Referenced # {} /\ o = NewObject
     /\ IF file = "modified" THEN file' = "as_loaded" /\ loaded' = o
        ELSE UNCHANGED <<file, loaded>>

(* The sections of every object after load_config() returned o and the     *)
(* node wrote tenant t into it; an object without references is gone.      *)
Sections(o, section) ==
  [x \in Objects |-> CASE x = o -> section
                      [] x # o /\ x \in Referenced -> tenant_id[x]
                      [] OTHER -> Fresh]

Read(o) == IF file = "as_loaded" THEN tenant_id[o] ELSE Fresh

(* Mutant: the planner's section is left out.                              *)
Injected_router_only(o, t) ==
  Sections(o, IF t = NoTenant THEN Read(o) ELSE [Read(o) EXCEPT !.llm_router = t])

Injected(o, t) ==
  Sections(o, IF t = NoTenant THEN Read(o) ELSE [llm_router |-> t, planner |-> t])

(* get_llm_router(config) and get_planner(config): the first caller's      *)
(* configuration stays.                                                    *)
Singleton(kept, o) == IF kept = NoConfig THEN o ELSE kept

-----------------------------------------------------------------------------
(* The node.                                                               *)

(* The request is left with no reference and no call.                      *)
Returns(r) ==
  /\ pc' = [pc EXCEPT ![r] = "idle"] /\ config' = [config EXCEPT ![r] = NoConfig]
  /\ tenant' = [tenant EXCEPT ![r] = NoTenant] /\ gated' = [gated EXCEPT ![r] = FALSE]
  /\ asked' = [asked EXCEPT ![r] = NoTenant]

(* The request r of tenant t starts a call for tenant a and awaits it.     *)
Awaits(r, where, o, t, complex, a) ==
  /\ pc' = [pc EXCEPT ![r] = where] /\ config' = [config EXCEPT ![r] = o]
  /\ tenant' = [tenant EXCEPT ![r] = t] /\ gated' = [gated EXCEPT ![r] = complex]
  /\ asked' = [asked EXCEPT ![r] = a]

(* What follows a decision of complexity complex: a clarification or a     *)
(* plain return, a skill whose plan needs the planner object but no call,  *)
(* or the planner's call.  ids are the tenants at that moment.             *)
After(r, o, t, complex, ids) ==
  \/ ~ complex /\ UNCHANGED planner_config /\ Returns(r)
  \/ planner_config' = Singleton(planner_config, o) /\ Returns(r)
  \/ /\ complex /\ planner_config' = Singleton(planner_config, o)
     /\ Awaits(r, "planning", o, t, FALSE, ids[planner_config'].planner)

(* The other requests that hold the object r wrote its tenant into.        *)
Overtaken(r, o, t) ==
  [q \in Requests |->
     IF q = r THEN FALSE
     ELSE overtaken[q] \/ (t # NoTenant /\ config[q] = o /\ t # tenant[q])]

KeepsOvertaken(r) ==
  overtaken' = [overtaken EXCEPT ![r] = overtaken[r] /\ pc'[r] # "idle"]

Enters(r, o, t) ==
  /\ pc[r] = "idle" /\ load_config(o)
  /\ tenant_id' = Injected(o, t) /\ overtaken' = Overtaken(r, o, t)

(* The pre-filter or a confident rule decides; no model is asked.          *)
decided_by_rules(r) ==
  \E o \in Objects, t \in Tenants \cup {NoTenant} :
    /\ Enters(r, o, t) /\ After(r, o, t, FALSE, tenant_id')
    /\ UNCHANGED <<breaker, router_config>>

(* Mutant: the call starts in a task of its own, after other requests ran. *)
route_late(r) ==
  \E o \in Objects, t \in Tenants \cup {NoTenant}, complex \in BOOLEAN :
    /\ Enters(r, o, t) /\ CanExecute
    /\ router_config' = Singleton(router_config, o)
    /\ \E a \in Tenants : Awaits(r, "routing", o, t, complex, a)
    /\ UNCHANGED planner_config

(* The routing model is asked for the tenant in the singleton's object.    *)
route(r) ==
  \E o \in Objects, t \in Tenants \cup {NoTenant}, complex \in BOOLEAN :
    /\ Enters(r, o, t) /\ CanExecute
    /\ router_config' = Singleton(router_config, o)
    /\ Awaits(r, "routing", o, t, complex, tenant_id'[router_config'].llm_router)
    /\ UNCHANGED planner_config

(* The breaker is open: the rule decision stands, complex ones are planned.*)
route_refused(r) ==
  \E o \in Objects, t \in Tenants \cup {NoTenant}, complex \in BOOLEAN :
    /\ Enters(r, o, t) /\ CannotExecute
    /\ router_config' = Singleton(router_config, o)
    /\ After(r, o, t, complex, tenant_id')

-----------------------------------------------------------------------------
(* The routing model answers; the decision is simple or complex, or asks   *)
(* for clarification, which returns as a simple one does.                  *)
llm_answers(r) ==
  /\ pc[r] = "routing" /\ record_success
  /\ \E complex \in BOOLEAN : After(r, config[r], tenant[r], complex, tenant_id)
  /\ KeepsOvertaken(r) /\ UNCHANGED <<configVars, router_config>>

(* The call fails or takes longer than timeout_ms: the rule decision.      *)
llm_fails(r) ==
  /\ pc[r] = "routing" /\ record_failure
  /\ After(r, config[r], tenant[r], gated[r], tenant_id)
  /\ KeepsOvertaken(r) /\ UNCHANGED <<configVars, router_config>>

llm_unparsed(r) ==
  /\ pc[r] = "routing" /\ record_unparsed
  /\ After(r, config[r], tenant[r], gated[r], tenant_id)
  /\ KeepsOvertaken(r) /\ UNCHANGED <<configVars, router_config>>

(* The planner returns a plan, fails or times out.                         *)
plan_returns(r) ==
  /\ pc[r] = "planning" /\ Returns(r)
  /\ KeepsOvertaken(r)
  /\ UNCHANGED <<configVars, router_config, planner_config, breaker>>

Next ==
  \/ file_changes \/ recovery_timeout
  \/ \E r \in Requests :
       \/ decided_by_rules(r) \/ route(r) \/ route_refused(r)
       \/ llm_answers(r) \/ llm_fails(r) \/ llm_unparsed(r) \/ plan_returns(r)

(* The clock runs.                                                         *)
Spec == Init /\ [][Next]_vars /\ WF_vars(recovery_timeout)

-----------------------------------------------------------------------------
TypeOK ==
  /\ file \in {"as_loaded", "modified", "unreadable"}
  /\ loaded \in Objects \cup {NoConfig} /\ (file = "as_loaded" => loaded # NoConfig)
  /\ tenant_id \in [Objects -> [llm_router : Tenants \cup {NoTenant},
                                planner : Tenants \cup {NoTenant}]]
  /\ router_config \in Objects \cup {NoConfig} /\ planner_config \in Objects \cup {NoConfig}
  /\ failure_count \in Nat /\ is_open \in BOOLEAN /\ recovered \in BOOLEAN
  /\ pc \in [Requests -> {"idle", "routing", "planning"}]
  /\ config \in [Requests -> Objects \cup {NoConfig}]
  /\ tenant \in [Requests -> Tenants \cup {NoTenant}]
  /\ gated \in [Requests -> BOOLEAN]
  /\ asked \in [Requests -> Tenants \cup {NoTenant}]
  /\ overtaken \in [Requests -> BOOLEAN]
  /\ streak \in 0..failure_threshold

(* CircuitBreaker: however the ends of concurrent calls interleave, an     *)
(* open breaker means that the last failure_threshold routing calls all    *)
(* failed: one answer among them, even of a call started long before,      *)
(* starts the count anew.                                                  *)
OpenMeansFailuresInARow == is_open => streak >= failure_threshold

(* LLMRouter._call_llm: the routing model is asked for the tenant of the   *)
(* request, whatever other requests write into the shared object, as long  *)
(* as the singleton was built with the object the request loaded.          *)
RoutedForOwnTenant ==
  \A r \in Requests :
    (pc[r] = "routing" /\ tenant[r] # NoTenant /\ router_config = config[r])
      => asked[r] = tenant[r]

(* Planner._call_planner: the planner's call comes after an await, so it   *)
(* is made for the tenant of the request only if no other tenant was       *)
(* written into the object meanwhile; nothing else can change it.          *)
PlannedForOwnTenantUnlessOvertaken ==
  \A r \in Requests :
    (pc[r] = "planning" /\ tenant[r] # NoTenant /\ planner_config = config[r] /\ ~ overtaken[r])
      => asked[r] = tenant[r]

(* CircuitBreaker.can_execute: an open breaker does not stay open while    *)
(* requests keep asking, even if every call that is let through fails.     *)
BreakerRecovers ==
  []<><<\E r \in Requests : route(r) \/ route_refused(r)>>_vars => []<>(~ is_open)

=============================================================================
