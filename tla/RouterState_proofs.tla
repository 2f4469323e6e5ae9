------------------------- MODULE RouterState_proofs -------------------------
(***************************************************************************)
(* Safety of RouterState for any number of requests, tenants and           *)
(* configuration objects and every failure threshold.                      *)
(***************************************************************************)
EXTENDS RouterState, TLAPS

-----------------------------------------------------------------------------
(* Types                                                                   *)

Section == [llm_router : Tenants \cup {NoTenant}, planner : Tenants \cup {NoTenant}]

(* The types of what requests share, and of the requests.                  *)
SharedType ==
  /\ file \in {"as_loaded", "modified", "unreadable"}
  /\ loaded \in Objects \cup {NoConfig} /\ (file = "as_loaded" => loaded # NoConfig)
  /\ tenant_id \in [Objects -> Section]
  /\ router_config \in Objects \cup {NoConfig} /\ planner_config \in Objects \cup {NoConfig}

CountType == failure_count \in Nat /\ streak \in 0..failure_threshold

FlagType == is_open \in BOOLEAN /\ recovered \in BOOLEAN

BreakerType == CountType /\ FlagType

RequestType ==
  /\ pc \in [Requests -> {"idle", "routing", "planning"}]
  /\ config \in [Requests -> Objects \cup {NoConfig}]
  /\ tenant \in [Requests -> Tenants \cup {NoTenant}]
  /\ gated \in [Requests -> BOOLEAN]
  /\ asked \in [Requests -> Tenants \cup {NoTenant}]
  /\ overtaken \in [Requests -> BOOLEAN]
  /\ \A r \in Requests : pc[r] # "idle" => config[r] \in Objects

(* TypeOK, and a request that awaits holds a configuration.                *)
TypeInv == SharedType /\ BreakerType /\ RequestType

LEMMA TypeInvImplies == TypeInv => TypeOK
BY DEF TypeInv, TypeOK, SharedType, BreakerType, CountType, FlagType, RequestType, Section

LEMMA TypeInit == Init => TypeInv
<1> SUFFICES ASSUME Init PROVE TypeInv
  OBVIOUS
<1>1. Fresh \in Section
  BY DEF Fresh, Section
<1>2. SharedType
  BY <1>1 DEF Init, SharedType
<1>3. BreakerType
  <2>1. CountType
    BY RouterAssumption DEF Init, CountType
  <2>2. FlagType
    BY Zenon DEF Init, FlagType
  <2> QED BY <2>1, <2>2 DEF BreakerType
<1>4. RequestType
  BY DEF Init, RequestType
<1> QED BY <1>2, <1>3, <1>4 DEF TypeInv

(* The breaker's methods.                                                  *)
LEMMA BreakerTypeKept ==
  ASSUME BreakerType,
         \/ record_success \/ record_failure \/ record_unparsed \/ CanExecute \/ CannotExecute
         \/ UNCHANGED breaker
  PROVE  BreakerType'
<1>1. failure_threshold \in Nat \ {0}
  BY RouterAssumption
<1>2. CountType'
  <2>1. CASE record_success \/ record_failure \/ record_unparsed
    BY <1>1, <2>1 DEF BreakerType, CountType, record_success, record_failure, record_unparsed,
       OneMore
  <2>2. CASE CanExecute \/ CannotExecute \/ UNCHANGED breaker
    BY <1>1, <2>2 DEF BreakerType, CountType, CanExecute, CannotExecute, breaker
  <2> QED BY <2>1, <2>2
<1>3. FlagType'
  <2>1. CASE record_success \/ record_failure \/ record_unparsed
    <3>1. is_open' \in BOOLEAN
      <4>1. CASE record_success
        BY <4>1 DEF record_success
      <4>2. CASE record_failure
        BY <1>1, <4>2 DEF record_failure, BreakerType, CountType, FlagType
      <4>3. CASE record_unparsed
        BY <1>1, <4>3 DEF record_unparsed
      <4> QED BY <2>1, <4>1, <4>2, <4>3
    <3>2. recovered' \in BOOLEAN
      BY <2>1 DEF record_success, record_failure, record_unparsed
    <3> QED BY <3>1, <3>2 DEF FlagType
  <2>2. CASE CanExecute \/ CannotExecute \/ UNCHANGED breaker
    BY <2>2, Zenon DEF BreakerType, FlagType, CanExecute, CannotExecute, breaker
  <2> QED BY <2>1, <2>2
<1> QED BY <1>2, <1>3 DEF BreakerType

(* load_config and the writing of the tenant.                              *)
LEMMA EntersType ==
  ASSUME SharedType, RequestType, NEW r \in Requests, NEW o \in Objects,
         NEW t \in Tenants \cup {NoTenant}, Enters(r, o, t)
  PROVE  /\ file' \in {"as_loaded", "modified", "unreadable"}
         /\ loaded' \in Objects \cup {NoConfig} /\ (file' = "as_loaded" => loaded' # NoConfig)
         /\ tenant_id' \in [Objects -> Section] /\ overtaken' \in [Requests -> BOOLEAN]
<1>1. Read(o) \in Section /\ Fresh \in Section
  BY DEF Read, Fresh, Section, SharedType
<1>2. [llm_router |-> t, planner |-> t] \in Section
  BY DEF Section
<1>3. tenant_id' \in [Objects -> Section]
  BY <1>1, <1>2 DEF Enters, Injected, Sections, SharedType
<1>4. overtaken' \in [Requests -> BOOLEAN]
  BY DEF Enters, Overtaken, RequestType
<1>5. /\ file' \in {"as_loaded", "modified", "unreadable"}
      /\ loaded' \in Objects \cup {NoConfig} /\ (file' = "as_loaded" => loaded' # NoConfig)
  BY RouterAssumption DEF Enters, load_config, SharedType
<1> QED BY <1>3, <1>4, <1>5

(* The variables of a request, overtaken apart.                            *)
ControlType ==
  /\ pc \in [Requests -> {"idle", "routing", "planning"}]
  /\ config \in [Requests -> Objects \cup {NoConfig}]
  /\ tenant \in [Requests -> Tenants \cup {NoTenant}]
  /\ gated \in [Requests -> BOOLEAN]
  /\ asked \in [Requests -> Tenants \cup {NoTenant}]
  /\ \A r \in Requests : pc[r] # "idle" => config[r] \in Objects

LEMMA ReturnsType ==
  ASSUME RequestType, NEW r \in Requests, Returns(r)
  PROVE  ControlType'
BY DEF RequestType, ControlType, Returns

LEMMA AwaitsType ==
  ASSUME RequestType, NEW r \in Requests, NEW w \in {"routing", "planning"}, NEW o \in Objects,
         NEW t \in Tenants \cup {NoTenant}, NEW complex \in BOOLEAN,
         NEW a \in Tenants \cup {NoTenant}, Awaits(r, w, o, t, complex, a)
  PROVE  ControlType'
BY DEF RequestType, ControlType, Awaits

LEMMA AfterType ==
  ASSUME SharedType, RequestType, NEW r \in Requests, NEW o \in Objects,
         NEW t \in Tenants \cup {NoTenant}, NEW complex \in BOOLEAN,
         NEW ids \in [Objects -> Section], After(r, o, t, complex, ids)
  PROVE  ControlType' /\ planner_config' \in Objects \cup {NoConfig}
<1>1. planner_config' \in Objects \cup {NoConfig}
  BY DEF After, Singleton, SharedType
<1>2. CASE Returns(r)
  BY <1>1, <1>2, ReturnsType
<1>3. CASE /\ complex /\ planner_config' = Singleton(planner_config, o)
           /\ Awaits(r, "planning", o, t, FALSE, ids[planner_config'].planner)
  <2>1. planner_config' \in Objects
    BY <1>3 DEF Singleton, SharedType
  <2>2. ids[planner_config'].planner \in Tenants \cup {NoTenant}
    BY <2>1 DEF Section
  <2> QED BY <1>1, <1>3, <2>2, AwaitsType
<1> QED BY <1>2, <1>3 DEF After

LEMMA KeepsType ==
  ASSUME RequestType, ControlType', NEW r \in Requests, KeepsOvertaken(r)
  PROVE  RequestType'
BY DEF RequestType, ControlType, KeepsOvertaken

LEMMA TypeNext == TypeInv /\ [Next]_vars => TypeInv'
<1> SUFFICES ASSUME SharedType, BreakerType, RequestType, [Next]_vars
             PROVE  SharedType' /\ BreakerType' /\ RequestType'
  BY DEF TypeInv
<1>1. CASE file_changes
  BY <1>1 DEF file_changes, SharedType, BreakerType, CountType, FlagType, RequestType, breaker,
     requestVars
<1>2. CASE recovery_timeout
  <2>1. BreakerType'
    BY <1>2 DEF recovery_timeout, BreakerType, CountType, FlagType
  <2> QED BY <1>2, <2>1 DEF recovery_timeout, SharedType, RequestType, configVars, requestVars
<1>3. ASSUME NEW r \in Requests, decided_by_rules(r)
      PROVE  SharedType' /\ BreakerType' /\ RequestType'
  <2>1. PICK o \in Objects, t \in Tenants \cup {NoTenant} :
          Enters(r, o, t) /\ After(r, o, t, FALSE, tenant_id')
    BY <1>3 DEF decided_by_rules
  <2>2. UNCHANGED breaker /\ router_config' = router_config
    BY <1>3 DEF decided_by_rules
  <2>3. ControlType' /\ planner_config' \in Objects \cup {NoConfig}
    BY <2>1, EntersType, AfterType
  <2> QED BY <2>1, <2>2, <2>3, EntersType, BreakerTypeKept DEF SharedType, RequestType, ControlType
<1>4. ASSUME NEW r \in Requests, route(r)
      PROVE  SharedType' /\ BreakerType' /\ RequestType'
  <2>1. PICK o \in Objects, t \in Tenants \cup {NoTenant}, complex \in BOOLEAN :
          /\ Enters(r, o, t) /\ CanExecute /\ router_config' = Singleton(router_config, o)
          /\ Awaits(r, "routing", o, t, complex, tenant_id'[router_config'].llm_router)
    BY <1>4 DEF route
  <2>2. planner_config' = planner_config
    BY <1>4 DEF route
  <2>3. router_config' \in Objects
    BY <2>1 DEF Singleton, SharedType
  <2>4. tenant_id'[router_config'].llm_router \in Tenants \cup {NoTenant}
    BY <2>1, <2>3, EntersType DEF Section
  <2>5. ControlType'
    BY <2>1, <2>4, AwaitsType
  <2> QED BY <2>1, <2>2, <2>3, <2>5, EntersType, BreakerTypeKept
          DEF SharedType, RequestType, ControlType
<1>5. ASSUME NEW r \in Requests, route_refused(r)
      PROVE  SharedType' /\ BreakerType' /\ RequestType'
  <2>1. PICK o \in Objects, t \in Tenants \cup {NoTenant}, complex \in BOOLEAN :
          /\ Enters(r, o, t) /\ CannotExecute /\ router_config' = Singleton(router_config, o)
          /\ After(r, o, t, complex, tenant_id')
    BY <1>5 DEF route_refused
  <2>2. router_config' \in Objects
    BY <2>1 DEF Singleton, SharedType
  <2>3. ControlType' /\ planner_config' \in Objects \cup {NoConfig}
    BY <2>1, EntersType, AfterType
  <2> QED BY <2>1, <2>2, <2>3, EntersType, BreakerTypeKept DEF SharedType, RequestType, ControlType
<1>6. ASSUME NEW r \in Requests, llm_answers(r) \/ llm_fails(r) \/ llm_unparsed(r)
      PROVE  SharedType' /\ BreakerType' /\ RequestType'
  <2>1. PICK complex \in BOOLEAN : After(r, config[r], tenant[r], complex, tenant_id)
    BY <1>6 DEF llm_answers, llm_fails, llm_unparsed, RequestType
  <2>2. /\ record_success \/ record_failure \/ record_unparsed
        /\ KeepsOvertaken(r) /\ UNCHANGED configVars /\ router_config' = router_config
    BY <1>6 DEF llm_answers, llm_fails, llm_unparsed
  <2>3. ControlType' /\ planner_config' \in Objects \cup {NoConfig}
    <3>1. config[r] \in Objects /\ tenant[r] \in Tenants \cup {NoTenant}
      BY <1>6 DEF llm_answers, llm_fails, llm_unparsed, RequestType
    <3>2. tenant_id \in [Objects -> Section]
      BY DEF SharedType
    <3> QED BY <2>1, <3>1, <3>2, AfterType
  <2>4. RequestType'
    BY <2>2, <2>3, KeepsType
  <2>5. BreakerType'
    BY <2>2, BreakerTypeKept
  <2> QED BY <2>2, <2>3, <2>4, <2>5 DEF SharedType, configVars
<1>7. ASSUME NEW r \in Requests, plan_returns(r)
      PROVE  SharedType' /\ BreakerType' /\ RequestType'
  <2>1. RequestType'
    BY <1>7, ReturnsType, KeepsType DEF plan_returns
  <2> QED BY <1>7, <2>1, BreakerTypeKept DEF plan_returns, SharedType, configVars
<1>8. CASE UNCHANGED vars
  BY <1>8 DEF vars, SharedType, BreakerType, CountType, FlagType, RequestType
<1> QED BY <1>1, <1>2, <1>3, <1>4, <1>5, <1>6, <1>7, <1>8 DEF Next

(* The router's node and singletons: every shared and local variable keeps *)
(* its type, however requests interleave.                                  *)
THEOREM RouterTypeCorrect == Spec => []TypeOK
BY TypeInit, TypeNext, TypeInvImplies, PTL DEF Spec

-----------------------------------------------------------------------------
(* The breaker                                                             *)

(* Below the threshold, the breaker has counted failures of the streak     *)
(* only.                                                                   *)
BreakerInv ==
  /\ streak < failure_threshold => failure_count <= streak
  /\ is_open => streak >= failure_threshold

LEMMA BreakerInvMethods ==
  ASSUME BreakerType, BreakerInv,
         \/ record_success \/ record_failure \/ record_unparsed \/ CanExecute \/ CannotExecute
         \/ UNCHANGED breaker
  PROVE  BreakerInv'
<1>1. failure_threshold \in Nat \ {0} /\ failure_count \in Nat /\ streak \in 0..failure_threshold
  BY RouterAssumption DEF BreakerType, CountType
<1>2. CASE record_success
  BY <1>1, <1>2 DEF BreakerInv, record_success
<1>3. CASE record_failure
  <2>1. is_open' => is_open \/ failure_count + 1 >= failure_threshold
    BY <1>3, Zenon DEF record_failure
  <2>2. failure_count' = failure_count + 1 /\ streak' = OneMore
    BY <1>3 DEF record_failure
  <2> QED BY <1>1, <2>1, <2>2 DEF BreakerInv, OneMore
<1>4. CASE record_unparsed
  <2>1. is_open' => 1 >= failure_threshold
    BY <1>4, Zenon DEF record_unparsed
  <2>2. failure_count' = 1 /\ streak' = OneMore
    BY <1>4 DEF record_unparsed
  <2> QED BY <1>1, <2>1, <2>2 DEF BreakerInv, OneMore
<1>5. CASE CanExecute \/ CannotExecute \/ UNCHANGED breaker
  BY <1>1, <1>5 DEF BreakerInv, CanExecute, CannotExecute, breaker
<1> QED BY <1>2, <1>3, <1>4, <1>5

LEMMA BreakerInvNext == TypeInv /\ BreakerInv /\ [Next]_vars => BreakerInv'
<1> SUFFICES ASSUME TypeInv, BreakerInv, [Next]_vars PROVE BreakerInv'
  OBVIOUS
<1>1. CASE recovery_timeout
  BY <1>1 DEF recovery_timeout, BreakerInv
<1>2. CASE ~ recovery_timeout
  <2>1. \/ record_success \/ record_failure \/ record_unparsed \/ CanExecute \/ CannotExecute
        \/ UNCHANGED breaker
    BY <1>2 DEF Next, file_changes, decided_by_rules, route, route_refused, llm_answers, llm_fails,
       llm_unparsed, plan_returns, vars, breaker
  <2> QED BY <2>1, BreakerInvMethods DEF TypeInv
<1> QED BY <1>1, <1>2

(* CircuitBreaker: for every threshold and any interleaving of the calls'  *)
(* ends, an open breaker means a row of failed calls as long as that.      *)
THEOREM OpenAfterFailures == Spec => []OpenMeansFailuresInARow
<1>1. Init => BreakerInv
  BY RouterAssumption DEF Init, BreakerInv
<1>2. BreakerInv => OpenMeansFailuresInARow
  BY DEF BreakerInv, OpenMeansFailuresInARow
<1> QED BY <1>1, <1>2, TypeInit, TypeNext, BreakerInvNext, PTL DEF Spec

-----------------------------------------------------------------------------
(* The tenants                                                             *)

(* A request that awaits the routing model was asked for its own tenant,   *)
(* and the object it will plan with is its own unless it was overtaken.    *)
RoutingInv ==
  \A r \in Requests : pc[r] = "routing" =>
    /\ router_config # NoConfig
    /\ tenant[r] # NoTenant /\ router_config = config[r] => asked[r] = tenant[r]
    /\ tenant[r] # NoTenant /\ ~ overtaken[r] => tenant_id[config[r]].planner = tenant[r]

PlanningInv ==
  \A r \in Requests : pc[r] = "planning" =>
    /\ planner_config # NoConfig
    /\ tenant[r] # NoTenant /\ planner_config = config[r] /\ ~ overtaken[r] => asked[r] = tenant[r]

TenantInv == RoutingInv /\ PlanningInv

(* What entering the node does to the other requests and to the object.    *)
LEMMA EntersFacts ==
  ASSUME TypeInv, NEW r \in Requests, NEW o \in Objects, NEW t \in Tenants \cup {NoTenant},
         Enters(r, o, t)
  PROVE  /\ t # NoTenant => tenant_id'[o].planner = t /\ tenant_id'[o].llm_router = t
         /\ \A q \in Requests : q # r /\ ~ overtaken'[q] =>
              /\ ~ overtaken[q]
              /\ (config[q] \in Objects /\ tenant[q] # NoTenant /\ tenant_id[config[q]].planner = tenant[q])
                   => tenant_id'[config[q]].planner = tenant[q]
         /\ ~ overtaken'[r] /\ pc[r] = "idle"
<1>1. t # NoTenant => tenant_id'[o] = [llm_router |-> t, planner |-> t]
  BY DEF Enters, Injected, Sections
<1>2. ~ overtaken'[r] /\ pc[r] = "idle"
  BY DEF Enters, Overtaken
<1>3. ASSUME NEW q \in Requests, q # r, ~ overtaken'[q]
      PROVE  ~ overtaken[q] /\ (t # NoTenant /\ config[q] = o => t = tenant[q])
  BY <1>3 DEF Enters, Overtaken
<1>4. ASSUME NEW q \in Requests, q # r, ~ overtaken'[q], config[q] \in Objects,
             tenant[q] # NoTenant, tenant_id[config[q]].planner = tenant[q]
      PROVE  tenant_id'[config[q]].planner = tenant[q]
  <2>1. config[q] \in Referenced
    BY DEF Referenced
  <2>2. CASE config[q] # o
    BY <1>4, <2>1, <2>2 DEF Enters, Injected, Sections
  <2>3. CASE config[q] = o /\ t # NoTenant
    BY <1>1, <1>3, <1>4, <2>3
  <2>4. CASE config[q] = o /\ t = NoTenant
    <3>1. file = "as_loaded"
      BY <2>1, <2>4 DEF Enters, load_config, NewObject
    <3>2. tenant_id'[o] = tenant_id[o]
      BY <2>4, <3>1 DEF Enters, Injected, Sections, Read
    <3> QED BY <1>4, <2>4, <3>2
  <2> QED BY <2>2, <2>3, <2>4
<1>5. t # NoTenant => tenant_id'[o].planner = t /\ tenant_id'[o].llm_router = t
  BY <1>1
<1> QED BY <1>2, <1>3, <1>4, <1>5

(* What follows a decision leaves the other requests alone; the request    *)
(* itself is idle or plans, for its own tenant if its object is the        *)
(* planner's.                                                              *)
LEMMA AfterFacts ==
  ASSUME TypeInv, NEW r \in Requests, NEW o \in Objects, NEW t \in Tenants \cup {NoTenant},
         NEW complex \in BOOLEAN, NEW ids, After(r, o, t, complex, ids)
  PROVE  /\ \A q \in Requests : q # r =>
              pc'[q] = pc[q] /\ config'[q] = config[q] /\ tenant'[q] = tenant[q] /\ asked'[q] = asked[q]
         /\ pc'[r] # "routing"
         /\ pc'[r] = "planning" =>
              /\ planner_config' # NoConfig /\ config'[r] = o /\ tenant'[r] = t
              /\ planner_config' = o => asked'[r] = ids[o].planner
         /\ planner_config # NoConfig => planner_config' = planner_config
<1>1. planner_config # NoConfig => planner_config' = planner_config
  BY DEF After, Singleton
<1>2. CASE Returns(r)
  BY <1>1, <1>2 DEF Returns, TypeInv, RequestType
<1>3. CASE /\ planner_config' = Singleton(planner_config, o)
           /\ Awaits(r, "planning", o, t, FALSE, ids[planner_config'].planner)
  <2>1. planner_config' # NoConfig
    BY <1>3, RouterAssumption DEF Singleton
  <2> QED BY <1>1, <1>3, <2>1 DEF Awaits, TypeInv, RequestType
<1> QED BY <1>2, <1>3 DEF After

(* A request enters and comes to After.                                    *)
LEMMA TenantEntersAfter ==
  ASSUME TypeInv, TenantInv, NEW r \in Requests, NEW o \in Objects,
         NEW t \in Tenants \cup {NoTenant}, NEW complex \in BOOLEAN,
         Enters(r, o, t), After(r, o, t, complex, tenant_id'),
         router_config # NoConfig => router_config' = router_config
  PROVE  TenantInv'
<1>1. \A q \in Requests : pc[q] # "idle" => config[q] \in Objects
  BY DEF TypeInv, RequestType
<1>2. /\ t # NoTenant => tenant_id'[o].planner = t /\ tenant_id'[o].llm_router = t
      /\ \A q \in Requests : q # r /\ ~ overtaken'[q] =>
           /\ ~ overtaken[q]
           /\ (config[q] \in Objects /\ tenant[q] # NoTenant /\ tenant_id[config[q]].planner = tenant[q])
                => tenant_id'[config[q]].planner = tenant[q]
  BY EntersFacts
<1>3. /\ \A q \in Requests : q # r =>
           pc'[q] = pc[q] /\ config'[q] = config[q] /\ tenant'[q] = tenant[q] /\ asked'[q] = asked[q]
      /\ pc'[r] # "routing"
      /\ pc'[r] = "planning" =>
           /\ planner_config' # NoConfig /\ config'[r] = o /\ tenant'[r] = t
           /\ planner_config' = o => asked'[r] = tenant_id'[o].planner
      /\ planner_config # NoConfig => planner_config' = planner_config
  BY AfterFacts
<1>4. RoutingInv'
  BY <1>1, <1>2, <1>3 DEF TenantInv, RoutingInv
<1>5. PlanningInv'
  BY <1>2, <1>3 DEF TenantInv, PlanningInv
<1> QED BY <1>4, <1>5 DEF TenantInv

LEMMA TenantRoute ==
  ASSUME TypeInv, TenantInv, NEW r \in Requests, route(r)
  PROVE  TenantInv'
<1>1. PICK o \in Objects, t \in Tenants \cup {NoTenant}, complex \in BOOLEAN :
        /\ Enters(r, o, t) /\ router_config' = Singleton(router_config, o)
        /\ Awaits(r, "routing", o, t, complex, tenant_id'[router_config'].llm_router)
        /\ planner_config' = planner_config
  BY DEF route
<1>2. /\ \A q \in Requests : q # r =>
           pc'[q] = pc[q] /\ config'[q] = config[q] /\ tenant'[q] = tenant[q] /\ asked'[q] = asked[q]
      /\ pc'[r] = "routing" /\ config'[r] = o /\ tenant'[r] = t
      /\ asked'[r] = tenant_id'[router_config'].llm_router
  BY <1>1 DEF Awaits, TypeInv, RequestType
<1>3. router_config' # NoConfig /\ (router_config # NoConfig => router_config' = router_config)
  BY <1>1, RouterAssumption DEF Singleton
<1>4. \A q \in Requests : pc[q] # "idle" => config[q] \in Objects
  BY DEF TypeInv, RequestType
<1>5. /\ t # NoTenant => tenant_id'[o].planner = t /\ tenant_id'[o].llm_router = t
      /\ \A q \in Requests : q # r /\ ~ overtaken'[q] =>
           /\ ~ overtaken[q]
           /\ (config[q] \in Objects /\ tenant[q] # NoTenant /\ tenant_id[config[q]].planner = tenant[q])
                => tenant_id'[config[q]].planner = tenant[q]
  BY <1>1, EntersFacts
<1>6. RoutingInv'
  BY <1>2, <1>3, <1>4, <1>5 DEF TenantInv, RoutingInv
<1>7. PlanningInv'
  BY <1>1, <1>2, <1>5 DEF TenantInv, PlanningInv
<1> QED BY <1>6, <1>7 DEF TenantInv

(* The routing call ends.                                                  *)
LEMMA TenantRouted ==
  ASSUME TypeInv, TenantInv, NEW r \in Requests,
         llm_answers(r) \/ llm_fails(r) \/ llm_unparsed(r)
  PROVE  TenantInv'
<1>1. PICK complex \in BOOLEAN : After(r, config[r], tenant[r], complex, tenant_id)
  BY DEF llm_answers, llm_fails, llm_unparsed, TypeInv, RequestType
<1>2. /\ KeepsOvertaken(r) /\ tenant_id' = tenant_id /\ router_config' = router_config
      /\ pc[r] = "routing"
  BY DEF llm_answers, llm_fails, llm_unparsed, configVars
<1>3. config[r] \in Objects /\ tenant[r] \in Tenants \cup {NoTenant}
  BY <1>2 DEF TypeInv, RequestType
<1>4. /\ \A q \in Requests : q # r => overtaken'[q] = overtaken[q]
      /\ pc'[r] = "planning" => (overtaken'[r] <=> overtaken[r])
  BY <1>2 DEF KeepsOvertaken, TypeInv, RequestType
<1>5. RoutingInv'
  BY <1>1, <1>2, <1>3, <1>4, AfterFacts DEF TenantInv, RoutingInv
<1>6. PlanningInv'
  BY <1>1, <1>2, <1>3, <1>4, AfterFacts DEF TenantInv, RoutingInv, PlanningInv
<1> QED BY <1>5, <1>6 DEF TenantInv

LEMMA TenantInvNext == TypeInv /\ TenantInv /\ [Next]_vars => TenantInv'
<1> SUFFICES ASSUME TypeInv, TenantInv, [Next]_vars PROVE TenantInv'
  OBVIOUS
<1>1. CASE file_changes \/ recovery_timeout \/ UNCHANGED vars
  BY <1>1 DEF file_changes, recovery_timeout, vars, requestVars, configVars, TenantInv, RoutingInv,
     PlanningInv
<1>2. ASSUME NEW r \in Requests, decided_by_rules(r) PROVE TenantInv'
  BY <1>2, TenantEntersAfter DEF decided_by_rules
<1>3. ASSUME NEW r \in Requests, route(r) PROVE TenantInv'
  BY <1>3, TenantRoute
<1>4. ASSUME NEW r \in Requests, route_refused(r) PROVE TenantInv'
  <2>1. router_config # NoConfig => router_config' = router_config
    BY <1>4 DEF route_refused, Singleton
  <2> QED BY <1>4, <2>1, TenantEntersAfter DEF route_refused
<1>5. ASSUME NEW r \in Requests, llm_answers(r) \/ llm_fails(r) \/ llm_unparsed(r) PROVE TenantInv'
  BY <1>5, TenantRouted
<1>6. ASSUME NEW r \in Requests, plan_returns(r) PROVE TenantInv'
  BY <1>6 DEF plan_returns, Returns, KeepsOvertaken, configVars, TypeInv, RequestType, TenantInv,
     RoutingInv, PlanningInv
<1> QED BY <1>1, <1>2, <1>3, <1>4, <1>5, <1>6 DEF Next

LEMMA TenantInvariant == Spec => [](TypeInv /\ TenantInv)
<1>1. Init => TenantInv
  BY DEF Init, TenantInv, RoutingInv, PlanningInv
<1> QED BY <1>1, TypeInit, TypeNext, TenantInvNext, PTL DEF Spec

(* LLMRouter._call_llm: any number of concurrent requests may write their  *)
(* tenants into the shared object; a routing call is made for its own.     *)
THEOREM RoutedForOwn == Spec => []RoutedForOwnTenant
<1>1. TenantInv => RoutedForOwnTenant
  BY DEF TenantInv, RoutingInv, RoutedForOwnTenant
<1> QED BY <1>1, TenantInvariant, PTL

(* Planner._call_planner: the planner's call can be made for a foreign     *)
(* tenant only if that one was written between the two calls.              *)
THEOREM PlannedForOwn == Spec => []PlannedForOwnTenantUnlessOvertaken
<1>1. TenantInv => PlannedForOwnTenantUnlessOvertaken
  BY DEF TenantInv, PlanningInv, PlannedForOwnTenantUnlessOvertaken
<1> QED BY <1>1, TenantInvariant, PTL

=============================================================================
