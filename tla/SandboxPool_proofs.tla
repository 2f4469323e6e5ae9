------------------------- MODULE SandboxPool_proofs -------------------------
(***************************************************************************)
(* Safety of SandboxPool for any pool size, any number of clients and any  *)
(* set of languages: the types, exclusive use of the containers, and that  *)
(* a pool which lost no container is never called busy.                    *)
(***************************************************************************)
EXTENDS SandboxPool, FiniteSetTheorems, TLAPS

-----------------------------------------------------------------------------
(* The inductive invariant.                                                *)

(* Where a request holds a container, and where it is past the semaphore.  *)
Holding ==
  {"lock_to_allocate", "check", "recreate", "allocated", "executing", "lock_to_release",
   "check_released", "recreate_released"}

Inside(l) == {r \in Requests : at[r] \notin {"out", "waiting"} /\ language[r] = l}

Types ==
  /\ phase \in {"starting", "serving", "stopping", "stopped"}
  /\ unprepared \in SUBSET Containers /\ queued \in [Containers -> Nat]
  /\ up \in SUBSET Containers /\ slots \in [Languages -> Nat]
  /\ lock \in Requests \cup {None}
  /\ at \in [Requests -> Steps] /\ language \in [Requests -> Languages]
  /\ container \in [Requests -> Containers \cup {None}]

(* A container is held exactly at the steps of Holding, one of the         *)
(* request's language.                                                     *)
HoldInv ==
  \A r \in Requests :
    /\ at[r] \in Holding => container[r] \in Pool(language[r])
    /\ at[r] \notin Holding => container[r] = None

(* Every slot of a semaphore is free or with a request.                    *)
SlotInv == \A l \in Languages : slots[l] + Cardinality(Inside(l)) = size

(* Requests are served only between start and stop; what is not prepared   *)
(* is not offered.                                                         *)
PhaseInv ==
  /\ phase # "serving" => \A r \in Requests : at[r] = "out"
  /\ phase = "starting" => \A c \in unprepared : queued[c] = 0

(* OneRequestPerContainer without the set InUse.                           *)
Exclusive ==
  /\ \A c \in Containers : queued[c] <= 1
  /\ \A r \in Requests : container[r] # None => queued[container[r]] = 0
  /\ \A r, s \in Requests : r # s /\ container[r] = container[s] => container[r] = None

PoolInv == Types /\ HoldInv /\ SlotInv /\ PhaseInv /\ Exclusive /\ BusyOnlyAfterLoss

-----------------------------------------------------------------------------
(* Containers, holders and slots.                                          *)

LEMMA PoolFacts ==
  ASSUME NEW l \in Languages
  PROVE  /\ Pool(l) \subseteq Containers /\ None \notin Pool(l)
         /\ IsFiniteSet(Pool(l)) /\ Cardinality(Pool(l)) = size
<1>1. size \in Nat /\ None \notin Containers
  BY PoolAssumption
<1>2. Pool(l) \subseteq Containers
  BY DEF Pool, Containers
<1>3. IsFiniteSet(1..size) /\ Cardinality(1..size) = size
  BY <1>1, FS_Interval
<1>4. IsFiniteSet({l}) /\ Cardinality({l}) = 1
  BY FS_Singleton
<1>5. IsFiniteSet(Pool(l)) /\ Cardinality(Pool(l)) = 1 * size
  <2>1. /\ IsFiniteSet({l} \X (1..size))
        /\ Cardinality({l} \X (1..size)) = Cardinality({l}) * Cardinality(1..size)
    BY <1>3, <1>4, FS_Product
  <2> QED BY <1>3, <1>4, <2>1 DEF Pool
<1> QED BY <1>1, <1>2, <1>5

LEMMA InsideFinite ==
  ASSUME NEW l
  PROVE  IsFiniteSet(Inside(l)) /\ Cardinality(Inside(l)) \in Nat
<1>1. Inside(l) \in SUBSET Requests /\ IsFiniteSet(Requests)
  BY PoolAssumption DEF Inside
<1> QED BY <1>1, FS_Subset, FS_CardinalityType

LEMMA SlotsBounded ==
  ASSUME Types, SlotInv
  PROVE  slots \in [Languages -> 0..size]
<1>1. ASSUME NEW l \in Languages PROVE slots[l] \in 0..size
  BY <1>1, InsideFinite, PoolAssumption DEF Types, SlotInv
<1> QED BY <1>1 DEF Types

(* The requests before and after a step, where the holders stay.           *)
LEMMA InsideSame ==
  ASSUME SlotInv, UNCHANGED slots,
         \A l \in Languages : Inside(l)' = Inside(l)
  PROVE  SlotInv'
BY DEF SlotInv

LEMMA InsideGrows ==
  ASSUME Types, SlotInv, NEW r \in Requests, UNCHANGED language,
         at[r] \in {"out", "waiting"}, at' = [at EXCEPT ![r] = "allocating"],
         slots' = [slots EXCEPT ![language[r]] = @ - 1]
  PROVE  SlotInv'
<1> DEFINE k == language[r]
<1>1. k \in Languages
  BY DEF Types
<1>2. r \notin Inside(k) /\ Inside(k)' = Inside(k) \cup {r}
  BY DEF Types, Inside
<1>3. Cardinality(Inside(k)') = Cardinality(Inside(k)) + 1
  BY <1>2, InsideFinite, FS_AddElement
<1>4. \A l \in Languages \ {k} : Inside(l)' = Inside(l)
  BY DEF Types, Inside
<1>5. \A l \in Languages \ {k} : slots'[l] = slots[l]
  BY DEF Types
<1>6. slots'[k] = slots[k] - 1 /\ slots[k] \in Nat
  BY <1>1 DEF Types
<1>7. slots'[k] + Cardinality(Inside(k)') = size
  BY <1>1, <1>3, <1>6, InsideFinite DEF SlotInv
<1> QED BY <1>4, <1>5, <1>7 DEF SlotInv

LEMMA InsideShrinks ==
  ASSUME Types, SlotInv, NEW r \in Requests, UNCHANGED language,
         at[r] \notin {"out", "waiting"}, Leave(r)
  PROVE  SlotInv'
<1> DEFINE k == language[r]
<1>1. k \in Languages
  BY DEF Types
<1>2. r \in Inside(k) /\ Inside(k)' = Inside(k) \ {r}
  BY DEF Types, Inside, Leave, Goes
<1>3. Cardinality(Inside(k)') = Cardinality(Inside(k)) - 1
  BY <1>2, InsideFinite, FS_RemoveElement
<1>4. \A l \in Languages \ {k} : Inside(l)' = Inside(l)
  BY DEF Types, Inside, Leave, Goes
<1>5. \A l \in Languages \ {k} : slots'[l] = slots[l]
  BY DEF Types, Leave
<1>6. slots'[k] = slots[k] + 1 /\ slots[k] \in Nat
  BY <1>1 DEF Types, Leave
<1>7. slots'[k] + Cardinality(Inside(k)') = size
  BY <1>1, <1>3, <1>6, InsideFinite DEF SlotInv
<1> QED BY <1>4, <1>5, <1>7 DEF SlotInv

(* A request past the semaphore without a container leaves one of its      *)
(* pool unused: at most size - 1 others hold one.                          *)
LEMMA OneUnused ==
  ASSUME Types, HoldInv, SlotInv, NEW r \in Requests,
         at[r] \notin {"out", "waiting"}, at[r] \notin Holding
  PROVE  \E c \in Pool(language[r]) : c \notin InUse
<1> DEFINE k == language[r]
           H == {s \in Requests : container[s] \in Pool(k)}
           U == Pool(k) \cap InUse
           f == [s \in H |-> container[s]]
<1>1. k \in Languages /\ size \in Nat
  BY PoolAssumption DEF Types
<1>2. IsFiniteSet(Pool(k)) /\ Cardinality(Pool(k)) = size /\ None \notin Pool(k)
  BY <1>1, PoolFacts
<1>3. H \subseteq Inside(k) \ {r}
  <2> SUFFICES ASSUME NEW s \in Requests, container[s] \in Pool(k)
               PROVE  s \in Inside(k) \ {r}
    OBVIOUS
  <2>1. container[s] # None
    BY <1>2
  <2>2. at[s] \in Holding /\ container[s] \in Pool(language[s])
    BY <2>1 DEF HoldInv
  <2>3. language[s] = k
    BY <2>2 DEF Pool
  <2> QED BY <2>2, <2>3 DEF Inside, Holding
<1>4. r \in Inside(k)
  BY DEF Inside
<1>5. IsFiniteSet(Inside(k) \ {r}) /\ Cardinality(Inside(k) \ {r}) = Cardinality(Inside(k)) - 1
  BY <1>4, InsideFinite, FS_RemoveElement
<1>6. Cardinality(Inside(k)) <= size
  BY <1>1, InsideFinite DEF Types, SlotInv
<1>7. IsFiniteSet(H) /\ Cardinality(H) <= Cardinality(Inside(k) \ {r}) /\ Cardinality(H) \in Nat
  BY <1>3, <1>5, FS_Subset, FS_CardinalityType
<1>8. f \in Surjection(H, U)
  <2>1. f \in [H -> U]
    BY <1>2 DEF InUse
  <2>2. \A c \in U : \E s \in H : f[s] = c
    BY DEF InUse
  <2> QED BY <2>1, <2>2 DEF Surjection
<1>9. IsFiniteSet(U) /\ Cardinality(U) <= Cardinality(H) /\ Cardinality(U) \in Nat
  BY <1>7, <1>8, FS_Surjection, FS_CardinalityType
<1>10. Cardinality(U) < size
  BY <1>1, <1>5, <1>6, <1>7, <1>9, InsideFinite
<1>11. U # Pool(k)
  <2> SUFFICES ASSUME U = Pool(k) PROVE FALSE
    OBVIOUS
  <2>1. Cardinality(U) = size
    BY <1>2
  <2> QED BY <1>1, <1>9, <1>10, <2>1
<1> QED BY <1>11

-----------------------------------------------------------------------------
(* Types.                                                                  *)

LEMMA TypesInit == Init => Types
BY PoolAssumption DEF Init, Types, Steps

LEMMA TypesNext ==
  ASSUME Types, HoldInv, [Next]_vars
  PROVE  Types'
<1> USE DEF Types, Goes, poolVars
<1>1. ASSUME NEW c \in Containers, prepare_container(c) PROVE Types'
  BY <1>1 DEF prepare_container
<1>2. ASSUME NEW c \in Containers, container_stops(c) PROVE Types'
  BY <1>2 DEF container_stops
<1>3. CASE serve
  BY <1>3 DEF serve
<1>4. CASE stop
  BY <1>4 DEF stop
<1>5. CASE teardown_container
  BY <1>5 DEF teardown_container
<1>6. CASE teardown_ends
  BY <1>6 DEF teardown_ends
<1>7. CASE init_containers
  BY <1>7, PoolAssumption DEF init_containers
<1>8. ASSUME NEW r \in Requests, run_code(r) PROVE Types'
  BY <1>8 DEF run_code, Steps
<1>9. ASSUME NEW r \in Requests, enter(r) PROVE Types'
  BY <1>9 DEF enter, Steps
<1>10. ASSUME NEW r \in Requests, acquires(r) PROVE Types'
  BY <1>10 DEF acquires, Steps
<1>11. ASSUME NEW r \in Requests, get_nowait(r) PROVE Types'
  BY <1>11 DEF get_nowait, Steps, Pool, Containers
<1>12. ASSUME NEW r \in Requests, sleep(r) PROVE Types'
  BY <1>12 DEF sleep, Steps
<1>13. ASSUME NEW r \in Requests, tries_again(r) PROVE Types'
  BY <1>13 DEF tries_again, Steps
<1>14. ASSUME NEW r \in Requests, busy(r) PROVE Types'
  BY <1>14 DEF busy, Steps, Leave
<1>15. ASSUME NEW r \in Requests, is_running(r) PROVE Types'
  BY <1>15 DEF is_running, Steps
<1>16. ASSUME NEW r \in Requests, recreate_container(r) PROVE Types'
  BY <1>16 DEF recreate_container, Steps, Leave, Recreated, RecreateFails, HoldInv, Holding, Pool,
     Containers
<1>17. ASSUME NEW r \in Requests, makedirs(r) PROVE Types'
  BY <1>17 DEF makedirs, Steps, Leave
<1>18. ASSUME NEW r \in Requests, execute_code(r) PROVE Types'
  BY <1>18 DEF execute_code, Steps
<1>19. ASSUME NEW r \in Requests, release_container(r) PROVE Types'
  BY <1>19 DEF release_container, Steps, Leave, Put
<1>20. ASSUME NEW r \in Requests, recreate_released(r) PROVE Types'
  BY <1>20 DEF recreate_released, Steps, Leave, Put, Recreated, RecreateFails, HoldInv, Holding,
     Pool, Containers
<1>21. CASE UNCHANGED vars
  BY <1>21 DEF vars
<1> QED
  BY <1>1, <1>2, <1>3, <1>4, <1>5, <1>6, <1>7, <1>8, <1>9, <1>10, <1>11, <1>12, <1>13, <1>14,
     <1>15, <1>16, <1>17, <1>18, <1>19, <1>20, <1>21 DEF Next, Handles

-----------------------------------------------------------------------------
(* Preservation of the invariant, one conjunct at a time.                   *)

LEMMA HoldNext ==
  ASSUME Types, HoldInv, [Next]_vars
  PROVE  HoldInv'
<1> USE DEF Types, HoldInv, Holding, Goes, poolVars
<1>1. ASSUME NEW c \in Containers, prepare_container(c) PROVE HoldInv'
  BY <1>1 DEF prepare_container
<1>2. ASSUME NEW c \in Containers, container_stops(c) PROVE HoldInv'
  BY <1>2 DEF container_stops
<1>3. CASE serve
  BY <1>3 DEF serve
<1>4. CASE stop
  BY <1>4 DEF stop
<1>5. CASE teardown_container
  BY <1>5 DEF teardown_container
<1>6. CASE teardown_ends
  BY <1>6 DEF teardown_ends
<1>7. CASE init_containers
  BY <1>7 DEF init_containers
<1>8. ASSUME NEW r \in Requests, run_code(r) PROVE HoldInv'
  BY <1>8 DEF run_code
<1>9. ASSUME NEW r \in Requests, enter(r) PROVE HoldInv'
  BY <1>9 DEF enter
<1>10. ASSUME NEW r \in Requests, acquires(r) PROVE HoldInv'
  BY <1>10 DEF acquires
<1>11. ASSUME NEW r \in Requests, get_nowait(r) PROVE HoldInv'
  BY <1>11 DEF get_nowait
<1>12. ASSUME NEW r \in Requests, sleep(r) PROVE HoldInv'
  BY <1>12 DEF sleep
<1>13. ASSUME NEW r \in Requests, tries_again(r) PROVE HoldInv'
  BY <1>13 DEF tries_again
<1>14. ASSUME NEW r \in Requests, busy(r) PROVE HoldInv'
  BY <1>14 DEF busy, Leave
<1>15. ASSUME NEW r \in Requests, is_running(r) PROVE HoldInv'
  BY <1>15 DEF is_running
<1>16. ASSUME NEW r \in Requests, recreate_container(r) PROVE HoldInv'
  BY <1>16 DEF recreate_container, Leave
<1>17. ASSUME NEW r \in Requests, makedirs(r) PROVE HoldInv'
  BY <1>17 DEF makedirs, Leave
<1>18. ASSUME NEW r \in Requests, execute_code(r) PROVE HoldInv'
  BY <1>18 DEF execute_code
<1>19. ASSUME NEW r \in Requests, release_container(r) PROVE HoldInv'
  BY <1>19 DEF release_container, Leave, Put
<1>20. ASSUME NEW r \in Requests, recreate_released(r) PROVE HoldInv'
  BY <1>20 DEF recreate_released, Leave, Put
<1>21. CASE UNCHANGED vars
  BY <1>21 DEF vars
<1> QED
  BY <1>1, <1>2, <1>3, <1>4, <1>5, <1>6, <1>7, <1>8, <1>9, <1>10, <1>11, <1>12, <1>13, <1>14,
     <1>15, <1>16, <1>17, <1>18, <1>19, <1>20, <1>21
  DEF Next, Handles

LEMMA PhaseNext ==
  ASSUME Types, PhaseInv, [Next]_vars
  PROVE  PhaseInv'
<1> USE DEF Types, PhaseInv, Goes, poolVars
<1>1. ASSUME NEW c \in Containers, prepare_container(c) PROVE PhaseInv'
  BY <1>1 DEF prepare_container
<1>2. ASSUME NEW c \in Containers, container_stops(c) PROVE PhaseInv'
  BY <1>2 DEF container_stops
<1>3. CASE serve
  BY <1>3 DEF serve
<1>4. CASE stop
  BY <1>4 DEF stop
<1>5. CASE teardown_container
  BY <1>5 DEF teardown_container
<1>6. CASE teardown_ends
  BY <1>6 DEF teardown_ends
<1>7. CASE init_containers
  BY <1>7 DEF init_containers
<1>8. ASSUME NEW r \in Requests, run_code(r) PROVE PhaseInv'
  BY <1>8 DEF run_code
<1>9. ASSUME NEW r \in Requests, enter(r) PROVE PhaseInv'
  BY <1>9 DEF enter
<1>10. ASSUME NEW r \in Requests, acquires(r) PROVE PhaseInv'
  BY <1>10 DEF acquires
<1>11. ASSUME NEW r \in Requests, get_nowait(r) PROVE PhaseInv'
  BY <1>11 DEF get_nowait
<1>12. ASSUME NEW r \in Requests, sleep(r) PROVE PhaseInv'
  BY <1>12 DEF sleep
<1>13. ASSUME NEW r \in Requests, tries_again(r) PROVE PhaseInv'
  BY <1>13 DEF tries_again
<1>14. ASSUME NEW r \in Requests, busy(r) PROVE PhaseInv'
  BY <1>14 DEF busy, Leave
<1>15. ASSUME NEW r \in Requests, is_running(r) PROVE PhaseInv'
  BY <1>15 DEF is_running
<1>16. ASSUME NEW r \in Requests, recreate_container(r) PROVE PhaseInv'
  BY <1>16 DEF recreate_container, Leave
<1>17. ASSUME NEW r \in Requests, makedirs(r) PROVE PhaseInv'
  BY <1>17 DEF makedirs, Leave
<1>18. ASSUME NEW r \in Requests, execute_code(r) PROVE PhaseInv'
  BY <1>18 DEF execute_code
<1>19. ASSUME NEW r \in Requests, release_container(r) PROVE PhaseInv'
  BY <1>19 DEF release_container, Leave, Put
<1>20. ASSUME NEW r \in Requests, recreate_released(r) PROVE PhaseInv'
  BY <1>20 DEF recreate_released, Leave, Put
<1>21. CASE UNCHANGED vars
  BY <1>21 DEF vars
<1> QED
  BY <1>1, <1>2, <1>3, <1>4, <1>5, <1>6, <1>7, <1>8, <1>9, <1>10, <1>11, <1>12, <1>13, <1>14,
     <1>15, <1>16, <1>17, <1>18, <1>19, <1>20, <1>21
  DEF Next, Handles

LEMMA SlotNext ==
  ASSUME Types, SlotInv, PhaseInv, [Next]_vars
  PROVE  SlotInv'
<1> USE DEF Types, Inside, Goes, poolVars
<1>1. ASSUME NEW c \in Containers, prepare_container(c) PROVE SlotInv'
  <2>1. UNCHANGED slots /\ \A l \in Languages : Inside(l)' = Inside(l)
    BY <1>1 DEF prepare_container
  <2> QED BY <2>1, InsideSame
<1>2. ASSUME NEW c \in Containers, container_stops(c) PROVE SlotInv'
  <2>1. UNCHANGED slots /\ \A l \in Languages : Inside(l)' = Inside(l)
    BY <1>2 DEF container_stops
  <2> QED BY <2>1, InsideSame
<1>3. CASE serve
  <2>1. UNCHANGED slots /\ \A l \in Languages : Inside(l)' = Inside(l)
    BY <1>3 DEF serve
  <2> QED BY <2>1, InsideSame
<1>4. CASE stop
  <2>1. UNCHANGED slots /\ \A l \in Languages : Inside(l)' = Inside(l)
    BY <1>4 DEF stop
  <2> QED BY <2>1, InsideSame
<1>5. CASE teardown_container
  <2>1. UNCHANGED slots /\ \A l \in Languages : Inside(l)' = Inside(l)
    BY <1>5 DEF teardown_container
  <2> QED BY <2>1, InsideSame
<1>6. CASE teardown_ends
  <2>1. UNCHANGED slots /\ \A l \in Languages : Inside(l)' = Inside(l)
    BY <1>6 DEF teardown_ends
  <2> QED BY <2>1, InsideSame
<1>7. CASE init_containers
  <2>1. \A l \in Languages : Inside(l)' = {} /\ slots'[l] = size
    BY <1>7 DEF init_containers, PhaseInv
  <2> HIDE DEF Inside
  <2>2. Cardinality({}) = 0 /\ size \in Nat
    BY FS_EmptySet, PoolAssumption
  <2>3. ASSUME NEW l \in Languages PROVE (slots[l] + Cardinality(Inside(l)) = size)'
    <3>1. Cardinality(Inside(l))' = 0
      BY <2>1, <2>2
    <3> QED BY <2>1, <2>2, <3>1
  <2> QED BY <2>3 DEF SlotInv
<1>8. ASSUME NEW r \in Requests, run_code(r) PROVE SlotInv'
  <2>1. UNCHANGED slots /\ \A l \in Languages : Inside(l)' = Inside(l)
    BY <1>8 DEF run_code
  <2> QED BY <2>1, InsideSame
<1>9. ASSUME NEW r \in Requests, enter(r) PROVE SlotInv'
  <2>1. CASE slots' = [slots EXCEPT ![language[r]] = @ - 1] /\ Goes(r, "allocating")
    BY <1>9, <2>1, InsideGrows DEF enter
  <2>2. CASE Goes(r, "out") /\ UNCHANGED slots
    <3>1. UNCHANGED slots /\ \A l \in Languages : Inside(l)' = Inside(l)
      BY <1>9, <2>2 DEF enter
    <3> QED BY <3>1, InsideSame
  <2> QED BY <1>9, <2>1, <2>2 DEF enter
<1>10. ASSUME NEW r \in Requests, acquires(r) PROVE SlotInv'
  <2>1. UNCHANGED slots /\ \A l \in Languages : Inside(l)' = Inside(l)
    BY <1>10 DEF acquires
  <2> QED BY <2>1, InsideSame
<1>11. ASSUME NEW r \in Requests, get_nowait(r) PROVE SlotInv'
  <2>1. UNCHANGED slots /\ \A l \in Languages : Inside(l)' = Inside(l)
    BY <1>11 DEF get_nowait
  <2> QED BY <2>1, InsideSame
<1>12. ASSUME NEW r \in Requests, sleep(r) PROVE SlotInv'
  <2>1. UNCHANGED slots /\ \A l \in Languages : Inside(l)' = Inside(l)
    BY <1>12 DEF sleep
  <2> QED BY <2>1, InsideSame
<1>13. ASSUME NEW r \in Requests, tries_again(r) PROVE SlotInv'
  <2>1. UNCHANGED slots /\ \A l \in Languages : Inside(l)' = Inside(l)
    BY <1>13 DEF tries_again
  <2> QED BY <2>1, InsideSame
<1>14. ASSUME NEW r \in Requests, busy(r) PROVE SlotInv'
  BY <1>14, InsideShrinks DEF busy
<1>15. ASSUME NEW r \in Requests, is_running(r) PROVE SlotInv'
  <2>1. UNCHANGED slots /\ \A l \in Languages : Inside(l)' = Inside(l)
    BY <1>15 DEF is_running
  <2> QED BY <2>1, InsideSame
<1>16. ASSUME NEW r \in Requests, recreate_container(r) PROVE SlotInv'
  <2>1. CASE Leave(r)
    BY <1>16, <2>1, InsideShrinks DEF recreate_container
  <2>2. CASE ~ Leave(r)
    <3>1. UNCHANGED slots /\ \A l \in Languages : Inside(l)' = Inside(l)
      BY <1>16, <2>2 DEF recreate_container
    <3> QED BY <3>1, InsideSame
  <2> QED BY <2>1, <2>2
<1>17. ASSUME NEW r \in Requests, makedirs(r) PROVE SlotInv'
  <2>1. CASE Leave(r)
    BY <1>17, <2>1, InsideShrinks DEF makedirs
  <2>2. CASE ~ Leave(r)
    <3>1. UNCHANGED slots /\ \A l \in Languages : Inside(l)' = Inside(l)
      BY <1>17, <2>2 DEF makedirs
    <3> QED BY <3>1, InsideSame
  <2> QED BY <2>1, <2>2
<1>18. ASSUME NEW r \in Requests, execute_code(r) PROVE SlotInv'
  <2>1. UNCHANGED slots /\ \A l \in Languages : Inside(l)' = Inside(l)
    BY <1>18 DEF execute_code
  <2> QED BY <2>1, InsideSame
<1>19. ASSUME NEW r \in Requests, release_container(r) PROVE SlotInv'
  <2>1. CASE Leave(r)
    BY <1>19, <2>1, InsideShrinks DEF release_container
  <2>2. CASE ~ Leave(r)
    <3>1. UNCHANGED slots /\ \A l \in Languages : Inside(l)' = Inside(l)
      BY <1>19, <2>2 DEF release_container
    <3> QED BY <3>1, InsideSame
  <2> QED BY <2>1, <2>2
<1>20. ASSUME NEW r \in Requests, recreate_released(r) PROVE SlotInv'
  BY <1>20, InsideShrinks DEF recreate_released
<1>21. CASE UNCHANGED vars
  <2>1. UNCHANGED slots /\ \A l \in Languages : Inside(l)' = Inside(l)
    BY <1>21 DEF vars
  <2> QED BY <2>1, InsideSame
<1> QED
  BY <1>1, <1>2, <1>3, <1>4, <1>5, <1>6, <1>7, <1>8, <1>9, <1>10, <1>11, <1>12, <1>13, <1>14,
     <1>15, <1>16, <1>17, <1>18, <1>19, <1>20, <1>21
  DEF Next, Handles

LEMMA ExclusiveNext ==
  ASSUME Types, HoldInv, PhaseInv, Exclusive, [Next]_vars
  PROVE  Exclusive'
<1> USE PoolAssumption DEF Types, HoldInv, Holding, Pool, Exclusive, Goes, poolVars
<1>1. ASSUME NEW c \in Containers, prepare_container(c) PROVE Exclusive'
  BY <1>1 DEF prepare_container, PhaseInv
<1>2. ASSUME NEW c \in Containers, container_stops(c) PROVE Exclusive'
  BY <1>2 DEF container_stops
<1>3. CASE serve
  BY <1>3 DEF serve
<1>4. CASE stop
  BY <1>4 DEF stop
<1>5. CASE teardown_container
  BY <1>5 DEF teardown_container
<1>6. CASE teardown_ends
  BY <1>6 DEF teardown_ends
<1>7. CASE init_containers
  BY <1>7 DEF init_containers
<1>8. ASSUME NEW r \in Requests, run_code(r) PROVE Exclusive'
  BY <1>8 DEF run_code
<1>9. ASSUME NEW r \in Requests, enter(r) PROVE Exclusive'
  BY <1>9 DEF enter
<1>10. ASSUME NEW r \in Requests, acquires(r) PROVE Exclusive'
  BY <1>10 DEF acquires
<1>11. ASSUME NEW r \in Requests, get_nowait(r) PROVE Exclusive'
  <2>1. PICK c \in Pool(language[r]) :
          /\ queued[c] > 0 /\ queued' = [queued EXCEPT ![c] = @ - 1]
          /\ container' = [container EXCEPT ![r] = c]
    BY <1>11 DEF get_nowait
  <2>2. language[r] \in Languages
    OBVIOUS
  <2>3. c \in Containers /\ c # None
    BY <2>2, PoolFacts
  <2>4. queued[c] = 1 /\ \A s \in Requests : container[s] # c
    BY <2>1, <2>3
  <2> QED BY <2>1, <2>3, <2>4
<1>12. ASSUME NEW r \in Requests, sleep(r) PROVE Exclusive'
  BY <1>12 DEF sleep
<1>13. ASSUME NEW r \in Requests, tries_again(r) PROVE Exclusive'
  BY <1>13 DEF tries_again
<1>14. ASSUME NEW r \in Requests, busy(r) PROVE Exclusive'
  BY <1>14 DEF busy, Leave
<1>15. ASSUME NEW r \in Requests, is_running(r) PROVE Exclusive'
  BY <1>15 DEF is_running
<1>16. ASSUME NEW r \in Requests, recreate_container(r) PROVE Exclusive'
  BY <1>16 DEF recreate_container, Leave
<1>17. ASSUME NEW r \in Requests, makedirs(r) PROVE Exclusive'
  BY <1>17 DEF makedirs, Leave
<1>18. ASSUME NEW r \in Requests, execute_code(r) PROVE Exclusive'
  BY <1>18 DEF execute_code
<1>19. ASSUME NEW r \in Requests, release_container(r) PROVE Exclusive'
  BY <1>19 DEF release_container, Leave, Put
<1>20. ASSUME NEW r \in Requests, recreate_released(r) PROVE Exclusive'
  BY <1>20 DEF recreate_released, Leave, Put
<1>21. CASE UNCHANGED vars
  BY <1>21 DEF vars
<1> QED
  BY <1>1, <1>2, <1>3, <1>4, <1>5, <1>6, <1>7, <1>8, <1>9, <1>10, <1>11, <1>12, <1>13, <1>14,
     <1>15, <1>16, <1>17, <1>18, <1>19, <1>20, <1>21
  DEF Next, Handles

(* What a step leaves lost stays lost: names come off a queue, or back     *)
(* from their holder.                                                      *)
LEMMA LostStays ==
  ASSUME \A c \in Containers : c \notin InUse /\ queued[c] = 0 => queued'[c] = 0,
         \A r \in Requests : container'[r] = container[r] \/ container'[r] = None
                               \/ queued[container'[r]] > 0
  PROVE  Lost \subseteq Lost'
<1> SUFFICES ASSUME NEW c \in Containers, queued[c] = 0, c \notin InUse
             PROVE  queued'[c] = 0 /\ c \notin InUse'
  BY DEF Lost
<1>1. queued'[c] = 0
  OBVIOUS
<1>2. ASSUME c \in InUse' PROVE FALSE
  <2>1. PICK r \in Requests : container'[r] = c /\ c # None
    BY <1>2 DEF InUse
  <2> QED BY <2>1 DEF InUse
<1> QED BY <1>1, <1>2

LEMMA BusyStays ==
  ASSUME BusyOnlyAfterLoss, Lost \subseteq Lost',
         \A r \in Requests : at'[r] = "sleeping" => at[r] = "sleeping" /\ language'[r] = language[r]
  PROVE  BusyOnlyAfterLoss'
BY DEF BusyOnlyAfterLoss

LEMMA BusyNext ==
  ASSUME Types, HoldInv, SlotInv, PhaseInv, BusyOnlyAfterLoss, [Next]_vars
  PROVE  BusyOnlyAfterLoss'
<1> USE DEF Types, Goes, poolVars
<1>1. ASSUME NEW c \in Containers, prepare_container(c) PROVE BusyOnlyAfterLoss'
  <2>1. \A r \in Requests : at'[r] # "sleeping"
    BY <1>1 DEF prepare_container, PhaseInv
  <2> QED BY <2>1 DEF BusyOnlyAfterLoss
<1>2. ASSUME NEW c \in Containers, container_stops(c) PROVE BusyOnlyAfterLoss'
  <2>1. \A s \in Requests : at'[s] = "sleeping" => at[s] = "sleeping" /\ language'[s] = language[s]
    BY <1>2 DEF container_stops
  <2>2. \A d \in Containers : d \notin InUse /\ queued[d] = 0 => queued'[d] = 0
    BY <1>2 DEF container_stops
  <2>3. \A s \in Requests : container'[s] = container[s] \/ container'[s] = None \/ queued[container'[s]] > 0
    BY <1>2 DEF container_stops
  <2> QED BY <2>1, <2>2, <2>3, LostStays, BusyStays
<1>3. CASE serve
  <2>1. \A r \in Requests : at'[r] # "sleeping"
    BY <1>3 DEF serve, PhaseInv
  <2> QED BY <2>1 DEF BusyOnlyAfterLoss
<1>4. CASE stop
  <2>1. \A r \in Requests : at'[r] # "sleeping"
    BY <1>4 DEF stop, PhaseInv
  <2> QED BY <2>1 DEF BusyOnlyAfterLoss
<1>5. CASE teardown_container
  <2>1. \A r \in Requests : at'[r] # "sleeping"
    BY <1>5 DEF teardown_container, PhaseInv
  <2> QED BY <2>1 DEF BusyOnlyAfterLoss
<1>6. CASE teardown_ends
  <2>1. \A r \in Requests : at'[r] # "sleeping"
    BY <1>6 DEF teardown_ends, PhaseInv
  <2> QED BY <2>1 DEF BusyOnlyAfterLoss
<1>7. CASE init_containers
  <2>1. \A r \in Requests : at'[r] # "sleeping"
    BY <1>7 DEF init_containers, PhaseInv
  <2> QED BY <2>1 DEF BusyOnlyAfterLoss
<1>8. ASSUME NEW r \in Requests, run_code(r) PROVE BusyOnlyAfterLoss'
  <2>1. \A s \in Requests : at'[s] = "sleeping" => at[s] = "sleeping" /\ language'[s] = language[s]
    BY <1>8 DEF run_code
  <2>2. \A c \in Containers : c \notin InUse /\ queued[c] = 0 => queued'[c] = 0
    BY <1>8 DEF run_code
  <2>3. \A s \in Requests : container'[s] = container[s] \/ container'[s] = None \/ queued[container'[s]] > 0
    BY <1>8 DEF run_code
  <2> QED BY <2>1, <2>2, <2>3, LostStays, BusyStays
<1>9. ASSUME NEW r \in Requests, enter(r) PROVE BusyOnlyAfterLoss'
  <2>1. \A s \in Requests : at'[s] = "sleeping" => at[s] = "sleeping" /\ language'[s] = language[s]
    BY <1>9 DEF enter
  <2>2. \A c \in Containers : c \notin InUse /\ queued[c] = 0 => queued'[c] = 0
    BY <1>9 DEF enter
  <2>3. \A s \in Requests : container'[s] = container[s] \/ container'[s] = None \/ queued[container'[s]] > 0
    BY <1>9 DEF enter
  <2> QED BY <2>1, <2>2, <2>3, LostStays, BusyStays
<1>10. ASSUME NEW r \in Requests, acquires(r) PROVE BusyOnlyAfterLoss'
  <2>1. \A s \in Requests : at'[s] = "sleeping" => at[s] = "sleeping" /\ language'[s] = language[s]
    BY <1>10 DEF acquires
  <2>2. \A c \in Containers : c \notin InUse /\ queued[c] = 0 => queued'[c] = 0
    BY <1>10 DEF acquires
  <2>3. \A s \in Requests : container'[s] = container[s] \/ container'[s] = None \/ queued[container'[s]] > 0
    BY <1>10 DEF acquires
  <2> QED BY <2>1, <2>2, <2>3, LostStays, BusyStays
<1>11. ASSUME NEW r \in Requests, get_nowait(r) PROVE BusyOnlyAfterLoss'
  <2>1. \A s \in Requests : at'[s] = "sleeping" => at[s] = "sleeping" /\ language'[s] = language[s]
    BY <1>11 DEF get_nowait
  <2>2. \A c \in Containers : c \notin InUse /\ queued[c] = 0 => queued'[c] = 0
    BY <1>11 DEF get_nowait, Pool, Containers
  <2>3. \A s \in Requests : container'[s] = container[s] \/ container'[s] = None \/ queued[container'[s]] > 0
    BY <1>11 DEF get_nowait
  <2> QED BY <2>1, <2>2, <2>3, LostStays, BusyStays
<1>12. ASSUME NEW r \in Requests, sleep(r) PROVE BusyOnlyAfterLoss'
  <2>1. \A c \in Pool(language[r]) : queued[c] = 0
    BY <1>12 DEF sleep
  <2>2. \E c \in Pool(language[r]) : c \notin InUse
    BY <1>12, OneUnused DEF sleep, Holding
  <2>3. Pool(language[r]) \subseteq Containers
    BY PoolFacts
  <2>4. Pool(language[r]) \cap Lost # {}
    BY <2>1, <2>2, <2>3 DEF Lost
  <2>5. Lost' = Lost
    BY <1>12 DEF sleep, Lost, InUse
  <2> QED BY <1>12, <2>4, <2>5 DEF sleep, BusyOnlyAfterLoss
<1>13. ASSUME NEW r \in Requests, tries_again(r) PROVE BusyOnlyAfterLoss'
  <2>1. \A s \in Requests : at'[s] = "sleeping" => at[s] = "sleeping" /\ language'[s] = language[s]
    BY <1>13 DEF tries_again
  <2>2. \A c \in Containers : c \notin InUse /\ queued[c] = 0 => queued'[c] = 0
    BY <1>13 DEF tries_again
  <2>3. \A s \in Requests : container'[s] = container[s] \/ container'[s] = None \/ queued[container'[s]] > 0
    BY <1>13 DEF tries_again
  <2> QED BY <2>1, <2>2, <2>3, LostStays, BusyStays
<1>14. ASSUME NEW r \in Requests, busy(r) PROVE BusyOnlyAfterLoss'
  <2>1. \A s \in Requests : at'[s] = "sleeping" => at[s] = "sleeping" /\ language'[s] = language[s]
    BY <1>14 DEF busy, Leave
  <2>2. \A c \in Containers : c \notin InUse /\ queued[c] = 0 => queued'[c] = 0
    BY <1>14 DEF busy, Leave
  <2>3. \A s \in Requests : container'[s] = container[s] \/ container'[s] = None \/ queued[container'[s]] > 0
    BY <1>14 DEF busy, Leave
  <2> QED BY <2>1, <2>2, <2>3, LostStays, BusyStays
<1>15. ASSUME NEW r \in Requests, is_running(r) PROVE BusyOnlyAfterLoss'
  <2>1. \A s \in Requests : at'[s] = "sleeping" => at[s] = "sleeping" /\ language'[s] = language[s]
    BY <1>15 DEF is_running
  <2>2. \A c \in Containers : c \notin InUse /\ queued[c] = 0 => queued'[c] = 0
    BY <1>15 DEF is_running
  <2>3. \A s \in Requests : container'[s] = container[s] \/ container'[s] = None \/ queued[container'[s]] > 0
    BY <1>15 DEF is_running
  <2> QED BY <2>1, <2>2, <2>3, LostStays, BusyStays
<1>16. ASSUME NEW r \in Requests, recreate_container(r) PROVE BusyOnlyAfterLoss'
  <2>1. \A s \in Requests : at'[s] = "sleeping" => at[s] = "sleeping" /\ language'[s] = language[s]
    BY <1>16 DEF recreate_container, Leave
  <2>2. \A c \in Containers : c \notin InUse /\ queued[c] = 0 => queued'[c] = 0
    BY <1>16 DEF recreate_container, Leave
  <2>3. \A s \in Requests : container'[s] = container[s] \/ container'[s] = None \/ queued[container'[s]] > 0
    BY <1>16 DEF recreate_container, Leave
  <2> QED BY <2>1, <2>2, <2>3, LostStays, BusyStays
<1>17. ASSUME NEW r \in Requests, makedirs(r) PROVE BusyOnlyAfterLoss'
  <2>1. \A s \in Requests : at'[s] = "sleeping" => at[s] = "sleeping" /\ language'[s] = language[s]
    BY <1>17 DEF makedirs, Leave
  <2>2. \A c \in Containers : c \notin InUse /\ queued[c] = 0 => queued'[c] = 0
    BY <1>17 DEF makedirs, Leave
  <2>3. \A s \in Requests : container'[s] = container[s] \/ container'[s] = None \/ queued[container'[s]] > 0
    BY <1>17 DEF makedirs, Leave
  <2> QED BY <2>1, <2>2, <2>3, LostStays, BusyStays
<1>18. ASSUME NEW r \in Requests, execute_code(r) PROVE BusyOnlyAfterLoss'
  <2>1. \A s \in Requests : at'[s] = "sleeping" => at[s] = "sleeping" /\ language'[s] = language[s]
    BY <1>18 DEF execute_code
  <2>2. \A c \in Containers : c \notin InUse /\ queued[c] = 0 => queued'[c] = 0
    BY <1>18 DEF execute_code
  <2>3. \A s \in Requests : container'[s] = container[s] \/ container'[s] = None \/ queued[container'[s]] > 0
    BY <1>18 DEF execute_code
  <2> QED BY <2>1, <2>2, <2>3, LostStays, BusyStays
<1>19. ASSUME NEW r \in Requests, release_container(r) PROVE BusyOnlyAfterLoss'
  <2>1. \A s \in Requests : at'[s] = "sleeping" => at[s] = "sleeping" /\ language'[s] = language[s]
    BY <1>19 DEF release_container, Leave, Put
  <2>2. \A c \in Containers : c \notin InUse /\ queued[c] = 0 => queued'[c] = 0
    BY <1>19, PoolAssumption DEF release_container, Leave, Put, HoldInv, Holding, Pool, InUse
  <2>3. \A s \in Requests : container'[s] = container[s] \/ container'[s] = None \/ queued[container'[s]] > 0
    BY <1>19 DEF release_container, Leave, Put
  <2> QED BY <2>1, <2>2, <2>3, LostStays, BusyStays
<1>20. ASSUME NEW r \in Requests, recreate_released(r) PROVE BusyOnlyAfterLoss'
  <2>1. \A s \in Requests : at'[s] = "sleeping" => at[s] = "sleeping" /\ language'[s] = language[s]
    BY <1>20 DEF recreate_released, Leave, Put
  <2>2. \A c \in Containers : c \notin InUse /\ queued[c] = 0 => queued'[c] = 0
    BY <1>20, PoolAssumption DEF recreate_released, Leave, Put, HoldInv, Holding, Pool, InUse
  <2>3. \A s \in Requests : container'[s] = container[s] \/ container'[s] = None \/ queued[container'[s]] > 0
    BY <1>20 DEF recreate_released, Leave, Put
  <2> QED BY <2>1, <2>2, <2>3, LostStays, BusyStays
<1>21. CASE UNCHANGED vars
  <2>1. \A s \in Requests : at'[s] = "sleeping" => at[s] = "sleeping" /\ language'[s] = language[s]
    BY <1>21 DEF vars
  <2>2. \A c \in Containers : c \notin InUse /\ queued[c] = 0 => queued'[c] = 0
    BY <1>21 DEF vars
  <2>3. \A s \in Requests : container'[s] = container[s] \/ container'[s] = None \/ queued[container'[s]] > 0
    BY <1>21 DEF vars
  <2> QED BY <2>1, <2>2, <2>3, LostStays, BusyStays
<1> QED
  BY <1>1, <1>2, <1>3, <1>4, <1>5, <1>6, <1>7, <1>8, <1>9, <1>10, <1>11, <1>12, <1>13, <1>14,
     <1>15, <1>16, <1>17, <1>18, <1>19, <1>20, <1>21
  DEF Next, Handles

-----------------------------------------------------------------------------
(* The invariant, and what follows.                                        *)

LEMMA PoolInvInit == Init => PoolInv
<1> SUFFICES ASSUME Init PROVE PoolInv
  OBVIOUS
<1>1. Types
  BY TypesInit
<1>2. HoldInv /\ PhaseInv
  BY DEF Init, HoldInv, Holding, PhaseInv
<1>3. SlotInv
  <2>1. \A l \in Languages : Inside(l) = {} /\ slots[l] = size
    BY DEF Init, Inside
  <2> QED BY <2>1, FS_EmptySet, PoolAssumption DEF SlotInv
<1>4. Exclusive
  BY DEF Init, Exclusive
<1>5. BusyOnlyAfterLoss
  BY DEF Init, BusyOnlyAfterLoss
<1> QED BY <1>1, <1>2, <1>3, <1>4, <1>5 DEF PoolInv

LEMMA PoolInvNext == PoolInv /\ [Next]_vars => PoolInv'
BY TypesNext, HoldNext, PhaseNext, SlotNext, ExclusiveNext, BusyNext DEF PoolInv

LEMMA PoolInvHolds == Spec => []PoolInv
<1>1. Init /\ [][Next]_vars => []PoolInv
  BY PoolInvInit, PoolInvNext, PTL
<1> QED BY <1>1, PTL DEF Spec

(* The semaphores never exceed the pool's size, the queues never promise a *)
(* negative number of containers, for every size.                          *)
THEOREM SandboxTypeCorrect == Spec => []TypeOK
<1>1. PoolInv => TypeOK
  BY SlotsBounded DEF PoolInv, Types, TypeOK
<1> QED BY <1>1, PoolInvHolds, PTL

(* allocate_container_blocking and release_container: at any number of     *)
(* clients, no container has two users, none in use is queued, none is     *)
(* queued twice, whatever fails and whatever stops.                        *)
THEOREM ExclusiveContainers == Spec => []OneRequestPerContainer
<1>1. PoolInv => OneRequestPerContainer
  <2> SUFFICES ASSUME PoolInv PROVE OneRequestPerContainer
    OBVIOUS
  <2>1. Types /\ Exclusive
    BY DEF PoolInv
  <2>2. ASSUME NEW c \in Containers PROVE queued[c] <= (IF c \in InUse THEN 0 ELSE 1)
    <3>1. CASE c \in InUse
      <4>1. PICK r \in Requests : container[r] = c /\ c # None
        BY <3>1 DEF InUse
      <4>2. queued[c] = 0
        BY <2>1, <4>1 DEF Exclusive
      <4> QED BY <3>1, <4>2
    <3>2. CASE c \notin InUse
      BY <2>1, <2>2, <3>2 DEF Exclusive
    <3> QED BY <3>1, <3>2
  <2> QED BY <2>1, <2>2 DEF Exclusive, OneRequestPerContainer
<1> QED BY <1>1, PoolInvHolds, PTL

(* The semaphore and the queue of a language, of any size: a request that  *)
(* was let in and finds the queue empty proves that a name was dropped, so *)
(* "Container pool is busy" is never said of a whole pool.                 *)
THEOREM BusyIsTrue == Spec => []BusyOnlyAfterLoss
<1>1. PoolInv => BusyOnlyAfterLoss
  BY DEF PoolInv
<1> QED BY <1>1, PoolInvHolds, PTL

=============================================================================
