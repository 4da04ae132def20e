-------------------------- MODULE SemaphoreProofs --------------------------
(***************************************************************************)
(* Proofs about SemaphoreTasks: SemaphoreInv is inductive for any number   *)
(* of tasks and any counts, hence units are conserved and no wakeup is     *)
(* lost; and about SemaphoreFairness: no task is served twice before one   *)
(* that waits.                                                             *)
(***************************************************************************)
EXTENDS SemaphoreFairness, ServiceProofs

LEMMA SemaphoreInitInv == SInit => SemaphoreInv
<1> SUFFICES ASSUME SInit PROVE SemaphoreInv
  OBVIOUS
<1>1. LayerInv
  BY LayerInitInv DEF SInit
<1>2. \A t \in Tasks : task_state[t] # "BLOCKED"
  BY DEF SInit, LayerInit
<1>3. STypeOK
  BY <1>1, CountAssumption, IdleIsTask
     DEF SInit, os_semaphore_init, STypeOK, SemaphoreType, LayerInv
<1>4. UnitsConserved
  BY FS_EmptySet, CountAssumption DEF SInit, os_semaphore_init, UnitsConserved
<1>5. NoLostWakeup
  BY <1>2 DEF SInit, os_semaphore_init, NoLostWakeup, AppTasks
<1> QED
  BY <1>1, <1>3, <1>4, <1>5 DEF SInit, os_semaphore_init, SemaphoreInv

(* Every turn of the loop of os_semaphore_wait keeps the invariant.        *)
LEMMA WaitStep ==
  ASSUME SemaphoreInv, NEW t \in AppTasks, WaitUnit(t)
  PROVE  SemaphoreInv'
<1> USE DEF SemaphoreInv, LayerInv, LayerTypeOK, STypeOK, SemaphoreType
<1>0. t \in Tasks /\ t # IdleTask
  BY DEF AppTasks
<1>1. PICK result \in WaitResults :
        /\ ~using[t]
        /\ os_semaphore_wait(t, result)
        /\ pc' = [pc EXCEPT ![t] = IF result = "BLOCKED" THEN "wait" ELSE "run"]
        /\ using' = [using EXCEPT ![t] = result = "OK"]
        /\ ledger' = IF result = "OK" THEN ledger - 1 ELSE ledger
  BY DEF WaitUnit
<1>2. Executing(t) /\ task_state[t] = "RUNNING" /\ t \notin semaphore.waiting
  BY <1>0, <1>1 DEF os_semaphore_wait, Executing, OneRunning, NoLostWakeup
<1>3. IsFiniteSet(semaphore.granted) /\ Cardinality(semaphore.granted) \in Nat
  BY TaskSetsFinite
<1>4. CASE wait_granted(t, result)
  <2>1. /\ t \in semaphore.granted /\ result = "OK" /\ UNCHANGED layerVars
        /\ semaphore' = [semaphore EXCEPT !.granted = @ \ {t}, !.waiting = @ \ {t}]
    BY <1>4 DEF wait_granted
  <2>2. STypeOK' /\ LayerInv'
    <3>1. LayerInv'
      BY <2>1 DEF layerVars, OneRunning
    <3>2. semaphore' \in SemaphoreType /\ semaphore'.maximum_count = Maximum
      BY <1>0, <2>1
    <3>3. pc' \in [AppTasks -> {"run", "wait"}] /\ using' \in [AppTasks -> BOOLEAN]
      BY <1>1, <2>1
    <3>4. ledger' \in Int
      BY <1>1, <2>1
    <3> QED
      BY <3>1, <3>2, <3>3, <3>4
  <2>3. UnitsConserved'
    <3>1. Cardinality(semaphore'.granted) = Cardinality(semaphore.granted) - 1
      BY <1>3, <2>1, FS_RemoveElement
    <3> QED
      BY <1>1, <1>3, <2>1, <3>1, CountAssumption DEF UnitsConserved
  <2>4. NoLostWakeup'
    BY <1>0, <1>1, <1>2, <2>1 DEF NoLostWakeup, layerVars
  <2> QED
    BY <1>1, <2>1, <2>2, <2>3, <2>4
<1>5. CASE wait_take_unit(t, result)
  <2>1. /\ t \notin semaphore.granted /\ semaphore.count > 0
        /\ result = "OK" /\ UNCHANGED layerVars
        /\ semaphore' = [semaphore EXCEPT !.count = @ - 1, !.waiting = @ \ {t}]
    BY <1>5 DEF wait_take_unit
  <2>2. STypeOK' /\ LayerInv'
    <3>1. LayerInv'
      BY <2>1 DEF layerVars, OneRunning
    <3>0. semaphore.count - 1 \in Nat
      BY <2>1
    <3>2. semaphore' \in SemaphoreType /\ semaphore'.maximum_count = Maximum
      <4> DEFINE n == semaphore.count - 1
      <4>1. semaphore' = [semaphore EXCEPT !.count = n, !.waiting = semaphore'.waiting]
            /\ n \in Nat /\ semaphore'.waiting \in SUBSET Tasks
        BY <2>1, <3>0
      <4> HIDE DEF n
      <4> QED
        BY <4>1
    <3>3. pc' \in [AppTasks -> {"run", "wait"}] /\ using' \in [AppTasks -> BOOLEAN]
      BY <1>1, <2>1
    <3>4. ledger' \in Int
      BY <1>1, <2>1
    <3> QED
      BY <3>1, <3>2, <3>3, <3>4
  <2>3. UnitsConserved'
    BY <1>1, <1>3, <2>1, CountAssumption DEF UnitsConserved
  <2>4. NoLostWakeup'
    BY <1>0, <1>1, <1>2, <2>1 DEF NoLostWakeup, layerVars
  <2> QED
    BY <1>1, <2>1, <2>2, <2>3, <2>4
<1>6. CASE wait_masked(t, result)
  <2>1. result = "INTERRUPTS_DISABLED" /\ UNCHANGED <<semaphore, layerVars>>
        /\ t \notin semaphore.granted
    BY <1>6 DEF wait_masked, NothingFor
  <2>2. STypeOK' /\ LayerInv'
    BY <1>0, <1>1, <2>1 DEF layerVars, OneRunning
  <2>3. UnitsConserved'
    BY <1>1, <2>1 DEF UnitsConserved
  <2>4. NoLostWakeup'
    BY <1>0, <1>1, <1>2, <2>1 DEF NoLostWakeup, layerVars
  <2> QED
    BY <1>1, <2>1, <2>2, <2>3, <2>4
<1>7. CASE wait_block(t, result)
  <2>1. /\ semaphore' = [semaphore EXCEPT !.waiting = @ \cup {t}]
        /\ task_state' = [task_state EXCEPT ![t] = "BLOCKED"]
        /\ pendsv' = TRUE /\ result = "BLOCKED" /\ ~primask
        /\ UNCHANGED <<current, primask>>
        /\ t \notin semaphore.granted /\ semaphore.count = 0
    BY <1>0, <1>2, <1>7
       DEF wait_block, NothingFor, CanBlock, task_block, os_trigger_context_switch
  <2>2. LayerInv'
    BY <1>0, <1>2, <2>1, IdleIsTask DEF OneRunning, TaskStates
  <2>3. STypeOK'
    BY <1>0, <1>1, <2>1, <2>2
  <2>4. UnitsConserved'
    BY <1>1, <2>1 DEF UnitsConserved
  <2>5. NoLostWakeup'
    BY <1>0, <1>1, <2>1 DEF NoLostWakeup, AppTasks
  <2> QED
    BY <1>0, <1>1, <2>1, <2>2, <2>3, <2>4, <2>5
<1> QED
  BY <1>1, <1>4, <1>5, <1>6, <1>7 DEF os_semaphore_wait

(* Every os_semaphore_post keeps the invariant: a unit goes to a waiting   *)
(* task if there is one, and into the count otherwise.                     *)
LEMMA PostStep ==
  ASSUME SemaphoreInv, NEW t \in AppTasks, PostUnit(t)
  PROVE  SemaphoreInv'
<1> USE DEF SemaphoreInv, LayerInv, LayerTypeOK, STypeOK, SemaphoreType
<1>0. t \in Tasks /\ t # IdleTask
  BY DEF AppTasks
<1>1. PICK result \in PostResults :
        /\ os_semaphore_post(t, result)
        /\ using' = [using EXCEPT ![t] = FALSE]
        /\ ledger' = IF result = "OK" THEN ledger + 1 ELSE ledger
        /\ UNCHANGED pc
  BY DEF PostUnit
<1>2. IsFiniteSet(semaphore.granted) /\ Cardinality(semaphore.granted) \in Nat
  BY TaskSetsFinite
<1>3. /\ semaphore.waiting \in SUBSET AppTasks
      /\ \A u \in semaphore.waiting : task_state[u] = "BLOCKED"
  BY DEF NoLostWakeup
<1> DEFINE next == semaphore_find_next_waiting_task
<1>4. /\ next = NoTask <=> semaphore.waiting = {}
      /\ semaphore.waiting # {} => next \in semaphore.waiting
      /\ Searched = semaphore.waiting
  BY <1>3, NothingStale DEF semaphore_find_next_waiting_task, Searched
<1>5. CASE post_grant(t, result)
  <2>1. /\ next # NoTask /\ result = "OK"
        /\ task_state' = [task_state EXCEPT ![next] = "READY"]
        /\ semaphore' = [semaphore EXCEPT !.waiting = semaphore.waiting \ {next},
                                          !.granted = @ \cup {next},
                                          !.last_granted_task_id = next]
        /\ UNCHANGED <<current, pendsv, primask>>
    BY <1>4, <1>5 DEF post_grant, task_unblock
  <2>2. /\ next \in semaphore.waiting /\ next \in AppTasks /\ next \in Tasks
        /\ task_state[next] = "BLOCKED" /\ next \notin semaphore.granted
    BY <1>3, <1>4, <2>1 DEF AppTasks, NoLostWakeup
  <2> HIDE DEF next
  <2>3. LayerInv'
    BY <2>1, <2>2, IdleIsTask DEF OneRunning, TaskStates, AppTasks
  <2>4. STypeOK'
    <3>1. semaphore' \in SemaphoreType /\ semaphore'.maximum_count = Maximum
      BY <2>1, <2>2
    <3>2. pc' \in [AppTasks -> {"run", "wait"}] /\ using' \in [AppTasks -> BOOLEAN]
      BY <1>1
    <3>3. ledger' \in Int
      BY <1>1
    <3> QED
      BY <2>3, <3>1, <3>2, <3>3
  <2>5. UnitsConserved'
    <3>1. Cardinality(semaphore'.granted) = Cardinality(semaphore.granted) + 1
      BY <1>2, <2>1, <2>2, FS_AddElement
    <3>2. semaphore'.count = semaphore.count /\ ledger' = ledger + 1
      BY <1>1, <2>1
    <3> QED
      BY <1>2, <3>1, <3>2, CountAssumption DEF UnitsConserved
  <2>6. NoLostWakeup'
    BY <1>0, <1>1, <2>1, <2>2 DEF NoLostWakeup, AppTasks
  <2> QED
    BY <1>0, <1>1, <2>1, <2>2, <2>3, <2>4, <2>5, <2>6
<1>6. CASE post_overflow(t, result)
  <2>1. /\ semaphore.waiting = {} /\ result = "OVERFLOW" /\ UNCHANGED layerVars
        /\ semaphore' = [semaphore EXCEPT !.waiting = semaphore.waiting]
    BY <1>4, <1>6 DEF post_overflow
  <2>2. semaphore' = semaphore
    BY <2>1
  <2>3. STypeOK' /\ LayerInv'
    BY <1>0, <1>1, <2>1, <2>2 DEF layerVars, OneRunning
  <2>4. UnitsConserved' /\ NoLostWakeup'
    BY <1>1, <2>1, <2>2 DEF UnitsConserved, NoLostWakeup, layerVars
  <2> QED
    BY <1>0, <1>1, <2>2, <2>3, <2>4
<1>7. CASE post_unit(t, result)
  <2>1. /\ semaphore.waiting = {} /\ result = "OK" /\ UNCHANGED layerVars
        /\ semaphore.count < semaphore.maximum_count
        /\ semaphore' = [semaphore EXCEPT !.waiting = semaphore.waiting, !.count = @ + 1]
    BY <1>4, <1>7 DEF post_unit, Full
  <2>2. STypeOK' /\ LayerInv'
    <3>1. LayerInv'
      BY <2>1 DEF layerVars, OneRunning
    <3>0. semaphore.count + 1 \in Nat
      BY <2>1
    <3>2. semaphore' \in SemaphoreType /\ semaphore'.maximum_count = Maximum
      <4> DEFINE n == semaphore.count + 1
      <4>1. semaphore' = [semaphore EXCEPT !.count = n, !.waiting = semaphore'.waiting]
            /\ n \in Nat /\ semaphore'.waiting \in SUBSET Tasks
        BY <2>1, <3>0
      <4> HIDE DEF n
      <4> QED
        BY <4>1
    <3>3. pc' \in [AppTasks -> {"run", "wait"}] /\ using' \in [AppTasks -> BOOLEAN]
      BY <1>1, <2>1
    <3>4. ledger' \in Int
      BY <1>1, <2>1
    <3> QED
      BY <3>1, <3>2, <3>3, <3>4
  <2>3. UnitsConserved'
    BY <1>1, <1>2, <2>1, CountAssumption DEF UnitsConserved
  <2>4. NoLostWakeup'
    BY <1>1, <2>1 DEF NoLostWakeup, layerVars
  <2> QED
    BY <1>0, <1>1, <2>1, <2>2, <2>3, <2>4
<1> QED
  BY <1>1, <1>5, <1>6, <1>7 DEF os_semaphore_post

(* The inductive invariant holds for any number of tasks and any counts.   *)
THEOREM SemaphoreInvariant == SSpec => []SemaphoreInv
<1>1. SInit => SemaphoreInv
  BY SemaphoreInitInv
<1>2. SemaphoreInv /\ [SNext]_semVars => SemaphoreInv'
  <2> SUFFICES ASSUME SemaphoreInv, [SNext]_semVars PROVE SemaphoreInv'
    OBVIOUS
  <2> USE DEF SemaphoreInv, STypeOK, UnitsConserved, NoLostWakeup
  <2>1. CASE Core
    <3>1. LayerInv'
      BY <2>1, CoreStep DEF Core
    <3>2. \A u \in AppTasks : task_state[u] = "BLOCKED" <=> task_state'[u] = "BLOCKED"
      BY <2>1, CoreKeepsBlocked DEF Core, AppTasks
    <3>3. UNCHANGED <<semaphore, pc, using, ledger>>
      BY <2>1 DEF Core, taskVars
    <3> QED
      BY <3>1, <3>2, <3>3 DEF LayerInv
  <2>2. ASSUME NEW t \in AppTasks, WaitUnit(t)
        PROVE  SemaphoreInv'
    BY <2>2, WaitStep
  <2>3. ASSUME NEW t \in AppTasks, PostUnit(t)
        PROVE  SemaphoreInv'
    BY <2>3, PostStep
  <2>4. ASSUME NEW t \in AppTasks, Other(t)
        PROVE  SemaphoreInv'
    <3>1. UNCHANGED <<semaphore, pc, ledger>>
      BY <2>4 DEF Other
    <3>2. CASE (os_sleep(t) \/ os_irq_save(t) \/ os_irq_restore(t)) /\ UNCHANGED using
      <4>1. LayerInv'
        BY <3>2, TaskCallStep
      <4>2. \A u \in AppTasks : task_state[u] = "BLOCKED" <=> task_state'[u] = "BLOCKED"
        BY <3>2, OtherKeepsBlocked DEF AppTasks
      <4> QED
        BY <3>1, <3>2, <4>1, <4>2 DEF LayerInv
    <3>3. CASE using' = [using EXCEPT ![t] = FALSE] /\ UNCHANGED layerVars
      BY <3>1, <3>3 DEF layerVars, LayerInv, LayerTypeOK, OneRunning
    <3> QED
      BY <2>4, <3>2, <3>3 DEF Other
  <2>5. CASE UNCHANGED semVars
    BY <2>5 DEF semVars, taskVars, layerVars, LayerInv, LayerTypeOK, OneRunning
  <2> QED
    BY <2>1, <2>2, <2>3, <2>4, <2>5 DEF SNext
<1> QED
  BY <1>1, <1>2, PTL DEF SSpec

(* Units are neither lost nor created, for any counts.                     *)
THEOREM UnitsAreConserved == SSpec => []UnitsConserved
<1>1. SemaphoreInv => UnitsConserved
  BY DEF SemaphoreInv
<1> QED
  BY <1>1, SemaphoreInvariant, PTL

(* No unit lies idle while a task waits, and no waiting task is forgotten. *)
THEOREM NoWaiterIsForgotten == SSpec => []NoLostWakeup
<1>1. SemaphoreInv => NoLostWakeup
  BY DEF SemaphoreInv
<1> QED
  BY <1>1, SemaphoreInvariant, PTL
-----------------------------------------------------------------------------
(* As a pool: every user has taken one unit and not given it back.         *)

Users == {t \in AppTasks : using[t]}

UsersCounted == Pool /\ Initial = Maximum => ledger + Cardinality(Users) = 0

(* A task more, and a task less, that uses a resource.                     *)
LEMMA UserEnters ==
  ASSUME STypeOK, NEW t \in AppTasks, ~using[t],
         using' = [using EXCEPT ![t] = TRUE]
  PROVE  /\ Cardinality(Users) \in Nat
         /\ Cardinality(Users') = Cardinality(Users) + 1
<1>1. IsFiniteSet(Users) /\ Cardinality(Users) \in Nat
  BY TaskSetsFinite DEF Users
<1>2. Users' = Users \cup {t} /\ t \notin Users
  BY DEF STypeOK, Users
<1> QED
  BY <1>1, <1>2, FS_AddElement

LEMMA UserLeaves ==
  ASSUME STypeOK, NEW t \in AppTasks, using[t],
         using' = [using EXCEPT ![t] = FALSE]
  PROVE  /\ Cardinality(Users) \in Nat
         /\ Cardinality(Users') = Cardinality(Users) - 1
<1>1. IsFiniteSet(Users) /\ Cardinality(Users) \in Nat
  BY TaskSetsFinite DEF Users
<1>2. Users' = Users \ {t} /\ t \in Users
  BY DEF STypeOK, Users
<1> QED
  BY <1>1, <1>2, FS_RemoveElement

(* While somebody uses a resource the count is below its maximum, so the   *)
(* post that returns the resource does not overflow.                       *)
LEMMA UserPosts ==
  ASSUME SemaphoreInv, UsersCounted, Pool, Initial = Maximum,
         NEW t \in AppTasks, using[t], NEW result, os_semaphore_post(t, result)
  PROVE  result = "OK"
<1>1. Cardinality(Users) \in Nat /\ Cardinality(Users) # 0
  <2>1. IsFiniteSet(Users) /\ Cardinality(Users) \in Nat /\ t \in Users
    BY TaskSetsFinite DEF Users
  <2> QED
    BY <2>1, FS_EmptySet
<1>2. Cardinality(semaphore.granted) \in Nat
  BY TaskSetsFinite DEF SemaphoreInv
<1>3. semaphore.count < semaphore.maximum_count
  BY <1>1, <1>2, CountAssumption
     DEF SemaphoreInv, STypeOK, SemaphoreType, UnitsConserved, UsersCounted
<1>4. semaphore.count \in Nat /\ semaphore.maximum_count \in Nat
  BY DEF SemaphoreInv, STypeOK, SemaphoreType
<1> QED
  BY <1>3, <1>4
     DEF os_semaphore_post, post_grant, post_overflow, post_unit, Full

LEMMA PoolStep ==
  ASSUME SemaphoreInv, UsersCounted, [SNext]_semVars
  PROVE  UsersCounted'
<1> SUFFICES ASSUME Pool, Initial = Maximum
             PROVE  ledger' + Cardinality(Users') = 0
  BY DEF UsersCounted
<1>0. STypeOK /\ ledger \in Int /\ ledger + Cardinality(Users) = 0
  BY DEF SemaphoreInv, STypeOK, UsersCounted
<1>1. CASE UNCHANGED <<using, ledger>>
  BY <1>0, <1>1 DEF Users
<1>2. ASSUME NEW t \in AppTasks, WaitUnit(t)
      PROVE  ledger' + Cardinality(Users') = 0
  <2>1. PICK result \in WaitResults :
          /\ using' = [using EXCEPT ![t] = result = "OK"]
          /\ ledger' = IF result = "OK" THEN ledger - 1 ELSE ledger
    BY <1>2 DEF WaitUnit
  <2>2. ~using[t]
    BY <1>2 DEF WaitUnit
  <2>3. CASE result = "OK"
    <3>1. using' = [using EXCEPT ![t] = TRUE] /\ ledger' = ledger - 1
      BY <2>1, <2>3
    <3>2. /\ Cardinality(Users) \in Nat
          /\ Cardinality(Users') = Cardinality(Users) + 1
      BY <1>0, <2>2, <3>1, UserEnters
    <3> QED
      BY <1>0, <3>1, <3>2
  <2>4. CASE result # "OK"
    <3>1. using' = using /\ ledger' = ledger
      BY <1>0, <2>1, <2>2, <2>4 DEF STypeOK
    <3> QED
      BY <1>1, <3>1
  <2> QED
    BY <2>3, <2>4
<1>3. ASSUME NEW t \in AppTasks, PostUnit(t)
      PROVE  ledger' + Cardinality(Users') = 0
  <2>1. PICK result \in PostResults :
          /\ os_semaphore_post(t, result)
          /\ using' = [using EXCEPT ![t] = FALSE]
          /\ ledger' = IF result = "OK" THEN ledger + 1 ELSE ledger
    BY <1>3 DEF PostUnit
  <2>2. using[t]
    BY <1>3 DEF PostUnit
  <2>3. result = "OK"
    BY <2>1, <2>2, UserPosts
  <2>4. /\ Cardinality(Users) \in Nat
        /\ Cardinality(Users') = Cardinality(Users) - 1
    BY <1>0, <2>1, <2>2, UserLeaves
  <2> QED
    BY <1>0, <2>1, <2>3, <2>4
<1>4. ASSUME NEW t \in AppTasks, Other(t)
      PROVE  UNCHANGED <<using, ledger>>
  BY <1>4 DEF Other
<1> QED
  BY <1>1, <1>2, <1>3, <1>4 DEF SNext, Core, semVars, taskVars

(* A semaphore used as a pool is never over-committed and never leaks: the *)
(* units in the count, those reserved and those in use add up, whatever    *)
(* the tasks do and however many there are.                                *)
THEOREM PoolAddsUp == SSpec => []PoolBound
<1>1. SInit => UsersCounted
  <2> SUFFICES ASSUME SInit PROVE UsersCounted
    OBVIOUS
  <2>1. Users = {} /\ ledger = 0
    BY DEF SInit, Users
  <2> QED
    BY <2>1, FS_EmptySet DEF UsersCounted
<1>2. SemaphoreInv /\ UsersCounted /\ [SNext]_semVars => UsersCounted'
  BY PoolStep
<1>3. SemaphoreInv /\ UsersCounted => PoolBound
  <2> SUFFICES ASSUME SemaphoreInv, UsersCounted, Pool, Initial = Maximum
               PROVE  semaphore.count + Cardinality(semaphore.granted)
                        + Cardinality(Users) = Maximum
    BY DEF PoolBound, Users
  <2>1. Cardinality(semaphore.granted) \in Nat /\ Cardinality(Users) \in Nat
    BY TaskSetsFinite DEF SemaphoreInv, Users
  <2>2. ledger \in Int /\ semaphore.count \in Nat
    BY DEF SemaphoreInv, STypeOK, SemaphoreType
  <2>3. semaphore.count + Cardinality(semaphore.granted) = Maximum + ledger
    BY DEF SemaphoreInv, UnitsConserved
  <2>4. ledger + Cardinality(Users) = 0
    BY DEF UsersCounted
  <2> QED
    BY <2>1, <2>2, <2>3, <2>4, CountAssumption
<1> QED
  BY <1>1, <1>2, <1>3, SemaphoreInvariant, PTL DEF SSpec

-----------------------------------------------------------------------------
(* Who gets a unit: nobody, or nobody waits, or os_semaphore_post grants   *)
(* the unit to the waiting task that it finds first.                       *)
Granted(next) ==
  /\ Receivers = {next} /\ next \in semaphore.waiting
  /\ semaphore'.waiting = semaphore.waiting \ {next}
  /\ semaphore'.last_granted_task_id = next
  /\ \A t \in semaphore.waiting :
       CyclicOffset(semaphore.last_granted_task_id, next)
         <= CyclicOffset(semaphore.last_granted_task_id, t)

NobodyServed ==
  /\ Receivers = {}
  /\ semaphore'.last_granted_task_id = semaphore.last_granted_task_id
  /\ semaphore.waiting \subseteq semaphore'.waiting

LEMMA UnitsMove ==
  ASSUME SemaphoreInv, SNext
  PROVE  \/ NobodyServed
         \/ semaphore'.waiting = {}
         \/ \E next \in AppTasks : Granted(next)
<1> USE DEF SemaphoreInv, STypeOK, SemaphoreType
<1>0. semaphore.waiting \in SUBSET AppTasks
  OBVIOUS
<1>1. ASSUME UNCHANGED semaphore, \A u \in AppTasks : using'[u] => using[u]
      PROVE  NobodyServed
  BY <1>1 DEF Receivers, NobodyServed
<1>2. CASE Core
  BY <1>1, <1>2 DEF Core, taskVars
<1>3. ASSUME NEW t \in AppTasks, Other(t)
      PROVE  NobodyServed
  BY <1>1, <1>3 DEF Other
<1>4. ASSUME NEW t \in AppTasks, WaitUnit(t)
      PROVE  NobodyServed \/ semaphore'.waiting = {}
  <2>1. PICK result \in WaitResults :
          /\ os_semaphore_wait(t, result)
          /\ using' = [using EXCEPT ![t] = result = "OK"]
    BY <1>4 DEF WaitUnit
  <2>2. t \notin semaphore.waiting
    BY <2>1 DEF os_semaphore_wait, Executing, LayerInv, OneRunning, LayerTypeOK,
                NoLostWakeup
  <2>3. \A u \in AppTasks \ {t} : using'[u] = using[u]
    BY <2>1
  <2>4. CASE wait_granted(t, result)
    <3>1. /\ t \in semaphore.granted
          /\ semaphore' = [semaphore EXCEPT !.granted = @ \ {t}, !.waiting = @ \ {t}]
      BY <2>4 DEF wait_granted
    <3>2. Receivers = {}
      BY <2>3, <3>1 DEF Receivers
    <3> QED
      BY <2>2, <3>1, <3>2 DEF NobodyServed
  <2>5. CASE wait_take_unit(t, result)
    <3>1. semaphore.waiting = {} /\ semaphore'.waiting = semaphore.waiting \ {t}
      BY <2>5 DEF wait_take_unit, NoLostWakeup
    <3> QED
      BY <3>1
  <2>6. CASE wait_masked(t, result) \/ wait_block(t, result)
    <3>1. /\ result # "OK"
          /\ \/ UNCHANGED semaphore
             \/ semaphore' = [semaphore EXCEPT !.waiting = @ \cup {t}]
             \/ semaphore' = [semaphore EXCEPT !.waiting = @ \ {t}]
      BY <2>6 DEF wait_masked, wait_block
    <3>2. ~using'[t]
      <4>1. using'[t] <=> result = "OK"
        BY <2>1, Zenon
      <4> QED
        BY <3>1, <4>1, Zenon
    <3>3. /\ semaphore'.granted = semaphore.granted
          /\ semaphore'.last_granted_task_id = semaphore.last_granted_task_id
          /\ semaphore.waiting \subseteq semaphore'.waiting
      BY <2>2, <3>1
    <3> QED
      BY <2>3, <3>2, <3>3 DEF Receivers, NobodyServed
  <2> QED
    BY <2>1, <2>4, <2>5, <2>6 DEF os_semaphore_wait
<1>5. ASSUME NEW t \in AppTasks, PostUnit(t)
      PROVE  NobodyServed \/ \E next \in AppTasks : Granted(next)
  <2>1. PICK result \in PostResults :
          /\ os_semaphore_post(t, result)
          /\ using' = [using EXCEPT ![t] = FALSE]
    BY <1>5 DEF PostUnit
  <2> DEFINE next == semaphore_find_next_waiting_task
             last == semaphore.last_granted_task_id
  <2>2. \A u \in semaphore.waiting : task_state[u] = "BLOCKED" /\ u \notin semaphore.granted
    BY <1>0 DEF NoLostWakeup
  <2>3. last \in Tasks
    OBVIOUS
  <2>4. /\ next = NoTask <=> semaphore.waiting = {}
        /\ semaphore.waiting # {} => next \in semaphore.waiting
        /\ Searched = semaphore.waiting
        /\ \A u \in semaphore.waiting : CyclicOffset(last, next) <= CyclicOffset(last, u)
    BY <1>0, <2>2, <2>3, NothingStale, SearchOrder
       DEF semaphore_find_next_waiting_task, Searched
  <2>5. \A u \in AppTasks : using'[u] => using[u]
    BY <2>1
  <2>6. CASE post_grant(t, result)
    <3>1. /\ next \in semaphore.waiting
          /\ semaphore' = [semaphore EXCEPT !.waiting = semaphore.waiting \ {next},
                                            !.granted = @ \cup {next},
                                            !.last_granted_task_id = next]
      BY <2>4, <2>6 DEF post_grant
    <3> HIDE DEF next
    <3>2. Receivers = {next}
      BY <1>0, <2>2, <2>5, <3>1 DEF Receivers
    <3>3. Granted(next) /\ next \in AppTasks
      BY <1>0, <2>4, <3>1, <3>2 DEF Granted
    <3> QED
      BY <3>3
  <2>7. CASE post_overflow(t, result) \/ post_unit(t, result)
    <3>1. /\ semaphore'.granted = semaphore.granted
          /\ semaphore'.waiting = semaphore.waiting
          /\ semaphore'.last_granted_task_id = last
      BY <2>4, <2>7 DEF post_overflow, post_unit
    <3> QED
      BY <2>5, <3>1 DEF Receivers, NobodyServed
  <2> QED
    BY <2>1, <2>6, <2>7 DEF os_semaphore_post
<1> QED
  BY <1>2, <1>3, <1>4, <1>5 DEF SNext

(* A step keeps the arc, and serves nobody that has been served before one *)
(* that waits.                                                             *)
LEMMA ServedStep ==
  ASSUME SemaphoreInv, ServedInv, SNext, ServedNext
  PROVE  /\ ServedInv'
         /\ \A t, u \in AppTasks :
              /\ t \in semaphore.waiting /\ t \in semaphore'.waiting
              /\ u \in Receivers
              => u \notin served[t]
<1> USE DEF ServedInv
<1>1. ASSUME NEW t \in AppTasks
      PROVE  /\ served'[t] \in SUBSET AppTasks
             /\ served'[t] = IF t \in semaphore'.waiting
                               THEN served[t] \cup Receivers ELSE {}
  BY DEF ServedNext, Receivers
<1>2. served' \in [AppTasks -> SUBSET AppTasks]
  BY <1>1 DEF ServedNext
<1>3. CASE NobodyServed
  BY <1>1, <1>2, <1>3 DEF NobodyServed
<1>4. CASE semaphore'.waiting = {}
  BY <1>1, <1>2, <1>4
<1>5. ASSUME NEW next \in AppTasks, Granted(next)
      PROVE  /\ ServedInv'
             /\ \A t, u \in AppTasks :
                  /\ t \in semaphore.waiting /\ t \in semaphore'.waiting
                  /\ u \in Receivers
                  => u \notin served[t]
  <2> DEFINE last == semaphore.last_granted_task_id
  <2>1. /\ Receivers = {next} /\ semaphore'.last_granted_task_id = next
        /\ next \in Tasks /\ last \in Tasks
        /\ semaphore'.waiting = semaphore.waiting \ {next}
    BY <1>5 DEF Granted, SemaphoreInv, STypeOK, SemaphoreType, AppTasks
  <2>2. ASSUME NEW t \in AppTasks, t \in semaphore'.waiting, served[t] # {}
        PROVE  /\ t \in Tasks /\ CyclicOffset(t, last) < CyclicOffset(t, next)
               /\ \A u \in served[t] : /\ u \in Tasks
                                       /\ CyclicOffset(t, u) <= CyclicOffset(t, last)
    <3>1. t \in semaphore.waiting /\ t \in Tasks \ {last, next}
      BY <2>1, <2>2 DEF AppTasks
    <3>2. CyclicOffset(t, last) < CyclicOffset(t, next)
      BY <1>5, <2>1, <3>1, PassedInOrder DEF Granted
    <3> QED
      BY <2>2, <3>1, <3>2 DEF AppTasks
  <2>3. ASSUME NEW t \in AppTasks, served'[t] # {}
        PROVE  /\ t \in semaphore'.waiting /\ t # next
               /\ \A u \in served'[t] : CyclicOffset(t, u) <= CyclicOffset(t, next)
    <3>1. /\ t \in semaphore'.waiting /\ t # next
          /\ served'[t] = served[t] \cup {next} /\ t \in Tasks
      BY <1>1, <2>1, <2>3 DEF AppTasks
    <3>2. \A u \in served[t] \cup {next, last} : CyclicOffset(t, u) \in Nat
      BY <2>1, <2>2, <3>1, OffsetRange
    <3> QED
      BY <2>1, <2>2, <3>1, <3>2
  <2>4. ASSUME NEW t \in AppTasks, t \in semaphore'.waiting
        PROVE  next \notin served[t]
    <3>1. CASE served[t] # {}
      <4>1. CyclicOffset(t, last) \in Nat /\ CyclicOffset(t, next) \in Nat
        BY <2>1, <2>2, <2>4, <3>1, OffsetRange
      <4> QED
        BY <2>2, <2>4, <3>1, <4>1
    <3> QED
      BY <3>1
  <2> QED
    BY <1>2, <2>1, <2>3, <2>4
<1> QED
  BY <1>3, <1>4, <1>5, UnitsMove

(* Whoever was served before a waiting task lies between it and the last.  *)
THEOREM ServedInvariant == FSpec => [](SemaphoreInv /\ ServedInv)
<1>1. FInit => SemaphoreInv /\ ServedInv
  <2> SUFFICES ASSUME FInit PROVE SemaphoreInv /\ ServedInv
    OBVIOUS
  <2>1. SemaphoreInv
    BY SemaphoreInitInv DEF FInit
  <2> QED
    BY <2>1 DEF FInit, ServedInv
<1>2. FSpec => SSpec
  <2>1. FInit => SInit
    BY DEF FInit
  <2>2. [SNext /\ ServedNext]_<<semVars, served>> => [SNext]_semVars
    OBVIOUS
  <2> QED
    BY <2>1, <2>2, PTL DEF FSpec, SSpec
<1>3. SemaphoreInv /\ ServedInv /\ [SNext /\ ServedNext]_<<semVars, served>> => ServedInv'
  <2>1. ASSUME SemaphoreInv, ServedInv, SNext, ServedNext
        PROVE  ServedInv'
    BY <2>1, ServedStep
  <2>2. ASSUME ServedInv, UNCHANGED <<semVars, served>>
        PROVE  ServedInv'
    BY <2>2 DEF ServedInv, semVars
  <2> QED
    BY <2>1, <2>2
<1> QED
  BY <1>1, <1>2, <1>3, SemaphoreInvariant, PTL DEF FSpec

(* Bounded bypass: while a task waits for a unit, no other task gets two,  *)
(* for any number of tasks and any counts.                                 *)
THEOREM ServiceIsFair == FSpec => NobodyServedTwice
<1>1. ASSUME SemaphoreInv, ServedInv, [SNext /\ ServedNext]_<<semVars, served>>
      PROVE  [\A t, u \in AppTasks :
                /\ t \in semaphore.waiting /\ t \in semaphore'.waiting
                /\ u \in Receivers
                => u \notin served[t]]_<<semVars, served>>
  BY <1>1, ServedStep
<1> QED
  BY <1>1, ServedInvariant, PTL DEF FSpec, NobodyServedTwice
=============================================================================
