---------------------------- MODULE MutexProofs ----------------------------
(***************************************************************************)
(* Proofs about MutexTasks: MutexInv is inductive for any number of tasks, *)
(* hence mutual exclusion and no lost wakeup; and about MutexFairness: no  *)
(* task is passed twice by the same one.                                   *)
(***************************************************************************)
EXTENDS MutexFairness, ServiceProofs

LEMMA MutexInitInv == MInit => MutexInv
<1> SUFFICES ASSUME MInit PROVE MutexInv
  OBVIOUS
<1>1. LayerInv
  BY LayerInitInv DEF MInit
<1>2. \A t \in Tasks : task_state[t] # "BLOCKED"
  BY DEF MInit, LayerInit
<1>3. MTypeOK
  BY <1>1 DEF MInit, os_mutex_init, MTypeOK, MutexType, LayerInv
<1>4. OwnerAgrees /\ NoLostWakeup
  BY <1>2 DEF MInit, os_mutex_init, OwnerAgrees, NoLostWakeup, IsOwner, AppTasks
<1> QED
  BY <1>1, <1>3, <1>4 DEF MInit, os_mutex_init, MutexInv, NoTask, IdleTask

(* Every critical section of os_mutex_lock keeps the invariant.            *)
LEMMA LockStep ==
  ASSUME MutexInv, NEW t \in AppTasks, Lock(t)
  PROVE  MutexInv'
<1> USE DEF MutexInv, LayerInv, LayerTypeOK, MTypeOK, MutexType, OwnerAgrees,
            NoLostWakeup, IsOwner
<1>0. t \in Tasks /\ t # IdleTask /\ t # NoTask
  BY DEF AppTasks, Tasks, NoTask
<1>1. PICK result \in LockResults :
        /\ os_mutex_lock(t, result)
        /\ pc' = [pc EXCEPT ![t] = IF result = "BLOCKED" THEN "lock" ELSE "run"]
        /\ holding' = [holding EXCEPT ![t] = @ \/ result = "OK"]
  BY DEF Lock
<1>2. Executing(t) /\ task_state[t] = "RUNNING"
  BY <1>1 DEF os_mutex_lock, Executing, OneRunning
<1>3. CASE lock_free(t, result)
  <2>1. MTypeOK' /\ LayerInv'
    BY <1>0, <1>1, <1>3 DEF lock_free, layerVars, OneRunning
  <2> QED
    BY <1>0, <1>1, <1>2, <1>3, <2>1 DEF lock_free, layerVars
<1>4. CASE lock_handed_over(t, result)
  <2>1. MTypeOK' /\ LayerInv'
    BY <1>0, <1>1, <1>4 DEF lock_handed_over, layerVars, OneRunning
  <2> QED
    BY <1>0, <1>1, <1>2, <1>4, <2>1 DEF lock_handed_over, layerVars
<1>5. CASE lock_recursive(t, result)
  <2>1. MTypeOK' /\ LayerInv'
    BY <1>0, <1>1, <1>5 DEF lock_recursive, layerVars, OneRunning
  <2> QED
    BY <1>0, <1>1, <1>2, <1>5, <2>1 DEF lock_recursive, layerVars
<1>6. CASE lock_masked(t, result)
  <2>1. MTypeOK' /\ LayerInv'
    BY <1>0, <1>1, <1>6 DEF lock_masked, layerVars, OneRunning
  <2> QED
    BY <1>0, <1>1, <1>2, <1>6, <2>1 DEF lock_masked, layerVars
<1>7. CASE lock_block(t, result)
  <2>1. /\ mutex' = [mutex EXCEPT !.waiting = @ \cup {t}]
        /\ task_state' = [task_state EXCEPT ![t] = "BLOCKED"]
        /\ pendsv' = TRUE /\ result = "BLOCKED" /\ ~primask
        /\ UNCHANGED <<current, primask>>
        /\ mutex.is_locked /\ mutex.owner_task_id # t
    BY <1>0, <1>2, <1>7 DEF lock_block, CanBlock, task_block, os_trigger_context_switch
  <2>2. LayerInv'
    BY <1>0, <1>2, <2>1, IdleIsTask DEF OneRunning, TaskStates
  <2>3. MTypeOK'
    BY <1>0, <1>1, <2>1, <2>2
  <2>4. OwnerAgrees'
    BY <1>0, <1>1, <2>1
  <2>5. NoLostWakeup'
    BY <1>0, <1>1, <2>1 DEF AppTasks
  <2> QED
    BY <1>0, <2>1, <2>2, <2>3, <2>4, <2>5
<1> QED
  BY <1>1, <1>3, <1>4, <1>5, <1>6, <1>7 DEF os_mutex_lock

(* Every critical section of os_mutex_unlock keeps the invariant: the      *)
(* search finds a waiting task if there is one, and loses none.            *)
LEMMA UnlockStep ==
  ASSUME MutexInv, NEW t \in AppTasks, Unlock(t)
  PROVE  MutexInv'
<1> USE DEF MutexInv, LayerInv, LayerTypeOK, MTypeOK, MutexType, OwnerAgrees,
            NoLostWakeup, IsOwner
<1>0. t \in Tasks /\ t # IdleTask /\ t # NoTask
  BY DEF AppTasks, Tasks, NoTask
<1>1. PICK result \in UnlockResults :
        /\ os_mutex_unlock(t, result)
        /\ pc[t] = "run" /\ pc' = pc
        /\ holding' = [holding EXCEPT ![t] = @ /\ result # "OK"]
  BY DEF Unlock
<1>2. CASE unlock_not_owner(t, result)
  BY <1>0, <1>1, <1>2 DEF unlock_not_owner, layerVars, OneRunning
<1>3. ASSUME IsOwner(t)
      PROVE  /\ mutex.waiting \in SUBSET AppTasks
             /\ mutex_find_next_waiting_task = NoTask <=> mutex.waiting = {}
             /\ mutex.waiting # {} => mutex_find_next_waiting_task \in mutex.waiting
             /\ WithoutStale(t, mutex.waiting) = mutex.waiting
             /\ \A u \in mutex.waiting : u # t /\ task_state[u] = "BLOCKED"
  <2>1. mutex.waiting \in SUBSET AppTasks
    BY DEF AppTasks
  <2>2. \A u \in mutex.waiting : u # t /\ task_state[u] = "BLOCKED"
    BY <1>0, <1>1, <1>3, <2>1
  <2> QED
    BY <1>0, <1>3, <2>1, <2>2, NothingStale DEF mutex_find_next_waiting_task
<1>4. CASE unlock_release(t, result)
  <2>1. IsOwner(t) /\ mutex.waiting = {}
    BY <1>3, <1>4 DEF unlock_release
  <2>2. /\ mutex' = [is_locked |-> FALSE, owner_task_id |-> NoTask, waiting |-> {}]
        /\ result = "OK" /\ UNCHANGED layerVars
    BY <1>3, <1>4, <2>1 DEF unlock_release
  <2>3. MTypeOK' /\ LayerInv'
    BY <1>0, <1>1, <2>2 DEF layerVars, OneRunning
  <2>4. \A u \in AppTasks : pc[u] = "run" /\ task_state[u] # "BLOCKED"
    BY <2>1
  <2>5. \A u \in AppTasks : ~holding'[u]
    BY <1>0, <1>1, <2>1, <2>2
  <2> QED
    BY <1>0, <1>1, <2>2, <2>3, <2>4, <2>5 DEF layerVars, NoTask, IdleTask
<1>5. CASE unlock_hand_over(t, result)
  <2> DEFINE next == mutex_find_next_waiting_task
  <2>1. IsOwner(t) /\ next # NoTask
    BY <1>5 DEF unlock_hand_over
  <2>2. next \in mutex.waiting /\ next \in AppTasks /\ next \in Tasks /\ next # t
    BY <1>3, <2>1 DEF AppTasks
  <2>3. /\ mutex' = [is_locked |-> TRUE, owner_task_id |-> next,
                     waiting |-> mutex.waiting]
        /\ task_state' = [task_state EXCEPT ![next] = "READY"]
        /\ task_state[next] = "BLOCKED"
        /\ result = "OK" /\ UNCHANGED <<current, pendsv, primask>>
    BY <1>3, <1>5, <2>1 DEF unlock_hand_over, task_unblock
  <2> HIDE DEF next
  <2>4. LayerInv'
    BY <2>2, <2>3, IdleIsTask DEF OneRunning, TaskStates, AppTasks
  <2>5. MTypeOK'
    BY <1>0, <1>1, <2>2, <2>3, <2>4
  <2>6. OwnerAgrees'
    BY <1>0, <1>1, <2>1, <2>2, <2>3
  <2>7. NoLostWakeup'
    BY <1>0, <1>1, <2>1, <2>2, <2>3 DEF AppTasks
  <2> QED
    BY <2>2, <2>3, <2>4, <2>5, <2>6, <2>7 DEF AppTasks, NoTask, Tasks
<1> QED
  BY <1>1, <1>2, <1>4, <1>5 DEF os_mutex_unlock

(* The inductive invariant holds for any number of tasks.                  *)
THEOREM MutexInvariant == MSpec => []MutexInv
<1>1. MInit => MutexInv
  BY MutexInitInv
<1>2. MutexInv /\ [MNext]_mutexVars => MutexInv'
  <2> SUFFICES ASSUME MutexInv, [MNext]_mutexVars PROVE MutexInv'
    OBVIOUS
  <2> USE DEF MutexInv, OwnerAgrees, NoLostWakeup, IsOwner, MTypeOK
  <2>1. CASE Core
    <3>1. LayerInv'
      BY <2>1, CoreStep DEF Core
    <3>2. \A u \in AppTasks : task_state[u] = "BLOCKED" <=> task_state'[u] = "BLOCKED"
      BY <2>1, CoreKeepsBlocked DEF Core, AppTasks
    <3>3. UNCHANGED <<mutex, pc, holding>>
      BY <2>1 DEF Core, taskVars
    <3> QED
      BY <3>1, <3>2, <3>3 DEF LayerInv
  <2>2. ASSUME NEW t \in AppTasks, Lock(t)
        PROVE  MutexInv'
    BY <2>2, LockStep
  <2>3. ASSUME NEW t \in AppTasks, Unlock(t)
        PROVE  MutexInv'
    BY <2>3, UnlockStep
  <2>4. ASSUME NEW t \in AppTasks, Other(t)
        PROVE  MutexInv'
    <3>1. LayerInv'
      BY <2>4, TaskCallStep DEF Other
    <3>2. \A u \in AppTasks : task_state[u] = "BLOCKED" <=> task_state'[u] = "BLOCKED"
      BY <2>4, OtherKeepsBlocked DEF Other, AppTasks
    <3>3. UNCHANGED <<mutex, pc, holding>>
      BY <2>4 DEF Other, taskVars
    <3> QED
      BY <3>1, <3>2, <3>3 DEF LayerInv
  <2>5. CASE UNCHANGED mutexVars
    BY <2>5 DEF mutexVars, taskVars, layerVars, LayerInv, LayerTypeOK, OneRunning
  <2> QED
    BY <2>1, <2>2, <2>3, <2>4, <2>5 DEF MNext
<1> QED
  BY <1>1, <1>2, PTL DEF MSpec

(* Every variable keeps its type.                                          *)
THEOREM MutexTypes == MSpec => []MTypeOK
<1>1. MutexInv => MTypeOK
  BY DEF MutexInv
<1> QED
  BY <1>1, MutexInvariant, PTL

(* Tasks agree with the mutex on who owns it, whatever the interleaving.   *)
THEOREM OwnershipIsExclusive == MSpec => []OwnerAgrees
<1>1. MutexInv => OwnerAgrees
  BY DEF MutexInv
<1> QED
  BY <1>1, MutexInvariant, PTL

(* No waiting task is ever left behind by os_mutex_unlock.                 *)
THEOREM NoWakeupIsLost == MSpec => []NoLostWakeup
<1>1. MutexInv => NoLostWakeup
  BY DEF MutexInv
<1> QED
  BY <1>1, MutexInvariant, PTL

-----------------------------------------------------------------------------
(* The ways in which the owner changes: not at all, or nobody waits, or    *)
(* os_mutex_unlock hands over to the waiting task that it finds first.     *)
LEMMA OwnerMoves ==
  ASSUME MutexInv, MNext
  PROVE  \/ /\ mutex'.is_locked = mutex.is_locked
            /\ mutex'.owner_task_id = mutex.owner_task_id
         \/ mutex.waiting = {} /\ \A t \in AppTasks : pc'[t] = "run"
         \/ /\ mutex.is_locked /\ mutex'.is_locked /\ pc' = pc
            /\ mutex.owner_task_id \in AppTasks \ mutex.waiting
            /\ mutex'.owner_task_id \in mutex.waiting
            /\ \A t \in mutex.waiting :
                 CyclicOffset(mutex.owner_task_id, mutex'.owner_task_id)
                   <= CyclicOffset(mutex.owner_task_id, t)
<1> USE DEF MutexInv, MTypeOK, MutexType
<1>0. mutex.waiting \in SUBSET AppTasks
  BY DEF AppTasks
<1>1. ~mutex.is_locked => mutex.waiting = {} /\ \A u \in AppTasks : pc[u] = "run"
  BY <1>0 DEF NoLostWakeup, IsOwner
<1>2. CASE Core
  BY <1>2 DEF Core
<1>3. ASSUME NEW t \in AppTasks, Lock(t)
      PROVE  \/ /\ mutex'.is_locked = mutex.is_locked
                /\ mutex'.owner_task_id = mutex.owner_task_id
             \/ mutex.waiting = {} /\ \A u \in AppTasks : pc'[u] = "run"
  <2>1. PICK result \in LockResults :
          /\ os_mutex_lock(t, result)
          /\ pc' = [pc EXCEPT ![t] = IF result = "BLOCKED" THEN "lock" ELSE "run"]
    BY <1>3 DEF Lock
  <2>2. CASE lock_free(t, result)
    BY <1>1, <2>1, <2>2 DEF lock_free
  <2>3. CASE ~lock_free(t, result)
    BY <2>1, <2>3 DEF os_mutex_lock, lock_handed_over, lock_recursive, lock_masked,
                      lock_block
  <2> QED
    BY <2>2, <2>3
<1>4. ASSUME NEW t \in AppTasks, Other(t)
      PROVE  mutex' = mutex
  BY <1>4 DEF Other
<1>5. ASSUME NEW t \in AppTasks, Unlock(t), mutex' # mutex
      PROVE  \/ mutex.waiting = {} /\ \A u \in AppTasks : pc'[u] = "run"
             \/ /\ mutex.is_locked /\ mutex'.is_locked /\ pc' = pc
                /\ mutex.owner_task_id \in AppTasks \ mutex.waiting
                /\ mutex'.owner_task_id \in mutex.waiting
                /\ \A u \in mutex.waiting :
                     CyclicOffset(mutex.owner_task_id, mutex'.owner_task_id)
                       <= CyclicOffset(mutex.owner_task_id, u)
  <2>1. pc[t] = "run" /\ pc' = pc /\ \E r : os_mutex_unlock(t, r)
    BY <1>5 DEF Unlock
  <2>2. PICK result : unlock_release(t, result) \/ unlock_hand_over(t, result)
    BY <1>5, <2>1 DEF os_mutex_unlock, unlock_not_owner
  <2>3. mutex.is_locked /\ mutex.owner_task_id = t /\ t \notin mutex.waiting
    BY <2>1, <2>2 DEF unlock_release, unlock_hand_over, IsOwner, NoLostWakeup
  <2>4. \A u \in mutex.waiting : task_state[u] = "BLOCKED"
    BY <1>0, <2>3 DEF NoLostWakeup, IsOwner
  <2>5. t \in Tasks
    BY DEF AppTasks
  <2>6. /\ mutex_find_next_waiting_task = NoTask <=> mutex.waiting = {}
        /\ mutex.waiting # {} => mutex_find_next_waiting_task \in mutex.waiting
        /\ \A u \in mutex.waiting :
             CyclicOffset(t, mutex_find_next_waiting_task) <= CyclicOffset(t, u)
    BY <1>0, <2>3, <2>4, <2>5, NothingStale, SearchOrder DEF mutex_find_next_waiting_task
  <2>7. CASE unlock_release(t, result)
    <3>1. mutex.waiting = {}
      BY <2>6, <2>7 DEF unlock_release
    <3> QED
      BY <2>1, <3>1 DEF NoLostWakeup
  <2>8. CASE unlock_hand_over(t, result)
    BY <2>1, <2>3, <2>6, <2>8 DEF unlock_hand_over
  <2> QED
    BY <2>2, <2>7, <2>8
<1> QED
  BY <1>2, <1>3, <1>4, <1>5 DEF MNext

(* A step keeps the arc, and passes no task that was passed by its task.   *)
LEMMA PassedStep ==
  ASSUME MutexInv, PassedInv, MNext, PassedNext
  PROVE  /\ PassedInv'
         /\ \A t, u \in AppTasks :
              u \in Acquirers /\ pc[t] = "lock" /\ ~IsOwner(t) /\ ~IsOwner(t)'
                => u \notin passed[t]
<1> USE DEF PassedInv
<1>1. ASSUME NEW t \in AppTasks
      PROVE  /\ passed'[t] \in SUBSET AppTasks
             /\ passed'[t] = IF pc'[t] = "lock" /\ ~IsOwner(t)'
                               THEN passed[t] \cup Acquirers ELSE {}
  BY DEF PassedNext, Acquirers
<1>2. passed' \in [AppTasks -> SUBSET AppTasks]
  BY <1>1 DEF PassedNext
<1>3. \A t \in AppTasks :
        /\ pc[t] = "lock" <=> t \in mutex.waiting
        /\ pc[t] = "lock" /\ ~IsOwner(t) => mutex.is_locked
  BY DEF MutexInv, NoLostWakeup
<1>4. CASE /\ mutex'.is_locked = mutex.is_locked
           /\ mutex'.owner_task_id = mutex.owner_task_id
  <2>1. Acquirers = {} /\ \A t \in AppTasks : IsOwner(t)' = IsOwner(t)
    BY <1>4 DEF Acquirers, IsOwner
  <2> QED
    BY <1>1, <1>2, <1>4, <2>1
<1>5. CASE mutex.waiting = {} /\ \A t \in AppTasks : pc'[t] = "run"
  BY <1>1, <1>2, <1>3, <1>5
<1>6. CASE /\ mutex.is_locked /\ mutex'.is_locked /\ pc' = pc
           /\ mutex.owner_task_id \in AppTasks \ mutex.waiting
           /\ mutex'.owner_task_id \in mutex.waiting
           /\ \A t \in mutex.waiting :
                CyclicOffset(mutex.owner_task_id, mutex'.owner_task_id)
                  <= CyclicOffset(mutex.owner_task_id, t)
  <2> DEFINE from == mutex.owner_task_id
             next == mutex'.owner_task_id
  <2>1. mutex.waiting \subseteq AppTasks
    BY DEF MutexInv, MTypeOK, MutexType, AppTasks
  <2>2. Acquirers = {next} /\ from \in Tasks /\ next \in Tasks
    BY <1>6, <2>1 DEF Acquirers, IsOwner, AppTasks
  <2>3. ASSUME NEW t \in AppTasks, pc[t] = "lock", ~IsOwner(t)'
        PROVE  /\ t \in Tasks /\ CyclicOffset(t, from) < CyclicOffset(t, next)
               /\ \A u \in passed[t] : /\ u \in Tasks
                                       /\ CyclicOffset(t, u) <= CyclicOffset(t, from)
    <3>1. t \in mutex.waiting /\ t \in Tasks \ {from, next}
      BY <1>3, <1>6, <2>3 DEF IsOwner, AppTasks
    <3>2. CyclicOffset(t, from) < CyclicOffset(t, next)
      BY <1>6, <2>2, <3>1, PassedInOrder
    <3> QED
      BY <3>1, <3>2 DEF AppTasks
  <2>4. ASSUME NEW t \in AppTasks, passed'[t] # {}
        PROVE  /\ pc'[t] = "lock" /\ ~IsOwner(t)'
               /\ \A u \in passed'[t] : CyclicOffset(t, u) <= CyclicOffset(t, next)
    <3>1. /\ pc'[t] = "lock" /\ pc[t] = "lock" /\ ~IsOwner(t)'
          /\ passed'[t] = passed[t] \cup {next}
      BY <1>1, <1>6, <2>2, <2>4
    <3>2. \A u \in passed[t] \cup {next, from} : CyclicOffset(t, u) \in Nat
      BY <2>2, <2>3, <3>1, OffsetRange
    <3> QED
      BY <2>2, <2>3, <3>1, <3>2
  <2>5. ASSUME NEW t \in AppTasks, pc[t] = "lock", ~IsOwner(t)'
        PROVE  next \notin passed[t]
    <3>1. CyclicOffset(t, from) \in Nat /\ CyclicOffset(t, next) \in Nat
      BY <2>2, <2>3, <2>5, OffsetRange
    <3> QED
      BY <2>3, <2>5, <3>1
  <2> QED
    BY <1>2, <2>2, <2>4, <2>5
<1> QED
  BY <1>4, <1>5, <1>6, OwnerMoves

(* Whoever passed a waiting task lies between it and the owner.            *)
THEOREM PassedInvariant == PSpec => [](MutexInv /\ PassedInv)
<1>1. PInit => MutexInv /\ PassedInv
  <2> SUFFICES ASSUME PInit PROVE MutexInv /\ PassedInv
    OBVIOUS
  <2>1. MutexInv
    BY MutexInitInv DEF PInit
  <2> QED
    BY <2>1 DEF PInit, PassedInv
<1>2. PSpec => MSpec
  <2>1. PInit => MInit
    BY DEF PInit
  <2>2. [MNext /\ PassedNext]_<<mutexVars, passed>> => [MNext]_mutexVars
    OBVIOUS
  <2> QED
    BY <2>1, <2>2, PTL DEF PSpec, MSpec
<1>3. MutexInv /\ PassedInv /\ [MNext /\ PassedNext]_<<mutexVars, passed>> => PassedInv'
  <2>1. ASSUME MutexInv, PassedInv, MNext, PassedNext
        PROVE  PassedInv'
    BY <2>1, PassedStep
  <2>2. ASSUME PassedInv, UNCHANGED <<mutexVars, passed>>
        PROVE  PassedInv'
    BY <2>2 DEF PassedInv, IsOwner, mutexVars, taskVars
  <2> QED
    BY <2>1, <2>2
<1> QED
  BY <1>1, <1>2, <1>3, MutexInvariant, PTL DEF PSpec

(* Bounded bypass: while a task waits for the mutex, no other task gets    *)
(* it twice, for any number of tasks.                                      *)
THEOREM HandoffIsFair == PSpec => NobodyPassesTwice
<1>1. ASSUME MutexInv, PassedInv, [MNext /\ PassedNext]_<<mutexVars, passed>>
      PROVE  [\A t, u \in AppTasks :
                u \in Acquirers /\ pc[t] = "lock" /\ ~IsOwner(t) /\ ~IsOwner(t)'
                  => u \notin passed[t]]_<<mutexVars, passed>>
  BY <1>1, PassedStep
<1> QED
  BY <1>1, PassedInvariant, PTL DEF PSpec, NobodyPassesTwice
=============================================================================
