--------------------------- MODULE ServiceProofs ---------------------------
(***************************************************************************)
(* Proofs about TaskLayer, and about one call of a mutex or a semaphore.   *)
(* First the invariants of the layer, and what the search of the services  *)
(* for the next waiting task returns.  Then, for tasks that wait for other *)
(* objects as well, what each critical section of a service changes, and   *)
(* that the object stays sound.  Proofs about a component that uses one    *)
(* object extend this module; those about a component with several objects *)
(* take an instance of it for each of them.                                *)
(***************************************************************************)
EXTENDS Mutex, Semaphore, TLAPS, WellFoundedInduction, FiniteSetTheorems

(* A non-empty set of natural numbers has a least element.                 *)
LEMMA LeastNat ==
  ASSUME NEW T, T \subseteq Nat, T # {}
  PROVE  \E x \in T : \A y \in T : x <= y
<1> DEFINE R == OpToRel(<, Nat)
<1>1. IsWellFoundedOn(R, Nat)
  BY NatLessThanWellFounded
<1>2. \A x, y \in Nat : x < y => <<x, y>> \in R
  BY DEF OpToRel
<1> HIDE DEF R
<1>3. PICK x \in T : \A y \in T : <<y, x>> \notin R
  BY <1>1, WFMin
<1>4. \A y \in T : ~(y < x)
  BY <1>2, <1>3, Zenon
<1>5. \A y \in T : x <= y
  BY <1>4
<1> QED
  BY <1>5

LEMMA IdleIsTask == IdleTask \in Tasks
BY NumTasksAssumption DEF IdleTask, Tasks

(* Any set of tasks can be counted.                                        *)
LEMMA TaskSetsFinite ==
  ASSUME NEW S \in SUBSET AppTasks
  PROVE  IsFiniteSet(S) /\ Cardinality(S) \in Nat
<1>1. IsFiniteSet(0 .. NumTasks - 1)
  BY FS_Interval, NumTasksAssumption
<1>2. S \in SUBSET (0 .. NumTasks - 1)
  BY DEF AppTasks, Tasks
<1> QED
  BY <1>1, <1>2, FS_Subset, FS_CardinalityType

(* The round-robin distance between two tasks lies between 1 and the       *)
(* number of tasks, and different tasks lie at different distances: each   *)
(* search visits every task exactly once.                                  *)
LEMMA OffsetRange ==
  ASSUME NEW t \in Tasks, NEW c \in Tasks
  PROVE  CyclicOffset(t, c) \in 1 .. NumTasks
BY NumTasksAssumption DEF CyclicOffset, Tasks

THEOREM OffsetInjective ==
  ASSUME NEW t \in Tasks, NEW c \in Tasks, NEW d \in Tasks,
         CyclicOffset(t, c) = CyclicOffset(t, d)
  PROVE  c = d
BY NumTasksAssumption DEF CyclicOffset, Tasks

(* The offset is what the loops of the kernel compute: the task visited at *)
(* offset o after t is (t + o) % task_count.                               *)
THEOREM OffsetIsModulo ==
  ASSUME NEW t \in Tasks, NEW c \in Tasks
  PROVE  (t + CyclicOffset(t, c)) % NumTasks = c
<1>1. CASE c > t
  BY <1>1, NumTasksAssumption DEF CyclicOffset, Tasks
<1>2. CASE ~(c > t)
  <2>1. t + CyclicOffset(t, c) = c + NumTasks
    BY <1>2, NumTasksAssumption DEF CyclicOffset, Tasks
  <2>2. (c + NumTasks) % NumTasks = c
    BY NumTasksAssumption DEF Tasks
  <2> QED
    BY <2>1, <2>2
<1> QED
  BY <1>1, <1>2

(* The search finds a BLOCKED waiting task if there is one, the one        *)
(* visited first.                                                          *)
LEMMA SearchFinds ==
  ASSUME NEW from \in Tasks, NEW W \in SUBSET Tasks, BlockedAmong(W) # {}
  PROVE  /\ FirstBlocked(from, W) \in BlockedAmong(W)
         /\ \A v \in BlockedAmong(W) :
              CyclicOffset(from, FirstBlocked(from, W)) <= CyclicOffset(from, v)
<1> DEFINE B == BlockedAmong(W)
           D == {CyclicOffset(from, v) : v \in B}
<1>1. B \subseteq Tasks
  BY DEF BlockedAmong
<1>2. D \subseteq Nat /\ D # {}
  BY <1>1, OffsetRange
<1>3. PICK x \in D : \A y \in D : x <= y
  BY <1>2, LeastNat
<1>4. PICK u \in B : x = CyclicOffset(from, u)
  OBVIOUS
<1>5. \A v \in B : CyclicOffset(from, u) <= CyclicOffset(from, v)
  BY <1>3, <1>4
<1> HIDE DEF B
<1>6. FirstBlocked(from, W) = CHOOSE w \in B :
        \A v \in B : CyclicOffset(from, w) <= CyclicOffset(from, v)
  BY DEF FirstBlocked, B
<1> QED
  BY <1>5, <1>6 DEF B

(* If every waiting task is BLOCKED, the search clears no waiting bit.     *)
LEMMA NothingStale ==
  ASSUME NEW from \in Tasks, NEW W \in SUBSET AppTasks,
         \A u \in W : task_state[u] = "BLOCKED"
  PROVE  /\ W = {} <=> FirstBlocked(from, W) = NoTask
         /\ W # {} => FirstBlocked(from, W) \in W
         /\ WithoutStale(from, W) = W
<1>1. BlockedAmong(W) = W /\ W \subseteq Tasks
  BY DEF BlockedAmong, AppTasks
<1>2. CASE W = {}
  BY <1>1, <1>2 DEF FirstBlocked, WithoutStale
<1>3. CASE W # {}
  <2>1. /\ FirstBlocked(from, W) \in W
        /\ \A v \in W : CyclicOffset(from, FirstBlocked(from, W)) <= CyclicOffset(from, v)
    BY <1>1, <1>3, SearchFinds
  <2>2. FirstBlocked(from, W) # NoTask
    BY <1>1, <2>1 DEF NoTask, Tasks
  <2>3. \A v \in W : CyclicOffset(from, v) >= CyclicOffset(from, FirstBlocked(from, W))
    BY <1>1, <2>1, OffsetRange
  <2>4. WithoutStale(from, W) = W
    BY <2>2, <2>3 DEF WithoutStale
  <2> QED
    BY <1>3, <2>1, <2>2, <2>4
<1> QED
  BY <1>2, <1>3

(* Round robin: if the search from one task finds another one before t,    *)
(* then that one lies farther round from t than the first.                 *)
LEMMA PassedInOrder ==
  ASSUME NEW t \in Tasks, NEW from \in Tasks \ {t}, NEW next \in Tasks \ {t},
         CyclicOffset(from, next) <= CyclicOffset(from, t)
  PROVE  CyclicOffset(t, from) < CyclicOffset(t, next)
BY NumTasksAssumption DEF CyclicOffset, Tasks

(* The search among BLOCKED tasks stops at the one visited first.          *)
LEMMA SearchOrder ==
  ASSUME NEW from \in Tasks, NEW W \in SUBSET AppTasks, NEW t \in W,
         \A u \in W : task_state[u] = "BLOCKED"
  PROVE  CyclicOffset(from, FirstBlocked(from, W)) <= CyclicOffset(from, t)
<1>1. W \in SUBSET Tasks /\ t \in BlockedAmong(W)
  BY DEF BlockedAmong, AppTasks
<1> QED
  BY <1>1, SearchFinds

-----------------------------------------------------------------------------
(* The invariants of the layer, and how the steps of the core keep them.   *)
LEMMA LayerInitInv == LayerInit => LayerInv
<1>1. FirstTask \in Tasks
  BY NumTasksAssumption DEF FirstTask, Tasks, IdleTask
<1> SUFFICES ASSUME LayerInit PROVE LayerInv
  OBVIOUS
<1>2. LayerTypeOK
  BY <1>1 DEF LayerInit, LayerTypeOK, TaskStates
<1>3. OneRunning
  BY <1>1 DEF LayerInit, OneRunning
<1> QED
  BY <1>2, <1>3, IdleIsTask DEF LayerInv, LayerInit

LEMMA CoreStep ==
  ASSUME LayerInv, CoreNext
  PROVE  LayerInv'
<1> USE IdleIsTask DEF LayerInv, LayerTypeOK, OneRunning
<1>1. CASE RequestSwitch
  BY <1>1 DEF RequestSwitch, os_trigger_context_switch
<1>2. ASSUME NEW S \in SUBSET AppTasks, Wake(S)
      PROVE  LayerInv'
  <2>1. task_state' \in [Tasks -> TaskStates] /\ pendsv' \in BOOLEAN
    BY <1>2 DEF Wake, TaskStates
  <2>2. \A t \in Tasks : task_state[t] = "RUNNING" <=> task_state'[t] = "RUNNING"
    BY <1>2 DEF Wake
  <2>3. (pendsv' => primask') => (pendsv => primask)
    BY <1>2 DEF Wake
  <2>4. UNCHANGED <<current, primask>>
    BY <1>2 DEF Wake
  <2>5. task_state'[IdleTask] = task_state[IdleTask]
    BY <1>2 DEF Wake, AppTasks
  <2> QED
    BY <2>1, <2>2, <2>3, <2>4, <2>5
<1>3. ASSUME NEW u \in Tasks, Dispatch(u)
      PROVE  LayerInv'
  BY <1>3 DEF Dispatch, Requeued, TaskStates
<1> QED
  BY <1>1, <1>2, <1>3 DEF CoreNext

LEMMA TaskCallStep ==
  ASSUME LayerInv, NEW t \in AppTasks,
         os_sleep(t) \/ os_irq_save(t) \/ os_irq_restore(t)
  PROVE  LayerInv'
<1> USE IdleIsTask DEF LayerInv, LayerTypeOK, OneRunning, Executing, AppTasks
<1>1. CASE os_sleep(t)
  BY <1>1 DEF os_sleep, CanBlock, os_trigger_context_switch, TaskStates
<1>2. CASE os_irq_save(t)
  BY <1>2 DEF os_irq_save
<1>3. CASE os_irq_restore(t)
  BY <1>3 DEF os_irq_restore
<1> QED
  BY <1>1, <1>2, <1>3

(* The kernel core neither blocks nor unblocks a task.                     *)
LEMMA CoreKeepsBlocked ==
  ASSUME LayerInv, CoreNext, NEW t \in Tasks
  PROVE  task_state[t] = "BLOCKED" <=> task_state'[t] = "BLOCKED"
<1> USE IdleIsTask DEF LayerInv, LayerTypeOK
<1>1. CASE RequestSwitch
  BY <1>1 DEF RequestSwitch
<1>2. ASSUME NEW S \in SUBSET AppTasks, Wake(S)
      PROVE  task_state[t] = "BLOCKED" <=> task_state'[t] = "BLOCKED"
  BY <1>2 DEF Wake
<1>3. ASSUME NEW u \in Tasks, Dispatch(u)
      PROVE  task_state[t] = "BLOCKED" <=> task_state'[t] = "BLOCKED"
  BY <1>3 DEF Dispatch, Requeued
<1> QED
  BY <1>1, <1>2, <1>3 DEF CoreNext

(* A task that keeps to itself blocks and unblocks nobody, either.         *)
LEMMA OtherKeepsBlocked ==
  ASSUME LayerInv, NEW t \in AppTasks,
         os_sleep(t) \/ os_irq_save(t) \/ os_irq_restore(t),
         NEW u \in Tasks
  PROVE  task_state[u] = "BLOCKED" <=> task_state'[u] = "BLOCKED"
BY DEF LayerInv, LayerTypeOK, os_sleep, os_irq_save, os_irq_restore, CanBlock

(* The promise of the scheduler to its services: the task that executes is *)
(* RUNNING and no other is, for any number of tasks.                       *)
THEOREM LayerInvariant == LayerSpec => []LayerInv
<1>1. LayerInit => LayerInv
  BY LayerInitInv
<1>2. LayerInv /\ [LayerNext]_layerVars => LayerInv'
  <2> SUFFICES ASSUME LayerInv, [LayerNext]_layerVars PROVE LayerInv'
    OBVIOUS
  <2>1. CASE CoreNext
    BY <2>1, CoreStep
  <2>2. ASSUME NEW t \in AppTasks,
               os_sleep(t) \/ os_irq_save(t) \/ os_irq_restore(t)
        PROVE  LayerInv'
    BY <2>2, TaskCallStep
  <2>3. ASSUME NEW t \in AppTasks, Block(t)
        PROVE  LayerInv'
    BY <2>3, IdleIsTask DEF Block, task_block, CanBlock, os_trigger_context_switch, Executing,
       LayerInv, LayerTypeOK, OneRunning, AppTasks, TaskStates
  <2>4. ASSUME NEW t \in AppTasks, NEW u \in AppTasks, Unblock(t, u)
        PROVE  LayerInv'
    BY <2>4, IdleIsTask DEF Unblock, task_unblock, Executing,
       LayerInv, LayerTypeOK, OneRunning, AppTasks, TaskStates
  <2>5. CASE UNCHANGED layerVars
    BY <2>5 DEF layerVars, LayerInv, LayerTypeOK, OneRunning
  <2> QED
    BY <2>1, <2>2, <2>3, <2>4, <2>5 DEF LayerNext
<1> QED
  BY <1>1, <1>2, PTL DEF LayerSpec

-----------------------------------------------------------------------------
(* Critical sections of the services.                                      *)

(* What a call of t may do to others: nothing, but for the tasks in W.     *)
BlockedElsewhere(t, W) ==
  \A u \in AppTasks \ (W \cup {t}) :
    task_state[u] = "BLOCKED" <=> task_state'[u] = "BLOCKED"

(* Who executes is RUNNING, so every call may block its caller.            *)
LEMMA CallerRuns ==
  ASSUME LayerInv, NEW t \in AppTasks, Executing(t)
  PROVE  /\ t \in Tasks /\ t # IdleTask /\ t # NoTask
         /\ task_state[t] = "RUNNING" /\ CanBlock(t)
BY DEF LayerInv, LayerTypeOK, OneRunning, Executing, CanBlock, AppTasks, Tasks, NoTask

(* How a section that blocks its caller keeps the layer.                   *)
LEMMA CallerBlocks ==
  ASSUME LayerInv, NEW t \in AppTasks, Executing(t), ~primask,
         task_block(t), os_trigger_context_switch, UNCHANGED <<current, primask>>
  PROVE  /\ LayerInv'
         /\ task_state' = [task_state EXCEPT ![t] = "BLOCKED"]
         /\ BlockedElsewhere(t, {})
<1> USE DEF LayerInv, LayerTypeOK, OneRunning
<1>1. t \in Tasks /\ t # IdleTask /\ task_state[t] = "RUNNING" /\ t = current
  BY CallerRuns DEF Executing
<1>2. task_state' = [task_state EXCEPT ![t] = "BLOCKED"] /\ pendsv' = TRUE
  BY DEF task_block, os_trigger_context_switch
<1> QED
  BY <1>1, <1>2, IdleIsTask DEF TaskStates, BlockedElsewhere, AppTasks

(* How a section that makes u READY keeps the layer.                       *)
LEMMA CallerUnblocks ==
  ASSUME LayerInv, NEW t \in AppTasks, NEW u \in AppTasks, task_unblock(u),
         UNCHANGED <<current, pendsv, primask>>
  PROVE  /\ LayerInv'
         /\ task_state[u] = "BLOCKED"
         /\ task_state' = [task_state EXCEPT ![u] = "READY"]
         /\ BlockedElsewhere(t, {u})
<1> USE DEF LayerInv, LayerTypeOK, OneRunning
<1>1. /\ task_state' = [task_state EXCEPT ![u] = "READY"]
      /\ task_state[u] = "BLOCKED" /\ u \in Tasks /\ u # IdleTask
  BY DEF task_unblock, AppTasks
<1> QED
  BY <1>1, IdleIsTask DEF TaskStates, BlockedElsewhere, AppTasks

LEMMA LayerStays ==
  ASSUME LayerInv, NEW t \in AppTasks, UNCHANGED layerVars
  PROVE  LayerInv' /\ BlockedElsewhere(t, {})
BY DEF layerVars, LayerInv, LayerTypeOK, OneRunning, BlockedElsewhere

-----------------------------------------------------------------------------
(* os_mutex_lock: t takes the free mutex, or what it was handed, or blocks *)
(* behind the owner, or gets an error and changes nothing.                 *)
LEMMA LockEffect ==
  ASSUME LayerInv, MutexSound, NEW t \in AppTasks, NEW result,
         os_mutex_lock(t, result)
  PROVE  /\ LayerInv' /\ MutexSound' /\ BlockedElsewhere(t, {})
         /\ \/ /\ result = "OK" /\ UNCHANGED layerVars
               /\ \/ mutex.owner_task_id = NoTask
                  \/ mutex.owner_task_id = t /\ t \in mutex.waiting
               /\ mutex'.owner_task_id = t
               /\ mutex'.waiting = mutex.waiting \ {t}
            \/ /\ result = "BLOCKED"
               /\ mutex.owner_task_id \notin {t, NoTask}
               /\ mutex'.owner_task_id = mutex.owner_task_id
               /\ mutex'.waiting = mutex.waiting \cup {t}
            \/ /\ result \in {"RECURSIVE_LOCK", "INTERRUPTS_DISABLED"}
               /\ result = "RECURSIVE_LOCK" <=> mutex.owner_task_id = t
               /\ t \notin mutex.waiting
               /\ UNCHANGED <<mutex, layerVars>>
<1>1. Executing(t)
  BY DEF os_mutex_lock
<1>2. /\ t \in Tasks /\ t # IdleTask /\ t # NoTask
      /\ task_state[t] = "RUNNING" /\ CanBlock(t)
  BY <1>1, CallerRuns
<1>3. t \in mutex.waiting => t = mutex.owner_task_id
  BY <1>2 DEF MutexSound
<1> USE DEF MutexSound, MutexType
<1>4. CASE lock_free(t, result)
  <2>1. LayerInv' /\ BlockedElsewhere(t, {})
    BY <1>4, LayerStays DEF lock_free
  <2>2. /\ ~mutex.is_locked /\ result = "OK" /\ UNCHANGED layerVars
        /\ mutex' = [is_locked |-> TRUE, owner_task_id |-> t,
                     waiting |-> mutex.waiting \ {t}]
    BY <1>4 DEF lock_free
  <2>3. MutexSound'
    BY <1>2, <2>2
  <2> QED
    BY <2>1, <2>2, <2>3
<1>5. CASE lock_handed_over(t, result)
  <2>1. LayerInv' /\ BlockedElsewhere(t, {})
    BY <1>5, LayerStays DEF lock_handed_over
  <2>2. /\ mutex.is_locked /\ mutex.owner_task_id = t /\ t \in mutex.waiting
        /\ result = "OK" /\ UNCHANGED layerVars
        /\ mutex' = [mutex EXCEPT !.waiting = @ \ {t}]
    BY <1>5 DEF lock_handed_over
  <2>3. MutexSound'
    BY <1>2, <2>2 DEF layerVars
  <2> QED
    BY <2>1, <2>2, <2>3
<1>6. CASE lock_recursive(t, result) \/ lock_masked(t, result)
  <2>1. /\ UNCHANGED <<mutex, layerVars>>
        /\ result \in {"RECURSIVE_LOCK", "INTERRUPTS_DISABLED"}
        /\ result = "RECURSIVE_LOCK" <=> mutex.owner_task_id = t
        /\ t \notin mutex.waiting
    BY <1>3, <1>6 DEF lock_recursive, lock_masked
  <2>2. LayerInv' /\ BlockedElsewhere(t, {})
    BY <2>1, LayerStays
  <2>3. MutexSound'
    BY <2>1 DEF layerVars
  <2> QED
    BY <2>1, <2>2, <2>3
<1>7. CASE lock_block(t, result)
  <2>1. /\ mutex.is_locked /\ mutex.owner_task_id # t /\ ~primask
        /\ mutex' = [mutex EXCEPT !.waiting = @ \cup {t}]
        /\ task_block(t) /\ os_trigger_context_switch
        /\ result = "BLOCKED" /\ UNCHANGED <<current, primask>>
    BY <1>2, <1>7 DEF lock_block
  <2>2. /\ LayerInv' /\ BlockedElsewhere(t, {})
        /\ task_state' = [task_state EXCEPT ![t] = "BLOCKED"]
    BY <1>1, <2>1, CallerBlocks
  <2>3. MutexSound'
    BY <1>2, <2>1, <2>2 DEF LayerInv, LayerTypeOK, AppTasks
  <2> QED
    BY <2>1, <2>2, <2>3
<1> QED
  BY <1>4, <1>5, <1>6, <1>7 DEF os_mutex_lock

(* os_mutex_unlock: the owner gives the mutex to a waiting task if there   *)
(* is one, and nobody else changes anything.                               *)
LEMMA UnlockEffect ==
  ASSUME LayerInv, MutexSound, NEW t \in AppTasks, NEW result,
         os_mutex_unlock(t, result), t \notin mutex.waiting
  PROVE  /\ LayerInv' /\ MutexSound' /\ BlockedElsewhere(t, mutex.waiting)
         /\ mutex'.waiting = mutex.waiting
         /\ \/ /\ result = "NOT_OWNER" /\ mutex.owner_task_id # t
               /\ UNCHANGED <<mutex, layerVars>>
            \/ /\ result = "OK" /\ mutex.owner_task_id = t
               /\ mutex'.owner_task_id = NoTask /\ mutex.waiting = {}
            \/ /\ result = "OK" /\ mutex.owner_task_id = t
               /\ mutex'.owner_task_id \in mutex.waiting
               /\ mutex'.owner_task_id # t
<1>1. Executing(t)
  BY DEF os_mutex_unlock
<1>2. /\ t \in Tasks /\ t # IdleTask /\ t # NoTask
      /\ task_state[t] = "RUNNING" /\ CanBlock(t)
  BY <1>1, CallerRuns
<1> USE DEF MutexSound, MutexType
<1>3. CASE unlock_not_owner(t, result)
  <2>1. /\ result = "NOT_OWNER" /\ mutex.owner_task_id # t
        /\ UNCHANGED <<mutex, layerVars>>
    BY <1>2, <1>3 DEF unlock_not_owner, IsOwner
  <2>2. LayerInv' /\ BlockedElsewhere(t, mutex.waiting)
    BY <2>1, LayerStays DEF BlockedElsewhere
  <2>3. MutexSound'
    BY <2>1 DEF layerVars
  <2> QED
    BY <2>1, <2>2, <2>3
<1>4. ASSUME IsOwner(t)
      PROVE  /\ mutex.owner_task_id = t
             /\ \A u \in mutex.waiting : u # t /\ task_state[u] = "BLOCKED"
             /\ mutex.waiting = {} <=> mutex_find_next_waiting_task = NoTask
             /\ mutex.waiting # {} => mutex_find_next_waiting_task \in mutex.waiting
             /\ WithoutStale(t, mutex.waiting) = mutex.waiting
  <2>1. /\ mutex.owner_task_id = t
        /\ \A u \in mutex.waiting : u # t /\ task_state[u] = "BLOCKED"
    BY <1>4 DEF IsOwner
  <2> QED
    BY <1>2, <2>1, NothingStale DEF mutex_find_next_waiting_task
<1>5. CASE unlock_release(t, result)
  <2>1. /\ IsOwner(t) /\ mutex.waiting = {} /\ result = "OK" /\ UNCHANGED layerVars
        /\ mutex' = [is_locked |-> FALSE, owner_task_id |-> NoTask, waiting |-> {}]
    BY <1>4, <1>5 DEF unlock_release
  <2>2. LayerInv' /\ BlockedElsewhere(t, mutex.waiting)
    BY <2>1, LayerStays DEF BlockedElsewhere
  <2>3. MutexSound'
    BY <2>1 DEF NoTask, IdleTask
  <2> QED
    BY <1>4, <2>1, <2>2, <2>3
<1>6. CASE unlock_hand_over(t, result)
  <2> DEFINE next == mutex_find_next_waiting_task
  <2>1. /\ IsOwner(t) /\ next # NoTask /\ task_unblock(next) /\ result = "OK"
        /\ UNCHANGED <<current, pendsv, primask>>
        /\ mutex' = [is_locked |-> TRUE, owner_task_id |-> next,
                     waiting |-> WithoutStale(t, mutex.waiting)]
    BY <1>6 DEF unlock_hand_over
  <2>2. /\ next \in mutex.waiting /\ next # t
        /\ WithoutStale(t, mutex.waiting) = mutex.waiting
    BY <1>4, <2>1
  <2> HIDE DEF next
  <2>3. next \in AppTasks /\ next \in Tasks /\ next # IdleTask
    BY <2>2 DEF AppTasks
  <2>4. /\ LayerInv' /\ BlockedElsewhere(t, {next})
        /\ task_state' = [task_state EXCEPT ![next] = "READY"]
    BY <2>1, <2>3, CallerUnblocks
  <2>5. BlockedElsewhere(t, mutex.waiting)
    BY <2>2, <2>4 DEF BlockedElsewhere
  <2>6. MutexSound'
    BY <1>4, <2>1, <2>2, <2>3, <2>4 DEF LayerInv, LayerTypeOK, AppTasks
  <2> QED
    BY <1>4, <2>1, <2>2, <2>4, <2>5, <2>6
<1> QED
  BY <1>3, <1>5, <1>6 DEF os_mutex_unlock

-----------------------------------------------------------------------------
(* FreeUnits of the semaphore that are free or reserved for a woken task.      *)
FreeUnits == semaphore.count + Cardinality(semaphore.granted)

(* os_semaphore_wait: t takes a unit, or blocks when there is none, or     *)
(* gets an error and changes nothing.                                      *)
LEMMA WaitEffect ==
  ASSUME LayerInv, SemaphoreSound, NEW t \in AppTasks, NEW result,
         os_semaphore_wait(t, result)
  PROVE  /\ LayerInv' /\ SemaphoreSound' /\ BlockedElsewhere(t, {})
         /\ semaphore'.maximum_count = semaphore.maximum_count
         /\ \/ /\ result = "OK" /\ UNCHANGED layerVars
               /\ FreeUnits' = FreeUnits - 1
               /\ semaphore'.waiting = semaphore.waiting
               /\ semaphore'.granted = semaphore.granted \ {t}
            \/ /\ result = "BLOCKED"
               /\ FreeUnits' = FreeUnits
               /\ semaphore'.waiting = semaphore.waiting \cup {t}
               /\ semaphore'.granted = semaphore.granted
            \/ /\ result = "INTERRUPTS_DISABLED"
               /\ t \notin semaphore.waiting \cup semaphore.granted
               /\ UNCHANGED <<semaphore, layerVars>>
<1>1. Executing(t)
  BY DEF os_semaphore_wait
<1>2. /\ t \in Tasks /\ t # IdleTask /\ t # NoTask
      /\ task_state[t] = "RUNNING" /\ CanBlock(t)
  BY <1>1, CallerRuns
<1> USE DEF SemaphoreSound, SemaphoreType
<1>3. t \notin semaphore.waiting
  BY <1>2
<1>4. IsFiniteSet(semaphore.granted) /\ Cardinality(semaphore.granted) \in Nat
  BY TaskSetsFinite
<1>5. CASE wait_granted(t, result)
  <2>1. /\ t \in semaphore.granted /\ result = "OK" /\ UNCHANGED layerVars
        /\ semaphore' = [semaphore EXCEPT !.granted = @ \ {t}, !.waiting = @ \ {t}]
    BY <1>5 DEF wait_granted
  <2>2. LayerInv' /\ BlockedElsewhere(t, {})
    BY <2>1, LayerStays
  <2>3. /\ semaphore'.waiting = semaphore.waiting
        /\ semaphore'.granted = semaphore.granted \ {t}
        /\ semaphore'.count = semaphore.count
        /\ semaphore'.maximum_count = semaphore.maximum_count
        /\ semaphore' \in SemaphoreType
    BY <1>3, <2>1
  <2>4. FreeUnits' = FreeUnits - 1
    <3>1. Cardinality(semaphore'.granted) = Cardinality(semaphore.granted) - 1
      BY <1>4, <2>1, <2>3, FS_RemoveElement
    <3> QED
      BY <1>4, <2>3, <3>1 DEF FreeUnits
  <2>5. SemaphoreSound'
    BY <2>1, <2>3 DEF layerVars
  <2> QED
    BY <2>1, <2>2, <2>3, <2>4, <2>5
<1>6. CASE wait_take_unit(t, result)
  <2>1. /\ t \notin semaphore.granted /\ semaphore.count > 0
        /\ result = "OK" /\ UNCHANGED layerVars
        /\ semaphore' = [semaphore EXCEPT !.count = @ - 1, !.waiting = @ \ {t}]
    BY <1>6 DEF wait_take_unit
  <2>2. LayerInv' /\ BlockedElsewhere(t, {})
    BY <2>1, LayerStays
  <2>3. /\ semaphore'.waiting = semaphore.waiting
        /\ semaphore'.granted = semaphore.granted
        /\ semaphore'.count = semaphore.count - 1
        /\ semaphore'.maximum_count = semaphore.maximum_count
    BY <1>3, <2>1
  <2>4. semaphore' \in SemaphoreType
    <3> DEFINE n == semaphore.count - 1
    <3>0. n \in Nat
      BY <2>1
    <3>1. /\ semaphore' = [semaphore EXCEPT !.count = n, !.waiting = semaphore'.waiting]
          /\ n \in Nat /\ semaphore'.waiting \in SUBSET Tasks
      BY <2>1, <2>3, <3>0
    <3> HIDE DEF n
    <3> QED
      BY <3>1
  <2>5. FreeUnits' = FreeUnits - 1
    BY <1>4, <2>3 DEF FreeUnits
  <2>6. SemaphoreSound'
    BY <2>1, <2>3, <2>4 DEF layerVars
  <2> QED
    BY <2>1, <2>2, <2>3, <2>5, <2>6
<1>7. CASE wait_masked(t, result)
  <2>1. /\ result = "INTERRUPTS_DISABLED" /\ UNCHANGED <<semaphore, layerVars>>
        /\ t \notin semaphore.waiting \cup semaphore.granted
    BY <1>3, <1>7 DEF wait_masked, NothingFor
  <2>2. LayerInv' /\ BlockedElsewhere(t, {})
    BY <2>1, LayerStays
  <2>3. SemaphoreSound'
    BY <2>1 DEF layerVars
  <2> QED
    BY <2>1, <2>2, <2>3
<1>8. CASE wait_block(t, result)
  <2>1. /\ t \notin semaphore.granted /\ semaphore.count = 0 /\ ~primask
        /\ semaphore' = [semaphore EXCEPT !.waiting = @ \cup {t}]
        /\ task_block(t) /\ os_trigger_context_switch
        /\ result = "BLOCKED" /\ UNCHANGED <<current, primask>>
    BY <1>2, <1>8 DEF wait_block, NothingFor
  <2>2. /\ LayerInv' /\ BlockedElsewhere(t, {})
        /\ task_state' = [task_state EXCEPT ![t] = "BLOCKED"]
    BY <1>1, <2>1, CallerBlocks
  <2>3. /\ semaphore'.waiting = semaphore.waiting \cup {t}
        /\ semaphore'.granted = semaphore.granted
        /\ semaphore'.count = semaphore.count
        /\ semaphore'.maximum_count = semaphore.maximum_count
        /\ semaphore' \in SemaphoreType
    BY <1>2, <2>1
  <2>4. SemaphoreSound'
    BY <1>2, <2>1, <2>2, <2>3 DEF LayerInv, LayerTypeOK, AppTasks
  <2> QED
    BY <2>1, <2>2, <2>3, <2>4 DEF FreeUnits
<1> QED
  BY <1>5, <1>6, <1>7, <1>8 DEF os_semaphore_wait

(* os_semaphore_post: the unit goes to a waiting task if there is one, and *)
(* into the count otherwise; nobody loses a waiting bit.                   *)
LEMMA PostEffect ==
  ASSUME LayerInv, SemaphoreSound, NEW t \in AppTasks, NEW result,
         os_semaphore_post(t, result)
  PROVE  /\ LayerInv' /\ SemaphoreSound' /\ BlockedElsewhere(t, semaphore.waiting)
         /\ semaphore'.maximum_count = semaphore.maximum_count
         /\ semaphore'.waiting \subseteq semaphore.waiting
         /\ semaphore'.granted \cup semaphore'.waiting
              = semaphore.granted \cup semaphore.waiting
         /\ \/ /\ result = "OK"
               /\ FreeUnits' = FreeUnits + 1
            \/ /\ result = "OVERFLOW"
               /\ semaphore.count >= semaphore.maximum_count
               /\ UNCHANGED semaphore
<1>1. Executing(t)
  BY DEF os_semaphore_post
<1>2. t \in Tasks /\ task_state[t] = "RUNNING"
  BY <1>1, CallerRuns
<1> USE DEF SemaphoreSound, SemaphoreType
<1>3. semaphore.waiting \in SUBSET AppTasks /\ semaphore.last_granted_task_id \in Tasks
  OBVIOUS
<1>4. IsFiniteSet(semaphore.granted) /\ Cardinality(semaphore.granted) \in Nat
  BY TaskSetsFinite
<1> DEFINE next == semaphore_find_next_waiting_task
<1>5. /\ next = NoTask <=> semaphore.waiting = {}
      /\ semaphore.waiting # {} => next \in semaphore.waiting
      /\ Searched = semaphore.waiting
  BY <1>3, NothingStale DEF semaphore_find_next_waiting_task, Searched
<1>6. CASE post_grant(t, result)
  <2>1. /\ next # NoTask /\ task_unblock(next) /\ result = "OK"
        /\ semaphore' = [semaphore EXCEPT !.waiting = semaphore.waiting \ {next},
                                          !.granted = @ \cup {next},
                                          !.last_granted_task_id = next]
        /\ UNCHANGED <<current, pendsv, primask>>
    BY <1>5, <1>6 DEF post_grant
  <2>2. next \in semaphore.waiting
    BY <1>5, <2>1
  <2> HIDE DEF next
  <2>3. next \in AppTasks /\ next \in Tasks /\ next # IdleTask
        /\ next \notin semaphore.granted
    BY <2>2 DEF AppTasks
  <2>4. /\ LayerInv' /\ BlockedElsewhere(t, {next})
        /\ task_state' = [task_state EXCEPT ![next] = "READY"]
    BY <2>1, <2>3, CallerUnblocks
  <2>5. BlockedElsewhere(t, semaphore.waiting)
    BY <2>2, <2>4 DEF BlockedElsewhere
  <2>6. /\ semaphore'.waiting = semaphore.waiting \ {next}
        /\ semaphore'.granted = semaphore.granted \cup {next}
        /\ semaphore'.count = semaphore.count
        /\ semaphore'.maximum_count = semaphore.maximum_count
        /\ semaphore' \in SemaphoreType
    BY <2>1, <2>3
  <2>7. FreeUnits' = FreeUnits + 1
    <3>1. Cardinality(semaphore'.granted) = Cardinality(semaphore.granted) + 1
      BY <1>4, <2>3, <2>6, FS_AddElement
    <3> QED
      BY <1>4, <2>6, <3>1 DEF FreeUnits
  <2>8. SemaphoreSound'
    BY <2>2, <2>3, <2>4, <2>6 DEF LayerInv, LayerTypeOK, AppTasks
  <2> QED
    BY <2>1, <2>2, <2>4, <2>5, <2>6, <2>7, <2>8
<1>7. CASE post_overflow(t, result)
  <2>1. /\ semaphore.count >= semaphore.maximum_count
        /\ semaphore' = [semaphore EXCEPT !.waiting = semaphore.waiting]
        /\ result = "OVERFLOW" /\ UNCHANGED layerVars
    BY <1>5, <1>7 DEF post_overflow, Full
  <2>2. semaphore' = semaphore
    BY <2>1
  <2>3. LayerInv' /\ BlockedElsewhere(t, semaphore.waiting)
    BY <2>1, LayerStays DEF BlockedElsewhere
  <2>4. SemaphoreSound'
    BY <2>1, <2>2 DEF layerVars
  <2> QED
    BY <2>1, <2>2, <2>3, <2>4
<1>8. CASE post_unit(t, result)
  <2>1. /\ semaphore.waiting = {} /\ semaphore.count < semaphore.maximum_count
        /\ semaphore' = [semaphore EXCEPT !.waiting = semaphore.waiting, !.count = @ + 1]
        /\ result = "OK" /\ UNCHANGED layerVars
    BY <1>5, <1>8 DEF post_unit, Full
  <2>2. LayerInv' /\ BlockedElsewhere(t, semaphore.waiting)
    BY <2>1, LayerStays DEF BlockedElsewhere
  <2>3. /\ semaphore'.waiting = semaphore.waiting
        /\ semaphore'.granted = semaphore.granted
        /\ semaphore'.count = semaphore.count + 1
        /\ semaphore'.maximum_count = semaphore.maximum_count
    BY <2>1
  <2>4. semaphore' \in SemaphoreType
    <3> DEFINE n == semaphore.count + 1
    <3>0. n \in Nat
      BY <2>1
    <3>1. /\ semaphore' = [semaphore EXCEPT !.count = n, !.waiting = semaphore'.waiting]
          /\ n \in Nat /\ semaphore'.waiting \in SUBSET Tasks
      BY <2>1, <2>3, <3>0
    <3> HIDE DEF n
    <3> QED
      BY <3>1
  <2>5. FreeUnits' = FreeUnits + 1
    BY <1>4, <2>3 DEF FreeUnits
  <2>6. SemaphoreSound'
    BY <2>1, <2>3, <2>4 DEF layerVars
  <2> QED
    BY <2>1, <2>2, <2>3, <2>5, <2>6
<1> QED
  BY <1>6, <1>7, <1>8 DEF os_semaphore_post

-----------------------------------------------------------------------------
(* Steps that touch other objects only.                                    *)
LEMMA MutexKeeps ==
  ASSUME MutexSound, UNCHANGED mutex,
         \A u \in mutex.waiting : task_state[u] = "BLOCKED" <=> task_state'[u] = "BLOCKED"
  PROVE  MutexSound'
BY DEF MutexSound

LEMMA SemaphoreKeeps ==
  ASSUME SemaphoreSound, UNCHANGED semaphore,
         \A u \in semaphore.waiting \cup semaphore.granted :
           task_state[u] = "BLOCKED" <=> task_state'[u] = "BLOCKED"
  PROVE  SemaphoreSound'
BY DEF SemaphoreSound
=============================================================================
