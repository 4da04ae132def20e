------------------------- MODULE MessageQueueProofs -------------------------
(***************************************************************************)
(* Proofs about MessageQueue: QueueInv is inductive for any number of      *)
(* tasks, any capacity and any contents, hence no slot and no message      *)
(* leaks, and the queue implements BoundedFifo.  Then about QueueDemo:     *)
(* its error counters stay zero and every message is accounted for.        *)
(***************************************************************************)
EXTENDS QueueDemo, ServiceProofs, SequenceTheorems, FunctionTheorems

(* What ServiceProofs says of the three objects of the queue.              *)
ItemsFacts  == INSTANCE ServiceProofs
                 WITH mutex <- access_mutex, semaphore <- available_items
SpacesFacts == INSTANCE ServiceProofs
                 WITH mutex <- access_mutex, semaphore <- available_spaces

(* The tasks that a call of t leaves BLOCKED, or not BLOCKED.              *)
Elsewhere(t, W) ==
  \A u \in AppTasks \ (W \cup {t}) :
    task_state[u] = "BLOCKED" <=> task_state'[u] = "BLOCKED"

(* os_mutex_lock on the mutex of the queue.                                *)
LEMMA LockAccessEffect ==
  ASSUME LayerInv, Access!MutexSound, NEW t \in AppTasks, NEW result,
         Access!os_mutex_lock(t, result)
  PROVE  /\ LayerInv' /\ Access!MutexSound' /\ Elsewhere(t, {})
         /\ \/ /\ result = "OK" /\ UNCHANGED layerVars
               /\ \/ access_mutex.owner_task_id = NoTask
                  \/ access_mutex.owner_task_id = t /\ t \in access_mutex.waiting
               /\ access_mutex'.owner_task_id = t
               /\ access_mutex'.waiting = access_mutex.waiting \ {t}
            \/ /\ result = "BLOCKED"
               /\ access_mutex.owner_task_id \notin {t, NoTask}
               /\ access_mutex'.owner_task_id = access_mutex.owner_task_id
               /\ access_mutex'.waiting = access_mutex.waiting \cup {t}
            \/ /\ result \in {"RECURSIVE_LOCK", "INTERRUPTS_DISABLED"}
               /\ result = "RECURSIVE_LOCK" <=> access_mutex.owner_task_id = t
               /\ t \notin access_mutex.waiting
               /\ UNCHANGED <<access_mutex, layerVars>>
<1>1. ItemsFacts!LayerInv /\ t \in ItemsFacts!AppTasks
  BY DEF ItemsFacts!LayerInv, LayerInv, ItemsFacts!LayerTypeOK, LayerTypeOK,
         ItemsFacts!OneRunning, OneRunning, ItemsFacts!layerVars, layerVars,
         ItemsFacts!Tasks, Tasks, ItemsFacts!TaskStates, TaskStates,
         ItemsFacts!IdleTask, IdleTask, ItemsFacts!AppTasks, AppTasks,
         ItemsFacts!NoTask, NoTask
<1>2. ItemsFacts!MutexSound
  BY DEF ItemsFacts!MutexSound, Access!MutexSound, ItemsFacts!MutexType,
         Access!MutexType, ItemsFacts!Tasks, Access!Tasks, ItemsFacts!IdleTask,
         Access!IdleTask, ItemsFacts!AppTasks, Access!AppTasks,
         ItemsFacts!NoTask, Access!NoTask
<1>3. ItemsFacts!os_mutex_lock(t, result)
  BY DEF ItemsFacts!os_mutex_lock, Access!os_mutex_lock, ItemsFacts!lock_free,
         Access!lock_free, ItemsFacts!lock_handed_over, Access!lock_handed_over,
         ItemsFacts!lock_recursive, Access!lock_recursive,
         ItemsFacts!lock_masked, Access!lock_masked, ItemsFacts!lock_block,
         Access!lock_block, ItemsFacts!Executing, Access!Executing,
         ItemsFacts!CanBlock, Access!CanBlock, ItemsFacts!task_block,
         Access!task_block, ItemsFacts!os_trigger_context_switch,
         Access!os_trigger_context_switch, ItemsFacts!layerVars,
         Access!layerVars, ItemsFacts!IdleTask, Access!IdleTask
<1> QED
  BY <1>1, <1>2, <1>3, ItemsFacts!LockEffect, NumTasksAssumption
     DEF ItemsFacts!LayerInv, LayerInv, ItemsFacts!LayerTypeOK, LayerTypeOK,
         ItemsFacts!OneRunning, OneRunning, ItemsFacts!layerVars, layerVars,
         ItemsFacts!Tasks, Tasks, ItemsFacts!TaskStates, TaskStates,
         ItemsFacts!IdleTask, IdleTask, ItemsFacts!AppTasks, AppTasks,
         ItemsFacts!NoTask, NoTask, ItemsFacts!MutexSound, Access!MutexSound,
         ItemsFacts!MutexType, Access!MutexType, Access!Tasks, Access!IdleTask,
         Access!AppTasks, Access!NoTask, ItemsFacts!BlockedElsewhere, Elsewhere

(* os_mutex_unlock on the mutex of the queue.                              *)
LEMMA UnlockAccessEffect ==
  ASSUME LayerInv, Access!MutexSound, NEW t \in AppTasks, NEW result,
         Access!os_mutex_unlock(t, result), t \notin access_mutex.waiting
  PROVE  /\ LayerInv' /\ Access!MutexSound'
         /\ Elsewhere(t, access_mutex.waiting)
         /\ access_mutex'.waiting = access_mutex.waiting
         /\ \/ /\ result = "NOT_OWNER" /\ access_mutex.owner_task_id # t
               /\ UNCHANGED <<access_mutex, layerVars>>
            \/ /\ result = "OK" /\ access_mutex.owner_task_id = t
               /\ access_mutex'.owner_task_id = NoTask /\ access_mutex.waiting = {}
            \/ /\ result = "OK" /\ access_mutex.owner_task_id = t
               /\ access_mutex'.owner_task_id \in access_mutex.waiting
               /\ access_mutex'.owner_task_id # t
<1>1. ItemsFacts!LayerInv /\ t \in ItemsFacts!AppTasks
  BY DEF ItemsFacts!LayerInv, LayerInv, ItemsFacts!LayerTypeOK, LayerTypeOK,
         ItemsFacts!OneRunning, OneRunning, ItemsFacts!layerVars, layerVars,
         ItemsFacts!Tasks, Tasks, ItemsFacts!TaskStates, TaskStates,
         ItemsFacts!IdleTask, IdleTask, ItemsFacts!AppTasks, AppTasks,
         ItemsFacts!NoTask, NoTask
<1>2. ItemsFacts!MutexSound
  BY DEF ItemsFacts!MutexSound, Access!MutexSound, ItemsFacts!MutexType,
         Access!MutexType, ItemsFacts!Tasks, Access!Tasks, ItemsFacts!IdleTask,
         Access!IdleTask, ItemsFacts!AppTasks, Access!AppTasks,
         ItemsFacts!NoTask, Access!NoTask
<1>3. ItemsFacts!os_mutex_unlock(t, result)
  BY DEF ItemsFacts!os_mutex_unlock, Access!os_mutex_unlock,
         ItemsFacts!unlock_not_owner, Access!unlock_not_owner,
         ItemsFacts!unlock_release, Access!unlock_release,
         ItemsFacts!unlock_hand_over, Access!unlock_hand_over,
         ItemsFacts!IsOwner, Access!IsOwner,
         ItemsFacts!mutex_find_next_waiting_task,
         Access!mutex_find_next_waiting_task, ItemsFacts!Executing,
         Access!Executing, ItemsFacts!task_unblock, Access!task_unblock,
         ItemsFacts!layerVars, Access!layerVars, ItemsFacts!IdleTask,
         Access!IdleTask, ItemsFacts!NoTask, Access!NoTask,
         ItemsFacts!FirstBlocked, Access!FirstBlocked, ItemsFacts!WithoutStale,
         Access!WithoutStale, ItemsFacts!BlockedAmong, Access!BlockedAmong,
         ItemsFacts!CyclicOffset, Access!CyclicOffset
<1> QED
  BY <1>1, <1>2, <1>3, ItemsFacts!UnlockEffect, NumTasksAssumption
     DEF ItemsFacts!LayerInv, LayerInv, ItemsFacts!LayerTypeOK, LayerTypeOK,
         ItemsFacts!OneRunning, OneRunning, ItemsFacts!layerVars, layerVars,
         ItemsFacts!Tasks, Tasks, ItemsFacts!TaskStates, TaskStates,
         ItemsFacts!IdleTask, IdleTask, ItemsFacts!AppTasks, AppTasks,
         ItemsFacts!NoTask, NoTask, ItemsFacts!MutexSound, Access!MutexSound,
         ItemsFacts!MutexType, Access!MutexType, Access!Tasks, Access!IdleTask,
         Access!AppTasks, Access!NoTask, ItemsFacts!BlockedElsewhere, Elsewhere

(* os_semaphore_wait on available_items.                                   *)
LEMMA WaitItemsEffect ==
  ASSUME LayerInv, Items!SemaphoreSound, NEW t \in AppTasks, NEW result,
         Items!os_semaphore_wait(t, result)
  PROVE  /\ LayerInv' /\ Items!SemaphoreSound' /\ Elsewhere(t, {})
         /\ available_items'.maximum_count = available_items.maximum_count
         /\ \/ /\ result = "OK" /\ UNCHANGED layerVars
               /\ Units(available_items)' = Units(available_items) - 1
               /\ available_items'.waiting = available_items.waiting
               /\ available_items'.granted = available_items.granted \ {t}
            \/ /\ result = "BLOCKED"
               /\ Units(available_items)' = Units(available_items)
               /\ available_items'.waiting = available_items.waiting \cup {t}
               /\ available_items'.granted = available_items.granted
            \/ /\ result = "INTERRUPTS_DISABLED"
               /\ t \notin available_items.waiting \cup available_items.granted
               /\ UNCHANGED <<available_items, layerVars>>
<1>1. ItemsFacts!LayerInv /\ t \in ItemsFacts!AppTasks
  BY DEF ItemsFacts!LayerInv, LayerInv, ItemsFacts!LayerTypeOK, LayerTypeOK,
         ItemsFacts!OneRunning, OneRunning, ItemsFacts!layerVars, layerVars,
         ItemsFacts!Tasks, Tasks, ItemsFacts!TaskStates, TaskStates,
         ItemsFacts!IdleTask, IdleTask, ItemsFacts!AppTasks, AppTasks,
         ItemsFacts!NoTask, NoTask
<1>2. ItemsFacts!SemaphoreSound
  BY DEF ItemsFacts!SemaphoreSound, Items!SemaphoreSound,
         ItemsFacts!SemaphoreType, Items!SemaphoreType, ItemsFacts!Tasks,
         Items!Tasks, ItemsFacts!IdleTask, Items!IdleTask, ItemsFacts!AppTasks,
         Items!AppTasks
<1>3. ItemsFacts!os_semaphore_wait(t, result)
  BY DEF ItemsFacts!os_semaphore_wait, Items!os_semaphore_wait,
         ItemsFacts!wait_granted, Items!wait_granted, ItemsFacts!wait_take_unit,
         Items!wait_take_unit, ItemsFacts!wait_masked, Items!wait_masked,
         ItemsFacts!wait_block, Items!wait_block, ItemsFacts!NothingFor,
         Items!NothingFor, ItemsFacts!Executing, Items!Executing,
         ItemsFacts!CanBlock, Items!CanBlock, ItemsFacts!task_block,
         Items!task_block, ItemsFacts!os_trigger_context_switch,
         Items!os_trigger_context_switch, ItemsFacts!layerVars, Items!layerVars,
         ItemsFacts!IdleTask, Items!IdleTask
<1>4. ItemsFacts!FreeUnits = Units(available_items) /\ ItemsFacts!FreeUnits' = Units(available_items)'
  BY DEF ItemsFacts!FreeUnits, Units, ItemsFacts!Cardinality, Cardinality
<1> QED
  BY <1>1, <1>2, <1>3, <1>4, ItemsFacts!WaitEffect, NumTasksAssumption
     DEF ItemsFacts!LayerInv, LayerInv, ItemsFacts!LayerTypeOK, LayerTypeOK,
         ItemsFacts!OneRunning, OneRunning, ItemsFacts!layerVars, layerVars,
         ItemsFacts!Tasks, Tasks, ItemsFacts!TaskStates, TaskStates,
         ItemsFacts!IdleTask, IdleTask, ItemsFacts!AppTasks, AppTasks,
         ItemsFacts!NoTask, NoTask, ItemsFacts!SemaphoreSound,
         Items!SemaphoreSound, ItemsFacts!SemaphoreType, Items!SemaphoreType,
         Items!Tasks, Items!IdleTask, Items!AppTasks,
         ItemsFacts!BlockedElsewhere, Elsewhere

(* os_semaphore_post on available_items.                                   *)
LEMMA PostItemsEffect ==
  ASSUME LayerInv, Items!SemaphoreSound, NEW t \in AppTasks, NEW result,
         Items!os_semaphore_post(t, result)
  PROVE  /\ LayerInv' /\ Items!SemaphoreSound'
         /\ Elsewhere(t, available_items.waiting)
         /\ available_items'.maximum_count = available_items.maximum_count
         /\ available_items'.waiting \subseteq available_items.waiting
         /\ available_items'.granted \cup available_items'.waiting
              = available_items.granted \cup available_items.waiting
         /\ \/ /\ result = "OK"
               /\ Units(available_items)' = Units(available_items) + 1
            \/ /\ result = "OVERFLOW"
               /\ available_items.count >= available_items.maximum_count
               /\ UNCHANGED available_items
<1>1. ItemsFacts!LayerInv /\ t \in ItemsFacts!AppTasks
  BY DEF ItemsFacts!LayerInv, LayerInv, ItemsFacts!LayerTypeOK, LayerTypeOK,
         ItemsFacts!OneRunning, OneRunning, ItemsFacts!layerVars, layerVars,
         ItemsFacts!Tasks, Tasks, ItemsFacts!TaskStates, TaskStates,
         ItemsFacts!IdleTask, IdleTask, ItemsFacts!AppTasks, AppTasks,
         ItemsFacts!NoTask, NoTask
<1>2. ItemsFacts!SemaphoreSound
  BY DEF ItemsFacts!SemaphoreSound, Items!SemaphoreSound,
         ItemsFacts!SemaphoreType, Items!SemaphoreType, ItemsFacts!Tasks,
         Items!Tasks, ItemsFacts!IdleTask, Items!IdleTask, ItemsFacts!AppTasks,
         Items!AppTasks
<1>3. ItemsFacts!os_semaphore_post(t, result)
  BY DEF ItemsFacts!os_semaphore_post, Items!os_semaphore_post,
         ItemsFacts!post_grant, Items!post_grant, ItemsFacts!post_overflow,
         Items!post_overflow, ItemsFacts!post_unit, Items!post_unit,
         ItemsFacts!Full, Items!Full, ItemsFacts!Searched, Items!Searched,
         ItemsFacts!semaphore_find_next_waiting_task,
         Items!semaphore_find_next_waiting_task, ItemsFacts!Executing,
         Items!Executing, ItemsFacts!task_unblock, Items!task_unblock,
         ItemsFacts!layerVars, Items!layerVars, ItemsFacts!IdleTask,
         Items!IdleTask, ItemsFacts!NoTask, Items!NoTask,
         ItemsFacts!FirstBlocked, Items!FirstBlocked, ItemsFacts!WithoutStale,
         Items!WithoutStale, ItemsFacts!BlockedAmong, Items!BlockedAmong,
         ItemsFacts!CyclicOffset, Items!CyclicOffset
<1>4. ItemsFacts!FreeUnits = Units(available_items) /\ ItemsFacts!FreeUnits' = Units(available_items)'
  BY DEF ItemsFacts!FreeUnits, Units, ItemsFacts!Cardinality, Cardinality
<1> QED
  BY <1>1, <1>2, <1>3, <1>4, ItemsFacts!PostEffect, NumTasksAssumption
     DEF ItemsFacts!LayerInv, LayerInv, ItemsFacts!LayerTypeOK, LayerTypeOK,
         ItemsFacts!OneRunning, OneRunning, ItemsFacts!layerVars, layerVars,
         ItemsFacts!Tasks, Tasks, ItemsFacts!TaskStates, TaskStates,
         ItemsFacts!IdleTask, IdleTask, ItemsFacts!AppTasks, AppTasks,
         ItemsFacts!NoTask, NoTask, ItemsFacts!SemaphoreSound,
         Items!SemaphoreSound, ItemsFacts!SemaphoreType, Items!SemaphoreType,
         Items!Tasks, Items!IdleTask, Items!AppTasks,
         ItemsFacts!BlockedElsewhere, Elsewhere

(* os_semaphore_wait on available_spaces.                                  *)
LEMMA WaitSpacesEffect ==
  ASSUME LayerInv, Spaces!SemaphoreSound, NEW t \in AppTasks, NEW result,
         Spaces!os_semaphore_wait(t, result)
  PROVE  /\ LayerInv' /\ Spaces!SemaphoreSound' /\ Elsewhere(t, {})
         /\ available_spaces'.maximum_count = available_spaces.maximum_count
         /\ \/ /\ result = "OK" /\ UNCHANGED layerVars
               /\ Units(available_spaces)' = Units(available_spaces) - 1
               /\ available_spaces'.waiting = available_spaces.waiting
               /\ available_spaces'.granted = available_spaces.granted \ {t}
            \/ /\ result = "BLOCKED"
               /\ Units(available_spaces)' = Units(available_spaces)
               /\ available_spaces'.waiting = available_spaces.waiting \cup {t}
               /\ available_spaces'.granted = available_spaces.granted
            \/ /\ result = "INTERRUPTS_DISABLED"
               /\ t \notin available_spaces.waiting \cup available_spaces.granted
               /\ UNCHANGED <<available_spaces, layerVars>>
<1>1. SpacesFacts!LayerInv /\ t \in SpacesFacts!AppTasks
  BY DEF SpacesFacts!LayerInv, LayerInv, SpacesFacts!LayerTypeOK, LayerTypeOK,
         SpacesFacts!OneRunning, OneRunning, SpacesFacts!layerVars, layerVars,
         SpacesFacts!Tasks, Tasks, SpacesFacts!TaskStates, TaskStates,
         SpacesFacts!IdleTask, IdleTask, SpacesFacts!AppTasks, AppTasks,
         SpacesFacts!NoTask, NoTask
<1>2. SpacesFacts!SemaphoreSound
  BY DEF SpacesFacts!SemaphoreSound, Spaces!SemaphoreSound,
         SpacesFacts!SemaphoreType, Spaces!SemaphoreType, SpacesFacts!Tasks,
         Spaces!Tasks, SpacesFacts!IdleTask, Spaces!IdleTask,
         SpacesFacts!AppTasks, Spaces!AppTasks
<1>3. SpacesFacts!os_semaphore_wait(t, result)
  BY DEF SpacesFacts!os_semaphore_wait, Spaces!os_semaphore_wait,
         SpacesFacts!wait_granted, Spaces!wait_granted,
         SpacesFacts!wait_take_unit, Spaces!wait_take_unit,
         SpacesFacts!wait_masked, Spaces!wait_masked, SpacesFacts!wait_block,
         Spaces!wait_block, SpacesFacts!NothingFor, Spaces!NothingFor,
         SpacesFacts!Executing, Spaces!Executing, SpacesFacts!CanBlock,
         Spaces!CanBlock, SpacesFacts!task_block, Spaces!task_block,
         SpacesFacts!os_trigger_context_switch,
         Spaces!os_trigger_context_switch, SpacesFacts!layerVars,
         Spaces!layerVars, SpacesFacts!IdleTask, Spaces!IdleTask
<1>4. SpacesFacts!FreeUnits = Units(available_spaces) /\ SpacesFacts!FreeUnits' = Units(available_spaces)'
  BY DEF SpacesFacts!FreeUnits, Units, SpacesFacts!Cardinality, Cardinality
<1> QED
  BY <1>1, <1>2, <1>3, <1>4, SpacesFacts!WaitEffect, NumTasksAssumption
     DEF SpacesFacts!LayerInv, LayerInv, SpacesFacts!LayerTypeOK, LayerTypeOK,
         SpacesFacts!OneRunning, OneRunning, SpacesFacts!layerVars, layerVars,
         SpacesFacts!Tasks, Tasks, SpacesFacts!TaskStates, TaskStates,
         SpacesFacts!IdleTask, IdleTask, SpacesFacts!AppTasks, AppTasks,
         SpacesFacts!NoTask, NoTask, SpacesFacts!SemaphoreSound,
         Spaces!SemaphoreSound, SpacesFacts!SemaphoreType, Spaces!SemaphoreType,
         Spaces!Tasks, Spaces!IdleTask, Spaces!AppTasks,
         SpacesFacts!BlockedElsewhere, Elsewhere

(* os_semaphore_post on available_spaces.                                  *)
LEMMA PostSpacesEffect ==
  ASSUME LayerInv, Spaces!SemaphoreSound, NEW t \in AppTasks, NEW result,
         Spaces!os_semaphore_post(t, result)
  PROVE  /\ LayerInv' /\ Spaces!SemaphoreSound'
         /\ Elsewhere(t, available_spaces.waiting)
         /\ available_spaces'.maximum_count = available_spaces.maximum_count
         /\ available_spaces'.waiting \subseteq available_spaces.waiting
         /\ available_spaces'.granted \cup available_spaces'.waiting
              = available_spaces.granted \cup available_spaces.waiting
         /\ \/ /\ result = "OK"
               /\ Units(available_spaces)' = Units(available_spaces) + 1
            \/ /\ result = "OVERFLOW"
               /\ available_spaces.count >= available_spaces.maximum_count
               /\ UNCHANGED available_spaces
<1>1. SpacesFacts!LayerInv /\ t \in SpacesFacts!AppTasks
  BY DEF SpacesFacts!LayerInv, LayerInv, SpacesFacts!LayerTypeOK, LayerTypeOK,
         SpacesFacts!OneRunning, OneRunning, SpacesFacts!layerVars, layerVars,
         SpacesFacts!Tasks, Tasks, SpacesFacts!TaskStates, TaskStates,
         SpacesFacts!IdleTask, IdleTask, SpacesFacts!AppTasks, AppTasks,
         SpacesFacts!NoTask, NoTask
<1>2. SpacesFacts!SemaphoreSound
  BY DEF SpacesFacts!SemaphoreSound, Spaces!SemaphoreSound,
         SpacesFacts!SemaphoreType, Spaces!SemaphoreType, SpacesFacts!Tasks,
         Spaces!Tasks, SpacesFacts!IdleTask, Spaces!IdleTask,
         SpacesFacts!AppTasks, Spaces!AppTasks
<1>3. SpacesFacts!os_semaphore_post(t, result)
  BY DEF SpacesFacts!os_semaphore_post, Spaces!os_semaphore_post,
         SpacesFacts!post_grant, Spaces!post_grant, SpacesFacts!post_overflow,
         Spaces!post_overflow, SpacesFacts!post_unit, Spaces!post_unit,
         SpacesFacts!Full, Spaces!Full, SpacesFacts!Searched, Spaces!Searched,
         SpacesFacts!semaphore_find_next_waiting_task,
         Spaces!semaphore_find_next_waiting_task, SpacesFacts!Executing,
         Spaces!Executing, SpacesFacts!task_unblock, Spaces!task_unblock,
         SpacesFacts!layerVars, Spaces!layerVars, SpacesFacts!IdleTask,
         Spaces!IdleTask, SpacesFacts!NoTask, Spaces!NoTask,
         SpacesFacts!FirstBlocked, Spaces!FirstBlocked,
         SpacesFacts!WithoutStale, Spaces!WithoutStale,
         SpacesFacts!BlockedAmong, Spaces!BlockedAmong,
         SpacesFacts!CyclicOffset, Spaces!CyclicOffset
<1>4. SpacesFacts!FreeUnits = Units(available_spaces) /\ SpacesFacts!FreeUnits' = Units(available_spaces)'
  BY DEF SpacesFacts!FreeUnits, Units, SpacesFacts!Cardinality, Cardinality
<1> QED
  BY <1>1, <1>2, <1>3, <1>4, SpacesFacts!PostEffect, NumTasksAssumption
     DEF SpacesFacts!LayerInv, LayerInv, SpacesFacts!LayerTypeOK, LayerTypeOK,
         SpacesFacts!OneRunning, OneRunning, SpacesFacts!layerVars, layerVars,
         SpacesFacts!Tasks, Tasks, SpacesFacts!TaskStates, TaskStates,
         SpacesFacts!IdleTask, IdleTask, SpacesFacts!AppTasks, AppTasks,
         SpacesFacts!NoTask, NoTask, SpacesFacts!SemaphoreSound,
         Spaces!SemaphoreSound, SpacesFacts!SemaphoreType, Spaces!SemaphoreType,
         Spaces!Tasks, Spaces!IdleTask, Spaces!AppTasks,
         SpacesFacts!BlockedElsewhere, Elsewhere

-----------------------------------------------------------------------------
(* A call of t on one object leaves the others sound: it changes the state *)
(* of t and of tasks in W only, and none of them waits for the others.     *)
LEMMA AccessKeeps ==
  ASSUME Access!MutexSound, UNCHANGED access_mutex, NEW t, NEW W, Elsewhere(t, W),
         \A u \in access_mutex.waiting : u # t /\ u \notin W
  PROVE  Access!MutexSound'
<1>1. access_mutex.waiting \subseteq AppTasks
  BY DEF Access!MutexSound, Access!AppTasks, AppTasks, Access!Tasks, Tasks,
         Access!IdleTask, IdleTask
<1> QED
  BY <1>1 DEF Access!MutexSound, Elsewhere

LEMMA ItemsKeep ==
  ASSUME Items!SemaphoreSound, UNCHANGED available_items, NEW t, NEW W, Elsewhere(t, W),
         \A u \in available_items.waiting \cup available_items.granted : u # t /\ u \notin W
  PROVE  Items!SemaphoreSound'
<1>1. available_items.waiting \cup available_items.granted \subseteq AppTasks
  BY DEF Items!SemaphoreSound, Items!AppTasks, AppTasks, Items!Tasks, Tasks,
         Items!IdleTask, IdleTask
<1> QED
  BY <1>1 DEF Items!SemaphoreSound, Elsewhere

LEMMA SpacesKeep ==
  ASSUME Spaces!SemaphoreSound, UNCHANGED available_spaces, NEW t, NEW W, Elsewhere(t, W),
         \A u \in available_spaces.waiting \cup available_spaces.granted : u # t /\ u \notin W
  PROVE  Spaces!SemaphoreSound'
<1>1. available_spaces.waiting \cup available_spaces.granted \subseteq AppTasks
  BY DEF Spaces!SemaphoreSound, Spaces!AppTasks, AppTasks, Spaces!Tasks, Tasks,
         Spaces!IdleTask, IdleTask
<1> QED
  BY <1>1 DEF Spaces!SemaphoreSound, Elsewhere

-----------------------------------------------------------------------------
(* Counting the calls under way.                                           *)
LEMMA OneMoves ==
  ASSUME NEW S \in SUBSET AppTasks, NEW T \in SUBSET AppTasks, NEW t \in AppTasks,
         \A u \in AppTasks \ {t} : u \in S <=> u \in T
  PROVE  /\ Cardinality(S) \in Nat /\ Cardinality(T) \in Nat
         /\ t \in S => Cardinality(S) >= 1
         /\ Cardinality(T) + (IF t \in S THEN 1 ELSE 0)
              = Cardinality(S) + (IF t \in T THEN 1 ELSE 0)
<1>1. /\ IsFiniteSet(S) /\ Cardinality(S) \in Nat
      /\ IsFiniteSet(T) /\ Cardinality(T) \in Nat
      /\ Cardinality(S \ {t}) \in Nat
  BY TaskSetsFinite
<1>2. S \ {t} = T \ {t}
  OBVIOUS
<1>3. Cardinality(S \ {t}) = IF t \in S THEN Cardinality(S) - 1 ELSE Cardinality(S)
  BY <1>1, FS_RemoveElement
<1>4. Cardinality(T \ {t}) = IF t \in T THEN Cardinality(T) - 1 ELSE Cardinality(T)
  BY <1>1, FS_RemoveElement
<1> DEFINE s == Cardinality(S)
           r == Cardinality(T)
           d == Cardinality(S \ {t})
<1>5. /\ s \in Nat /\ r \in Nat /\ d \in Nat
      /\ d = IF t \in S THEN s - 1 ELSE s
      /\ d = IF t \in T THEN r - 1 ELSE r
  BY <1>1, <1>2, <1>3, <1>4
<1> HIDE DEF s, r, d
<1>6. /\ t \in S => s >= 1
      /\ r + (IF t \in S THEN 1 ELSE 0) = s + (IF t \in T THEN 1 ELSE 0)
  BY <1>5
<1> QED
  BY <1>5, <1>6 DEF s, r

IsBefore(t, c) == call[t] = c /\ step[t] \in {"lock", "copy", "advance", "give_back"}
IsAfter(t, c)  == call[t] = c /\ step[t] \in {"unlock", "post"}

LEMMA CallsCount ==
  ASSUME NEW t \in AppTasks, NEW c,
         \A u \in AppTasks \ {t} : call'[u] = call[u] /\ step'[u] = step[u]
  PROVE  /\ Before(c) \in Nat /\ Before(c)' \in Nat
         /\ After(c) \in Nat /\ After(c)' \in Nat
         /\ IsBefore(t, c) => Before(c) >= 1
         /\ IsAfter(t, c) => After(c) >= 1
         /\ Before(c)' + (IF IsBefore(t, c) THEN 1 ELSE 0)
              = Before(c) + (IF IsBefore(t, c)' THEN 1 ELSE 0)
         /\ After(c)' + (IF IsAfter(t, c) THEN 1 ELSE 0)
              = After(c) + (IF IsAfter(t, c)' THEN 1 ELSE 0)
<1> DEFINE B == {u \in AppTasks : IsBefore(u, c)}
           A == {u \in AppTasks : IsAfter(u, c)}
<1>1. Before(c) = Cardinality(B) /\ After(c) = Cardinality(A)
  BY DEF Before, After, IsBefore, IsAfter
<1>2. Before(c)' = Cardinality(B') /\ After(c)' = Cardinality(A')
  BY DEF Before, After, IsBefore, IsAfter
<1>3. \A u \in AppTasks \ {t} : (u \in B <=> u \in B') /\ (u \in A <=> u \in A')
  BY DEF IsBefore, IsAfter
<1>4. /\ B \in SUBSET AppTasks /\ B' \in SUBSET AppTasks
      /\ A \in SUBSET AppTasks /\ A' \in SUBSET AppTasks
      /\ t \in B <=> IsBefore(t, c)
      /\ t \in B' <=> IsBefore(t, c)'
      /\ t \in A <=> IsAfter(t, c)
      /\ t \in A' <=> IsAfter(t, c)'
  OBVIOUS
<1> HIDE DEF A, B
<1>5. /\ Cardinality(B) \in Nat /\ Cardinality(B') \in Nat
      /\ t \in B => Cardinality(B) >= 1
      /\ Cardinality(B') + (IF t \in B THEN 1 ELSE 0)
           = Cardinality(B) + (IF t \in B' THEN 1 ELSE 0)
  BY <1>3, <1>4, OneMoves
<1>6. /\ Cardinality(A) \in Nat /\ Cardinality(A') \in Nat
      /\ t \in A => Cardinality(A) >= 1
      /\ Cardinality(A') + (IF t \in A THEN 1 ELSE 0)
           = Cardinality(A) + (IF t \in A' THEN 1 ELSE 0)
  BY <1>3, <1>4, OneMoves
<1> QED
  BY <1>1, <1>2, <1>4, <1>5, <1>6

(* Where nobody is in the middle of a call, nothing is counted.            *)
LEMMA NoCalls ==
  ASSUME \A t \in AppTasks : step[t] \in {"run", "wait"}
  PROVE  \A c : Before(c) = 0 /\ After(c) = 0
<1>1. ASSUME NEW c
      PROVE  /\ {t \in AppTasks : call[t] = c
                   /\ step[t] \in {"lock", "copy", "advance", "give_back"}} = {}
             /\ {t \in AppTasks : call[t] = c /\ step[t] \in {"unlock", "post"}} = {}
  OBVIOUS
<1> QED
  BY <1>1, FS_EmptySet DEF Before, After

-----------------------------------------------------------------------------
(* The ring, with the wrap of the index written out.                       *)
LEMMA SlotAt ==
  ASSUME NEW h \in Slots, NEW i \in 0 .. Capacity
  PROVE  /\ (h + i) % Capacity = IF h + i < Capacity THEN h + i ELSE h + i - Capacity
         /\ (h + i) % Capacity \in Slots
<1> USE QueueAssumption DEF Slots
<1>1. CASE h + i < Capacity
  BY <1>1
<1>2. CASE h + i >= Capacity
  <2>1. /\ h + i = (h + i - Capacity) + Capacity
        /\ h + i - Capacity \in 0 .. Capacity - 1
    BY <1>2
  <2> DEFINE r == h + i - Capacity
  <2>2. r \in 0 .. Capacity - 1 => (r + Capacity) % Capacity = r
    OBVIOUS
  <2> QED
    BY <1>2, <2>1, <2>2
<1> QED
  BY <1>1, <1>2

LEMMA NextIsSlot ==
  ASSUME NEW h \in Slots
  PROVE  /\ NextSlot(h) \in Slots
         /\ NextSlot(h) = IF h + 1 < Capacity THEN h + 1 ELSE 0
BY QueueAssumption DEF NextSlot, Slots

LEMMA RingModulo ==
  ASSUME NEW h \in Slots, NEW l \in Slots, NEW n \in 0 .. Capacity,
         l = h + n \/ l = h + n - Capacity
  PROVE  (l - h - n) % Capacity = 0
<1> USE QueueAssumption DEF Slots
<1>1. CASE l = h + n
  BY <1>1
<1>2. CASE l = h + n - Capacity
  <2>1. l - h - n = -Capacity
    BY <1>2
  <2>2. (-Capacity) % Capacity = 0
    OBVIOUS
  <2> QED
    BY <2>1, <2>2
<1> QED
  BY <1>1, <1>2

-----------------------------------------------------------------------------
(* The step of a task in its call, and what it leaves alone.               *)
LEMMA CallRuns ==
  ASSUME LayerInv, NEW t \in AppTasks, Executing(t)
  PROVE  t \in Tasks /\ task_state[t] = "RUNNING"
BY DEF LayerInv, LayerTypeOK, OneRunning, Executing, AppTasks

LEMMA GotoMoves ==
  ASSUME QTypeOK, NEW t \in AppTasks, NEW s \in Steps, Goto(t, s)
  PROVE  /\ step' \in [AppTasks -> Steps] /\ step'[t] = s
         /\ \A u \in AppTasks \ {t} : step'[u] = step[u]
         /\ call' = call /\ status' = status
BY DEF QTypeOK, Goto

LEMMA ReturnMoves ==
  ASSUME QTypeOK, NEW t \in AppTasks, NEW r \in {"OK", "SYNC_OPERATION"},
         ReturnStatus(t, r)
  PROVE  /\ step' \in [AppTasks -> Steps] /\ step'[t] = "run"
         /\ \A u \in AppTasks \ {t} : step'[u] = step[u]
         /\ call' = call
         /\ status' \in [AppTasks -> {"OK", "SYNC_OPERATION"}]
BY DEF QTypeOK, ReturnStatus, Steps

(* A step that leaves the ring and the buffers alone keeps what they hold. *)
LEMMA RingStays ==
  ASSUME RingAgrees, NEW t \in AppTasks, UNCHANGED <<ringVars, message, call>>,
         \A u \in AppTasks \ {t} : step'[u] = step[u],
         call[t] = "send" /\ step'[t] # "run" => step[t] # "run",
         LET early == {"wait", "lock", "copy", "give_back"}
         IN  call[t] = "receive" /\ step'[t] \in early => step[t] \in early,
         call[t] = "receive" /\ step'[t] = "advance" => step[t] = "advance"
  PROVE  RingAgrees'
BY DEF RingAgrees, ringVars

LEMMA RingTypes ==
  ASSUME QTypeOK, UNCHANGED <<ringVars, message, call>>
  PROVE  /\ storage' \in [Slots -> Messages \cup {Garbage}]
         /\ head' \in Slots /\ tail' \in Slots /\ stored' \in 0 .. Capacity
         /\ call' \in [AppTasks -> Calls]
         /\ message' \in [AppTasks -> Messages \cup {Garbage}]
BY DEF QTypeOK, ringVars

(* A receiver takes its unit of available_items, waits for it, or gives up. *)
LEMMA ReceiveWaits ==
  ASSUME QueueInv, NEW t \in AppTasks, NEW result, step[t] = "wait",
         call[t] = "receive", WaitItems(t, result),
         \/ result = "BLOCKED" /\ Goto(t, "wait")
         \/ result = "OK"      /\ Goto(t, "lock")
         \/ result \notin {"BLOCKED", "OK"} /\ ReturnStatus(t, "SYNC_OPERATION"),
         UNCHANGED <<ringVars, access_mutex, message>>
  PROVE  QueueInv'
<1>1. /\ LayerInv /\ QTypeOK /\ Access!MutexSound
      /\ Items!SemaphoreSound /\ Spaces!SemaphoreSound
      /\ PlacesAgree /\ SlotsAccounted /\ RingAgrees
  BY DEF QueueInv
<1>2. /\ Items!os_semaphore_wait(t, result) /\ UNCHANGED available_spaces
      /\ Executing(t)
  BY DEF WaitItems, Items!os_semaphore_wait, Items!Executing, Executing
<1>3. /\ LayerInv' /\ Items!SemaphoreSound' /\ Elsewhere(t, {})
      /\ available_items'.maximum_count = available_items.maximum_count
  BY <1>1, <1>2, WaitItemsEffect
<1>4. \/ /\ result = "OK" /\ UNCHANGED layerVars
         /\ Units(available_items)' = Units(available_items) - 1
         /\ available_items'.waiting = available_items.waiting
         /\ available_items'.granted = available_items.granted \ {t}
      \/ /\ result = "BLOCKED"
         /\ Units(available_items)' = Units(available_items)
         /\ available_items'.waiting = available_items.waiting \cup {t}
         /\ available_items'.granted = available_items.granted
      \/ /\ result = "INTERRUPTS_DISABLED"
         /\ t \notin available_items.waiting \cup available_items.granted
         /\ UNCHANGED <<available_items, layerVars>>
  BY <1>1, <1>2, WaitItemsEffect
<1>5. t \notin available_items.waiting
  BY <1>1, <1>2, CallRuns DEF Items!SemaphoreSound
<1>6. /\ t \notin access_mutex.waiting /\ access_mutex.owner_task_id # t
      /\ t \notin available_spaces.waiting \cup available_spaces.granted
  BY <1>1 DEF PlacesAgree
<1>7. Access!MutexSound' /\ Spaces!SemaphoreSound'
  BY <1>1, <1>2, <1>3, <1>6, AccessKeeps, SpacesKeep
<1>8. /\ step' \in [AppTasks -> Steps]
      /\ \A u \in AppTasks \ {t} : step'[u] = step[u]
      /\ call' = call
      /\ status' \in [AppTasks -> {"OK", "SYNC_OPERATION"}]
      /\ step'[t] = CASE result = "OK" -> "lock" [] result = "BLOCKED" -> "wait"
                      [] OTHER -> "run"
  BY <1>1, GotoMoves, ReturnMoves DEF QTypeOK, Steps
<1>9. QTypeOK'
  BY <1>1, <1>3, <1>7, <1>8, RingTypes
     DEF QTypeOK, LayerInv, Access!MutexSound, Items!SemaphoreSound, Spaces!SemaphoreSound
<1>10. PlacesAgree'
  <2> SUFFICES ASSUME NEW u \in AppTasks
               PROVE  /\ u \in access_mutex.waiting => step'[u] = "lock"
                      /\ access_mutex.owner_task_id = u /\ u \notin access_mutex.waiting
                           <=> step'[u] \in {"copy", "advance", "unlock"}
                      /\ u \in available_items'.waiting \cup available_items'.granted =>
                           step'[u] = "wait" /\ call[u] = "receive"
                      /\ u \in available_spaces.waiting \cup available_spaces.granted =>
                           step'[u] = "wait" /\ call[u] = "send"
    BY <1>2, <1>8 DEF PlacesAgree
  <2>1. CASE u = t
    BY <1>4, <1>5, <1>6, <1>8, <2>1
  <2>2. CASE u # t
    BY <1>1, <1>4, <1>8, <2>2 DEF PlacesAgree
  <2> QED
    BY <2>1, <2>2
<1>11. SlotsAccounted'
  <2>1. /\ \A c : ~IsBefore(t, c) /\ ~IsAfter(t, c) /\ ~IsAfter(t, c)'
        /\ ~IsBefore(t, "send")'
        /\ IsBefore(t, "receive")' <=> result = "OK"
    BY <1>8 DEF IsBefore, IsAfter
  <2>2. /\ Before("send")' = Before("send") /\ Before("send") \in Nat
        /\ After("send")' = After("send") /\ After("send") \in Nat
        /\ Before("receive") \in Nat /\ After("receive") \in Nat
        /\ After("receive")' = After("receive")
    BY <1>8, <2>1, CallsCount
  <2>3. Before("receive")' = Before("receive") + IF result = "OK" THEN 1 ELSE 0
    BY <1>8, <2>1, <2>2, CallsCount
  <2>4. /\ stored \in Nat /\ Capacity \in Nat
        /\ Units(available_items) \in Int
    BY <1>1, <2>2, QueueAssumption DEF QTypeOK, SlotsAccounted
  <2>5. Units(available_items)' = Units(available_items) - IF result = "OK" THEN 1 ELSE 0
    <3>1. result # "OK" => Units(available_items)' = Units(available_items)
      BY <1>4
    <3> QED
      BY <1>4, <2>4, <3>1
  <2>6. Units(available_spaces)' = Units(available_spaces)
    BY <1>2
  <2> QED
    BY <1>1, <2>2, <2>3, <2>4, <2>5, <2>6 DEF SlotsAccounted, ringVars
<1>12. RingAgrees'
  BY <1>1, <1>8, RingStays
<1> QED
  BY <1>1, <1>2, <1>3, <1>7, <1>9, <1>10, <1>11, <1>12 DEF QueueInv

(* A sender takes its unit of available_spaces, waits for it, or gives up. *)
LEMMA SendWaits ==
  ASSUME QueueInv, NEW t \in AppTasks, NEW result, step[t] = "wait",
         call[t] = "send", WaitSpaces(t, result),
         \/ result = "BLOCKED" /\ Goto(t, "wait")
         \/ result = "OK"      /\ Goto(t, "lock")
         \/ result \notin {"BLOCKED", "OK"} /\ ReturnStatus(t, "SYNC_OPERATION"),
         UNCHANGED <<ringVars, access_mutex, message>>
  PROVE  QueueInv'
<1>1. /\ LayerInv /\ QTypeOK /\ Access!MutexSound
      /\ Spaces!SemaphoreSound /\ Items!SemaphoreSound
      /\ PlacesAgree /\ SlotsAccounted /\ RingAgrees
  BY DEF QueueInv
<1>2. /\ Spaces!os_semaphore_wait(t, result) /\ UNCHANGED available_items
      /\ Executing(t)
  BY DEF WaitSpaces, Spaces!os_semaphore_wait, Spaces!Executing, Executing
<1>3. /\ LayerInv' /\ Spaces!SemaphoreSound' /\ Elsewhere(t, {})
      /\ available_spaces'.maximum_count = available_spaces.maximum_count
  BY <1>1, <1>2, WaitSpacesEffect
<1>4. \/ /\ result = "OK" /\ UNCHANGED layerVars
         /\ Units(available_spaces)' = Units(available_spaces) - 1
         /\ available_spaces'.waiting = available_spaces.waiting
         /\ available_spaces'.granted = available_spaces.granted \ {t}
      \/ /\ result = "BLOCKED"
         /\ Units(available_spaces)' = Units(available_spaces)
         /\ available_spaces'.waiting = available_spaces.waiting \cup {t}
         /\ available_spaces'.granted = available_spaces.granted
      \/ /\ result = "INTERRUPTS_DISABLED"
         /\ t \notin available_spaces.waiting \cup available_spaces.granted
         /\ UNCHANGED <<available_spaces, layerVars>>
  BY <1>1, <1>2, WaitSpacesEffect
<1>5. t \notin available_spaces.waiting
  BY <1>1, <1>2, CallRuns DEF Spaces!SemaphoreSound
<1>6. /\ t \notin access_mutex.waiting /\ access_mutex.owner_task_id # t
      /\ t \notin available_items.waiting \cup available_items.granted
  BY <1>1 DEF PlacesAgree
<1>7. Access!MutexSound' /\ Items!SemaphoreSound'
  BY <1>1, <1>2, <1>3, <1>6, AccessKeeps, ItemsKeep
<1>8. /\ step' \in [AppTasks -> Steps]
      /\ \A u \in AppTasks \ {t} : step'[u] = step[u]
      /\ call' = call
      /\ status' \in [AppTasks -> {"OK", "SYNC_OPERATION"}]
      /\ step'[t] = CASE result = "OK" -> "lock" [] result = "BLOCKED" -> "wait"
                      [] OTHER -> "run"
  BY <1>1, GotoMoves, ReturnMoves DEF QTypeOK, Steps
<1>9. QTypeOK'
  BY <1>1, <1>3, <1>7, <1>8, RingTypes
     DEF QTypeOK, LayerInv, Access!MutexSound, Spaces!SemaphoreSound, Items!SemaphoreSound
<1>10. PlacesAgree'
  <2> SUFFICES ASSUME NEW u \in AppTasks
               PROVE  /\ u \in access_mutex.waiting => step'[u] = "lock"
                      /\ access_mutex.owner_task_id = u /\ u \notin access_mutex.waiting
                           <=> step'[u] \in {"copy", "advance", "unlock"}
                      /\ u \in available_spaces'.waiting \cup available_spaces'.granted =>
                           step'[u] = "wait" /\ call[u] = "send"
                      /\ u \in available_items.waiting \cup available_items.granted =>
                           step'[u] = "wait" /\ call[u] = "receive"
    BY <1>2, <1>8 DEF PlacesAgree
  <2>1. CASE u = t
    BY <1>4, <1>5, <1>6, <1>8, <2>1
  <2>2. CASE u # t
    BY <1>1, <1>4, <1>8, <2>2 DEF PlacesAgree
  <2> QED
    BY <2>1, <2>2
<1>11. SlotsAccounted'
  <2>1. /\ \A c : ~IsBefore(t, c) /\ ~IsAfter(t, c) /\ ~IsAfter(t, c)'
        /\ ~IsBefore(t, "receive")'
        /\ IsBefore(t, "send")' <=> result = "OK"
    BY <1>8 DEF IsBefore, IsAfter
  <2>2. /\ Before("receive")' = Before("receive") /\ Before("receive") \in Nat
        /\ After("receive")' = After("receive") /\ After("receive") \in Nat
        /\ Before("send") \in Nat /\ After("send") \in Nat
        /\ After("send")' = After("send")
    BY <1>8, <2>1, CallsCount
  <2>3. Before("send")' = Before("send") + IF result = "OK" THEN 1 ELSE 0
    BY <1>8, <2>1, <2>2, CallsCount
  <2>4. /\ stored \in Nat /\ Capacity \in Nat
        /\ Units(available_spaces) \in Int
    BY <1>1, <2>2, QueueAssumption DEF QTypeOK, SlotsAccounted
  <2>5. Units(available_spaces)' = Units(available_spaces) - IF result = "OK" THEN 1 ELSE 0
    <3>1. result # "OK" => Units(available_spaces)' = Units(available_spaces)
      BY <1>4
    <3> QED
      BY <1>4, <2>4, <3>1
  <2>6. Units(available_items)' = Units(available_items)
    BY <1>2
  <2> QED
    BY <1>1, <2>2, <2>3, <2>4, <2>5, <2>6 DEF SlotsAccounted, ringVars
<1>12. RingAgrees'
  BY <1>1, <1>8, RingStays
<1> QED
  BY <1>1, <1>2, <1>3, <1>7, <1>9, <1>10, <1>11, <1>12 DEF QueueInv

LEMMA WaitUnitKeeps ==
  ASSUME QueueInv, NEW t \in AppTasks, WaitUnit(t)
  PROVE  QueueInv'
<1>1. PICK result \in Items!WaitResults :
        /\ \/ call[t] = "send"    /\ WaitSpaces(t, result)
           \/ call[t] = "receive" /\ WaitItems(t, result)
        /\ \/ result = "BLOCKED" /\ Goto(t, "wait")
           \/ result = "OK"      /\ Goto(t, "lock")
           \/ result \notin {"BLOCKED", "OK"} /\ ReturnStatus(t, "SYNC_OPERATION")
  BY DEF WaitUnit
<1>2. step[t] = "wait" /\ UNCHANGED <<ringVars, access_mutex, message>>
  BY DEF WaitUnit
<1> QED
  BY <1>1, <1>2, SendWaits, ReceiveWaits

(* Units are free or reserved; what the counts say bounds them.            *)
LEMMA UnitsBound ==
  ASSUME QueueInv
  PROVE  /\ Units(available_items) \in Nat /\ available_items.count \in Nat
         /\ available_items.count <= Units(available_items)
         /\ Units(available_spaces) \in Nat /\ available_spaces.count \in Nat
         /\ available_spaces.count <= Units(available_spaces)
<1>1. /\ available_items.count \in Nat
      /\ available_items.granted \in SUBSET AppTasks
  BY DEF QueueInv, Items!SemaphoreSound, Items!SemaphoreType, Items!AppTasks, AppTasks,
         Items!Tasks, Tasks, Items!IdleTask, IdleTask
<1>2. /\ available_spaces.count \in Nat
      /\ available_spaces.granted \in SUBSET AppTasks
  BY DEF QueueInv, Spaces!SemaphoreSound, Spaces!SemaphoreType, Spaces!AppTasks, AppTasks,
         Spaces!Tasks, Tasks, Spaces!IdleTask, IdleTask
<1>3. /\ Cardinality(available_items.granted) \in Nat
      /\ Cardinality(available_spaces.granted) \in Nat
  BY <1>1, <1>2, TaskSetsFinite
<1> QED
  BY <1>1, <1>2, <1>3 DEF Units

(* A call behind its unit finds a slot, or a message, and the post of the  *)
(* other unit finds room.                                                  *)
LEMMA RoomBehindUnit ==
  ASSUME QueueInv, NEW t \in AppTasks
  PROVE  /\ stored \in 0 .. Capacity /\ Capacity \in Nat \ {0}
         /\ IsBefore(t, "send") => stored < Capacity
         /\ IsBefore(t, "receive") => stored >= 1
         /\ IsBefore(t, "receive") \/ IsAfter(t, "send")
              => Units(available_items) < Capacity
         /\ IsBefore(t, "send") \/ IsAfter(t, "receive")
              => Units(available_spaces) < Capacity
<1>1. \A c : /\ IsBefore(t, c) => Before(c) >= 1
             /\ IsAfter(t, c) => After(c) >= 1
             /\ Before(c) \in Nat /\ After(c) \in Nat
  <2> SUFFICES ASSUME NEW c
               PROVE  /\ IsBefore(t, c) => Before(c) >= 1
                      /\ IsAfter(t, c) => After(c) >= 1
                      /\ Before(c) \in Nat /\ After(c) \in Nat
    OBVIOUS
  <2> DEFINE B == {u \in AppTasks : IsBefore(u, c)}
             A == {u \in AppTasks : IsAfter(u, c)}
  <2>1. Before(c) = Cardinality(B) /\ After(c) = Cardinality(A)
    BY DEF Before, After, IsBefore, IsAfter
  <2>2. /\ B \in SUBSET AppTasks /\ A \in SUBSET AppTasks
        /\ t \in B <=> IsBefore(t, c)
        /\ t \in A <=> IsAfter(t, c)
    OBVIOUS
  <2> HIDE DEF A, B
  <2> QED
    BY <2>1, <2>2, OneMoves
<1>2. SlotsAccounted /\ stored \in 0 .. Capacity /\ Capacity \in Nat \ {0}
  BY QueueAssumption DEF QueueInv, QTypeOK
<1>3. Units(available_items) \in Nat /\ Units(available_spaces) \in Nat
  BY UnitsBound
<1> QED
  BY <1>1, <1>2, <1>3 DEF SlotsAccounted

(* os_mutex_lock on the way in: the caller owns the mutex, waits for it, or *)
(* gives its unit back.                                                    *)
LEMMA LockKeeps ==
  ASSUME QueueInv, NEW t \in AppTasks, Lock(t)
  PROVE  QueueInv'
<1>1. /\ LayerInv /\ QTypeOK /\ Access!MutexSound
      /\ Items!SemaphoreSound /\ Spaces!SemaphoreSound
      /\ PlacesAgree /\ SlotsAccounted /\ RingAgrees
  BY DEF QueueInv
<1>2. PICK result \in Access!LockResults :
        /\ Access!os_mutex_lock(t, result)
        /\ \/ result = "BLOCKED" /\ Goto(t, "lock")
           \/ result = "OK"      /\ Goto(t, "copy")
           \/ result \notin {"BLOCKED", "OK"} /\ Goto(t, "give_back")
  BY DEF Lock
<1>3. /\ step[t] = "lock"
      /\ UNCHANGED <<ringVars, available_items, available_spaces, message>>
  BY DEF Lock
<1>4. LayerInv' /\ Access!MutexSound' /\ Elsewhere(t, {})
  BY <1>1, <1>2, LockAccessEffect
<1>5. \/ /\ result = "OK"
         /\ \/ access_mutex.owner_task_id = NoTask
            \/ access_mutex.owner_task_id = t /\ t \in access_mutex.waiting
         /\ access_mutex'.owner_task_id = t
         /\ access_mutex'.waiting = access_mutex.waiting \ {t}
      \/ /\ result = "BLOCKED"
         /\ access_mutex.owner_task_id # t
         /\ access_mutex'.owner_task_id = access_mutex.owner_task_id
         /\ access_mutex'.waiting = access_mutex.waiting \cup {t}
      \/ /\ result = "INTERRUPTS_DISABLED"
         /\ access_mutex.owner_task_id # t /\ t \notin access_mutex.waiting
         /\ UNCHANGED access_mutex
  <2>1. access_mutex.owner_task_id # t \/ t \in access_mutex.waiting
    BY <1>1, <1>3 DEF PlacesAgree
  <2> QED
    BY <1>1, <1>2, <2>1, LockAccessEffect
<1>6. /\ t \notin available_items.waiting \cup available_items.granted
      /\ t \notin available_spaces.waiting \cup available_spaces.granted
  BY <1>1, <1>3 DEF PlacesAgree
<1>7. Items!SemaphoreSound' /\ Spaces!SemaphoreSound'
  BY <1>1, <1>3, <1>4, <1>6, ItemsKeep, SpacesKeep
<1>8. /\ step' \in [AppTasks -> Steps]
      /\ \A u \in AppTasks \ {t} : step'[u] = step[u]
      /\ call' = call /\ status' = status
      /\ step'[t] = CASE result = "OK" -> "copy" [] result = "BLOCKED" -> "lock"
                      [] OTHER -> "give_back"
  BY <1>1, <1>2, GotoMoves DEF Steps
<1>9. QTypeOK'
  BY <1>1, <1>3, <1>4, <1>7, <1>8, RingTypes
     DEF QTypeOK, LayerInv, Access!MutexSound, Items!SemaphoreSound, Spaces!SemaphoreSound
<1>10. PlacesAgree'
  <2> SUFFICES ASSUME NEW u \in AppTasks
               PROVE  /\ u \in access_mutex'.waiting => step'[u] = "lock"
                      /\ access_mutex'.owner_task_id = u /\ u \notin access_mutex'.waiting
                           <=> step'[u] \in {"copy", "advance", "unlock"}
                      /\ u \in available_items.waiting \cup available_items.granted =>
                           step'[u] = "wait" /\ call[u] = "receive"
                      /\ u \in available_spaces.waiting \cup available_spaces.granted =>
                           step'[u] = "wait" /\ call[u] = "send"
    BY <1>3, <1>8 DEF PlacesAgree
  <2>1. u # NoTask
    BY DEF AppTasks, Tasks, NoTask
  <2>2. CASE u = t
    BY <1>5, <1>6, <1>8, <2>2
  <2>3. CASE u # t
    BY <1>1, <1>5, <1>8, <2>1, <2>3 DEF PlacesAgree
  <2> QED
    BY <2>2, <2>3
<1>11. SlotsAccounted'
  <2>1. \A c : /\ IsBefore(t, c)' <=> IsBefore(t, c)
               /\ ~IsAfter(t, c) /\ ~IsAfter(t, c)'
    BY <1>3, <1>8 DEF IsBefore, IsAfter
  <2>2. \A c : Before(c)' = Before(c) /\ After(c)' = After(c)
    <3> SUFFICES ASSUME NEW c PROVE Before(c)' = Before(c) /\ After(c)' = After(c)
      OBVIOUS
    <3> QED
      BY <1>8, <2>1, CallsCount
  <2> QED
    BY <1>1, <1>3, <2>2 DEF SlotsAccounted, ringVars
<1>12. RingAgrees'
  BY <1>1, <1>3, <1>8, RingStays
<1> QED
  BY <1>1, <1>3, <1>4, <1>7, <1>9, <1>10, <1>11, <1>12 DEF QueueInv

(* A post of available_items, by a sender that has written its message or  *)
(* by a receiver that gives its unit back, succeeds.                       *)
LEMMA ItemPosted ==
  ASSUME QueueInv, NEW t \in AppTasks, NEW result, NEW r \in {"OK", "SYNC_OPERATION"},
         \/ call[t] = "send" /\ step[t] = "post"
         \/ call[t] = "receive" /\ step[t] = "give_back",
         PostItems(t, result), ReturnStatus(t, r),
         UNCHANGED <<ringVars, access_mutex, message>>
  PROVE  QueueInv' /\ result = "OK"
<1>1. /\ LayerInv /\ QTypeOK /\ Access!MutexSound
      /\ Items!SemaphoreSound /\ Spaces!SemaphoreSound
      /\ PlacesAgree /\ SlotsAccounted /\ RingAgrees
  BY DEF QueueInv
<1>2. Items!os_semaphore_post(t, result) /\ UNCHANGED available_spaces
  BY DEF PostItems
<1>3. /\ LayerInv' /\ Items!SemaphoreSound' /\ Elsewhere(t, available_items.waiting)
      /\ available_items'.maximum_count = available_items.maximum_count
      /\ available_items'.waiting \subseteq available_items.waiting
      /\ available_items'.granted
           \subseteq available_items.granted \cup available_items.waiting
  BY <1>1, <1>2, PostItemsEffect
<1>4. result = "OK" /\ Units(available_items)' = Units(available_items) + 1
  <2>1. available_items.count < available_items.maximum_count
    <3>1. IsBefore(t, "receive") \/ IsAfter(t, "send")
      BY DEF IsBefore, IsAfter
    <3> QED
      BY <3>1, RoomBehindUnit, UnitsBound DEF QueueInv
  <2>2. \/ result = "OK" /\ Units(available_items)' = Units(available_items) + 1
        \/ available_items.count >= available_items.maximum_count
    BY <1>1, <1>2, PostItemsEffect
  <2>3. available_items.count \in Nat /\ available_items.maximum_count \in Nat
    BY UnitsBound, QueueAssumption DEF QueueInv
  <2> QED
    BY <2>1, <2>2, <2>3
<1>5. /\ t \notin access_mutex.waiting /\ access_mutex.owner_task_id # t
      /\ t \notin available_items.waiting \cup available_items.granted
      /\ t \notin available_spaces.waiting \cup available_spaces.granted
  BY <1>1 DEF PlacesAgree
<1>6. /\ \A u \in access_mutex.waiting : u # t /\ u \notin available_items.waiting
      /\ \A u \in available_spaces.waiting \cup available_spaces.granted :
           u # t /\ u \notin available_items.waiting
  <2>1. available_items.waiting \subseteq AppTasks
    BY <1>1 DEF Items!SemaphoreSound, Items!AppTasks, AppTasks, Items!Tasks, Tasks,
                Items!IdleTask, IdleTask
  <2> QED
    BY <1>1, <1>5, <2>1 DEF PlacesAgree
<1>7. Access!MutexSound' /\ Spaces!SemaphoreSound'
  BY <1>1, <1>2, <1>3, <1>6, AccessKeeps, SpacesKeep
<1>8. /\ step' \in [AppTasks -> Steps] /\ step'[t] = "run"
      /\ \A u \in AppTasks \ {t} : step'[u] = step[u]
      /\ call' = call
      /\ status' \in [AppTasks -> {"OK", "SYNC_OPERATION"}]
  BY <1>1, ReturnMoves
<1>9. QTypeOK'
  BY <1>1, <1>3, <1>7, <1>8, RingTypes
     DEF QTypeOK, LayerInv, Access!MutexSound, Items!SemaphoreSound, Spaces!SemaphoreSound
<1>10. PlacesAgree'
  <2> SUFFICES ASSUME NEW u \in AppTasks
               PROVE  /\ u \in access_mutex.waiting => step'[u] = "lock"
                      /\ access_mutex.owner_task_id = u /\ u \notin access_mutex.waiting
                           <=> step'[u] \in {"copy", "advance", "unlock"}
                      /\ u \in available_items'.waiting \cup available_items'.granted =>
                           step'[u] = "wait" /\ call[u] = "receive"
                      /\ u \in available_spaces.waiting \cup available_spaces.granted =>
                           step'[u] = "wait" /\ call[u] = "send"
    BY <1>2, <1>8 DEF PlacesAgree
  <2>1. CASE u = t
    BY <1>3, <1>5, <1>8, <2>1
  <2>2. CASE u # t
    BY <1>1, <1>3, <1>8, <2>2 DEF PlacesAgree
  <2> QED
    BY <2>1, <2>2
<1>11. SlotsAccounted'
  <2>1. /\ \A c : ~IsBefore(t, c)' /\ ~IsAfter(t, c)'
        /\ ~IsBefore(t, "send") /\ ~IsAfter(t, "receive")
        /\ IsBefore(t, "receive") <=> ~IsAfter(t, "send")
    BY <1>8 DEF IsBefore, IsAfter
  <2>2. /\ Before("send")' = Before("send") /\ Before("send") \in Nat
        /\ After("receive")' = After("receive") /\ After("receive") \in Nat
    BY <1>8, <2>1, CallsCount
  <2>3. /\ Before("receive") \in Nat /\ Before("receive")' \in Nat
        /\ Before("receive")' + (IF IsBefore(t, "receive") THEN 1 ELSE 0)
             = Before("receive")
    BY <1>8, <2>1, CallsCount
  <2>4. /\ After("send") \in Nat /\ After("send")' \in Nat
        /\ After("send")' + (IF IsAfter(t, "send") THEN 1 ELSE 0) = After("send")
    BY <1>8, <2>1, CallsCount
  <2>5. /\ stored \in Nat /\ Capacity \in Nat /\ Units(available_items) \in Nat
        /\ Units(available_spaces)' = Units(available_spaces)
    BY <1>1, <1>2, UnitsBound, RoomBehindUnit
  <2>6. Before("receive")' + After("send")' + 1 = Before("receive") + After("send")
    BY <2>1, <2>3, <2>4
  <2> QED
    BY <1>1, <1>4, <2>2, <2>3, <2>4, <2>5, <2>6 DEF SlotsAccounted, ringVars
<1>12. RingAgrees'
  BY <1>1, <1>8, RingStays
<1> QED
  BY <1>1, <1>2, <1>3, <1>4, <1>7, <1>9, <1>10, <1>11, <1>12 DEF QueueInv

(* A post of available_spaces, by a receiver that has read its message or  *)
(* by a sender that gives its unit back, succeeds.                         *)
LEMMA SpacePosted ==
  ASSUME QueueInv, NEW t \in AppTasks, NEW result, NEW r \in {"OK", "SYNC_OPERATION"},
         \/ call[t] = "receive" /\ step[t] = "post"
         \/ call[t] = "send" /\ step[t] = "give_back",
         PostSpaces(t, result), ReturnStatus(t, r),
         UNCHANGED <<ringVars, access_mutex, message>>
  PROVE  QueueInv' /\ result = "OK"
<1>1. /\ LayerInv /\ QTypeOK /\ Access!MutexSound
      /\ Spaces!SemaphoreSound /\ Items!SemaphoreSound
      /\ PlacesAgree /\ SlotsAccounted /\ RingAgrees
  BY DEF QueueInv
<1>2. Spaces!os_semaphore_post(t, result) /\ UNCHANGED available_items
  BY DEF PostSpaces
<1>3. /\ LayerInv' /\ Spaces!SemaphoreSound' /\ Elsewhere(t, available_spaces.waiting)
      /\ available_spaces'.maximum_count = available_spaces.maximum_count
      /\ available_spaces'.waiting \subseteq available_spaces.waiting
      /\ available_spaces'.granted
           \subseteq available_spaces.granted \cup available_spaces.waiting
  BY <1>1, <1>2, PostSpacesEffect
<1>4. result = "OK" /\ Units(available_spaces)' = Units(available_spaces) + 1
  <2>1. available_spaces.count < available_spaces.maximum_count
    <3>1. IsBefore(t, "send") \/ IsAfter(t, "receive")
      BY DEF IsBefore, IsAfter
    <3> QED
      BY <3>1, RoomBehindUnit, UnitsBound DEF QueueInv
  <2>2. \/ result = "OK" /\ Units(available_spaces)' = Units(available_spaces) + 1
        \/ available_spaces.count >= available_spaces.maximum_count
    BY <1>1, <1>2, PostSpacesEffect
  <2>3. available_spaces.count \in Nat /\ available_spaces.maximum_count \in Nat
    BY UnitsBound, QueueAssumption DEF QueueInv
  <2> QED
    BY <2>1, <2>2, <2>3
<1>5. /\ t \notin access_mutex.waiting /\ access_mutex.owner_task_id # t
      /\ t \notin available_spaces.waiting \cup available_spaces.granted
      /\ t \notin available_items.waiting \cup available_items.granted
  BY <1>1 DEF PlacesAgree
<1>6. /\ \A u \in access_mutex.waiting : u # t /\ u \notin available_spaces.waiting
      /\ \A u \in available_items.waiting \cup available_items.granted :
           u # t /\ u \notin available_spaces.waiting
  <2>1. available_spaces.waiting \subseteq AppTasks
    BY <1>1 DEF Spaces!SemaphoreSound, Spaces!AppTasks, AppTasks, Spaces!Tasks, Tasks,
                Spaces!IdleTask, IdleTask
  <2> QED
    BY <1>1, <1>5, <2>1 DEF PlacesAgree
<1>7. Access!MutexSound' /\ Items!SemaphoreSound'
  BY <1>1, <1>2, <1>3, <1>6, AccessKeeps, ItemsKeep
<1>8. /\ step' \in [AppTasks -> Steps] /\ step'[t] = "run"
      /\ \A u \in AppTasks \ {t} : step'[u] = step[u]
      /\ call' = call
      /\ status' \in [AppTasks -> {"OK", "SYNC_OPERATION"}]
  BY <1>1, ReturnMoves
<1>9. QTypeOK'
  BY <1>1, <1>3, <1>7, <1>8, RingTypes
     DEF QTypeOK, LayerInv, Access!MutexSound, Spaces!SemaphoreSound, Items!SemaphoreSound
<1>10. PlacesAgree'
  <2> SUFFICES ASSUME NEW u \in AppTasks
               PROVE  /\ u \in access_mutex.waiting => step'[u] = "lock"
                      /\ access_mutex.owner_task_id = u /\ u \notin access_mutex.waiting
                           <=> step'[u] \in {"copy", "advance", "unlock"}
                      /\ u \in available_spaces'.waiting \cup available_spaces'.granted =>
                           step'[u] = "wait" /\ call[u] = "send"
                      /\ u \in available_items.waiting \cup available_items.granted =>
                           step'[u] = "wait" /\ call[u] = "receive"
    BY <1>2, <1>8 DEF PlacesAgree
  <2>1. CASE u = t
    BY <1>3, <1>5, <1>8, <2>1
  <2>2. CASE u # t
    BY <1>1, <1>3, <1>8, <2>2 DEF PlacesAgree
  <2> QED
    BY <2>1, <2>2
<1>11. SlotsAccounted'
  <2>1. /\ \A c : ~IsBefore(t, c)' /\ ~IsAfter(t, c)'
        /\ ~IsBefore(t, "receive") /\ ~IsAfter(t, "send")
        /\ IsBefore(t, "send") <=> ~IsAfter(t, "receive")
    BY <1>8 DEF IsBefore, IsAfter
  <2>2. /\ Before("receive")' = Before("receive") /\ Before("receive") \in Nat
        /\ After("send")' = After("send") /\ After("send") \in Nat
    BY <1>8, <2>1, CallsCount
  <2>3. /\ Before("send") \in Nat /\ Before("send")' \in Nat
        /\ Before("send")' + (IF IsBefore(t, "send") THEN 1 ELSE 0)
             = Before("send")
    BY <1>8, <2>1, CallsCount
  <2>4. /\ After("receive") \in Nat /\ After("receive")' \in Nat
        /\ After("receive")' + (IF IsAfter(t, "receive") THEN 1 ELSE 0) = After("receive")
    BY <1>8, <2>1, CallsCount
  <2>5. /\ stored \in Nat /\ Capacity \in Nat /\ Units(available_spaces) \in Nat
        /\ Units(available_items)' = Units(available_items)
    BY <1>1, <1>2, UnitsBound, RoomBehindUnit
  <2>6. Before("send")' + After("receive")' + 1 = Before("send") + After("receive")
    BY <2>1, <2>3, <2>4
  <2> QED
    BY <1>1, <1>4, <2>2, <2>3, <2>4, <2>5, <2>6 DEF SlotsAccounted, ringVars
<1>12. RingAgrees'
  BY <1>1, <1>8, RingStays
<1> QED
  BY <1>1, <1>2, <1>3, <1>4, <1>7, <1>9, <1>10, <1>11, <1>12 DEF QueueInv

LEMMA GiveBackKeeps ==
  ASSUME QueueInv, NEW t \in AppTasks, GiveBack(t)
  PROVE  QueueInv'
<1>1. PICK result \in Items!PostResults :
        \/ call[t] = "send"    /\ PostSpaces(t, result)
        \/ call[t] = "receive" /\ PostItems(t, result)
  BY DEF GiveBack
<1>2. /\ step[t] = "give_back" /\ ReturnStatus(t, "SYNC_OPERATION")
      /\ UNCHANGED <<ringVars, access_mutex, message>>
  BY DEF GiveBack
<1> QED
  BY <1>1, <1>2, ItemPosted, SpacePosted

(* The last post of a call always returns OK.                              *)
LEMMA PostUnitKeeps ==
  ASSUME QueueInv, NEW t \in AppTasks, PostUnit(t)
  PROVE  QueueInv' /\ ReturnStatus(t, "OK")
<1>1. PICK result \in Items!PostResults :
        /\ \/ call[t] = "send"    /\ PostItems(t, result)
           \/ call[t] = "receive" /\ PostSpaces(t, result)
        /\ ReturnStatus(t, IF result = "OK" THEN "OK" ELSE "SYNC_OPERATION")
  BY DEF PostUnit
<1>2. step[t] = "post" /\ UNCHANGED <<ringVars, access_mutex, message>>
  BY DEF PostUnit
<1>3. (IF result = "OK" THEN "OK" ELSE "SYNC_OPERATION") \in {"OK", "SYNC_OPERATION"}
  OBVIOUS
<1>4. QueueInv' /\ result = "OK"
  BY <1>1, <1>2, <1>3, ItemPosted, SpacePosted
<1> QED
  BY <1>1, <1>4

(* os_mutex_unlock on the way out always succeeds.                         *)
LEMMA UnlockKeeps ==
  ASSUME QueueInv, NEW t \in AppTasks, Unlock(t)
  PROVE  QueueInv' /\ Goto(t, "post")
<1>1. /\ LayerInv /\ QTypeOK /\ Access!MutexSound
      /\ Items!SemaphoreSound /\ Spaces!SemaphoreSound
      /\ PlacesAgree /\ SlotsAccounted /\ RingAgrees
  BY DEF QueueInv
<1>2. PICK result \in Access!UnlockResults :
        /\ Access!os_mutex_unlock(t, result)
        /\ IF result = "OK" THEN Goto(t, "post") ELSE ReturnStatus(t, "SYNC_OPERATION")
  BY DEF Unlock
<1>3. /\ step[t] = "unlock"
      /\ UNCHANGED <<ringVars, available_items, available_spaces, message>>
  BY DEF Unlock
<1>4. /\ t \notin access_mutex.waiting /\ access_mutex.owner_task_id = t
      /\ t \notin available_items.waiting \cup available_items.granted
      /\ t \notin available_spaces.waiting \cup available_spaces.granted
  BY <1>1, <1>3 DEF PlacesAgree
<1>5. /\ LayerInv' /\ Access!MutexSound' /\ Elsewhere(t, access_mutex.waiting)
      /\ access_mutex'.waiting = access_mutex.waiting /\ result = "OK"
      /\ \/ access_mutex'.owner_task_id = NoTask
         \/ /\ access_mutex'.owner_task_id \in access_mutex.waiting
            /\ access_mutex'.owner_task_id # t
  BY <1>1, <1>2, <1>4, UnlockAccessEffect
<1>6. \A u \in access_mutex.waiting :
        /\ u \notin available_items.waiting \cup available_items.granted
        /\ u \notin available_spaces.waiting \cup available_spaces.granted
  <2>1. access_mutex.waiting \subseteq AppTasks
    BY <1>1 DEF Access!MutexSound, Access!AppTasks, AppTasks, Access!Tasks, Tasks,
                Access!IdleTask, IdleTask
  <2> QED
    BY <1>1, <2>1 DEF PlacesAgree
<1>7. Items!SemaphoreSound' /\ Spaces!SemaphoreSound'
  BY <1>1, <1>3, <1>4, <1>5, <1>6, ItemsKeep, SpacesKeep
<1>8. /\ step' \in [AppTasks -> Steps] /\ step'[t] = "post"
      /\ \A u \in AppTasks \ {t} : step'[u] = step[u]
      /\ call' = call /\ status' = status
  BY <1>1, <1>2, <1>5, GotoMoves DEF Steps
<1>9. QTypeOK'
  BY <1>1, <1>3, <1>5, <1>7, <1>8, RingTypes
     DEF QTypeOK, LayerInv, Access!MutexSound, Items!SemaphoreSound, Spaces!SemaphoreSound
<1>10. PlacesAgree'
  <2> SUFFICES ASSUME NEW u \in AppTasks
               PROVE  /\ u \in access_mutex.waiting => step'[u] = "lock"
                      /\ access_mutex'.owner_task_id = u /\ u \notin access_mutex.waiting
                           <=> step'[u] \in {"copy", "advance", "unlock"}
                      /\ u \in available_items.waiting \cup available_items.granted =>
                           step'[u] = "wait" /\ call[u] = "receive"
                      /\ u \in available_spaces.waiting \cup available_spaces.granted =>
                           step'[u] = "wait" /\ call[u] = "send"
    BY <1>3, <1>5, <1>8 DEF PlacesAgree
  <2>1. u # NoTask
    BY DEF AppTasks, Tasks, NoTask
  <2>2. CASE u = t
    BY <1>4, <1>5, <1>8, <2>1, <2>2
  <2>3. CASE u # t
    BY <1>1, <1>4, <1>5, <1>8, <2>1, <2>3 DEF PlacesAgree
  <2> QED
    BY <2>2, <2>3
<1>11. SlotsAccounted'
  <2>1. \A c : /\ IsAfter(t, c)' <=> IsAfter(t, c)
               /\ ~IsBefore(t, c) /\ ~IsBefore(t, c)'
    BY <1>3, <1>8 DEF IsBefore, IsAfter
  <2>2. \A c : Before(c)' = Before(c) /\ After(c)' = After(c)
    <3> SUFFICES ASSUME NEW c PROVE Before(c)' = Before(c) /\ After(c)' = After(c)
      OBVIOUS
    <3> QED
      BY <1>8, <2>1, CallsCount
  <2> QED
    BY <1>1, <1>3, <2>2 DEF SlotsAccounted, ringVars
<1>12. RingAgrees'
  BY <1>1, <1>3, <1>8, RingStays
<1> QED
  BY <1>1, <1>2, <1>3, <1>5, <1>7, <1>9, <1>10, <1>11, <1>12 DEF QueueInv

-----------------------------------------------------------------------------
(* The steps on the ring.  They touch no object of another service.        *)
LEMMA ObjectsStay ==
  ASSUME QueueInv, UNCHANGED <<layerVars, syncVars>>
  PROVE  /\ LayerInv' /\ Access!MutexSound'
         /\ Items!SemaphoreSound' /\ Spaces!SemaphoreSound'
         /\ available_items'.maximum_count = Capacity
         /\ available_spaces'.maximum_count = Capacity
<1>1. /\ LayerInv /\ Access!MutexSound /\ Items!SemaphoreSound /\ Spaces!SemaphoreSound
      /\ available_items.maximum_count = Capacity
      /\ available_spaces.maximum_count = Capacity
  BY DEF QueueInv
<1>2. UNCHANGED <<task_state, current, pendsv, primask>>
  BY DEF layerVars
<1>3. UNCHANGED <<access_mutex, available_items, available_spaces>>
  BY DEF syncVars
<1>4. LayerInv'
  BY <1>1, <1>2 DEF LayerInv, LayerTypeOK, OneRunning
<1>5. Access!MutexSound'
  BY <1>1, <1>2, <1>3 DEF Access!MutexSound
<1>6. Items!SemaphoreSound'
  BY <1>1, <1>2, <1>3 DEF Items!SemaphoreSound
<1>7. Spaces!SemaphoreSound'
  BY <1>1, <1>2, <1>3 DEF Spaces!SemaphoreSound
<1> QED
  BY <1>1, <1>3, <1>4, <1>5, <1>6, <1>7

(* Places agree as long as t stays on its side of the mutex and of its     *)
(* semaphores.                                                             *)
LEMMA PlacesStay ==
  ASSUME PlacesAgree, NEW t \in AppTasks, UNCHANGED syncVars,
         \A u \in AppTasks \ {t} : step'[u] = step[u] /\ call'[u] = call[u],
         LET owning == {"copy", "advance", "unlock"}
         IN  \/ step[t] \in owning /\ step'[t] \in owning
             \/ step[t] = "run" /\ step'[t] \notin owning
  PROVE  PlacesAgree'
<1>1. UNCHANGED <<access_mutex, available_items, available_spaces>>
  BY DEF syncVars
<1>2. /\ t \notin access_mutex.waiting
      /\ t \notin available_items.waiting \cup available_items.granted
      /\ t \notin available_spaces.waiting \cup available_spaces.granted
  BY DEF PlacesAgree
<1> SUFFICES ASSUME NEW u \in AppTasks
             PROVE  /\ u \in access_mutex.waiting => step'[u] = "lock"
                    /\ access_mutex.owner_task_id = u /\ u \notin access_mutex.waiting
                         <=> step'[u] \in {"copy", "advance", "unlock"}
                    /\ u \in available_items.waiting \cup available_items.granted =>
                         step'[u] = "wait" /\ call'[u] = "receive"
                    /\ u \in available_spaces.waiting \cup available_spaces.granted =>
                         step'[u] = "wait" /\ call'[u] = "send"
  BY <1>1 DEF PlacesAgree
<1>3. CASE u = t
  BY <1>2, <1>3 DEF PlacesAgree
<1>4. CASE u # t
  BY <1>4 DEF PlacesAgree
<1> QED
  BY <1>3, <1>4

(* Between lock and unlock a task is alone.                                *)
LEMMA OneInside ==
  ASSUME PlacesAgree, NEW t \in AppTasks, NEW u \in AppTasks,
         step[t] \in {"copy", "advance", "unlock"},
         step[u] \in {"copy", "advance", "unlock"}
  PROVE  u = t
BY DEF PlacesAgree

(* The slot behind the last message is none of the slots in use.           *)
LEMMA TailIsFree ==
  ASSUME QTypeOK, RingAgrees, stored < Capacity
  PROVE  /\ tail = (head + stored) % Capacity
         /\ \A i \in 0 .. stored - 1 : (head + i) % Capacity # tail
<1>1. /\ head \in Slots /\ tail \in Slots /\ stored \in 0 .. Capacity
      /\ Capacity \in Nat \ {0}
      /\ tail = head + stored \/ tail = head + stored - Capacity
  BY QueueAssumption DEF QTypeOK, RingAgrees
<1>2. tail = (head + stored) % Capacity
  <2>1. (head + stored) % Capacity
          = IF head + stored < Capacity THEN head + stored ELSE head + stored - Capacity
    BY <1>1, SlotAt
  <2> QED
    BY <1>1, <2>1 DEF Slots
<1>3. ASSUME NEW i \in 0 .. stored - 1
      PROVE  (head + i) % Capacity # tail
  <2>1. (head + i) % Capacity = IF head + i < Capacity THEN head + i ELSE head + i - Capacity
    BY <1>1, SlotAt
  <2> QED
    BY <1>1, <2>1 DEF Slots
<1> QED
  BY <1>2, <1>3

(* The copy into or out of the slot begins.                                *)
LEMMA CopyKeeps ==
  ASSUME QueueInv, NEW t \in AppTasks, Copy(t)
  PROVE  QueueInv'
<1>1. /\ LayerInv /\ QTypeOK /\ Access!MutexSound
      /\ Items!SemaphoreSound /\ Spaces!SemaphoreSound
      /\ PlacesAgree /\ SlotsAccounted /\ RingAgrees
  BY DEF QueueInv
<1>2. /\ step[t] = "copy" /\ Goto(t, "advance")
      /\ UNCHANGED <<layerVars, head, tail, stored, syncVars>>
  BY DEF Copy
<1>3. \/ /\ call[t] = "send"
         /\ storage' = [storage EXCEPT ![tail] = Garbage]
         /\ message' = message
      \/ /\ call[t] = "receive"
         /\ message' = [message EXCEPT ![t] = storage[head]]
         /\ storage' = storage
  BY DEF Copy
<1>4. /\ step' \in [AppTasks -> Steps] /\ step'[t] = "advance"
      /\ \A u \in AppTasks \ {t} : step'[u] = step[u]
      /\ call' = call /\ status' = status
  BY <1>1, <1>2, GotoMoves DEF Steps
<1>5. /\ LayerInv' /\ Access!MutexSound'
      /\ Items!SemaphoreSound' /\ Spaces!SemaphoreSound'
      /\ available_items'.maximum_count = Capacity
      /\ available_spaces'.maximum_count = Capacity
  BY <1>2, ObjectsStay
<1>6. /\ storage' \in [Slots -> Messages \cup {Garbage}]
      /\ message' \in [AppTasks -> Messages \cup {Garbage}]
  BY <1>1, <1>3 DEF QTypeOK
<1>7. QTypeOK'
  BY <1>1, <1>2, <1>4, <1>5, <1>6
     DEF QTypeOK, LayerInv, Access!MutexSound, Items!SemaphoreSound, Spaces!SemaphoreSound
<1>8. PlacesAgree'
  BY <1>1, <1>2, <1>4, PlacesStay
<1>9. SlotsAccounted'
  <2>1. \A c : /\ IsBefore(t, c)' <=> IsBefore(t, c)
               /\ ~IsAfter(t, c) /\ ~IsAfter(t, c)'
    BY <1>2, <1>4 DEF IsBefore, IsAfter
  <2>2. \A c : Before(c)' = Before(c) /\ After(c)' = After(c)
    <3> SUFFICES ASSUME NEW c PROVE Before(c)' = Before(c) /\ After(c)' = After(c)
      OBVIOUS
    <3> QED
      BY <1>4, <2>1, CallsCount
  <2> QED
    BY <1>1, <1>2, <2>2 DEF SlotsAccounted, syncVars
<1>10. \A i \in 0 .. stored - 1 : storage'[(head + i) % Capacity] \in Messages
  <2> SUFFICES ASSUME NEW i \in 0 .. stored - 1
               PROVE  storage'[(head + i) % Capacity] \in Messages
    OBVIOUS
  <2>1. storage[(head + i) % Capacity] \in Messages
    BY <1>1 DEF RingAgrees
  <2>2. CASE call[t] = "send"
    <3>1. stored < Capacity
      BY <1>2, <2>2, RoomBehindUnit DEF IsBefore
    <3>2. (head + i) % Capacity # tail
      BY <1>1, <3>1, TailIsFree
    <3>3. (head + i) % Capacity \in Slots
      <4>1. head \in Slots /\ i \in 0 .. Capacity
        BY <1>1, <3>1, QueueAssumption DEF QTypeOK
      <4> QED
        BY <4>1, SlotAt
    <3> QED
      BY <1>1, <1>3, <2>1, <2>2, <3>2, <3>3 DEF QTypeOK
  <2> QED
    BY <1>3, <2>1, <2>2
<1>11. ASSUME NEW u \in AppTasks
       PROVE  /\ call'[u] = "send" /\ step'[u] # "run" => message'[u] \in Messages
              /\ call'[u] = "receive" /\ step'[u] \in {"wait", "lock", "copy", "give_back"}
                   => message'[u] = Garbage
              /\ call'[u] = "receive" /\ step'[u] = "advance"
                   => message'[u] = storage'[head]
  <2>1. CASE u = t
    BY <1>1, <1>2, <1>3, <1>4, <2>1 DEF RingAgrees, QTypeOK
  <2>2. CASE u # t
    <3>1. step[u] # "advance" /\ message'[u] = message[u]
      BY <1>1, <1>2, <1>3, <2>2, OneInside DEF QTypeOK
    <3> QED
      BY <1>1, <1>4, <2>2, <3>1 DEF RingAgrees
  <2> QED
    BY <2>1, <2>2
<1>12. RingAgrees'
  BY <1>1, <1>2, <1>10, <1>11 DEF RingAgrees
<1> QED
  BY <1>5, <1>7, <1>8, <1>9, <1>12 DEF QueueInv

(* The index moves on: a slot is written and counted, or read and freed.   *)
LEMMA SlotWritten ==
  ASSUME QueueInv, NEW t \in AppTasks, step[t] = "advance", call[t] = "send",
         storage' = [storage EXCEPT ![tail] = message[t]],
         tail' = NextSlot(tail), stored' = stored + 1, UNCHANGED <<head, message>>,
         step'[t] = "unlock", call' = call,
         \A u \in AppTasks \ {t} : step'[u] = step[u]
  PROVE  /\ storage' \in [Slots -> Messages \cup {Garbage}]
         /\ head' \in Slots /\ tail' \in Slots /\ stored' \in 0 .. Capacity
         /\ RingAgrees'
<1>1. QTypeOK /\ PlacesAgree /\ RingAgrees
  BY DEF QueueInv
<1>2. /\ head \in Slots /\ tail \in Slots /\ stored \in 0 .. Capacity
      /\ Capacity \in Nat \ {0} /\ stored < Capacity
      /\ tail = head + stored \/ tail = head + stored - Capacity
  BY <1>1, RoomBehindUnit DEF QTypeOK, RingAgrees, IsBefore
<1>3. message[t] \in Messages
  BY <1>1 DEF RingAgrees
<1>4. storage' \in [Slots -> Messages \cup {Garbage}]
  BY <1>1, <1>3 DEF QTypeOK
<1>5. /\ tail' \in Slots /\ stored' \in 0 .. Capacity
      /\ tail' = head + stored' \/ tail' = head + stored' - Capacity
  <2>1. /\ NextSlot(tail) \in Slots
        /\ NextSlot(tail) = IF tail + 1 < Capacity THEN tail + 1 ELSE 0
    BY <1>2, NextIsSlot
  <2> QED
    BY <1>2, <2>1 DEF Slots
<1>6. ASSUME NEW i \in 0 .. stored' - 1
      PROVE  storage'[(head + i) % Capacity] \in Messages
  <2>1. CASE i = stored
    <3>1. (head + i) % Capacity = tail
      BY <1>1, <1>2, <2>1, TailIsFree
    <3> QED
      BY <1>1, <1>2, <1>3, <3>1 DEF QTypeOK
  <2>2. CASE i # stored
    <3>1. i \in 0 .. stored - 1
      BY <1>2, <2>2
    <3>2. (head + i) % Capacity # tail /\ storage[(head + i) % Capacity] \in Messages
      BY <1>1, <1>2, <3>1, TailIsFree DEF RingAgrees
    <3>3. (head + i) % Capacity \in Slots
      <4>1. i \in 0 .. Capacity
        BY <1>2, <3>1
      <4> QED
        BY <1>2, <4>1, SlotAt
    <3> QED
      BY <1>1, <3>2, <3>3 DEF QTypeOK
  <2> QED
    BY <2>1, <2>2
<1>7. ASSUME NEW u \in AppTasks
      PROVE  /\ call[u] = "send" /\ step'[u] # "run" => message[u] \in Messages
             /\ call[u] = "receive" /\ step'[u] \in {"wait", "lock", "copy", "give_back"}
                  => message[u] = Garbage
             /\ call[u] = "receive" /\ step'[u] = "advance"
                  => message[u] = storage'[head]
  <2>1. CASE u = t
    BY <1>3, <2>1
  <2>2. CASE u # t
    <3>1. step[u] # "advance"
      BY <1>1, <2>2, OneInside
    <3> QED
      BY <1>1, <2>2, <3>1 DEF RingAgrees
  <2> QED
    BY <2>1, <2>2
<1>8. RingAgrees'
  BY <1>5, <1>6, <1>7 DEF RingAgrees
<1> QED
  BY <1>2, <1>4, <1>5, <1>8

LEMMA SlotRead ==
  ASSUME QueueInv, NEW t \in AppTasks, step[t] = "advance", call[t] = "receive",
         message' = [message EXCEPT ![t] = IF storage[head] = @ THEN @ ELSE Garbage],
         head' = NextSlot(head), stored' = stored - 1, UNCHANGED <<storage, tail>>,
         step'[t] = "unlock", call' = call,
         \A u \in AppTasks \ {t} : step'[u] = step[u]
  PROVE  /\ message' = message
         /\ head' \in Slots /\ tail' \in Slots /\ stored' \in 0 .. Capacity
         /\ RingAgrees'
<1>1. QTypeOK /\ PlacesAgree /\ RingAgrees
  BY DEF QueueInv
<1>2. /\ head \in Slots /\ tail \in Slots /\ stored \in 0 .. Capacity
      /\ Capacity \in Nat \ {0} /\ stored >= 1
      /\ tail = head + stored \/ tail = head + stored - Capacity
  BY <1>1, RoomBehindUnit DEF QTypeOK, RingAgrees, IsBefore
<1>3. message' = message
  <2>1. storage[head] = message[t]
    BY <1>1 DEF RingAgrees
  <2> QED
    BY <1>1, <2>1 DEF QTypeOK
<1>4. /\ NextSlot(head) \in Slots
      /\ NextSlot(head) = IF head + 1 < Capacity THEN head + 1 ELSE 0
  BY <1>2, NextIsSlot
<1>5. /\ head' \in Slots /\ stored' \in 0 .. Capacity
      /\ tail = head' + stored' \/ tail = head' + stored' - Capacity
  BY <1>2, <1>4 DEF Slots
<1>6. ASSUME NEW i \in 0 .. stored' - 1
      PROVE  storage[(head' + i) % Capacity] \in Messages
  <2>1. i \in 0 .. Capacity /\ i + 1 \in 0 .. Capacity /\ i + 1 \in 0 .. stored - 1
    BY <1>2
  <2>2. (head + (i + 1)) % Capacity
          = IF head + (i + 1) < Capacity THEN head + (i + 1) ELSE head + (i + 1) - Capacity
    BY <1>2, <2>1, SlotAt
  <2>3. (head' + i) % Capacity
          = IF head' + i < Capacity THEN head' + i ELSE head' + i - Capacity
    BY <1>5, <2>1, SlotAt
  <2>4. (head' + i) % Capacity = (head + (i + 1)) % Capacity
    BY <1>2, <1>4, <2>1, <2>2, <2>3 DEF Slots
  <2> QED
    BY <1>1, <2>1, <2>4 DEF RingAgrees
<1>7. ASSUME NEW u \in AppTasks
      PROVE  /\ call[u] = "send" /\ step'[u] # "run" => message[u] \in Messages
             /\ call[u] = "receive" /\ step'[u] \in {"wait", "lock", "copy", "give_back"}
                  => message[u] = Garbage
             /\ call[u] = "receive" /\ step'[u] = "advance"
                  => message[u] = storage[head']
  <2>1. CASE u = t
    BY <2>1
  <2>2. CASE u # t
    <3>1. step[u] # "advance"
      BY <1>1, <2>2, OneInside
    <3> QED
      BY <1>1, <2>2, <3>1 DEF RingAgrees
  <2> QED
    BY <2>1, <2>2
<1>8. RingAgrees'
  BY <1>3, <1>5, <1>6, <1>7 DEF RingAgrees
<1> QED
  BY <1>2, <1>3, <1>5, <1>8

LEMMA AdvanceKeeps ==
  ASSUME QueueInv, NEW t \in AppTasks, Advance(t)
  PROVE  QueueInv' /\ message' = message
<1>1. /\ LayerInv /\ QTypeOK /\ Access!MutexSound
      /\ Items!SemaphoreSound /\ Spaces!SemaphoreSound
      /\ PlacesAgree /\ SlotsAccounted /\ RingAgrees
  BY DEF QueueInv
<1>2. step[t] = "advance" /\ Goto(t, "unlock") /\ UNCHANGED <<layerVars, syncVars>>
  BY DEF Advance
<1>3. /\ step' \in [AppTasks -> Steps] /\ step'[t] = "unlock"
      /\ \A u \in AppTasks \ {t} : step'[u] = step[u]
      /\ call' = call /\ status' = status
  BY <1>1, <1>2, GotoMoves DEF Steps
<1>4. /\ storage' \in [Slots -> Messages \cup {Garbage}] /\ message' = message
      /\ head' \in Slots /\ tail' \in Slots /\ stored' \in 0 .. Capacity
      /\ RingAgrees'
      /\ stored' = IF call[t] = "send" THEN stored + 1 ELSE stored - 1
  <2>1. CASE call[t] = "send"
    <3>1. /\ storage' = [storage EXCEPT ![tail] = message[t]]
          /\ tail' = NextSlot(tail) /\ stored' = stored + 1 /\ UNCHANGED <<head, message>>
      BY <2>1 DEF Advance
    <3> QED
      BY <1>2, <1>3, <2>1, <3>1, SlotWritten
  <2>2. CASE call[t] = "receive"
    <3>1. /\ message' = [message EXCEPT ![t] = IF storage[head] = @ THEN @ ELSE Garbage]
          /\ head' = NextSlot(head) /\ stored' = stored - 1 /\ UNCHANGED <<storage, tail>>
      BY <2>2 DEF Advance
    <3>2. storage' \in [Slots -> Messages \cup {Garbage}]
      BY <1>1, <3>1 DEF QTypeOK
    <3> QED
      BY <1>2, <1>3, <2>2, <3>1, <3>2, SlotRead
  <2> QED
    BY <1>1, <2>1, <2>2 DEF QTypeOK, Calls
<1>5. /\ LayerInv' /\ Access!MutexSound'
      /\ Items!SemaphoreSound' /\ Spaces!SemaphoreSound'
      /\ available_items'.maximum_count = Capacity
      /\ available_spaces'.maximum_count = Capacity
  BY <1>2, ObjectsStay
<1>6. QTypeOK'
  BY <1>1, <1>3, <1>4, <1>5
     DEF QTypeOK, LayerInv, Access!MutexSound, Items!SemaphoreSound, Spaces!SemaphoreSound
<1>7. PlacesAgree'
  BY <1>1, <1>2, <1>3, PlacesStay
<1>8. SlotsAccounted'
  <2>1. /\ call[t] \in {"send", "receive"}
        /\ \A c \in {"send", "receive"} :
             /\ ~IsBefore(t, c)' /\ ~IsAfter(t, c)
             /\ IsBefore(t, c) <=> call[t] = c
             /\ IsAfter(t, c)' <=> call[t] = c
    BY <1>1, <1>2, <1>3 DEF IsBefore, IsAfter, QTypeOK, Calls
  <2>2. \A c \in {"send", "receive"} :
          /\ Before(c) \in Nat /\ Before(c)' \in Nat /\ After(c) \in Nat /\ After(c)' \in Nat
          /\ Before(c) = Before(c)' + (IF call[t] = c THEN 1 ELSE 0)
          /\ After(c)' = After(c) + (IF call[t] = c THEN 1 ELSE 0)
    <3> SUFFICES ASSUME NEW c \in {"send", "receive"}
                 PROVE  /\ Before(c) \in Nat /\ Before(c)' \in Nat
                        /\ After(c) \in Nat /\ After(c)' \in Nat
                        /\ Before(c) = Before(c)' + (IF call[t] = c THEN 1 ELSE 0)
                        /\ After(c)' = After(c) + (IF call[t] = c THEN 1 ELSE 0)
      OBVIOUS
    <3>1. /\ Before(c) \in Nat /\ Before(c)' \in Nat
          /\ After(c) \in Nat /\ After(c)' \in Nat
          /\ Before(c)' + (IF IsBefore(t, c) THEN 1 ELSE 0)
               = Before(c) + (IF IsBefore(t, c)' THEN 1 ELSE 0)
          /\ After(c)' + (IF IsAfter(t, c) THEN 1 ELSE 0)
               = After(c) + (IF IsAfter(t, c)' THEN 1 ELSE 0)
      BY <1>3, CallsCount
    <3> QED
      BY <2>1, <3>1
  <2>3. /\ Before("send") \in Nat /\ Before("send")' \in Nat
        /\ After("send") \in Nat /\ After("send")' \in Nat
        /\ Before("receive") \in Nat /\ Before("receive")' \in Nat
        /\ After("receive") \in Nat /\ After("receive")' \in Nat
        /\ Before("send") = Before("send")' + (IF call[t] = "send" THEN 1 ELSE 0)
        /\ After("send")' = After("send") + (IF call[t] = "send" THEN 1 ELSE 0)
        /\ Before("receive") = Before("receive")' + (IF call[t] = "receive" THEN 1 ELSE 0)
        /\ After("receive")' = After("receive") + (IF call[t] = "receive" THEN 1 ELSE 0)
    BY <2>2
  <2>4. /\ Units(available_items)' = Units(available_items)
        /\ Units(available_spaces)' = Units(available_spaces)
        /\ stored \in Nat /\ Capacity \in Nat
    BY <1>1, <1>2, QueueAssumption DEF QTypeOK, syncVars
  <2>5. (tail' - head' - stored') % Capacity = 0
    BY <1>4, RingModulo DEF RingAgrees
  <2> QED
    BY <1>1, <1>4, <2>1, <2>3, <2>4, <2>5 DEF SlotsAccounted
<1> QED
  BY <1>4, <1>5, <1>6, <1>7, <1>8 DEF QueueInv

-----------------------------------------------------------------------------
(* The steps outside of a call.                                            *)
LEMMA StartKeeps ==
  ASSUME QueueInv, NEW t \in AppTasks, Start(t)
  PROVE  QueueInv'
<1>1. /\ LayerInv /\ QTypeOK /\ Access!MutexSound
      /\ Items!SemaphoreSound /\ Spaces!SemaphoreSound
      /\ PlacesAgree /\ SlotsAccounted /\ RingAgrees
  BY DEF QueueInv
<1>2. /\ step[t] = "run" /\ step' = [step EXCEPT ![t] = "wait"]
      /\ UNCHANGED <<layerVars, ringVars, syncVars, status>>
  BY DEF Start
<1>3. PICK c \in Calls, m \in Messages \cup {Garbage} :
        /\ call' = [call EXCEPT ![t] = c] /\ message' = [message EXCEPT ![t] = m]
        /\ c = "send" => m \in Messages
        /\ c = "receive" => m = Garbage
  BY DEF Start, Calls
<1>4. /\ step' \in [AppTasks -> Steps] /\ step'[t] = "wait"
      /\ call' \in [AppTasks -> Calls] /\ call'[t] = c
      /\ message' \in [AppTasks -> Messages \cup {Garbage}] /\ message'[t] = m
      /\ \A u \in AppTasks \ {t} :
           step'[u] = step[u] /\ call'[u] = call[u] /\ message'[u] = message[u]
  BY <1>1, <1>2, <1>3 DEF QTypeOK, Steps
<1>5. /\ LayerInv' /\ Access!MutexSound'
      /\ Items!SemaphoreSound' /\ Spaces!SemaphoreSound'
      /\ available_items'.maximum_count = Capacity
      /\ available_spaces'.maximum_count = Capacity
  BY <1>2, ObjectsStay
<1>6. QTypeOK'
  BY <1>1, <1>2, <1>4, <1>5
     DEF QTypeOK, LayerInv, Access!MutexSound, Items!SemaphoreSound, Spaces!SemaphoreSound,
         ringVars
<1>7. PlacesAgree'
  BY <1>1, <1>2, <1>4, PlacesStay
<1>8. SlotsAccounted'
  <2>1. \A x : ~IsBefore(t, x) /\ ~IsBefore(t, x)' /\ ~IsAfter(t, x) /\ ~IsAfter(t, x)'
    BY <1>2, <1>4 DEF IsBefore, IsAfter
  <2>2. \A x : Before(x)' = Before(x) /\ After(x)' = After(x)
    <3> SUFFICES ASSUME NEW x PROVE Before(x)' = Before(x) /\ After(x)' = After(x)
      OBVIOUS
    <3> QED
      BY <1>4, <2>1, CallsCount
  <2> QED
    BY <1>1, <1>2, <2>2 DEF SlotsAccounted, ringVars, syncVars
<1>9. RingAgrees'
  BY <1>1, <1>2, <1>3, <1>4 DEF RingAgrees, ringVars
<1> QED
  BY <1>5, <1>6, <1>7, <1>8, <1>9 DEF QueueInv

(* Nothing but the layer moves, and nobody who waits is disturbed.         *)
LEMMA LayerMoves ==
  ASSUME QueueInv, LayerInv', Idle, NEW t, NEW W, Elsewhere(t, W),
         \A u \in AppTasks : u = t \/ u \in W => step[u] = "run"
  PROVE  QueueInv'
<1>1. /\ LayerInv /\ QTypeOK /\ Access!MutexSound
      /\ Items!SemaphoreSound /\ Spaces!SemaphoreSound
      /\ PlacesAgree /\ SlotsAccounted /\ RingAgrees
  BY DEF QueueInv
<1>2. /\ UNCHANGED <<ringVars, syncVars, callVars>>
      /\ UNCHANGED <<access_mutex, available_items, available_spaces>>
  BY DEF Idle, syncVars
<1>3. /\ \A u \in access_mutex.waiting : u # t /\ u \notin W
      /\ \A u \in available_items.waiting \cup available_items.granted :
           u # t /\ u \notin W
      /\ \A u \in available_spaces.waiting \cup available_spaces.granted :
           u # t /\ u \notin W
  <2>1. /\ access_mutex.waiting \subseteq AppTasks
        /\ available_items.waiting \cup available_items.granted \subseteq AppTasks
        /\ available_spaces.waiting \cup available_spaces.granted \subseteq AppTasks
    BY <1>1 DEF Access!MutexSound, Access!AppTasks, AppTasks, Access!Tasks, Tasks,
                Access!IdleTask, IdleTask, Items!SemaphoreSound, Items!AppTasks,
                Items!Tasks, Items!IdleTask, Spaces!SemaphoreSound, Spaces!AppTasks,
                Spaces!Tasks, Spaces!IdleTask
  <2> QED
    BY <1>1, <2>1 DEF PlacesAgree
<1>4. Access!MutexSound' /\ Items!SemaphoreSound' /\ Spaces!SemaphoreSound'
  BY <1>1, <1>2, <1>3, AccessKeeps, ItemsKeep, SpacesKeep
<1>5. QTypeOK'
  BY <1>1, <1>2 DEF QTypeOK, LayerInv, ringVars, callVars
<1>6. PlacesAgree'
  BY <1>1, <1>2 DEF PlacesAgree, callVars
<1>7. SlotsAccounted'
  BY <1>1, <1>2 DEF SlotsAccounted, Before, After, ringVars, callVars
<1>8. RingAgrees'
  BY <1>1, <1>2 DEF RingAgrees, ringVars, callVars
<1> QED
  BY <1>2, <1>4, <1>5, <1>6, <1>7, <1>8 DEF QueueInv

LEMMA OtherKeeps ==
  ASSUME QueueInv, NEW t \in AppTasks, Other(t)
  PROVE  QueueInv'
<1>1. /\ LayerInv /\ step[t] = "run" /\ Idle
      /\ os_sleep(t) \/ os_irq_save(t) \/ os_irq_restore(t)
  BY DEF QueueInv, Other
<1>2. LayerInv'
  BY <1>1, TaskCallStep
<1>3. Elsewhere(t, {})
  BY <1>1, OtherKeepsBlocked DEF Elsewhere, AppTasks
<1> QED
  BY <1>1, <1>2, <1>3, LayerMoves

LEMMA CoreKeeps ==
  ASSUME QueueInv, Core
  PROVE  QueueInv'
<1>1. LayerInv /\ CoreNext /\ Idle
  BY DEF QueueInv, Core
<1>2. LayerInv'
  BY <1>1, CoreStep
<1>3. Elsewhere(IdleTask, {})
  BY <1>1, CoreKeepsBlocked DEF Elsewhere, AppTasks
<1> QED
  BY <1>1, <1>2, <1>3, LayerMoves DEF AppTasks

LEMMA NothingKeeps ==
  ASSUME QueueInv, UNCHANGED queueVars
  PROVE  QueueInv'
<1>1. LayerInv /\ UNCHANGED layerVars /\ Idle
  BY DEF QueueInv, queueVars, Idle
<1>2. LayerInv' /\ Elsewhere(IdleTask, {})
  BY <1>1 DEF LayerInv, LayerTypeOK, OneRunning, layerVars, Elsewhere
<1> QED
  BY <1>1, <1>2, LayerMoves DEF AppTasks

LEMMA QueueInitInv == QInit => QueueInv
<1> SUFFICES ASSUME QInit PROVE QueueInv
  OBVIOUS
<1> USE QueueAssumption
<1>1. LayerInv
  BY LayerInitInv DEF QInit
<1>2. Access!MutexSound
  BY DEF QInit, os_message_queue_init, Access!os_mutex_init, Access!MutexSound,
         Access!MutexType, Access!NoTask, Access!IdleTask
<1>3. Items!SemaphoreSound /\ available_items.maximum_count = Capacity
  <2>1. available_items = [count |-> 0, maximum_count |-> Capacity, waiting |-> {},
                           granted |-> {}, last_granted_task_id |-> Items!IdleTask]
    BY DEF QInit, os_message_queue_init, Items!os_semaphore_init
  <2> QED
    BY <2>1, IdleIsTask DEF Items!SemaphoreSound, Items!SemaphoreType, Items!IdleTask,
                            Items!Tasks, IdleTask, Tasks
<1>4. Spaces!SemaphoreSound /\ available_spaces.maximum_count = Capacity
  <2>1. available_spaces = [count |-> Capacity, maximum_count |-> Capacity, waiting |-> {},
                            granted |-> {}, last_granted_task_id |-> Spaces!IdleTask]
    BY DEF QInit, os_message_queue_init, Spaces!os_semaphore_init
  <2> QED
    BY <2>1, IdleIsTask DEF Spaces!SemaphoreSound, Spaces!SemaphoreType, Spaces!IdleTask,
                            Spaces!Tasks, IdleTask, Tasks
<1>5. /\ storage = [i \in Slots |-> Garbage] /\ head = 0 /\ tail = 0 /\ stored = 0
      /\ call = [t \in AppTasks |-> "send"] /\ step = [t \in AppTasks |-> "run"]
      /\ message = [t \in AppTasks |-> Garbage] /\ status = [t \in AppTasks |-> "OK"]
  BY DEF QInit, os_message_queue_init
<1>6. QTypeOK
  BY <1>1, <1>2, <1>3, <1>4, <1>5
     DEF QTypeOK, LayerInv, Access!MutexSound, Items!SemaphoreSound, Spaces!SemaphoreSound,
         Slots, Calls, Steps
<1>7. PlacesAgree
  <2>1. /\ access_mutex.waiting = {} /\ access_mutex.owner_task_id = NoTask
        /\ available_items.waiting = {} /\ available_items.granted = {}
        /\ available_spaces.waiting = {} /\ available_spaces.granted = {}
    BY DEF QInit, os_message_queue_init, Access!os_mutex_init, Items!os_semaphore_init,
           Spaces!os_semaphore_init, Access!NoTask, NoTask
  <2>2. \A t \in AppTasks : t # NoTask
    BY DEF AppTasks, Tasks, NoTask
  <2> QED
    BY <1>5, <2>1, <2>2 DEF PlacesAgree
<1>8. SlotsAccounted
  <2>1. \A c : Before(c) = 0 /\ After(c) = 0
    BY <1>5, NoCalls
  <2>2. Units(available_items) = 0 /\ Units(available_spaces) = Capacity
    BY FS_EmptySet DEF QInit, os_message_queue_init, Items!os_semaphore_init,
           Spaces!os_semaphore_init, Units
  <2> QED
    BY <1>5, <2>1, <2>2 DEF SlotsAccounted
<1>9. RingAgrees
  BY <1>5 DEF RingAgrees
<1> QED
  BY <1>1, <1>2, <1>3, <1>4, <1>6, <1>7, <1>8, <1>9 DEF QueueInv

-----------------------------------------------------------------------------
LEMMA QueueStep ==
  ASSUME QueueInv, [QNext]_queueVars
  PROVE  QueueInv'
<1>1. CASE Core
  BY <1>1, CoreKeeps
<1>2. ASSUME NEW t \in AppTasks, Start(t) \/ InCall(t) \/ Other(t)
      PROVE  QueueInv'
  <2>1. CASE Start(t)
    BY <2>1, StartKeeps
  <2>2. CASE InCall(t)
    BY <2>2, WaitUnitKeeps, LockKeeps, GiveBackKeeps, CopyKeeps, AdvanceKeeps,
       UnlockKeeps, PostUnitKeeps DEF InCall
  <2>3. CASE Other(t)
    BY <2>3, OtherKeeps
  <2> QED
    BY <1>2, <2>1, <2>2, <2>3
<1>3. CASE UNCHANGED queueVars
  BY <1>3, NothingKeeps
<1> QED
  BY <1>1, <1>2, <1>3 DEF QNext

(* The inductive invariant of the queue holds for any number of tasks, any *)
(* capacity and any messages, whatever calls interleave                    *)
(* (os_message_queue_send, os_message_queue_receive).                      *)
THEOREM QueueInvariant == QSpec => []QueueInv
<1>1. QInit => QueueInv
  BY QueueInitInv
<1>2. QueueInv /\ [QNext]_queueVars => QueueInv'
  BY QueueStep
<1> QED
  BY <1>1, <1>2, PTL DEF QSpec

(* The ring, its semaphores and the places of the tasks keep their types:  *)
(* in particular neither index leaves the storage.                         *)
THEOREM QueueTypes == QSpec => []QTypeOK
<1>1. QueueInv => QTypeOK
  BY DEF QueueInv
<1> QED
  BY <1>1, QueueInvariant, PTL

(* No slot and no message leaks, on the error path of a failed lock either: *)
(* the units of the two semaphores are what the ring and the calls under   *)
(* way leave (message_queue.c takes a unit before the lock and posts the   *)
(* other after the unlock).                                                *)
THEOREM NothingLeaks == QSpec => []SlotsAccounted
<1>1. QueueInv => SlotsAccounted
  BY DEF QueueInv
<1> QED
  BY <1>1, QueueInvariant, PTL

(* Who executes is RUNNING, and no unlock and no post takes the CPU away.  *)
LEMMA CallerStaysUp ==
  ASSUME LayerInv, NEW t \in AppTasks, NEW result,
         \/ Access!os_mutex_unlock(t, result) \/ Console!os_mutex_unlock(t, result)
         \/ Items!os_semaphore_post(t, result) \/ Spaces!os_semaphore_post(t, result)
  PROVE  ~Blocked(t)'
<1>1. Executing(t)
  BY DEF Access!os_mutex_unlock, Access!Executing, Console!os_mutex_unlock,
         Console!Executing, Items!os_semaphore_post, Items!Executing,
         Spaces!os_semaphore_post, Spaces!Executing, Executing
<1>2. task_state[t] = "RUNNING" /\ t \in Tasks /\ task_state \in [Tasks -> TaskStates]
  BY <1>1, CallRuns DEF LayerInv, LayerTypeOK
<1>3. UNCHANGED task_state \/ \E u : task_state' = [task_state EXCEPT ![u] = "READY"]
  <2>1. CASE Access!os_mutex_unlock(t, result)
    BY <2>1 DEF Access!os_mutex_unlock, Access!unlock_not_owner, Access!unlock_release,
                Access!unlock_hand_over, Access!task_unblock, Access!layerVars
  <2>2. CASE Console!os_mutex_unlock(t, result)
    BY <2>2 DEF Console!os_mutex_unlock, Console!unlock_not_owner, Console!unlock_release,
                Console!unlock_hand_over, Console!task_unblock, Console!layerVars
  <2>3. CASE Items!os_semaphore_post(t, result)
    BY <2>3 DEF Items!os_semaphore_post, Items!post_grant, Items!post_overflow,
                Items!post_unit, Items!task_unblock, Items!layerVars
  <2>4. CASE Spaces!os_semaphore_post(t, result)
    BY <2>4 DEF Spaces!os_semaphore_post, Spaces!post_grant, Spaces!post_overflow,
                Spaces!post_unit, Spaces!task_unblock, Spaces!layerVars
  <2> QED
    BY <2>1, <2>2, <2>3, <2>4
<1> QED
  BY <1>2, <1>3 DEF Blocked

(* A call disturbs the waits of nobody: who is BLOCKED after a step of it  *)
(* has his bit in the queue, or was BLOCKED before without one.            *)
WaitsFollow ==
  \A u \in AppTasks : Blocked(u)' => WaitsInQueue(u)' \/ (Blocked(u) /\ ~WaitsInQueue(u))

LEMMA WaitUnitFollows ==
  ASSUME QueueInv, NEW t \in AppTasks, WaitUnit(t)
  PROVE  WaitsFollow
<1>1. PICK result : WaitSpaces(t, result) \/ WaitItems(t, result)
  BY DEF WaitUnit
<1>2. /\ LayerInv /\ Items!SemaphoreSound /\ Spaces!SemaphoreSound
      /\ UNCHANGED access_mutex
  BY DEF QueueInv, WaitUnit
<1>3. CASE WaitSpaces(t, result)
  <2>1. UNCHANGED available_items /\ Elsewhere(t, {})
    BY <1>2, <1>3, WaitSpacesEffect DEF WaitSpaces
  <2>2. \/ UNCHANGED task_state /\ available_spaces'.waiting = available_spaces.waiting
        \/ available_spaces'.waiting = available_spaces.waiting \cup {t}
    BY <1>2, <1>3, WaitSpacesEffect DEF WaitSpaces, layerVars
  <2> QED
    BY <1>2, <2>1, <2>2 DEF WaitsFollow, WaitsInQueue, Blocked, Elsewhere
<1>4. CASE WaitItems(t, result)
  <2>1. UNCHANGED available_spaces /\ Elsewhere(t, {})
    BY <1>2, <1>4, WaitItemsEffect DEF WaitItems
  <2>2. \/ UNCHANGED task_state /\ available_items'.waiting = available_items.waiting
        \/ available_items'.waiting = available_items.waiting \cup {t}
    BY <1>2, <1>4, WaitItemsEffect DEF WaitItems, layerVars
  <2> QED
    BY <1>2, <2>1, <2>2 DEF WaitsFollow, WaitsInQueue, Blocked, Elsewhere
<1> QED
  BY <1>1, <1>3, <1>4

LEMMA LockFollows ==
  ASSUME QueueInv, NEW t \in AppTasks, Lock(t)
  PROVE  WaitsFollow
<1>1. PICK result : Access!os_mutex_lock(t, result)
  BY DEF Lock
<1>2. LayerInv /\ Access!MutexSound /\ UNCHANGED <<available_items, available_spaces>>
  BY DEF QueueInv, Lock
<1>3. /\ Elsewhere(t, {})
      /\ \/ /\ UNCHANGED task_state
            /\ \/ access_mutex'.waiting = access_mutex.waiting
               \/ access_mutex'.waiting = access_mutex.waiting \ {t}
         \/ access_mutex'.waiting = access_mutex.waiting \cup {t}
  BY <1>1, <1>2, LockAccessEffect DEF layerVars
<1>4. ~Blocked(t)
  BY <1>1, <1>2, CallRuns DEF Access!os_mutex_lock, Access!Executing, Executing, Blocked
<1> QED
  BY <1>2, <1>3, <1>4 DEF WaitsFollow, WaitsInQueue, Blocked, Elsewhere

LEMMA UnlockFollows ==
  ASSUME QueueInv, NEW t \in AppTasks, Unlock(t)
  PROVE  WaitsFollow
<1>1. PICK result : Access!os_mutex_unlock(t, result)
  BY DEF Unlock
<1>2. /\ LayerInv /\ Access!MutexSound /\ t \notin access_mutex.waiting
      /\ UNCHANGED <<available_items, available_spaces>>
  BY DEF QueueInv, Unlock, PlacesAgree
<1>3. /\ Elsewhere(t, access_mutex.waiting)
      /\ access_mutex'.waiting = access_mutex.waiting
  BY <1>1, <1>2, UnlockAccessEffect
<1>4. ~Blocked(t)'
  BY <1>1, <1>2, CallerStaysUp
<1> QED
  BY <1>2, <1>3, <1>4 DEF WaitsFollow, WaitsInQueue, Blocked, Elsewhere

LEMMA PostFollows ==
  ASSUME QueueInv, NEW t \in AppTasks, PostUnit(t) \/ GiveBack(t)
  PROVE  WaitsFollow
<1>1. PICK result : PostItems(t, result) \/ PostSpaces(t, result)
  BY DEF PostUnit, GiveBack
<1>2. /\ LayerInv /\ Items!SemaphoreSound /\ Spaces!SemaphoreSound
      /\ UNCHANGED access_mutex
  BY DEF QueueInv, PostUnit, GiveBack
<1>3. ~Blocked(t)'
  BY <1>1, <1>2, CallerStaysUp DEF PostItems, PostSpaces
<1>4. CASE PostItems(t, result)
  <2>1. /\ Elsewhere(t, available_items.waiting) /\ UNCHANGED available_spaces
        /\ Items!SemaphoreSound'
        /\ available_items'.waiting \subseteq available_items.waiting
        /\ available_items'.granted \cup available_items'.waiting
             = available_items.granted \cup available_items.waiting
    BY <1>2, <1>4, PostItemsEffect DEF PostItems
  <2>2. \A u \in AppTasks :
          u \in available_items.waiting => u \in available_items'.waiting \/ ~Blocked(u)'
    BY <2>1 DEF Items!SemaphoreSound, Blocked
  <2> QED
    BY <1>2, <1>3, <2>1, <2>2 DEF WaitsFollow, WaitsInQueue, Blocked, Elsewhere
<1>5. CASE PostSpaces(t, result)
  <2>1. /\ Elsewhere(t, available_spaces.waiting) /\ UNCHANGED available_items
        /\ Spaces!SemaphoreSound'
        /\ available_spaces'.waiting \subseteq available_spaces.waiting
        /\ available_spaces'.granted \cup available_spaces'.waiting
             = available_spaces.granted \cup available_spaces.waiting
    BY <1>2, <1>5, PostSpacesEffect DEF PostSpaces
  <2>2. \A u \in AppTasks :
          u \in available_spaces.waiting => u \in available_spaces'.waiting \/ ~Blocked(u)'
    BY <2>1 DEF Spaces!SemaphoreSound, Blocked
  <2> QED
    BY <1>2, <1>3, <2>1, <2>2 DEF WaitsFollow, WaitsInQueue, Blocked, Elsewhere
<1> QED
  BY <1>1, <1>4, <1>5

LEMMA CallFollows ==
  ASSUME QueueInv, NEW t \in AppTasks, InCall(t)
  PROVE  WaitsFollow
<1>1. CASE Copy(t) \/ Advance(t)
  BY <1>1 DEF Copy, Advance, layerVars, syncVars, WaitsFollow, WaitsInQueue, Blocked
<1> QED
  BY <1>1, WaitUnitFollows, LockFollows, UnlockFollows, PostFollows DEF InCall

(* So do the steps outside of a call.                                      *)
LEMMA OutsideFollows ==
  ASSUME LayerInv, UNCHANGED syncVars,
         \/ CoreNext \/ UNCHANGED layerVars
         \/ \E t \in AppTasks : os_sleep(t) \/ os_irq_save(t) \/ os_irq_restore(t)
  PROVE  /\ WaitsFollow
         /\ \A u \in AppTasks : Blocked(u) <=> Blocked(u)'
<1>1. \A u \in AppTasks : Blocked(u) <=> Blocked(u)'
  <2>1. CASE CoreNext
    BY <2>1, CoreKeepsBlocked DEF Blocked, AppTasks
  <2>2. CASE UNCHANGED layerVars
    BY <2>2 DEF Blocked, layerVars
  <2>3. CASE \E t \in AppTasks : os_sleep(t) \/ os_irq_save(t) \/ os_irq_restore(t)
    BY <2>3, OtherKeepsBlocked DEF Blocked, AppTasks
  <2> QED
    BY <2>1, <2>2, <2>3
<1>2. \A u \in AppTasks : WaitsInQueue(u) <=> WaitsInQueue(u)'
  BY DEF WaitsInQueue, syncVars
<1> QED
  BY <1>1, <1>2 DEF WaitsFollow

(* Everybody who is in a call waits: then nobody holds the mutex of the    *)
(* queue or waits for it, no unit is on its way, and one semaphore at most *)
(* has tasks that wait.                                                    *)
LEMMA WithoutCalls ==
  ASSUME QueueInv
  PROVE  OnlyFullOrEmpty
<1> SUFFICES ASSUME \A t \in AppTasks : step[t] \in {"run", "wait"},
                    available_items.granted = {}, available_spaces.granted = {}
             PROVE  /\ available_spaces.waiting # {} => stored = Capacity
                    /\ available_items.waiting # {} => stored = 0
  BY DEF OnlyFullOrEmpty
<1>1. \A c : Before(c) = 0 /\ After(c) = 0
  BY NoCalls
<1>2. Cardinality({}) = 0
  BY FS_EmptySet
<1>3. /\ stored \in Nat /\ Capacity \in Nat
      /\ available_items.count \in Nat /\ available_spaces.count \in Nat
  BY UnitsBound, QueueAssumption DEF QueueInv, QTypeOK
<1>4. available_items.count = stored /\ available_spaces.count = Capacity - stored
  BY <1>1, <1>2, <1>3 DEF QueueInv, SlotsAccounted, Units
<1>5. /\ available_items.waiting # {} => available_items.count = 0
      /\ available_spaces.waiting # {} => available_spaces.count = 0
  BY DEF QueueInv, Items!SemaphoreSound, Spaces!SemaphoreSound
<1> QED
  BY <1>3, <1>4, <1>5

LEMMA NobodyInside ==
  ASSUME QueueInv,
         \A t \in AppTasks : step[t] # "run" => Blocked(t) /\ WaitsInQueue(t)
  PROVE  /\ access_mutex.waiting = {}
         /\ available_items.waiting = {} \/ available_spaces.waiting = {}
<1>1. /\ PlacesAgree /\ Access!MutexSound /\ Items!SemaphoreSound /\ Spaces!SemaphoreSound
  BY DEF QueueInv
<1>2. access_mutex.waiting = {}
  <2> SUFFICES ASSUME access_mutex.waiting # {} PROVE FALSE
    OBVIOUS
  <2> DEFINE owner == access_mutex.owner_task_id
  <2>1. owner \in AppTasks
    BY <1>1 DEF Access!MutexSound, Access!MutexType, Access!Tasks, Tasks, Access!NoTask,
                Access!IdleTask, IdleTask, AppTasks
  <2>2. owner \in access_mutex.waiting => ~Blocked(owner)
    BY <1>1 DEF Access!MutexSound, Blocked
  <2>3. step[owner] \in {"lock", "copy", "advance", "unlock"}
    BY <1>1, <2>1 DEF PlacesAgree
  <2>4. owner \notin access_mutex.waiting /\ WaitsInQueue(owner)
    BY <2>1, <2>2, <2>3
  <2>5. step[owner] = "wait" \/ owner \in access_mutex.waiting
    BY <1>1, <2>1, <2>4 DEF WaitsInQueue, PlacesAgree
  <2> QED
    BY <2>3, <2>4, <2>5
<1>3. \A t \in AppTasks : step[t] \in {"run", "wait"}
  BY <1>1, <1>2 DEF WaitsInQueue, PlacesAgree
<1>4. available_items.granted = {} /\ available_spaces.granted = {}
  <2>1. ASSUME NEW t, t \in available_items.granted \cup available_spaces.granted
        PROVE  FALSE
    <3>1. t \in AppTasks /\ ~Blocked(t)
      BY <1>1, <2>1 DEF Items!SemaphoreSound, Spaces!SemaphoreSound, Blocked,
                        Items!AppTasks, Spaces!AppTasks, AppTasks, Items!Tasks, Spaces!Tasks,
                        Tasks, Items!IdleTask, Spaces!IdleTask, IdleTask
    <3>2. step[t] = "wait"
      BY <1>1, <2>1, <3>1 DEF PlacesAgree
    <3> QED
      BY <3>1, <3>2
  <2> QED
    BY <2>1
<1>5. /\ available_spaces.waiting # {} => stored = Capacity
      /\ available_items.waiting # {} => stored = 0
  BY <1>3, <1>4, WithoutCalls DEF OnlyFullOrEmpty
<1> QED
  BY <1>2, <1>5, QueueAssumption

(* Nobody waits in the queue without a reason: a sender is BLOCKED on a    *)
(* full queue and a receiver on an empty one, and never on each other      *)
(* (os_message_queue_send, os_message_queue_receive).                      *)
THEOREM BlockedForAReason == QSpec => []WaitsForAReason
<1> DEFINE BlockedWait == \A t \in AppTasks : Blocked(t) => WaitsInQueue(t)
<1>1. QInit => BlockedWait
  BY DEF QInit, LayerInit, Blocked, AppTasks
<1>2. QueueInv /\ BlockedWait /\ [QNext]_queueVars => BlockedWait'
  <2> SUFFICES ASSUME QueueInv, [QNext]_queueVars PROVE WaitsFollow
    BY DEF WaitsFollow
  <2>1. LayerInv
    BY DEF QueueInv
  <2>2. ASSUME NEW t \in AppTasks, InCall(t) PROVE WaitsFollow
    BY <2>2, CallFollows
  <2>3. CASE Core \/ UNCHANGED queueVars \/ \E t \in AppTasks : Start(t) \/ Other(t)
    <3>1. UNCHANGED syncVars
      BY <2>3 DEF Core, Idle, queueVars, Start, Other
    <3>2. \/ CoreNext \/ UNCHANGED layerVars
          \/ \E t \in AppTasks : os_sleep(t) \/ os_irq_save(t) \/ os_irq_restore(t)
      BY <2>3 DEF Core, queueVars, Start, Other
    <3> QED
      BY <2>1, <3>1, <3>2, OutsideFollows
  <2> QED
    BY <2>2, <2>3 DEF QNext
<1>3. QueueInv /\ BlockedWait => WaitsForAReason
  <2> SUFFICES ASSUME QueueInv, BlockedWait PROVE WaitsForAReason
    OBVIOUS
  <2>1. OnlyFullOrEmpty
    BY WithoutCalls
  <2>2. ASSUME \A t \in AppTasks : Blocked(t)
        PROVE  AppTasks \in {available_spaces.waiting, available_items.waiting}
    <3>1. /\ access_mutex.waiting = {}
          /\ available_items.waiting = {} \/ available_spaces.waiting = {}
      BY <2>2, NobodyInside
    <3>2. AppTasks \subseteq available_items.waiting \cup available_spaces.waiting
      BY <2>2, <3>1 DEF WaitsInQueue
    <3>3. available_items.waiting \cup available_spaces.waiting \subseteq AppTasks
      BY DEF QueueInv, Items!SemaphoreSound, Spaces!SemaphoreSound, Items!AppTasks,
             Spaces!AppTasks, AppTasks, Items!Tasks, Spaces!Tasks, Tasks,
             Items!IdleTask, Spaces!IdleTask, IdleTask
    <3> QED
      BY <3>1, <3>2, <3>3
  <2> QED
    BY <2>1, <2>2 DEF WaitsForAReason
<1> HIDE DEF BlockedWait
<1> QED
  BY <1>1, <1>2, <1>3, QueueInvariant, PTL DEF QSpec

-----------------------------------------------------------------------------
(***************************************************************************)
(* The queue implements BoundedFifo.  Abs is the Fifo of MessageQueue with *)
(* its refinement mapping under names that the steps below do not expand.  *)
(***************************************************************************)
Contents == [i \in 1 .. stored |-> storage[(head + i - 1) % Capacity]]

Phase == [t \in AppTasks |->
            CASE step[t] = "run" -> "idle"
              [] step[t] \in {"unlock", "post"} -> "done"
              [] OTHER -> call[t]]

Buffer == [t \in AppTasks |->
             IF call[t] = "receive" /\ step[t] = "advance" THEN Garbage
             ELSE message[t]]

Abs == INSTANCE BoundedFifo WITH
  Callers <- AppTasks, fifo <- Contents, phase <- Phase, message <- Buffer

(* A step of t moves the phase of t only, and the buffer of t only.        *)
LEMMA PhaseOf ==
  ASSUME NEW t \in AppTasks, \A u \in AppTasks \ {t} : step'[u] = step[u],
         \A u \in AppTasks \ {t} : call'[u] = call[u]
  PROVE  /\ Phase' = [Phase EXCEPT ![t] = Phase'[t]]
         /\ Phase[t] = CASE step[t] = "run" -> "idle"
                         [] step[t] \in {"unlock", "post"} -> "done"
                         [] OTHER -> call[t]
         /\ Phase'[t] = CASE step'[t] = "run" -> "idle"
                          [] step'[t] \in {"unlock", "post"} -> "done"
                          [] OTHER -> call'[t]
<1>1. \A u \in AppTasks \ {t} : Phase'[u] = Phase[u]
  BY DEF Phase
<1>2. Phase \in [AppTasks -> {Phase[u] : u \in AppTasks}]
  BY DEF Phase
<1>3. DOMAIN Phase = AppTasks /\ DOMAIN Phase' = AppTasks
  BY DEF Phase
<1>4. Phase' = [u \in AppTasks |-> Phase'[u]]
  BY DEF Phase
<1>5. [Phase EXCEPT ![t] = Phase'[t]] = [u \in AppTasks |-> Phase'[u]]
  BY <1>1, <1>3
<1> QED
  BY <1>4, <1>5 DEF Phase

LEMMA BufferOf ==
  ASSUME NEW t \in AppTasks, \A u \in AppTasks \ {t} : step'[u] = step[u],
         \A u \in AppTasks \ {t} : call'[u] = call[u],
         \A u \in AppTasks \ {t} : message'[u] = message[u]
  PROVE  /\ Buffer' = [Buffer EXCEPT ![t] = Buffer'[t]]
         /\ Buffer[t] = IF call[t] = "receive" /\ step[t] = "advance" THEN Garbage
                        ELSE message[t]
         /\ Buffer'[t] = IF call'[t] = "receive" /\ step'[t] = "advance" THEN Garbage
                         ELSE message'[t]
<1>1. \A u \in AppTasks \ {t} : Buffer'[u] = Buffer[u]
  BY DEF Buffer
<1>2. DOMAIN Buffer = AppTasks /\ DOMAIN Buffer' = AppTasks
  BY DEF Buffer
<1>3. Buffer' = [u \in AppTasks |-> Buffer'[u]]
  BY DEF Buffer
<1>4. [Buffer EXCEPT ![t] = Buffer'[t]] = [u \in AppTasks |-> Buffer'[u]]
  BY <1>1, <1>2
<1> QED
  BY <1>3, <1>4 DEF Buffer

(* The contents are a sequence of messages.                                *)
ContentsOK ==
  /\ Contents \in Seq(Messages) /\ Len(Contents) = stored
  /\ \A i \in 1 .. stored : Contents[i] = storage[(head + i - 1) % Capacity]

LEMMA ContentsType == QueueInv => ContentsOK
<1> SUFFICES ASSUME QueueInv PROVE ContentsOK
  OBVIOUS
<1>1. stored \in Nat /\ head \in Int
  BY QueueAssumption DEF QueueInv, QTypeOK, Slots
<1>2. Contents \in [1 .. stored -> Messages]
  <2> SUFFICES ASSUME NEW i \in 1 .. stored
               PROVE  storage[(head + i - 1) % Capacity] \in Messages
    BY DEF Contents
  <2>1. i - 1 \in 0 .. stored - 1 /\ head + i - 1 = head + (i - 1)
    BY <1>1
  <2> QED
    BY <2>1 DEF QueueInv, RingAgrees
<1>3. Contents \in Seq(Messages)
  BY <1>1, <1>2, SeqDef
<1>4. Len(Contents) = stored
  BY <1>1, <1>2, <1>3, LenProperties
<1> QED
  BY <1>3, <1>4 DEF ContentsOK, Contents

LEMMA ContentsStay ==
  ASSUME UNCHANGED ringVars
  PROVE  Contents' = Contents
BY DEF Contents, ringVars

(* A sender appends its message to the contents.                           *)
LEMMA ContentsGrow ==
  ASSUME QueueInv, QueueInv', NEW t \in AppTasks, step[t] = "advance", call[t] = "send",
         storage' = [storage EXCEPT ![tail] = message[t]],
         stored' = stored + 1, UNCHANGED head
  PROVE  Len(Contents) < Capacity /\ Contents' = Append(Contents, message[t])
<1>1. /\ Contents \in Seq(Messages) /\ Len(Contents) = stored
      /\ \A i \in 1 .. stored : Contents[i] = storage[(head + i - 1) % Capacity]
  BY ContentsType DEF ContentsOK
<1>2. /\ Contents' \in Seq(Messages) /\ Len(Contents') = stored + 1
      /\ \A i \in 1 .. stored + 1 : Contents'[i] = storage'[(head + i - 1) % Capacity]
  <2>1. ContentsOK'
    BY ContentsType, PTL
  <2> QED
    BY <2>1 DEF ContentsOK
<1>3. /\ stored \in Nat /\ stored < Capacity /\ Capacity \in Nat \ {0}
      /\ head \in Slots /\ tail \in Slots /\ head \in Int
      /\ storage \in [Slots -> Messages \cup {Garbage}]
  BY RoomBehindUnit DEF QueueInv, QTypeOK, IsBefore, Slots
<1>4. message[t] \in Messages
  BY DEF QueueInv, RingAgrees
<1>5. /\ tail = (head + stored) % Capacity
      /\ \A i \in 0 .. stored - 1 : (head + i) % Capacity # tail
  BY <1>3, TailIsFree DEF QueueInv
<1>6. /\ Append(Contents, message[t]) \in Seq(Messages)
      /\ Len(Append(Contents, message[t])) = stored + 1
      /\ \A i \in 1 .. stored : Append(Contents, message[t])[i] = Contents[i]
      /\ Append(Contents, message[t])[stored + 1] = message[t]
  BY <1>1, <1>4, AppendProperties
<1>7. ASSUME NEW i \in 1 .. stored + 1
      PROVE  Contents'[i] = Append(Contents, message[t])[i]
  <2>1. CASE i = stored + 1
    <3>1. (head + i - 1) % Capacity = tail
      <4>1. head + i - 1 = head + stored
        BY <1>3, <2>1
      <4> QED
        BY <1>5, <4>1
    <3> QED
      BY <1>2, <1>3, <1>6, <2>1, <3>1
  <2>2. CASE i # stored + 1
    <3>1. i \in 1 .. stored /\ i - 1 \in 0 .. stored - 1 /\ head + i - 1 = head + (i - 1)
      BY <1>3, <2>2
    <3>2. (head + (i - 1)) % Capacity # tail
      BY <1>5, <3>1
    <3>3. (head + (i - 1)) % Capacity \in Slots
      <4>1. i - 1 \in 0 .. Capacity
        BY <1>3, <3>1
      <4> QED
        BY <1>3, <4>1, SlotAt
    <3>4. storage'[(head + (i - 1)) % Capacity] = storage[(head + (i - 1)) % Capacity]
      BY <1>3, <3>2, <3>3
    <3> QED
      BY <1>1, <1>2, <1>6, <3>1, <3>4
  <2> QED
    BY <2>1, <2>2
<1>8. Contents' = Append(Contents, message[t])
  BY <1>2, <1>6, <1>7, SeqEqual
<1> QED
  BY <1>1, <1>3, <1>8

(* A receiver takes the head of the contents.                              *)
LEMMA ContentsShrink ==
  ASSUME QueueInv, QueueInv', NEW t \in AppTasks, step[t] = "advance",
         call[t] = "receive", UNCHANGED storage,
         head' = NextSlot(head), stored' = stored - 1
  PROVE  /\ Contents # <<>> /\ message[t] = Head(Contents)
         /\ Contents' = Tail(Contents)
<1>1. /\ Contents \in Seq(Messages) /\ Len(Contents) = stored
      /\ \A i \in 1 .. stored : Contents[i] = storage[(head + i - 1) % Capacity]
  BY ContentsType DEF ContentsOK
<1>2. /\ Contents' \in Seq(Messages) /\ Len(Contents') = stored - 1
      /\ \A i \in 1 .. stored - 1 : Contents'[i] = storage[(head' + i - 1) % Capacity]
  <2>1. ContentsOK'
    BY ContentsType, PTL
  <2> QED
    BY <2>1 DEF ContentsOK
<1>3. /\ stored \in 0 .. Capacity /\ stored >= 1 /\ Capacity \in Nat \ {0}
      /\ head \in Slots /\ head' \in Slots
      /\ head' = IF head + 1 < Capacity THEN head + 1 ELSE 0
  BY RoomBehindUnit, NextIsSlot DEF QueueInv, QTypeOK, IsBefore
<1>4. Contents # <<>>
  BY <1>1, <1>3, EmptySeq
<1>5. message[t] = Head(Contents)
  <2>1. (head + 0) % Capacity = head /\ head + 1 - 1 = head + 0
    <3>1. (head + 0) % Capacity = IF head + 0 < Capacity THEN head + 0 ELSE head + 0 - Capacity
      <4>1. 0 \in 0 .. Capacity
        BY <1>3
      <4> QED
        BY <1>3, <4>1, SlotAt
    <3> QED
      BY <1>3, <3>1 DEF Slots
  <2>2. Contents[1] = storage[head]
    BY <1>1, <1>3, <2>1
  <2>3. message[t] = storage[head]
    BY DEF QueueInv, RingAgrees
  <2> QED
    BY <1>1, <1>4, <2>2, <2>3
<1>6. /\ Tail(Contents) \in Seq(Messages) /\ Len(Tail(Contents)) = stored - 1
      /\ \A i \in 1 .. stored - 1 : Tail(Contents)[i] = Contents[i + 1]
  BY <1>1, <1>4, HeadTailProperties
<1>7. ASSUME NEW i \in 1 .. stored - 1
      PROVE  Contents'[i] = Tail(Contents)[i]
  <2>1. /\ i \in 0 .. Capacity /\ i - 1 \in 0 .. Capacity /\ i + 1 \in 1 .. stored
        /\ head + (i + 1) - 1 = head + i /\ head' + i - 1 = head' + (i - 1)
    BY <1>3 DEF Slots
  <2>2. (head + i) % Capacity = IF head + i < Capacity THEN head + i ELSE head + i - Capacity
    BY <1>3, <2>1, SlotAt
  <2>3. (head' + (i - 1)) % Capacity
          = IF head' + (i - 1) < Capacity THEN head' + (i - 1) ELSE head' + (i - 1) - Capacity
    BY <1>3, <2>1, SlotAt
  <2>4. (head' + (i - 1)) % Capacity = (head + i) % Capacity
    BY <1>3, <2>2, <2>3 DEF Slots
  <2> QED
    BY <1>1, <1>2, <1>6, <2>1, <2>4
<1>8. Contents' = Tail(Contents)
  BY <1>2, <1>6, <1>7, SeqEqual
<1> QED
  BY <1>4, <1>5, <1>8

-----------------------------------------------------------------------------
(* The steps of a call, seen from the abstract queue.                      *)
LEMMA SameView ==
  ASSUME NEW t \in AppTasks, UNCHANGED <<ringVars, message, call, status>>,
         \A u \in AppTasks \ {t} : step'[u] = step[u],
         \/ {step[t], step'[t]} \subseteq {"wait", "lock", "copy", "give_back"}
         \/ {step[t], step'[t]} \subseteq {"unlock", "post"}
  PROVE  UNCHANGED Abs!fifoVars
<1>1. \A u \in AppTasks :
        /\ step'[u] = "run" <=> step[u] = "run"
        /\ step'[u] \in {"unlock", "post"} <=> step[u] \in {"unlock", "post"}
        /\ step'[u] = "advance" <=> step[u] = "advance"
  OBVIOUS
<1>2. Phase' = Phase
  BY <1>1 DEF Phase
<1>3. Buffer' = Buffer
  BY <1>1 DEF Buffer
<1> QED
  BY <1>2, <1>3, ContentsStay DEF Abs!fifoVars

(* A call that returns an error before it moved the index has no effect.   *)
LEMMA ErrorView ==
  ASSUME QueueInv, NEW t \in AppTasks, step[t] \in {"wait", "give_back"},
         ReturnStatus(t, "SYNC_OPERATION"), UNCHANGED <<ringVars, message>>
  PROVE  Abs!Fail(t)
<1>1. /\ step'[t] = "run" /\ \A u \in AppTasks \ {t} : step'[u] = step[u]
      /\ call' = call /\ call[t] \in {"send", "receive"}
      /\ status' = [status EXCEPT ![t] = "SYNC_OPERATION"]
  BY DEF QueueInv, QTypeOK, ReturnStatus, Calls
<1>2. Phase' = [Phase EXCEPT ![t] = "idle"] /\ Phase[t] \in {"send", "receive"}
  BY <1>1, PhaseOf
<1>3. Buffer' = Buffer
  BY <1>1 DEF Buffer
<1> QED
  BY <1>1, <1>2, <1>3, ContentsStay DEF Abs!Fail

LEMMA StartView ==
  ASSUME NEW t \in AppTasks, QueueInv, Start(t)
  PROVE  Abs!CallSend(t) \/ Abs!CallReceive(t)
<1>1. /\ step[t] = "run" /\ step'[t] = "wait"
      /\ \A u \in AppTasks \ {t} :
           step'[u] = step[u] /\ call'[u] = call[u] /\ message'[u] = message[u]
      /\ UNCHANGED <<ringVars, status>>
  BY DEF QueueInv, QTypeOK, Start
<1>2. Contents' = Contents
  BY <1>1, ContentsStay
<1>3. /\ Phase[t] = "idle" /\ Phase' = [Phase EXCEPT ![t] = Phase'[t]]
      /\ Phase'[t] = call'[t]
  BY <1>1, PhaseOf
<1>4. Buffer' = [Buffer EXCEPT ![t] = message'[t]]
  BY <1>1, BufferOf
<1>5. \/ call'[t] = "send" /\ message'[t] \in Messages
      \/ call'[t] = "receive" /\ message'[t] = Garbage
  BY DEF QueueInv, QTypeOK, Start
<1>6. CASE call'[t] = "send" /\ message'[t] \in Messages
  BY <1>1, <1>2, <1>3, <1>4, <1>6 DEF Abs!CallSend
<1>7. CASE call'[t] = "receive" /\ message'[t] = Garbage
  BY <1>1, <1>2, <1>3, <1>4, <1>7 DEF Abs!CallReceive
<1> QED
  BY <1>5, <1>6, <1>7

LEMMA CopyView ==
  ASSUME NEW t \in AppTasks, QueueInv, QueueInv', Copy(t)
  PROVE  UNCHANGED Abs!fifoVars
<1>1. QTypeOK /\ RingAgrees /\ RingAgrees'
  BY DEF QueueInv
<1>2. /\ step[t] = "copy" /\ step'[t] = "advance" /\ call' = call
      /\ \A u \in AppTasks \ {t} : step'[u] = step[u]
      /\ UNCHANGED <<head, tail, stored, status>>
  BY <1>1 DEF QTypeOK, Copy, Goto
<1>3. \/ /\ call[t] = "send"
         /\ storage' = [storage EXCEPT ![tail] = Garbage]
         /\ message' = message
      \/ /\ call[t] = "receive"
         /\ message' = [message EXCEPT ![t] = storage[head]]
         /\ storage' = storage
  BY DEF Copy
<1>4. Phase' = Phase
  BY <1>2 DEF Phase
<1>5. Buffer' = Buffer
  <2> SUFFICES ASSUME NEW u \in AppTasks
               PROVE  (IF call'[u] = "receive" /\ step'[u] = "advance" THEN Garbage
                       ELSE message'[u])
                      = (IF call[u] = "receive" /\ step[u] = "advance" THEN Garbage
                         ELSE message[u])
    BY DEF Buffer
  <2>1. CASE u = t
    BY <1>1, <1>2, <1>3, <2>1 DEF RingAgrees
  <2>2. CASE u # t
    BY <1>1, <1>2, <1>3, <2>2 DEF QTypeOK
  <2> QED
    BY <2>1, <2>2
<1>6. Contents' = Contents
  <2>1. CASE call[t] = "send"
    <3>1. /\ stored < Capacity /\ stored \in Nat /\ head \in Slots /\ head \in Int
          /\ Capacity \in Nat \ {0}
      BY <1>1, <1>2, <2>1, RoomBehindUnit DEF QTypeOK, IsBefore, Slots
    <3> SUFFICES ASSUME NEW i \in 1 .. stored
                 PROVE  storage'[(head + i - 1) % Capacity] = storage[(head + i - 1) % Capacity]
      BY <1>2 DEF Contents
    <3>2. /\ i - 1 \in 0 .. stored - 1 /\ i - 1 \in 0 .. Capacity
          /\ head + i - 1 = head + (i - 1)
      BY <3>1
    <3>3. (head + (i - 1)) % Capacity # tail
      BY <1>1, <3>1, <3>2, TailIsFree
    <3>4. (head + (i - 1)) % Capacity \in Slots
      BY <3>1, <3>2, SlotAt
    <3> QED
      BY <1>1, <1>3, <2>1, <3>2, <3>3, <3>4 DEF QTypeOK
  <2>2. CASE call[t] = "receive"
    BY <1>2, <1>3, <2>2 DEF Contents
  <2> QED
    BY <1>3, <2>1, <2>2
<1> QED
  BY <1>2, <1>4, <1>5, <1>6 DEF Abs!fifoVars

(* The index moves: this is where a call takes effect.                     *)
LEMMA AdvanceView ==
  ASSUME NEW t \in AppTasks, QueueInv, Advance(t)
  PROVE  Abs!Put(t) \/ Abs!Take(t)
<1>1. QTypeOK /\ QueueInv' /\ message' = message
  BY AdvanceKeeps DEF QueueInv
<1>2. /\ step[t] = "advance" /\ step'[t] = "unlock" /\ call' = call /\ status' = status
      /\ \A u \in AppTasks \ {t} : step'[u] = step[u]
      /\ call[t] \in {"send", "receive"}
  BY <1>1 DEF QTypeOK, Advance, Goto, Calls
<1>3. /\ Phase' = [Phase EXCEPT ![t] = "done"] /\ Phase[t] = call[t]
      /\ Buffer' = [Buffer EXCEPT ![t] = message[t]]
      /\ call[t] = "send" => Buffer[t] = message[t]
  BY <1>1, <1>2, PhaseOf, BufferOf
<1>4. CASE call[t] = "send"
  <2>1. /\ storage' = [storage EXCEPT ![tail] = message[t]]
        /\ stored' = stored + 1 /\ UNCHANGED head
    BY <1>4 DEF Advance
  <2>2. Len(Contents) < Capacity /\ Contents' = Append(Contents, message[t])
    BY <1>1, <1>2, <1>4, <2>1, ContentsGrow
  <2>3. Buffer' = Buffer
    BY <1>1, <1>2, <1>4 DEF Buffer
  <2> QED
    BY <1>2, <1>3, <1>4, <2>2, <2>3 DEF Abs!Put
<1>5. CASE call[t] = "receive"
  <2>1. /\ UNCHANGED storage /\ head' = NextSlot(head) /\ stored' = stored - 1
    BY <1>5 DEF Advance
  <2>2. /\ Contents # <<>> /\ message[t] = Head(Contents) /\ Contents' = Tail(Contents)
    BY <1>1, <1>2, <1>5, <2>1, ContentsShrink
  <2> QED
    BY <1>2, <1>3, <1>5, <2>2 DEF Abs!Take
<1> QED
  BY <1>2, <1>4, <1>5

LEMMA PostView ==
  ASSUME NEW t \in AppTasks, QueueInv, PostUnit(t)
  PROVE  Abs!Return(t)
<1>1. QTypeOK /\ ReturnStatus(t, "OK")
  BY PostUnitKeeps DEF QueueInv
<1>2. /\ step[t] = "post" /\ step'[t] = "run" /\ call' = call
      /\ \A u \in AppTasks \ {t} : step'[u] = step[u]
      /\ status' = [status EXCEPT ![t] = "OK"]
      /\ UNCHANGED <<ringVars, message>>
  BY <1>1 DEF QTypeOK, PostUnit, ReturnStatus
<1>3. Phase' = [Phase EXCEPT ![t] = "idle"] /\ Phase[t] = "done"
  BY <1>2, PhaseOf
<1>4. Buffer' = Buffer
  BY <1>2 DEF Buffer
<1> QED
  BY <1>2, <1>3, <1>4, ContentsStay DEF Abs!Return

LEMMA WaitView ==
  ASSUME NEW t \in AppTasks, QueueInv, WaitUnit(t)
  PROVE  Abs!Fail(t) \/ UNCHANGED Abs!fifoVars
<1>1. /\ QTypeOK /\ step[t] = "wait" /\ UNCHANGED <<ringVars, message>>
      /\ Goto(t, "wait") \/ Goto(t, "lock") \/ ReturnStatus(t, "SYNC_OPERATION")
  BY DEF QueueInv, WaitUnit
<1>2. CASE Goto(t, "wait") \/ Goto(t, "lock")
  <2>1. /\ step'[t] \in {"wait", "lock"} /\ call' = call /\ status' = status
        /\ \A u \in AppTasks \ {t} : step'[u] = step[u]
    BY <1>1, <1>2 DEF QTypeOK, Goto
  <2> QED
    BY <1>1, <2>1, SameView
<1>3. CASE ReturnStatus(t, "SYNC_OPERATION")
  BY <1>1, <1>3, ErrorView
<1> QED
  BY <1>1, <1>2, <1>3

LEMMA LockView ==
  ASSUME NEW t \in AppTasks, QueueInv, Lock(t)
  PROVE  UNCHANGED Abs!fifoVars
<1>1. /\ QTypeOK /\ step[t] = "lock" /\ UNCHANGED <<ringVars, message>>
      /\ Goto(t, "lock") \/ Goto(t, "copy") \/ Goto(t, "give_back")
  BY DEF QueueInv, Lock
<1>2. /\ step'[t] \in {"lock", "copy", "give_back"} /\ call' = call /\ status' = status
      /\ \A u \in AppTasks \ {t} : step'[u] = step[u]
  BY <1>1 DEF QTypeOK, Goto
<1> QED
  BY <1>1, <1>2, SameView

LEMMA UnlockView ==
  ASSUME NEW t \in AppTasks, QueueInv, Unlock(t)
  PROVE  UNCHANGED Abs!fifoVars
<1>1. /\ QTypeOK /\ step[t] = "unlock" /\ UNCHANGED <<ringVars, message>>
      /\ Goto(t, "post")
  BY UnlockKeeps DEF QueueInv, Unlock
<1>2. /\ step'[t] = "post" /\ call' = call /\ status' = status
      /\ \A u \in AppTasks \ {t} : step'[u] = step[u]
  BY <1>1 DEF QTypeOK, Goto
<1> QED
  BY <1>1, <1>2, SameView

LEMMA IdleView ==
  ASSUME UNCHANGED <<ringVars, callVars>>
  PROVE  UNCHANGED Abs!fifoVars
BY ContentsStay DEF callVars, Phase, Buffer, Abs!fifoVars

LEMMA QueueStepView ==
  ASSUME QueueInv, QueueInv', [QNext]_queueVars
  PROVE  [Abs!FifoNext]_(Abs!fifoVars)
<1>1. CASE Core
  BY <1>1, IdleView DEF Core, Idle
<1>2. ASSUME NEW t \in AppTasks, Start(t) \/ InCall(t) \/ Other(t)
      PROVE  [Abs!FifoNext]_(Abs!fifoVars)
  <2>1. CASE Start(t)
    BY <2>1, StartView DEF Abs!FifoNext
  <2>2. CASE WaitUnit(t)
    BY <2>2, WaitView DEF Abs!FifoNext
  <2>3. CASE Lock(t)
    BY <2>3, LockView
  <2>4. CASE GiveBack(t)
    <3>1. /\ step[t] = "give_back" /\ ReturnStatus(t, "SYNC_OPERATION")
          /\ UNCHANGED <<ringVars, message>>
      BY <2>4 DEF GiveBack
    <3> QED
      BY <3>1, ErrorView DEF Abs!FifoNext
  <2>5. CASE Copy(t)
    BY <2>5, CopyView
  <2>6. CASE Advance(t)
    BY <2>6, AdvanceView DEF Abs!FifoNext
  <2>7. CASE Unlock(t)
    BY <2>7, UnlockView
  <2>8. CASE PostUnit(t)
    BY <2>8, PostView DEF Abs!FifoNext
  <2>9. CASE Other(t)
    BY <2>9, IdleView DEF Other, Idle
  <2> QED
    BY <1>2, <2>1, <2>2, <2>3, <2>4, <2>5, <2>6, <2>7, <2>8, <2>9 DEF InCall
<1>3. CASE UNCHANGED queueVars
  BY <1>3, IdleView DEF queueVars
<1> QED
  BY <1>1, <1>2, <1>3 DEF QNext

LEMMA QueueInitView == QInit => Abs!FifoInit
<1> SUFFICES ASSUME QInit PROVE Abs!FifoInit
  OBVIOUS
<1>1. /\ stored = 0 /\ call = [t \in AppTasks |-> "send"]
      /\ step = [t \in AppTasks |-> "run"]
      /\ message = [t \in AppTasks |-> Garbage] /\ status = [t \in AppTasks |-> "OK"]
  BY DEF QInit, os_message_queue_init
<1>2. Contents = <<>>
  <2>1. Contents \in Seq(Messages) /\ Len(Contents) = 0
    BY <1>1, QueueInitInv, ContentsType DEF ContentsOK
  <2> QED
    BY <2>1, EmptySeq
<1>3. Phase = [t \in AppTasks |-> "idle"]
  BY <1>1 DEF Phase
<1>4. Buffer = [t \in AppTasks |-> Garbage]
  BY <1>1 DEF Buffer
<1> QED
  BY <1>1, <1>2, <1>3, <1>4 DEF Abs!FifoInit

LEMMA AbsIsFifo ==
  ASSUME [Abs!FifoNext]_(Abs!fifoVars)
  PROVE  [Fifo!FifoNext]_(Fifo!fifoVars)
BY DEF Abs!FifoNext, Fifo!FifoNext, Abs!fifoVars, Fifo!fifoVars,
       Abs!CallSend, Fifo!CallSend, Abs!CallReceive, Fifo!CallReceive,
       Abs!Put, Fifo!Put, Abs!Take, Fifo!Take, Abs!Return, Fifo!Return,
       Abs!Fail, Fifo!Fail, Contents, Phase, Buffer

(* The message queue implements a bounded FIFO, for any number of senders  *)
(* and receivers and any capacity: messages come out once, complete and in *)
(* order, and a call returns OK if and only if it took effect              *)
(* (os_message_queue_send, os_message_queue_receive).                      *)
THEOREM QueueIsFifo == QSpec => ImplementsFifo
<1>1. QInit => Fifo!FifoInit
  BY QueueInitView DEF Abs!FifoInit, Fifo!FifoInit, Contents, Phase, Buffer
<1>2. QueueInv /\ QueueInv' /\ [QNext]_queueVars => [Fifo!FifoNext]_(Fifo!fifoVars)
  BY QueueStepView, AbsIsFifo
<1> QED
  BY <1>1, <1>2, QueueInvariant, PTL DEF QSpec, ImplementsFifo, Fifo!FifoSpec

-----------------------------------------------------------------------------
(***************************************************************************)
(* The demo.  What ServiceProofs says of the console mutex; then, with the *)
(* two waits kept apart, that every call of the queue returns OK, that the *)
(* numbers of a producer come in order, and that no message is lost.       *)
(***************************************************************************)
ConsoleFacts == INSTANCE ServiceProofs
                  WITH mutex <- g_console_mutex, semaphore <- available_items

(* os_mutex_lock on the console mutex.                                     *)
LEMMA LockConsoleEffect ==
  ASSUME LayerInv, Console!MutexSound, NEW t \in AppTasks, NEW result,
         Console!os_mutex_lock(t, result)
  PROVE  /\ LayerInv' /\ Console!MutexSound' /\ Elsewhere(t, {})
         /\ \/ /\ result = "OK" /\ UNCHANGED layerVars
               /\ \/ g_console_mutex.owner_task_id = NoTask
                  \/ g_console_mutex.owner_task_id = t /\ t \in g_console_mutex.waiting
               /\ g_console_mutex'.owner_task_id = t
               /\ g_console_mutex'.waiting = g_console_mutex.waiting \ {t}
            \/ /\ result = "BLOCKED"
               /\ g_console_mutex.owner_task_id \notin {t, NoTask}
               /\ g_console_mutex'.owner_task_id = g_console_mutex.owner_task_id
               /\ g_console_mutex'.waiting = g_console_mutex.waiting \cup {t}
            \/ /\ result \in {"RECURSIVE_LOCK", "INTERRUPTS_DISABLED"}
               /\ result = "RECURSIVE_LOCK" <=> g_console_mutex.owner_task_id = t
               /\ t \notin g_console_mutex.waiting
               /\ UNCHANGED <<g_console_mutex, layerVars>>
<1>1. ConsoleFacts!LayerInv /\ t \in ConsoleFacts!AppTasks
  BY DEF ConsoleFacts!LayerInv, LayerInv, ConsoleFacts!LayerTypeOK, LayerTypeOK,
         ConsoleFacts!OneRunning, OneRunning, ConsoleFacts!layerVars, layerVars, ConsoleFacts!Tasks,
         Tasks, ConsoleFacts!TaskStates, TaskStates, ConsoleFacts!IdleTask, IdleTask,
         ConsoleFacts!AppTasks, AppTasks, ConsoleFacts!NoTask, NoTask
<1>2. ConsoleFacts!MutexSound
  BY DEF ConsoleFacts!MutexSound, Console!MutexSound, ConsoleFacts!MutexType,
         Console!MutexType, ConsoleFacts!Tasks, Console!Tasks, ConsoleFacts!IdleTask,
         Console!IdleTask, ConsoleFacts!AppTasks, Console!AppTasks, ConsoleFacts!NoTask,
         Console!NoTask
<1>3. ConsoleFacts!os_mutex_lock(t, result)
  BY DEF ConsoleFacts!os_mutex_lock, Console!os_mutex_lock, ConsoleFacts!lock_free,
         Console!lock_free, ConsoleFacts!lock_handed_over, Console!lock_handed_over,
         ConsoleFacts!lock_recursive, Console!lock_recursive, ConsoleFacts!lock_masked,
         Console!lock_masked, ConsoleFacts!lock_block, Console!lock_block,
         ConsoleFacts!Executing, Console!Executing, ConsoleFacts!CanBlock, Console!CanBlock,
         ConsoleFacts!task_block, Console!task_block, ConsoleFacts!os_trigger_context_switch,
         Console!os_trigger_context_switch, ConsoleFacts!layerVars, Console!layerVars,
         ConsoleFacts!IdleTask, Console!IdleTask
<1> QED
  BY <1>1, <1>2, <1>3, ConsoleFacts!LockEffect, NumTasksAssumption
     DEF ConsoleFacts!LayerInv, LayerInv, ConsoleFacts!LayerTypeOK, LayerTypeOK,
         ConsoleFacts!OneRunning, OneRunning, ConsoleFacts!layerVars, layerVars, ConsoleFacts!Tasks,
         Tasks, ConsoleFacts!TaskStates, TaskStates, ConsoleFacts!IdleTask, IdleTask,
         ConsoleFacts!AppTasks, AppTasks, ConsoleFacts!NoTask, NoTask, ConsoleFacts!MutexSound,
         Console!MutexSound, ConsoleFacts!MutexType, Console!MutexType, Console!Tasks,
         Console!IdleTask, Console!AppTasks, Console!NoTask,
         ConsoleFacts!BlockedElsewhere, Elsewhere

(* os_mutex_unlock on the console mutex.                                   *)
LEMMA UnlockConsoleEffect ==
  ASSUME LayerInv, Console!MutexSound, NEW t \in AppTasks, NEW result,
         Console!os_mutex_unlock(t, result), t \notin g_console_mutex.waiting
  PROVE  /\ LayerInv' /\ Console!MutexSound'
         /\ Elsewhere(t, g_console_mutex.waiting)
         /\ g_console_mutex'.waiting = g_console_mutex.waiting
         /\ \/ /\ result = "NOT_OWNER" /\ g_console_mutex.owner_task_id # t
               /\ UNCHANGED <<g_console_mutex, layerVars>>
            \/ /\ result = "OK" /\ g_console_mutex.owner_task_id = t
               /\ g_console_mutex'.owner_task_id = NoTask /\ g_console_mutex.waiting = {}
            \/ /\ result = "OK" /\ g_console_mutex.owner_task_id = t
               /\ g_console_mutex'.owner_task_id \in g_console_mutex.waiting
               /\ g_console_mutex'.owner_task_id # t
<1>1. ConsoleFacts!LayerInv /\ t \in ConsoleFacts!AppTasks
  BY DEF ConsoleFacts!LayerInv, LayerInv, ConsoleFacts!LayerTypeOK, LayerTypeOK,
         ConsoleFacts!OneRunning, OneRunning, ConsoleFacts!layerVars, layerVars, ConsoleFacts!Tasks,
         Tasks, ConsoleFacts!TaskStates, TaskStates, ConsoleFacts!IdleTask, IdleTask,
         ConsoleFacts!AppTasks, AppTasks, ConsoleFacts!NoTask, NoTask
<1>2. ConsoleFacts!MutexSound
  BY DEF ConsoleFacts!MutexSound, Console!MutexSound, ConsoleFacts!MutexType,
         Console!MutexType, ConsoleFacts!Tasks, Console!Tasks, ConsoleFacts!IdleTask,
         Console!IdleTask, ConsoleFacts!AppTasks, Console!AppTasks, ConsoleFacts!NoTask,
         Console!NoTask
<1>3. ConsoleFacts!os_mutex_unlock(t, result)
  BY DEF ConsoleFacts!os_mutex_unlock, Console!os_mutex_unlock,
         ConsoleFacts!unlock_not_owner, Console!unlock_not_owner,
         ConsoleFacts!unlock_release, Console!unlock_release, ConsoleFacts!unlock_hand_over,
         Console!unlock_hand_over, ConsoleFacts!IsOwner, Console!IsOwner,
         ConsoleFacts!mutex_find_next_waiting_task,
         Console!mutex_find_next_waiting_task, ConsoleFacts!Executing,
         Console!Executing, ConsoleFacts!task_unblock, Console!task_unblock,
         ConsoleFacts!layerVars, Console!layerVars, ConsoleFacts!IdleTask, Console!IdleTask,
         ConsoleFacts!NoTask, Console!NoTask, ConsoleFacts!FirstBlocked,
         Console!FirstBlocked, ConsoleFacts!WithoutStale, Console!WithoutStale,
         ConsoleFacts!BlockedAmong, Console!BlockedAmong, ConsoleFacts!CyclicOffset,
         Console!CyclicOffset
<1> QED
  BY <1>1, <1>2, <1>3, ConsoleFacts!UnlockEffect, NumTasksAssumption
     DEF ConsoleFacts!LayerInv, LayerInv, ConsoleFacts!LayerTypeOK, LayerTypeOK,
         ConsoleFacts!OneRunning, OneRunning, ConsoleFacts!layerVars, layerVars, ConsoleFacts!Tasks,
         Tasks, ConsoleFacts!TaskStates, TaskStates, ConsoleFacts!IdleTask, IdleTask,
         ConsoleFacts!AppTasks, AppTasks, ConsoleFacts!NoTask, NoTask, ConsoleFacts!MutexSound,
         Console!MutexSound, ConsoleFacts!MutexType, Console!MutexType, Console!Tasks,
         Console!IdleTask, Console!AppTasks, Console!NoTask,
         ConsoleFacts!BlockedElsewhere, Elsewhere

(* A call of a service leaves interrupts enabled, and is not refused for   *)
(* their sake.                                                             *)
LEMMA MutexMask ==
  ASSUME ~primask, NEW t, NEW result,
         \/ Access!os_mutex_lock(t, result) \/ Access!os_mutex_unlock(t, result)
         \/ Console!os_mutex_lock(t, result) \/ Console!os_mutex_unlock(t, result)
  PROVE  ~primask' /\ result # "INTERRUPTS_DISABLED"
<1>1. CASE Access!os_mutex_lock(t, result)
  BY <1>1 DEF Access!os_mutex_lock, Access!lock_free, Access!lock_handed_over,
              Access!lock_recursive, Access!lock_masked, Access!lock_block,
              Access!layerVars
<1>2. CASE Access!os_mutex_unlock(t, result)
  BY <1>2 DEF Access!os_mutex_unlock, Access!unlock_not_owner,
              Access!unlock_release, Access!unlock_hand_over, Access!layerVars
<1>3. CASE Console!os_mutex_lock(t, result)
  BY <1>3 DEF Console!os_mutex_lock, Console!lock_free, Console!lock_handed_over,
              Console!lock_recursive, Console!lock_masked, Console!lock_block,
              Console!layerVars
<1>4. CASE Console!os_mutex_unlock(t, result)
  BY <1>4 DEF Console!os_mutex_unlock, Console!unlock_not_owner,
              Console!unlock_release, Console!unlock_hand_over, Console!layerVars
<1> QED
  BY <1>1, <1>2, <1>3, <1>4

LEMMA SemaphoreMask ==
  ASSUME ~primask, NEW t, NEW result,
         \/ Items!os_semaphore_wait(t, result) \/ Items!os_semaphore_post(t, result)
         \/ Spaces!os_semaphore_wait(t, result) \/ Spaces!os_semaphore_post(t, result)
  PROVE  ~primask' /\ result # "INTERRUPTS_DISABLED"
<1>1. CASE Items!os_semaphore_wait(t, result)
  BY <1>1 DEF Items!os_semaphore_wait, Items!wait_granted, Items!wait_take_unit,
              Items!wait_masked, Items!wait_block, Items!layerVars
<1>2. CASE Items!os_semaphore_post(t, result)
  BY <1>2 DEF Items!os_semaphore_post, Items!post_grant, Items!post_overflow,
              Items!post_unit, Items!layerVars
<1>3. CASE Spaces!os_semaphore_wait(t, result)
  BY <1>3 DEF Spaces!os_semaphore_wait, Spaces!wait_granted, Spaces!wait_take_unit,
              Spaces!wait_masked, Spaces!wait_block, Spaces!layerVars
<1>4. CASE Spaces!os_semaphore_post(t, result)
  BY <1>4 DEF Spaces!os_semaphore_post, Spaces!post_grant, Spaces!post_overflow,
              Spaces!post_unit, Spaces!layerVars
<1> QED
  BY <1>1, <1>2, <1>3, <1>4

(* What one step of a call of the queue does when interrupts are enabled:  *)
(* it goes on to the next step, or waits, and disturbs nobody who is not   *)
(* in such a call himself.                                                 *)
NextStep(from, to) ==
  \/ from = "wait"    /\ to \in {"wait", "lock"}
  \/ from = "lock"    /\ to \in {"lock", "copy"}
  \/ from = "copy"    /\ to = "advance"
  \/ from = "advance" /\ to = "unlock"
  \/ from = "unlock"  /\ to = "post"
  \/ from = "post"    /\ to = "run"

Undisturbed(t) ==
  \A u \in AppTasks \ {t} :
    step[u] = "run" => (task_state[u] = "BLOCKED" <=> task_state'[u] = "BLOCKED")

CallEffect(t) ==
  /\ QueueInv' /\ ~primask' /\ Undisturbed(t)
  /\ NextStep(step[t], step'[t]) /\ call' = call
  /\ \A u \in AppTasks \ {t} : step'[u] = step[u]
  /\ \A u \in AppTasks : status'[u] \in {status[u], "OK"}

LEMMA WaitEffects ==
  ASSUME QueueInv, ~primask, NEW t \in AppTasks, WaitUnit(t)
  PROVE  CallEffect(t)
<1>1. PICK result \in Items!WaitResults :
        /\ \/ call[t] = "send"    /\ WaitSpaces(t, result)
           \/ call[t] = "receive" /\ WaitItems(t, result)
        /\ \/ result = "BLOCKED" /\ Goto(t, "wait")
           \/ result = "OK"      /\ Goto(t, "lock")
           \/ result \notin {"BLOCKED", "OK"} /\ ReturnStatus(t, "SYNC_OPERATION")
  BY DEF WaitUnit
<1>2. /\ LayerInv /\ QTypeOK /\ Items!SemaphoreSound /\ Spaces!SemaphoreSound
      /\ step[t] = "wait"
  BY DEF QueueInv, WaitUnit
<1>3. /\ ~primask' /\ result # "INTERRUPTS_DISABLED"
      /\ Elsewhere(t, {})
      /\ result \in {"BLOCKED", "OK", "INTERRUPTS_DISABLED"}
  <2>1. CASE WaitSpaces(t, result)
    BY <1>2, <2>1, SemaphoreMask, WaitSpacesEffect DEF WaitSpaces
  <2>2. CASE WaitItems(t, result)
    BY <1>2, <2>2, SemaphoreMask, WaitItemsEffect DEF WaitItems
  <2> QED
    BY <1>1, <2>1, <2>2
<1>4. /\ step'[t] \in {"wait", "lock"} /\ call' = call /\ status' = status
      /\ \A u \in AppTasks \ {t} : step'[u] = step[u]
  BY <1>1, <1>2, <1>3, GotoMoves DEF Steps
<1>5. QueueInv'
  BY WaitUnitKeeps
<1> QED
  BY <1>2, <1>3, <1>4, <1>5 DEF CallEffect, NextStep, Undisturbed, Elsewhere

LEMMA LockEffects ==
  ASSUME QueueInv, ~primask, NEW t \in AppTasks, Lock(t)
  PROVE  CallEffect(t)
<1>1. PICK result \in Access!LockResults :
        /\ Access!os_mutex_lock(t, result)
        /\ \/ result = "BLOCKED" /\ Goto(t, "lock")
           \/ result = "OK"      /\ Goto(t, "copy")
           \/ result \notin {"BLOCKED", "OK"} /\ Goto(t, "give_back")
  BY DEF Lock
<1>2. LayerInv /\ QTypeOK /\ Access!MutexSound /\ step[t] = "lock"
  BY DEF QueueInv, Lock
<1>3. ~primask' /\ Elsewhere(t, {}) /\ result \in {"BLOCKED", "OK"}
  <2>1. access_mutex.owner_task_id = t => t \in access_mutex.waiting
    BY <1>2 DEF QueueInv, PlacesAgree
  <2> QED
    BY <1>1, <1>2, <2>1, MutexMask, LockAccessEffect
<1>4. /\ step'[t] \in {"lock", "copy"} /\ call' = call /\ status' = status
      /\ \A u \in AppTasks \ {t} : step'[u] = step[u]
  BY <1>1, <1>2, <1>3, GotoMoves DEF Steps
<1>5. QueueInv'
  BY LockKeeps
<1> QED
  BY <1>2, <1>3, <1>4, <1>5 DEF CallEffect, NextStep, Undisturbed, Elsewhere

LEMMA RingEffects ==
  ASSUME QueueInv, ~primask, NEW t \in AppTasks, Copy(t) \/ Advance(t)
  PROVE  CallEffect(t)
<1>1. QTypeOK /\ QueueInv'
  BY CopyKeeps, AdvanceKeeps DEF QueueInv
<1>2. /\ UNCHANGED layerVars
      /\ \/ step[t] = "copy" /\ Goto(t, "advance")
         \/ step[t] = "advance" /\ Goto(t, "unlock")
  BY DEF Copy, Advance
<1>3. /\ NextStep(step[t], step'[t]) /\ call' = call /\ status' = status
      /\ \A u \in AppTasks \ {t} : step'[u] = step[u]
  BY <1>1, <1>2, GotoMoves DEF Steps, NextStep
<1> QED
  BY <1>1, <1>2, <1>3 DEF CallEffect, Undisturbed, layerVars

LEMMA UnlockEffects ==
  ASSUME QueueInv, ~primask, NEW t \in AppTasks, Unlock(t)
  PROVE  CallEffect(t)
<1>1. PICK result : Access!os_mutex_unlock(t, result)
  BY DEF Unlock
<1>2. /\ LayerInv /\ QTypeOK /\ Access!MutexSound /\ PlacesAgree /\ step[t] = "unlock"
      /\ t \notin access_mutex.waiting
  BY DEF QueueInv, Unlock, PlacesAgree
<1>3. ~primask' /\ Elsewhere(t, access_mutex.waiting)
  BY <1>1, <1>2, MutexMask, UnlockAccessEffect
<1>4. QueueInv' /\ Goto(t, "post")
  BY UnlockKeeps
<1>5. /\ step'[t] = "post" /\ call' = call /\ status' = status
      /\ \A u \in AppTasks \ {t} : step'[u] = step[u]
  BY <1>2, <1>4, GotoMoves DEF Steps
<1>6. Undisturbed(t)
  BY <1>2, <1>3 DEF Undisturbed, Elsewhere, PlacesAgree
<1> QED
  BY <1>2, <1>3, <1>4, <1>5, <1>6 DEF CallEffect, NextStep

LEMMA PostEffects ==
  ASSUME QueueInv, ~primask, NEW t \in AppTasks, PostUnit(t)
  PROVE  CallEffect(t)
<1>1. PICK result :
        \/ call[t] = "send"    /\ PostItems(t, result)
        \/ call[t] = "receive" /\ PostSpaces(t, result)
  BY DEF PostUnit
<1>2. /\ LayerInv /\ QTypeOK /\ PlacesAgree /\ step[t] = "post"
      /\ Items!SemaphoreSound /\ Spaces!SemaphoreSound
  BY DEF QueueInv, PostUnit
<1>3. /\ ~primask'
      /\ Elsewhere(t, available_items.waiting) \/ Elsewhere(t, available_spaces.waiting)
  <2>1. CASE PostItems(t, result)
    BY <1>2, <2>1, SemaphoreMask, PostItemsEffect DEF PostItems
  <2>2. CASE PostSpaces(t, result)
    BY <1>2, <2>2, SemaphoreMask, PostSpacesEffect DEF PostSpaces
  <2> QED
    BY <1>1, <2>1, <2>2
<1>4. QueueInv' /\ ReturnStatus(t, "OK")
  BY PostUnitKeeps
<1>5. /\ step'[t] = "run" /\ call' = call /\ status' = [status EXCEPT ![t] = "OK"]
      /\ \A u \in AppTasks \ {t} : step'[u] = step[u]
  BY <1>2, <1>4, ReturnMoves DEF ReturnStatus
<1>6. \A u \in AppTasks : status'[u] \in {status[u], "OK"}
  BY <1>2, <1>5 DEF QTypeOK
<1>7. Undisturbed(t)
  BY <1>2, <1>3 DEF Undisturbed, Elsewhere, PlacesAgree
<1> QED
  BY <1>2, <1>3, <1>4, <1>5, <1>6, <1>7 DEF CallEffect, NextStep

LEMMA CallGoesOn ==
  ASSUME QueueInv, ~primask, NEW t \in AppTasks, InCall(t), step[t] # "give_back"
  PROVE  CallEffect(t)
<1>1. ~GiveBack(t)
  BY DEF GiveBack
<1> QED
  BY <1>1, WaitEffects, LockEffects, RingEffects, UnlockEffects, PostEffects DEF InCall

(* Where the tasks are, without the numbers of the messages.               *)
DemoSound ==
  QueueInv /\ ~primask /\ Console!MutexSound /\ DemoPlaces

LEMMA WorkersAreTasks == Workers \subseteq AppTasks
BY QueueAssumption DEF Workers

LEMMA Moves ==
  ASSUME DemoPlaces, NEW t \in Workers, NEW from,
         NEW to \in {"call", "called", "lock", "unlock", "sleep"}, Move(t, from, to)
  PROVE  /\ pc' \in [Workers -> {"call", "called", "lock", "unlock", "sleep"}]
         /\ pc[t] = from /\ pc'[t] = to
         /\ \A u \in Workers \ {t} : pc'[u] = pc[u]
BY DEF DemoPlaces, Move

(* The console is not disturbed by those who do not wait for it.           *)
LEMMA ConsoleStays ==
  ASSUME Console!MutexSound, UNCHANGED g_console_mutex,
         \A u \in AppTasks : u \in g_console_mutex.waiting =>
           (task_state[u] = "BLOCKED" <=> task_state'[u] = "BLOCKED")
  PROVE  Console!MutexSound'
<1>1. g_console_mutex.waiting \subseteq AppTasks
  BY DEF Console!MutexSound, Console!AppTasks, AppTasks, Console!Tasks, Tasks,
         Console!IdleTask, IdleTask
<1> QED
  BY <1>1 DEF Console!MutexSound

LEMMA BeginSound ==
  ASSUME DemoSound, NEW t \in Workers, Begin(t)
  PROVE  DemoSound'
<1>1. /\ QueueInv /\ QTypeOK /\ Console!MutexSound /\ DemoPlaces /\ t \in AppTasks
      /\ UNCHANGED <<g_console_mutex, g_message_queue_error_count>>
  BY WorkersAreTasks DEF DemoSound, QueueInv, Begin, errorCounts
<1>2. QueueInv' /\ step[t] = "run" /\ step' = [step EXCEPT ![t] = "wait"]
  BY <1>1, StartKeeps DEF Begin, Start
<1>3. UNCHANGED <<task_state, primask, status>>
  BY DEF Begin, Start, layerVars
<1>4. Console!MutexSound'
  BY <1>1, <1>3, ConsoleStays
<1>5. /\ pc' \in [Workers -> {"call", "called", "lock", "unlock", "sleep"}]
      /\ pc[t] = "call" /\ pc'[t] = "called"
      /\ \A u \in Workers \ {t} : pc'[u] = pc[u]
  BY <1>1, Moves DEF Begin
<1>6. /\ call'[t] = IF t \in Senders THEN "send" ELSE "receive"
      /\ \A u \in AppTasks \ {t} : call'[u] = call[u]
  BY <1>1, RolesAssumption DEF Begin, Start, QTypeOK
<1>7. /\ step'[t] = "wait" /\ \A u \in AppTasks \ {t} : step'[u] = step[u]
  BY <1>1, <1>2 DEF QTypeOK
<1>8. DemoPlaces'
  BY <1>1, <1>3, <1>5, <1>6, <1>7, WorkersAreTasks DEF DemoPlaces
<1> QED
  BY <1>2, <1>3, <1>4, <1>8 DEF DemoSound

LEMMA ContinueSound ==
  ASSUME DemoSound, NEW t \in Workers, Continue(t)
  PROVE  DemoSound' /\ CallEffect(t)
<1>1. /\ QueueInv /\ ~primask /\ Console!MutexSound /\ DemoPlaces /\ t \in AppTasks
      /\ pc[t] = "called" /\ InCall(t)
      /\ UNCHANGED <<g_console_mutex, pc, g_message_queue_error_count>>
  BY WorkersAreTasks DEF DemoSound, Continue, loopVars, errorCounts
<1>2. CallEffect(t)
  BY <1>1, CallGoesOn DEF DemoPlaces
<1>3. Console!MutexSound'
  <2>1. \A u \in AppTasks : u \in g_console_mutex.waiting => u # t /\ step[u] = "run"
    BY <1>1 DEF DemoPlaces
  <2> QED
    BY <1>1, <1>2, <2>1, ConsoleStays DEF CallEffect, Undisturbed
<1>4. DemoPlaces'
  <2>1. step[t] # "give_back" /\ step'[t] # "give_back"
    BY <1>1, <1>2 DEF CallEffect, NextStep, DemoPlaces
  <2> QED
    BY <1>1, <1>2, <2>1 DEF CallEffect, DemoPlaces
<1> QED
  BY <1>2, <1>3, <1>4 DEF DemoSound, CallEffect

LEMMA RecordSound ==
  ASSUME DemoSound, NEW t \in Workers, Record(t)
  PROVE  DemoSound' /\ (Sent(t) \/ Received(t))
<1>1. /\ QueueInv /\ ~primask /\ Console!MutexSound /\ DemoPlaces /\ t \in AppTasks
      /\ step[t] = "run" /\ UNCHANGED <<queueVars, g_console_mutex>>
  BY WorkersAreTasks DEF DemoSound, Record
<1>2. Sent(t) \/ Received(t)
  BY <1>1 DEF Record, Failed, DemoPlaces
<1>3. UNCHANGED <<task_state, primask, call, step, status>>
  BY <1>1 DEF queueVars, layerVars, callVars
<1>4. QueueInv' /\ Console!MutexSound'
  BY <1>1, <1>3, NothingKeeps, ConsoleStays
<1>5. Move(t, "called", "lock") /\ UNCHANGED g_message_queue_error_count
  BY <1>2 DEF Sent, Received, errorCounts
<1>6. /\ pc' \in [Workers -> {"call", "called", "lock", "unlock", "sleep"}]
      /\ pc[t] = "called" /\ pc'[t] = "lock"
      /\ \A u \in Workers \ {t} : pc'[u] = pc[u]
  BY <1>1, <1>5, Moves
<1>7. DemoPlaces'
  BY <1>1, <1>3, <1>5, <1>6 DEF DemoPlaces
<1> QED
  BY <1>1, <1>2, <1>3, <1>4, <1>7 DEF DemoSound

(* The console is free, or belongs to another: the lock does not fail.     *)
LEMMA LockSound ==
  ASSUME DemoSound, NEW t \in Workers, LockConsole(t)
  PROVE  /\ DemoSound' /\ Idle /\ Move(t, "lock", pc'[t]) /\ pc'[t] \in {"lock", "unlock"}
         /\ UNCHANGED <<sequence, expected_sequence, errorCounts>>
<1>1. /\ QueueInv /\ LayerInv /\ ~primask /\ Console!MutexSound /\ DemoPlaces
      /\ t \in AppTasks
  BY WorkersAreTasks DEF DemoSound, QueueInv
<1>2. PICK result \in Console!LockResults :
        /\ Console!os_mutex_lock(t, result)
        /\ \/ /\ result = "BLOCKED"
              /\ Move(t, "lock", "lock")
              /\ UNCHANGED <<sequence, g_message_queue_error_count>>
           \/ /\ result = "OK"
              /\ Move(t, "lock", "unlock")
              /\ UNCHANGED <<sequence, g_message_queue_error_count>>
           \/ /\ result \notin {"BLOCKED", "OK"}
              /\ Move(t, "lock", "sleep")
        /\ UNCHANGED <<ringVars, syncVars, callVars, expected_sequence,
                       g_message_queue_sequence_error_count>>
  BY DEF LockConsole
<1>3. pc[t] = "lock"
  BY <1>2 DEF Move
<1>4. /\ t \notin g_console_mutex.waiting => g_console_mutex.owner_task_id # t
      /\ step[t] = "run"
  BY <1>1, <1>3 DEF DemoPlaces
<1>5. /\ LayerInv' /\ Console!MutexSound' /\ Elsewhere(t, {}) /\ ~primask'
      /\ \/ /\ result = "OK" /\ g_console_mutex'.owner_task_id = t
            /\ \/ g_console_mutex.owner_task_id = NoTask
               \/ g_console_mutex.owner_task_id = t
            /\ g_console_mutex'.waiting = g_console_mutex.waiting \ {t}
         \/ /\ result = "BLOCKED"
            /\ g_console_mutex.owner_task_id # t
            /\ g_console_mutex'.owner_task_id = g_console_mutex.owner_task_id
            /\ g_console_mutex'.waiting = g_console_mutex.waiting \cup {t}
  BY <1>1, <1>2, <1>4, LockConsoleEffect, MutexMask
<1>6. /\ Idle /\ UNCHANGED <<sequence, expected_sequence, errorCounts>>
      /\ \/ result = "BLOCKED" /\ Move(t, "lock", "lock")
         \/ result = "OK" /\ Move(t, "lock", "unlock")
  BY <1>2, <1>5 DEF Idle, errorCounts
<1>7. QueueInv'
  BY <1>1, <1>4, <1>5, <1>6, LayerMoves
<1>8. /\ pc' \in [Workers -> {"call", "called", "lock", "unlock", "sleep"}]
      /\ \A u \in Workers \ {t} : pc'[u] = pc[u]
      /\ \/ result = "BLOCKED" /\ pc'[t] = "lock"
         \/ result = "OK" /\ pc'[t] = "unlock"
  BY <1>1, <1>6, Moves
<1>9. /\ Move(t, "lock", pc'[t]) /\ pc'[t] \in {"lock", "unlock"}
  BY <1>6, <1>8
<1>10. DemoPlaces'
  <2>1. UNCHANGED <<call, step, status, g_message_queue_error_count>>
    BY <1>6 DEF Idle, callVars, errorCounts
  <2>2. ASSUME NEW u \in AppTasks
        PROVE  /\ u \in g_console_mutex'.waiting => u \in Workers /\ pc'[u] = "lock"
               /\ g_console_mutex'.owner_task_id = u /\ u \notin g_console_mutex'.waiting
                    <=> u \in Workers /\ pc'[u] = "unlock"
    <3>1. u # NoTask
      BY DEF AppTasks, Tasks, NoTask
    <3>2. CASE u = t
      BY <1>5, <1>8, <3>2
    <3>3. CASE u # t
      BY <1>1, <1>3, <1>5, <1>8, <3>1, <3>3 DEF DemoPlaces
    <3> QED
      BY <3>2, <3>3
  <2> QED
    BY <1>1, <1>3, <1>4, <1>8, <2>1, <2>2 DEF DemoPlaces
<1> QED
  BY <1>5, <1>6, <1>7, <1>9, <1>10 DEF DemoSound

LEMMA UnlockSound ==
  ASSUME DemoSound, NEW t \in Workers, UnlockConsole(t)
  PROVE  /\ DemoSound' /\ Idle /\ Move(t, "unlock", "sleep") /\ AfterLine(t)
         /\ UNCHANGED <<expected_sequence, errorCounts>>
<1>1. /\ QueueInv /\ LayerInv /\ ~primask /\ Console!MutexSound /\ DemoPlaces
      /\ t \in AppTasks
  BY WorkersAreTasks DEF DemoSound, QueueInv
<1>2. PICK result \in Console!UnlockResults :
        /\ Console!os_mutex_unlock(t, result)
        /\ Move(t, "unlock", "sleep")
        /\ AfterLine(t)
        /\ g_message_queue_error_count' =
             g_message_queue_error_count + (IF result = "OK" THEN 0 ELSE 1)
        /\ UNCHANGED <<ringVars, syncVars, callVars, expected_sequence,
                       g_message_queue_sequence_error_count>>
  BY DEF UnlockConsole
<1>3. /\ pc' \in [Workers -> {"call", "called", "lock", "unlock", "sleep"}]
      /\ pc[t] = "unlock" /\ pc'[t] = "sleep"
      /\ \A u \in Workers \ {t} : pc'[u] = pc[u]
  BY <1>1, <1>2, Moves
<1>4. /\ g_console_mutex.owner_task_id = t /\ t \notin g_console_mutex.waiting
      /\ step[t] = "run"
      /\ \A u \in AppTasks : u \in g_console_mutex.waiting => step[u] = "run"
  BY <1>1, <1>3 DEF DemoPlaces
<1>5. /\ LayerInv' /\ Console!MutexSound' /\ Elsewhere(t, g_console_mutex.waiting)
      /\ ~primask' /\ result = "OK"
      /\ g_console_mutex'.waiting = g_console_mutex.waiting
      /\ \/ g_console_mutex'.owner_task_id = NoTask
         \/ /\ g_console_mutex'.owner_task_id \in g_console_mutex.waiting
            /\ g_console_mutex'.owner_task_id # t
  BY <1>1, <1>2, <1>4, UnlockConsoleEffect, MutexMask
<1>6. g_message_queue_error_count' = 0
  BY <1>1, <1>2, <1>5 DEF DemoPlaces
<1>7. Idle /\ UNCHANGED <<expected_sequence, errorCounts>>
  BY <1>1, <1>2, <1>6 DEF Idle, errorCounts, DemoPlaces
<1>8. QueueInv'
  BY <1>1, <1>4, <1>5, <1>7, LayerMoves
<1>9. DemoPlaces'
  <2>1. UNCHANGED <<call, step, status>>
    BY <1>7 DEF Idle, callVars
  <2>2. ASSUME NEW u \in AppTasks
        PROVE  /\ u \in g_console_mutex'.waiting => u \in Workers /\ pc'[u] = "lock"
               /\ g_console_mutex'.owner_task_id = u /\ u \notin g_console_mutex'.waiting
                    <=> u \in Workers /\ pc'[u] = "unlock"
    <3>1. u # NoTask
      BY DEF AppTasks, Tasks, NoTask
    <3>2. CASE u = t
      BY <1>3, <1>4, <1>5, <3>1, <3>2
    <3>3. CASE u # t
      BY <1>1, <1>3, <1>4, <1>5, <3>1, <3>3 DEF DemoPlaces
    <3> QED
      BY <3>2, <3>3
  <2> QED
    BY <1>1, <1>3, <1>4, <1>6, <2>1, <2>2 DEF DemoPlaces
<1> QED
  BY <1>2, <1>5, <1>7, <1>8, <1>9 DEF DemoSound

LEMMA RestSound ==
  ASSUME DemoSound, NEW t \in Workers, Rest(t)
  PROVE  DemoSound'
<1>1. /\ QueueInv /\ LayerInv /\ ~primask /\ Console!MutexSound /\ DemoPlaces
      /\ t \in AppTasks
  BY WorkersAreTasks DEF DemoSound, QueueInv
<1>2. /\ Move(t, "sleep", "call") /\ Idle
      /\ UNCHANGED <<g_console_mutex, g_message_queue_error_count>>
      /\ os_sleep(t) \/ UNCHANGED layerVars
  BY DEF Rest, Idle, errorCounts
<1>3. /\ pc' \in [Workers -> {"call", "called", "lock", "unlock", "sleep"}]
      /\ pc[t] = "sleep" /\ pc'[t] = "call"
      /\ \A u \in Workers \ {t} : pc'[u] = pc[u]
  BY <1>1, <1>2, Moves
<1>4. /\ LayerInv' /\ ~primask'
      /\ \A u \in AppTasks : task_state[u] = "BLOCKED" <=> task_state'[u] = "BLOCKED"
  <2>1. CASE os_sleep(t)
    <3>1. LayerInv'
      BY <1>1, <2>1, TaskCallStep
    <3>2. \A u \in AppTasks : task_state[u] = "BLOCKED" <=> task_state'[u] = "BLOCKED"
      BY <1>1, <2>1, OtherKeepsBlocked DEF AppTasks
    <3> QED
      BY <1>1, <2>1, <3>1, <3>2 DEF os_sleep
  <2>2. CASE UNCHANGED layerVars
    BY <1>1, <2>2 DEF LayerInv, LayerTypeOK, OneRunning, layerVars
  <2> QED
    BY <1>2, <2>1, <2>2
<1>5. step[t] = "run"
  BY <1>1, <1>3 DEF DemoPlaces
<1>6. QueueInv'
  <2>1. Elsewhere(t, {})
    BY <1>4 DEF Elsewhere
  <2> QED
    BY <1>1, <1>2, <1>4, <1>5, <2>1, LayerMoves
<1>7. Console!MutexSound'
  BY <1>1, <1>2, <1>4, ConsoleStays
<1>8. DemoPlaces'
  <2>1. UNCHANGED <<call, step, status>>
    BY <1>2 DEF Idle, callVars
  <2> QED
    BY <1>1, <1>2, <1>3, <1>5, <2>1 DEF DemoPlaces
<1> QED
  BY <1>4, <1>6, <1>7, <1>8 DEF DemoSound

LEMMA RestOfSystemSound ==
  ASSUME DemoSound, CoreNext \/ UNCHANGED layerVars, DemoIdle
  PROVE  DemoSound'
<1>1. /\ QueueInv /\ LayerInv /\ ~primask /\ Console!MutexSound /\ DemoPlaces
      /\ Idle /\ UNCHANGED <<pc, g_console_mutex, g_message_queue_error_count>>
  BY DEF DemoSound, QueueInv, DemoIdle, loopVars, errorCounts
<1>2. QueueInv'
  BY <1>1, CoreKeeps, NothingKeeps DEF Core, Idle, queueVars
<1>3. /\ ~primask'
      /\ \A u \in AppTasks : task_state[u] = "BLOCKED" <=> task_state'[u] = "BLOCKED"
  <2>1. CASE CoreNext
    <3>1. ~primask'
      BY <1>1, <2>1 DEF CoreNext, RequestSwitch, Wake, Dispatch
    <3> QED
      BY <1>1, <2>1, <3>1, CoreKeepsBlocked DEF AppTasks
  <2>2. CASE UNCHANGED layerVars
    BY <1>1, <2>2 DEF layerVars
  <2> QED
    BY <2>1, <2>2
<1>4. Console!MutexSound'
  BY <1>1, <1>3, ConsoleStays
<1>5. DemoPlaces'
  BY <1>1 DEF DemoPlaces, Idle, callVars
<1> QED
  BY <1>2, <1>3, <1>4, <1>5 DEF DemoSound

-----------------------------------------------------------------------------
(* The messages of one producer in the contents of the ring.               *)
Of(p) == {i \in 0 .. stored - 1 : Contents[i + 1].producer_id = p}

RingContents ==
  /\ stored \in Nat /\ stored <= Capacity /\ Capacity \in Nat
  /\ Contents \in Seq(Messages) /\ Len(Contents) = stored
  /\ \A i \in 0 .. stored - 1 :
       MessageAt(i) = Contents[i + 1] /\ MessageAt(i) \in Messages
  /\ \A p : InRing(p) = Cardinality(Of(p))

LEMMA RingOf == QueueInv => RingContents
<1> SUFFICES ASSUME QueueInv PROVE RingContents
  OBVIOUS
<1>1. /\ stored \in 0 .. Capacity /\ Capacity \in Nat /\ head \in Int
  BY QueueAssumption DEF QueueInv, QTypeOK, Slots
<1>2. /\ Contents \in Seq(Messages) /\ Len(Contents) = stored
      /\ \A i \in 1 .. stored : Contents[i] = storage[(head + i - 1) % Capacity]
  BY ContentsType DEF ContentsOK
<1>3. ASSUME NEW i \in 0 .. stored - 1
      PROVE  MessageAt(i) = Contents[i + 1] /\ MessageAt(i) \in Messages
  <2>1. i + 1 \in 1 .. stored /\ head + (i + 1) - 1 = head + i
    BY <1>1
  <2>2. Contents[i + 1] = storage[(head + (i + 1) - 1) % Capacity]
    BY <1>2, <2>1
  <2>3. MessageAt(i) \in Messages
    BY DEF QueueInv, RingAgrees, MessageAt
  <2> QED
    BY <2>1, <2>2, <2>3 DEF MessageAt
<1>4. ASSUME NEW p
      PROVE  InRing(p) = Cardinality(Of(p))
  <2>1. Garbage \notin Messages
    BY QueueAssumption
  <2>2. {i \in 0 .. stored - 1 : MessageAt(i) # Garbage /\ MessageAt(i).producer_id = p}
          = Of(p)
    BY <1>3, <2>1 DEF Of
  <2> QED
    BY <2>2 DEF InRing
<1> QED
  BY <1>1, <1>2, <1>3, <1>4 DEF RingContents

LEMMA OfFinite ==
  ASSUME QueueInv, NEW p
  PROVE  /\ IsFiniteSet(Of(p)) /\ Cardinality(Of(p)) \in Nat
         /\ Cardinality(Of(p)) <= Capacity
<1>1. stored \in Nat /\ stored <= Capacity /\ Capacity \in Nat
  BY RingOf DEF RingContents
<1>2. IsFiniteSet(0 .. stored - 1) /\ Cardinality(0 .. stored - 1) = stored
  BY <1>1, FS_Interval
<1>3. Of(p) \in SUBSET (0 .. stored - 1)
  BY DEF Of
<1>4. /\ IsFiniteSet(Of(p)) /\ Cardinality(Of(p)) \in Nat
      /\ Cardinality(Of(p)) <= Cardinality(0 .. stored - 1)
  BY <1>2, <1>3, FS_Subset, FS_CardinalityType
<1> DEFINE k == Cardinality(Of(p))
<1>5. k \in Nat /\ k <= stored
  BY <1>2, <1>4
<1> HIDE DEF k
<1>6. k \in Nat /\ k <= Capacity
  BY <1>1, <1>5
<1> QED
  BY <1>4, <1>6 DEF k

RingBounded == \A p : InRing(p) \in Nat /\ InRing(p) <= Capacity

LEMMA RingIsBounded == QueueInv => RingBounded
BY RingOf, OfFinite DEF RingContents, RingBounded

LEMMA OfSame ==
  ASSUME QueueInv, QueueInv', Contents' = Contents
  PROVE  /\ stored' = stored
         /\ \A i \in 0 .. stored - 1 : MessageAt(i)' = MessageAt(i)
         /\ \A p : InRing(p)' = InRing(p)
<1>0. RingContents'
  BY RingOf, PTL
<1>1. /\ Len(Contents) = stored
      /\ \A i \in 0 .. stored - 1 : MessageAt(i) = Contents[i + 1]
      /\ \A p : InRing(p) = Cardinality(Of(p))
  BY RingOf DEF RingContents
<1>2. /\ Len(Contents') = stored'
      /\ \A i \in 0 .. stored' - 1 : MessageAt(i)' = Contents'[i + 1]
      /\ \A p : InRing(p)' = Cardinality(Of(p)')
  BY <1>0 DEF RingContents
<1>3. stored' = stored
  BY <1>1, <1>2
<1>4. \A p : Of(p)' = Of(p)
  BY <1>3 DEF Of
<1> QED
  BY <1>1, <1>2, <1>3, <1>4

LEMMA OfGrows ==
  ASSUME QueueInv, QueueInv', NEW m \in Messages, Contents' = Append(Contents, m)
  PROVE  /\ stored' = stored + 1
         /\ \A i \in 0 .. stored :
              MessageAt(i)' = IF i = stored THEN m ELSE MessageAt(i)
         /\ \A p : InRing(p)' = InRing(p) + (IF m.producer_id = p THEN 1 ELSE 0)
<1>0. RingContents'
  BY RingOf, PTL
<1>1. /\ stored \in Nat /\ Contents \in Seq(Messages) /\ Len(Contents) = stored
      /\ \A i \in 0 .. stored - 1 : MessageAt(i) = Contents[i + 1]
      /\ \A p : InRing(p) = Cardinality(Of(p))
  BY RingOf DEF RingContents
<1>2. /\ Len(Contents') = stored'
      /\ \A i \in 0 .. stored' - 1 : MessageAt(i)' = Contents'[i + 1]
      /\ \A p : InRing(p)' = Cardinality(Of(p)')
  BY <1>0 DEF RingContents
<1>3. /\ Len(Contents') = stored + 1
      /\ \A i \in 1 .. stored : Contents'[i] = Contents[i]
      /\ Contents'[stored + 1] = m
  BY <1>1, AppendProperties
<1>4. stored' = stored + 1
  BY <1>2, <1>3
<1>5. \A i \in 0 .. stored :
        /\ i \in 0 .. stored' - 1
        /\ i # stored => i \in 0 .. stored - 1 /\ i + 1 \in 1 .. stored
  BY <1>1, <1>4
<1>a. \A i \in 0 .. stored :
        Contents'[i + 1] = IF i = stored THEN m ELSE Contents[i + 1]
  BY <1>3, <1>5
<1>6. \A i \in 0 .. stored :
        MessageAt(i)' = IF i = stored THEN m ELSE MessageAt(i)
  BY <1>1, <1>2, <1>5, <1>a
<1>7. ASSUME NEW p
      PROVE  InRing(p)' = InRing(p) + (IF m.producer_id = p THEN 1 ELSE 0)
  <2>1. IsFiniteSet(Of(p)) /\ Cardinality(Of(p)) \in Nat
    BY OfFinite
  <2>2. stored \notin Of(p)
    BY <1>1 DEF Of
  <2>3. Of(p)' = {i \in 0 .. stored : Contents'[i + 1].producer_id = p}
    BY <1>1, <1>4 DEF Of
  <2>4. 0 .. stored = (0 .. stored - 1) \cup {stored}
    BY <1>1
  <2>5. CASE m.producer_id = p
    <3>1. Of(p)' = Of(p) \cup {stored}
      BY <1>a, <2>3, <2>4, <2>5, <1>1 DEF Of
    <3> QED
      BY <1>1, <1>2, <2>1, <2>2, <2>5, <3>1, FS_AddElement
  <2>6. CASE m.producer_id # p
    <3>1. \A i \in 0 .. stored - 1 :
            i \in 0 .. stored /\ Contents'[i + 1] = Contents[i + 1]
      BY <1>1, <1>a
    <3>2. Contents'[stored + 1].producer_id # p
      BY <1>3, <2>6
    <3>3. {i \in 0 .. stored : Contents'[i + 1].producer_id = p}
            = {i \in 0 .. stored - 1 : Contents[i + 1].producer_id = p}
      BY <2>4, <3>1, <3>2
    <3>4. Of(p)' = Of(p)
      BY <2>3, <3>3 DEF Of
    <3> QED
      BY <1>1, <1>2, <2>1, <2>6, <3>4
  <2> QED
    BY <2>5, <2>6
<1> QED
  BY <1>4, <1>6, <1>7

LEMMA OfShrinks ==
  ASSUME QueueInv, QueueInv', Contents # <<>>, Contents' = Tail(Contents)
  PROVE  /\ stored >= 1 /\ stored' = stored - 1 /\ MessageAt(0) = Head(Contents)
         /\ \A i \in 0 .. stored - 2 : MessageAt(i)' = MessageAt(i + 1)
         /\ \A p : InRing(p)'
                     = InRing(p) - (IF Head(Contents).producer_id = p THEN 1 ELSE 0)
<1>0. RingContents'
  BY RingOf, PTL
<1>1. /\ stored \in Nat /\ Contents \in Seq(Messages) /\ Len(Contents) = stored
      /\ \A i \in 0 .. stored - 1 : MessageAt(i) = Contents[i + 1]
      /\ \A p : InRing(p) = Cardinality(Of(p))
  BY RingOf DEF RingContents
<1>2. /\ Len(Contents') = stored'
      /\ \A i \in 0 .. stored' - 1 : MessageAt(i)' = Contents'[i + 1]
      /\ \A p : InRing(p)' = Cardinality(Of(p)')
  BY <1>0 DEF RingContents
<1>3. /\ Len(Contents') = stored - 1
      /\ \A i \in 1 .. stored - 1 : Contents'[i] = Contents[i + 1]
  BY <1>1, HeadTailProperties
<1>4. stored >= 1 /\ stored' = stored - 1
  <2>1. stored # 0
    BY <1>1, EmptySeq
  <2> QED
    BY <1>1, <1>2, <1>3, <2>1
<1>5. MessageAt(0) = Head(Contents) /\ Head(Contents) = Contents[1]
  <2>1. 0 \in 0 .. stored - 1 /\ 0 + 1 = 1
    BY <1>1, <1>4
  <2>2. Head(Contents) = Contents[1]
    BY <1>1
  <2> QED
    BY <1>1, <2>1, <2>2
<1>6. \A i \in 0 .. stored - 2 :
        /\ i \in 0 .. stored' - 1 /\ i + 1 \in 1 .. stored - 1
        /\ i + 1 \in 0 .. stored - 1
  BY <1>1, <1>4
<1>7. \A i \in 0 .. stored - 2 : MessageAt(i)' = MessageAt(i + 1)
  BY <1>1, <1>2, <1>3, <1>6
<1>8. ASSUME NEW p
      PROVE  InRing(p)' = InRing(p) - (IF Head(Contents).producer_id = p THEN 1 ELSE 0)
  <2> DEFINE S == Of(p) \ {0}
             T == {i \in 0 .. stored - 2 : Contents[i + 2].producer_id = p}
             next == [i \in T |-> i + 1]
  <2>1. IsFiniteSet(Of(p)) /\ Cardinality(Of(p)) \in Nat
    BY OfFinite
  <2>2. Of(p)' = T
    <3>1. Of(p)' = {i \in 0 .. stored - 2 : Contents'[i + 1].producer_id = p}
      BY <1>1, <1>4 DEF Of
    <3>2. \A i \in 0 .. stored - 2 : Contents'[i + 1] = Contents[i + 2]
      BY <1>1, <1>3, <1>6
    <3> QED
      BY <3>1, <3>2
  <2>3. IsFiniteSet(T)
    <3>1. T \in SUBSET (0 .. stored - 2)
      OBVIOUS
    <3>2. IsFiniteSet(0 .. stored - 2)
      BY <1>1, FS_Interval
    <3> QED
      BY <3>1, <3>2, FS_Subset
  <2>4. next \in Bijection(T, S)
    <3>1. \A i \in T : i \in 0 .. stored - 2 /\ i + 1 \in S /\ i + 1 # 0
      BY <1>1 DEF Of
    <3>2. \A j \in S : j - 1 \in T /\ (j - 1) + 1 = j
      BY <1>1 DEF Of
    <3>3. next \in [T -> S] /\ \A a, b \in T : next[a] = next[b] => a = b
      BY <3>1
    <3>4. \A j \in S : \E i \in T : next[i] = j
      BY <3>2
    <3> HIDE DEF S, T, next
    <3> QED
      BY <3>3, <3>4, Fun_IsBij
  <2>5. Cardinality(S) = Cardinality(T)
    <3>1. ExistsBijection(T, S)
      BY <2>4 DEF ExistsBijection
    <3> HIDE DEF S, T
    <3> QED
      BY <2>3, <3>1, FS_Bijection
  <2>6. Cardinality(S) = IF 0 \in Of(p) THEN Cardinality(Of(p)) - 1 ELSE Cardinality(Of(p))
    BY <2>1, FS_RemoveElement
  <2>7. 0 \in Of(p) <=> Head(Contents).producer_id = p
    BY <1>1, <1>4, <1>5 DEF Of
  <2>8. InRing(p) = Cardinality(Of(p)) /\ InRing(p)' = Cardinality(T)
    BY <1>1, <1>2, <2>2
  <2> HIDE DEF S, T, next
  <2>9. Cardinality(T) = IF 0 \in Of(p) THEN Cardinality(Of(p)) - 1
                         ELSE Cardinality(Of(p))
    BY <2>5, <2>6
  <2> QED
    BY <2>1, <2>7, <2>8, <2>9
<1> QED
  BY <1>4, <1>5, <1>7, <1>8

-----------------------------------------------------------------------------
(* Sequence numbers: the next one, and how far one is behind another.      *)
LEMMA SequenceRoom ==
  /\ SequenceModulus \in Nat /\ Capacity \in Nat /\ Capacity < SequenceModulus
  /\ Receivers # {} => Capacity + 1 < SequenceModulus
<1>1. IsFiniteSet(AppTasks)
  <2>1. IsFiniteSet(0 .. NumTasks)
    BY NumTasksAssumption, FS_Interval
  <2>2. AppTasks \in SUBSET (0 .. NumTasks)
    BY NumTasksAssumption DEF AppTasks, Tasks
  <2> QED
    BY <2>1, <2>2, FS_Subset
<1>2. IsFiniteSet(Receivers) /\ Cardinality(Receivers) \in Nat
  BY <1>1, QueueAssumption, FS_Subset, FS_CardinalityType
<1>3. Receivers # {} => Cardinality(Receivers) # 0
  BY <1>2, FS_EmptySet
<1> DEFINE k == Cardinality(Receivers)
<1>4. /\ k \in Nat /\ (Receivers # {} => k # 0)
      /\ SequenceModulus \in Nat /\ SequenceModulus > Capacity + k
  BY <1>2, <1>3, SequenceAssumption
<1> HIDE DEF k
<1> QED
  BY <1>4, QueueAssumption

LEMMA NextNumberIs ==
  ASSUME NEW n \in Sequences
  PROVE  /\ NextNumber(n) \in Sequences
         /\ NextNumber(n) = IF n + 1 = SequenceModulus THEN 0 ELSE n + 1
<1>1. SequenceModulus \in Nat /\ n \in 0 .. SequenceModulus - 1
  BY SequenceRoom DEF Sequences
<1>2. CASE n + 1 = SequenceModulus
  BY <1>1, <1>2 DEF NextNumber, Sequences
<1>3. CASE n + 1 # SequenceModulus
  <2>1. n + 1 \in 0 .. SequenceModulus - 1
    BY <1>1, <1>3
  <2>2. (n + 1) % SequenceModulus = n + 1
    BY <1>1, <2>1
  <2> QED
    BY <1>3, <2>1, <2>2 DEF NextNumber, Sequences
<1> QED
  BY <1>2, <1>3

LEMMA DistanceNext ==
  ASSUME NEW m \in Sequences, NEW n \in Sequences
  PROVE  /\ Distance(m, n) \in 0 .. SequenceModulus - 1
         /\ Distance(m, n) + 1 < SequenceModulus =>
              Distance(m, NextNumber(n)) = Distance(m, n) + 1
         /\ Distance(m, n) >= 1 => Distance(NextNumber(m), n) = Distance(m, n) - 1
<1>1. /\ SequenceModulus \in Nat
      /\ m \in 0 .. SequenceModulus - 1 /\ n \in 0 .. SequenceModulus - 1
  BY SequenceRoom DEF Sequences
<1>2. NextNumber(n) = IF n + 1 = SequenceModulus THEN 0 ELSE n + 1
  BY NextNumberIs
<1>3. NextNumber(m) = IF m + 1 = SequenceModulus THEN 0 ELSE m + 1
  BY NextNumberIs
<1>4. Distance(m, n) \in 0 .. SequenceModulus - 1
  BY <1>1 DEF Distance
<1>5. ASSUME Distance(m, n) + 1 < SequenceModulus
      PROVE  Distance(m, NextNumber(n)) = Distance(m, n) + 1
  BY <1>1, <1>2, <1>5 DEF Distance
<1>6. ASSUME Distance(m, n) >= 1
      PROVE  Distance(NextNumber(m), n) = Distance(m, n) - 1
  BY <1>1, <1>3, <1>6 DEF Distance
<1> QED
  BY <1>4, <1>5, <1>6

(* The number of messages that a distance stands for.                      *)
LEMMA DistanceModulo ==
  ASSUME NEW m \in Sequences, NEW n \in Sequences
  PROVE  (n - m) % SequenceModulus = Distance(m, n)
<1>1. /\ SequenceModulus \in Nat \ {0}
      /\ m \in 0 .. SequenceModulus - 1 /\ n \in 0 .. SequenceModulus - 1
  BY SequenceRoom DEF Sequences
<1>2. CASE m <= n
  BY <1>1, <1>2 DEF Distance
<1>3. CASE ~(m <= n)
  <2> DEFINE d == n - m + SequenceModulus
  <2>1. d \in 0 .. SequenceModulus - 1 /\ n - m = d - SequenceModulus
    BY <1>1, <1>3
  <2> HIDE DEF d
  <2>2. (d - SequenceModulus) % SequenceModulus = d
    BY <1>1, <2>1
  <2> QED
    BY <1>3, <2>1, <2>2 DEF Distance, d
<1> QED
  BY <1>2, <1>3

-----------------------------------------------------------------------------
(* The numbers of one producer, in a ring that stays, grows or shrinks.    *)
LEMMA CountsStay ==
  ASSUME QueueInv, QueueInv', Contents' = Contents, NEW p, RingCounts(p),
         FirstNumber(p)' = FirstNumber(p), LastNumber(p)' = LastNumber(p)
  PROVE  RingCounts(p)'
<1>1. /\ stored' = stored /\ InRing(p)' = InRing(p)
      /\ \A i \in 0 .. stored - 1 : MessageAt(i)' = MessageAt(i)
  BY OfSame
<1>2. PICK number \in [0 .. stored -> Sequences] : Numbered(p, number)
  BY DEF RingCounts
<1>3. Numbered(p, number)'
  BY <1>1, <1>2 DEF Numbered
<1>4. Distance(FirstNumber(p), LastNumber(p))' = Distance(FirstNumber(p), LastNumber(p))
  BY DEF Distance
<1> QED
  BY <1>1, <1>2, <1>3, <1>4 DEF RingCounts

LEMMA CountsGrow ==
  ASSUME QueueInv, QueueInv', NEW m \in Messages, Contents' = Append(Contents, m),
         NEW p, RingCounts(p),
         FirstNumber(p) \in Sequences, LastNumber(p) \in Sequences,
         FirstNumber(p)' = FirstNumber(p),
         IF m.producer_id = p
           THEN /\ m.sequence = LastNumber(p)
                /\ LastNumber(p)' = NextNumber(LastNumber(p))
           ELSE LastNumber(p)' = LastNumber(p)
  PROVE  RingCounts(p)'
<1>1. /\ stored' = stored + 1
      /\ \A i \in 0 .. stored : MessageAt(i)' = IF i = stored THEN m ELSE MessageAt(i)
      /\ InRing(p)' = InRing(p) + (IF m.producer_id = p THEN 1 ELSE 0)
  BY OfGrows
<1>2. PICK number \in [0 .. stored -> Sequences] : Numbered(p, number)
  BY DEF RingCounts
<1>3. stored \in Nat /\ InRing(p) \in Nat /\ InRing(p)' <= Capacity /\ Capacity \in Nat
  <2>1. RingContents /\ RingBounded /\ RingBounded'
    BY RingOf, RingIsBounded, PTL
  <2> QED
    BY <2>1 DEF RingContents, RingBounded
<1>4. /\ LastNumber(p)' \in Sequences
      /\ number[stored] = LastNumber(p) /\ number[0] = FirstNumber(p)
  BY <1>2, NextNumberIs DEF Numbered
<1>5. PICK next \in [0 .. stored + 1 -> Sequences] :
        /\ \A i \in 0 .. stored : next[i] = number[i]
        /\ next[stored + 1] = LastNumber(p)'
  <2> DEFINE next == [i \in 0 .. stored + 1 |->
                        IF i = stored + 1 THEN LastNumber(p)' ELSE number[i]]
  <2>1. \A i \in 0 .. stored + 1 : i # stored + 1 => i \in 0 .. stored
    BY <1>3
  <2>2. next \in [0 .. stored + 1 -> Sequences]
    BY <1>4, <2>1
  <2>3. /\ \A i \in 0 .. stored : next[i] = number[i]
        /\ next[stored + 1] = LastNumber(p)'
    BY <1>3
  <2> QED
    BY <2>2, <2>3
<1>6. Numbered(p, next)'
  <2>1. /\ next[0] = number[0] /\ next[stored'] = LastNumber(p)'
        /\ FirstNumber(p)' = FirstNumber(p)
    BY <1>1, <1>3, <1>5
  <2>2. ASSUME NEW i \in 0 .. stored' - 1
        PROVE  IF MessageAt(i)'.producer_id = p
                 THEN /\ MessageAt(i)'.sequence = next[i]
                      /\ next[i + 1] = NextNumber(next[i])
                 ELSE next[i + 1] = next[i]
    <3>1. i \in 0 .. stored
      BY <1>1, <1>3
    <3>2. CASE i = stored
      <4>1. next[i] = LastNumber(p) /\ next[i + 1] = LastNumber(p)' /\ MessageAt(i)' = m
        BY <1>1, <1>4, <1>5, <3>1, <3>2
      <4> QED
        BY <4>1
    <3>3. CASE i # stored
      <4>1. i \in 0 .. stored - 1 /\ i + 1 \in 0 .. stored
        BY <1>3, <3>1, <3>3
      <4>2. next[i] = number[i] /\ next[i + 1] = number[i + 1]
        BY <1>5, <3>1, <4>1
      <4>3. MessageAt(i)' = MessageAt(i)
        BY <1>1, <3>1, <3>3
      <4> QED
        BY <1>2, <4>1, <4>2, <4>3 DEF Numbered
    <3> QED
      BY <3>2, <3>3
  <2> QED
    BY <1>4, <2>1, <2>2 DEF Numbered
<1>7. InRing(p)' = Distance(FirstNumber(p), LastNumber(p))'
  <2>1. InRing(p) = Distance(FirstNumber(p), LastNumber(p))
    BY DEF RingCounts
  <2>2. Distance(FirstNumber(p), LastNumber(p))'
          = Distance(FirstNumber(p), LastNumber(p)')
    BY DEF Distance
  <2>3. CASE m.producer_id = p
    <3>1. InRing(p) + 1 < SequenceModulus
      BY <1>1, <1>3, <2>3, SequenceRoom
    <3>2. Distance(FirstNumber(p), LastNumber(p)') = InRing(p) + 1
      BY <2>1, <2>3, <3>1, DistanceNext
    <3> QED
      BY <1>1, <2>2, <2>3, <3>2
  <2>4. CASE m.producer_id # p
    BY <1>1, <1>3, <2>1, <2>2, <2>4
  <2> QED
    BY <2>3, <2>4
<1> QED
  BY <1>1, <1>5, <1>6, <1>7 DEF RingCounts

LEMMA CountsShrink ==
  ASSUME QueueInv, QueueInv', Contents # <<>>, Contents' = Tail(Contents),
         NEW p, RingCounts(p),
         FirstNumber(p) \in Sequences, LastNumber(p) \in Sequences,
         LastNumber(p)' = LastNumber(p),
         FirstNumber(p)' = IF Head(Contents).producer_id = p
                             THEN NextNumber(FirstNumber(p)) ELSE FirstNumber(p)
  PROVE  RingCounts(p)'
<1>1. /\ stored >= 1 /\ stored' = stored - 1 /\ MessageAt(0) = Head(Contents)
      /\ \A i \in 0 .. stored - 2 : MessageAt(i)' = MessageAt(i + 1)
      /\ InRing(p)' = InRing(p) - (IF Head(Contents).producer_id = p THEN 1 ELSE 0)
  BY OfShrinks
<1>2. PICK number \in [0 .. stored -> Sequences] : Numbered(p, number)
  BY DEF RingCounts
<1>3. stored \in Nat /\ InRing(p) \in Nat /\ InRing(p)' \in Nat
  <2>1. RingContents /\ RingBounded /\ RingBounded'
    BY RingOf, RingIsBounded, PTL
  <2> QED
    BY <2>1 DEF RingContents, RingBounded
<1>4. /\ number[stored] = LastNumber(p) /\ number[0] = FirstNumber(p)
      /\ number[1] = FirstNumber(p)'
  <2>1. 0 \in 0 .. stored - 1 /\ 0 + 1 = 1
    BY <1>1, <1>3
  <2> QED
    BY <1>1, <1>2, <2>1 DEF Numbered
<1>5. PICK next \in [0 .. stored - 1 -> Sequences] :
        \A i \in 0 .. stored - 1 : next[i] = number[i + 1]
  <2> DEFINE next == [i \in 0 .. stored - 1 |-> number[i + 1]]
  <2>1. \A i \in 0 .. stored - 1 : i + 1 \in 0 .. stored
    BY <1>3
  <2>2. next \in [0 .. stored - 1 -> Sequences]
    BY <2>1
  <2> QED
    BY <2>2
<1>6. Numbered(p, next)'
  <2>1. /\ next[0] = number[1] /\ next[stored'] = number[stored]
        /\ LastNumber(p)' = LastNumber(p)
    <3>1. 0 \in 0 .. stored - 1 /\ stored - 1 \in 0 .. stored - 1
      BY <1>1, <1>3
    <3>2. next[0] = number[0 + 1] /\ next[stored - 1] = number[(stored - 1) + 1]
      BY <1>5, <3>1
    <3> QED
      BY <1>1, <1>3, <3>2
  <2>2. ASSUME NEW i \in 0 .. stored' - 1
        PROVE  IF MessageAt(i)'.producer_id = p
                 THEN /\ MessageAt(i)'.sequence = next[i]
                      /\ next[i + 1] = NextNumber(next[i])
                 ELSE next[i + 1] = next[i]
    <3>1. /\ i \in 0 .. stored - 2 /\ i \in 0 .. stored - 1
          /\ i + 1 \in 0 .. stored - 1
      BY <1>1, <1>3
    <3>2. next[i] = number[i + 1] /\ next[i + 1] = number[(i + 1) + 1]
      BY <1>5, <3>1
    <3>3. MessageAt(i)' = MessageAt(i + 1)
      BY <1>1, <3>1
    <3> QED
      BY <1>2, <3>1, <3>2, <3>3 DEF Numbered
  <2> QED
    BY <1>4, <2>1, <2>2 DEF Numbered
<1>7. InRing(p)' = Distance(FirstNumber(p), LastNumber(p))'
  <2>1. InRing(p) = Distance(FirstNumber(p), LastNumber(p))
    BY DEF RingCounts
  <2>2. Distance(FirstNumber(p), LastNumber(p))' = Distance(FirstNumber(p)', LastNumber(p))
    BY DEF Distance
  <2>3. CASE Head(Contents).producer_id = p
    <3>1. InRing(p) >= 1
      BY <1>1, <1>3, <2>3
    <3>2. Distance(FirstNumber(p)', LastNumber(p)) = InRing(p) - 1
      BY <2>1, <2>3, <3>1, DistanceNext
    <3> QED
      BY <1>1, <2>2, <2>3, <3>2
  <2>4. CASE Head(Contents).producer_id # p
    BY <1>1, <1>3, <2>1, <2>2, <2>4
  <2> QED
    BY <2>3, <2>4
<1> QED
  BY <1>1, <1>5, <1>6, <1>7 DEF RingCounts

(* The oldest message of the ring is the one its producer is counted from. *)
LEMMA HeadIsFirst ==
  ASSUME QueueInv, Contents # <<>>, NEW p, RingCounts(p),
         Head(Contents).producer_id = p
  PROVE  Head(Contents).sequence = FirstNumber(p)
<1>1. Contents \in Seq(Messages) /\ Len(Contents) = stored /\ stored \in Nat
      /\ \A i \in 0 .. stored - 1 : MessageAt(i) = Contents[i + 1]
  BY RingOf DEF RingContents
<1>2. stored # 0
  BY <1>1, EmptySeq
<1>3. 0 \in 0 .. stored - 1 /\ 0 + 1 = 1 /\ Head(Contents) = Contents[1]
  BY <1>1, <1>2
<1>4. MessageAt(0) = Head(Contents)
  BY <1>1, <1>3
<1> QED
  BY <1>3, <1>4 DEF RingCounts, Numbered

-----------------------------------------------------------------------------
(* What a step of a call does to the ring and to the message of the task.  *)
LEMMA CallContents ==
  ASSUME QueueInv, NEW t \in AppTasks, InCall(t)
  PROVE  /\ step[t] # "advance" => Contents' = Contents
         /\ \A u \in AppTasks :
              \/ message'[u] = message[u]
              \/ u = t /\ step[t] = "copy" /\ call[t] = "receive"
         /\ step[t] = "advance" /\ call[t] = "send" =>
              message[t] \in Messages /\ Contents' = Append(Contents, message[t])
         /\ step[t] = "advance" /\ call[t] = "receive" =>
              /\ Contents # <<>> /\ message[t] = Head(Contents)
              /\ Contents' = Tail(Contents)
<1>1. QTypeOK /\ RingAgrees
  BY DEF QueueInv
<1>2. CASE WaitUnit(t) \/ Lock(t) \/ GiveBack(t) \/ Unlock(t) \/ PostUnit(t)
  <2>1. UNCHANGED <<ringVars, message>> /\ step[t] # "advance"
    BY <1>2 DEF WaitUnit, Lock, GiveBack, Unlock, PostUnit
  <2> QED
    BY <2>1, ContentsStay
<1>3. CASE Copy(t)
  <2>1. QueueInv' /\ step[t] = "copy"
    BY <1>3, CopyKeeps DEF Copy
  <2>2. Contents' = Contents
    BY <1>3, <2>1, CopyView DEF Abs!fifoVars
  <2>3. \/ message' = message
        \/ call[t] = "receive" /\ \A u \in AppTasks \ {t} : message'[u] = message[u]
    BY <1>1, <1>3 DEF Copy, QTypeOK
  <2> QED
    BY <2>1, <2>2, <2>3
<1>4. CASE Advance(t)
  <2>1. QueueInv' /\ message' = message /\ step[t] = "advance"
    BY <1>4, AdvanceKeeps DEF Advance
  <2>2. CASE call[t] = "send"
    <3>1. /\ storage' = [storage EXCEPT ![tail] = message[t]]
          /\ stored' = stored + 1 /\ UNCHANGED head
      BY <1>4, <2>2 DEF Advance
    <3>2. Contents' = Append(Contents, message[t])
      BY <2>1, <2>2, <3>1, ContentsGrow
    <3>3. message[t] \in Messages
      BY <1>1, <2>1, <2>2 DEF RingAgrees
    <3> QED
      BY <2>1, <2>2, <3>2, <3>3
  <2>3. CASE call[t] = "receive"
    <3>1. UNCHANGED storage /\ head' = NextSlot(head) /\ stored' = stored - 1
      BY <1>4, <2>3 DEF Advance
    <3>2. /\ Contents # <<>> /\ message[t] = Head(Contents)
          /\ Contents' = Tail(Contents)
      BY <2>1, <2>3, <3>1, ContentsShrink
    <3> QED
      BY <2>1, <2>3, <3>2
  <2>4. call[t] \in {"send", "receive"}
    BY <1>1 DEF QTypeOK, Calls
  <2> QED
    BY <2>2, <2>3, <2>4
<1> QED
  BY <1>2, <1>3, <1>4 DEF InCall

-----------------------------------------------------------------------------
(* The numbers between which a step leaves a producer.                     *)
LEMMA NumberTypes ==
  ASSUME DemoNumbers, NEW p \in Senders
  PROVE  /\ FirstNumber(p) \in Sequences /\ LastNumber(p) \in Sequences
         /\ sequence[p] \in Sequences /\ expected_sequence[p] \in Sequences
BY NextNumberIs DEF DemoNumbers, FirstNumber, LastNumber

LEMMA FirstStays ==
  ASSUME UNCHANGED expected_sequence, NEW p,
         \A u \in Receivers : /\ Holds(u)' <=> Holds(u)
                              /\ Holds(u) => message'[u] = message[u]
  PROVE  FirstNumber(p)' = FirstNumber(p)
<1>1. Held(p)' <=> Held(p)
  BY DEF Held
<1> QED
  BY <1>1 DEF FirstNumber, NextNumber

LEMMA LastStays ==
  ASSUME NEW p, Uncounted(p)' = Uncounted(p), sequence'[p] = sequence[p]
  PROVE  LastNumber(p)' = LastNumber(p)
BY DEF LastNumber, NextNumber

(* A step that moves no message and no counter.                            *)
LEMMA NumbersStay ==
  ASSUME DemoInv, DemoSound', Contents' = Contents,
         UNCHANGED <<sequence, expected_sequence, g_message_queue_sequence_error_count>>,
         \A u \in Receivers : /\ Holds(u)' <=> Holds(u)
                              /\ Holds(u) => message'[u] = message[u],
         \A p \in Senders :
           /\ Uncounted(p)' = Uncounted(p)
           /\ pc'[p] = "called" =>
                \/ pc[p] = "called" /\ message'[p] = message[p]
                \/ message'[p] = [producer_id |-> p, sequence |-> sequence[p]]
  PROVE  DemoInv'
<1>1. QueueInv /\ QueueInv' /\ DemoNumbers /\ RingNumbered
  BY DEF DemoInv, DemoSound
<1>2. RingNumbered'
  <2> SUFFICES ASSUME NEW p \in Senders PROVE RingCounts(p)'
    BY DEF RingNumbered
  <2>1. FirstNumber(p)' = FirstNumber(p) /\ LastNumber(p)' = LastNumber(p)
    BY FirstStays, LastStays
  <2> QED
    BY <1>1, <2>1, CountsStay DEF RingNumbered
<1>3. DemoNumbers'
  BY <1>1 DEF DemoNumbers
<1> QED
  BY <1>2, <1>3 DEF DemoInv, DemoSound

LEMMA DemoFacts ==
  ASSUME DemoInv
  PROVE  /\ DemoSound /\ QueueInv /\ QTypeOK /\ ~primask /\ DemoPlaces
         /\ DemoNumbers /\ RingNumbered
         /\ Workers \subseteq AppTasks
         /\ Senders \subseteq Workers /\ Receivers \subseteq Workers
BY WorkersAreTasks DEF DemoInv, DemoSound, QueueInv, Workers

LEMMA BeginKeeps ==
  ASSUME DemoInv, NEW t \in Workers, Begin(t)
  PROVE  DemoInv'
<1>1. /\ DemoSound /\ QTypeOK /\ DemoPlaces /\ t \in AppTasks
      /\ Senders \subseteq Workers /\ Receivers \subseteq Workers /\ Workers \subseteq AppTasks
  BY DemoFacts
<1>2. DemoSound'
  BY <1>1, BeginSound
<1>3. /\ UNCHANGED <<ringVars, sequence, expected_sequence,
                     g_message_queue_sequence_error_count>>
      /\ pc[t] = "call" /\ pc'[t] = "called" /\ \A u \in Workers \ {t} : pc'[u] = pc[u]
      /\ step' = [step EXCEPT ![t] = "wait"]
  BY <1>1, Moves DEF Begin, Start, errorCounts
<1>4. step'[t] = "wait" /\ \A u \in AppTasks \ {t} : step'[u] = step[u]
  BY <1>1, <1>3 DEF QTypeOK
<1>5. /\ \A u \in AppTasks \ {t} : message'[u] = message[u]
      /\ t \in Senders => message'[t] = [producer_id |-> t, sequence |-> sequence[t]]
  <2>1. \E m : message' = [message EXCEPT ![t] = m]
    BY DEF Begin, Start
  <2> QED
    BY <1>1, <2>1 DEF Begin, QTypeOK
<1>6. Contents' = Contents
  BY <1>3, ContentsStay
<1>7. ASSUME NEW u \in Receivers
      PROVE  (Holds(u)' <=> Holds(u)) /\ (Holds(u) => message'[u] = message[u])
  BY <1>1, <1>3, <1>4, <1>5 DEF Holds
<1>8. ASSUME NEW p \in Senders
      PROVE  /\ Uncounted(p)' = Uncounted(p)
             /\ pc'[p] = "called" =>
                  \/ pc[p] = "called" /\ message'[p] = message[p]
                  \/ message'[p] = [producer_id |-> p, sequence |-> sequence[p]]
  BY <1>1, <1>3, <1>4, <1>5 DEF Uncounted
<1> QED
  BY <1>2, <1>3, <1>6, <1>7, <1>8, NumbersStay

(* A call, but for the moment at which it moves the index.                 *)
LEMMA CallKeeps ==
  ASSUME DemoInv, NEW t \in Workers, Continue(t), step[t] # "advance"
  PROVE  DemoInv'
<1>1. /\ DemoSound /\ QueueInv /\ ~primask /\ DemoPlaces /\ t \in AppTasks
      /\ Senders \subseteq Workers /\ Receivers \subseteq Workers /\ Workers \subseteq AppTasks
  BY DemoFacts
<1>2. /\ DemoSound' /\ NextStep(step[t], step'[t])
      /\ \A u \in AppTasks \ {t} : step'[u] = step[u]
  BY <1>1, ContinueSound DEF CallEffect
<1>3. /\ UNCHANGED <<pc, sequence, expected_sequence,
                     g_message_queue_sequence_error_count>>
      /\ pc[t] = "called" /\ InCall(t)
      /\ call[t] = IF t \in Senders THEN "send" ELSE "receive"
  BY <1>1 DEF Continue, loopVars, errorCounts, DemoPlaces
<1>4. /\ Contents' = Contents
      /\ \A u \in AppTasks : \/ message'[u] = message[u]
                             \/ u = t /\ step[t] = "copy" /\ call[t] = "receive"
  BY <1>1, <1>3, CallContents
<1>5. \A u \in AppTasks :
        /\ step'[u] \in {"unlock", "post", "run"} <=> step[u] \in {"unlock", "post", "run"}
        /\ step[u] \in {"unlock", "post", "run"} => message'[u] = message[u]
  <2>1. step[t] # "run"
    BY <1>2 DEF NextStep
  <2> QED
    BY <1>2, <1>4, <2>1 DEF NextStep
<1>6. ASSUME NEW u \in Receivers
      PROVE  (Holds(u)' <=> Holds(u)) /\ (Holds(u) => message'[u] = message[u])
  BY <1>1, <1>3, <1>5 DEF Holds
<1>7. ASSUME NEW p \in Senders
      PROVE  /\ Uncounted(p)' = Uncounted(p)
             /\ pc'[p] = "called" =>
                  \/ pc[p] = "called" /\ message'[p] = message[p]
                  \/ message'[p] = [producer_id |-> p, sequence |-> sequence[p]]
  BY <1>1, <1>3, <1>4, <1>5 DEF Uncounted
<1> QED
  BY <1>2, <1>3, <1>4, <1>6, <1>7, NumbersStay

LEMMA LockKeepsNumbers ==
  ASSUME DemoInv, NEW t \in Workers, LockConsole(t)
  PROVE  DemoInv'
<1>1. /\ DemoSound /\ DemoPlaces
      /\ Senders \subseteq Workers /\ Receivers \subseteq Workers
  BY DemoFacts
<1>2. /\ DemoSound' /\ Idle /\ Move(t, "lock", pc'[t]) /\ pc'[t] \in {"lock", "unlock"}
      /\ UNCHANGED <<sequence, expected_sequence, errorCounts>>
  BY <1>1, LockSound
<1>3. UNCHANGED <<ringVars, step, message, g_message_queue_sequence_error_count>>
  BY <1>2 DEF Idle, callVars, errorCounts
<1>4. pc[t] = "lock" /\ \A u \in Workers \ {t} : pc'[u] = pc[u]
  BY <1>1, <1>2, Moves
<1>5. Contents' = Contents
  BY <1>3, ContentsStay
<1>6. ASSUME NEW u \in Receivers
      PROVE  (Holds(u)' <=> Holds(u)) /\ (Holds(u) => message'[u] = message[u])
  BY <1>1, <1>2, <1>3, <1>4 DEF Holds
<1>7. ASSUME NEW p \in Senders
      PROVE  /\ Uncounted(p)' = Uncounted(p)
             /\ pc'[p] = "called" =>
                  \/ pc[p] = "called" /\ message'[p] = message[p]
                  \/ message'[p] = [producer_id |-> p, sequence |-> sequence[p]]
  BY <1>1, <1>2, <1>3, <1>4 DEF Uncounted
<1> QED
  BY <1>2, <1>3, <1>5, <1>6, <1>7, NumbersStay

LEMMA RestKeeps ==
  ASSUME DemoInv, NEW t \in Workers, Rest(t)
  PROVE  DemoInv'
<1>1. /\ DemoSound /\ DemoPlaces
      /\ Senders \subseteq Workers /\ Receivers \subseteq Workers
  BY DemoFacts
<1>2. DemoSound'
  BY <1>1, RestSound
<1>3. UNCHANGED <<ringVars, step, message, sequence, expected_sequence,
                  g_message_queue_sequence_error_count>>
  BY DEF Rest, callVars, errorCounts
<1>4. pc[t] = "sleep" /\ pc'[t] = "call" /\ \A u \in Workers \ {t} : pc'[u] = pc[u]
  BY <1>1, Moves DEF Rest
<1>5. Contents' = Contents
  BY <1>3, ContentsStay
<1>6. ASSUME NEW u \in Receivers
      PROVE  (Holds(u)' <=> Holds(u)) /\ (Holds(u) => message'[u] = message[u])
  BY <1>1, <1>3, <1>4 DEF Holds
<1>7. ASSUME NEW p \in Senders
      PROVE  /\ Uncounted(p)' = Uncounted(p)
             /\ pc'[p] = "called" =>
                  \/ pc[p] = "called" /\ message'[p] = message[p]
                  \/ message'[p] = [producer_id |-> p, sequence |-> sequence[p]]
  BY <1>1, <1>3, <1>4 DEF Uncounted
<1> QED
  BY <1>2, <1>3, <1>5, <1>6, <1>7, NumbersStay

LEMMA RestOfSystemKeeps ==
  ASSUME DemoInv, CoreNext \/ UNCHANGED layerVars, DemoIdle
  PROVE  DemoInv'
<1>1. DemoSound
  BY DemoFacts
<1>2. DemoSound'
  BY <1>1, RestOfSystemSound
<1>3. UNCHANGED <<ringVars, pc, step, message, sequence, expected_sequence,
                  g_message_queue_sequence_error_count>>
  BY DEF DemoIdle, Idle, callVars, loopVars, errorCounts
<1>4. Contents' = Contents
  BY <1>3, ContentsStay
<1>5. ASSUME NEW u \in Receivers
      PROVE  (Holds(u)' <=> Holds(u)) /\ (Holds(u) => message'[u] = message[u])
  BY <1>3 DEF Holds
<1>6. ASSUME NEW p \in Senders
      PROVE  /\ Uncounted(p)' = Uncounted(p)
             /\ pc'[p] = "called" =>
                  \/ pc[p] = "called" /\ message'[p] = message[p]
                  \/ message'[p] = [producer_id |-> p, sequence |-> sequence[p]]
  BY <1>3 DEF Uncounted
<1> QED
  BY <1>2, <1>3, <1>4, <1>5, <1>6, NumbersStay

-----------------------------------------------------------------------------
(* A sender counts its message: it was uncounted, and takes the next       *)
(* number for the one after it.                                            *)
LEMMA UnlockKeepsNumbers ==
  ASSUME DemoInv, NEW t \in Workers, UnlockConsole(t)
  PROVE  DemoInv'
<1>1. /\ DemoSound /\ QueueInv /\ DemoPlaces /\ DemoNumbers /\ RingNumbered
      /\ Senders \subseteq Workers /\ Receivers \subseteq Workers
  BY DemoFacts
<1>2. /\ DemoSound' /\ Idle /\ Move(t, "unlock", "sleep") /\ AfterLine(t)
      /\ UNCHANGED <<expected_sequence, errorCounts>>
  BY <1>1, UnlockSound
<1>3. /\ UNCHANGED <<ringVars, step, message, g_message_queue_sequence_error_count>>
      /\ QueueInv'
  BY <1>2 DEF Idle, callVars, errorCounts, DemoSound
<1>4. /\ pc[t] = "unlock" /\ pc'[t] = "sleep" /\ \A u \in Workers \ {t} : pc'[u] = pc[u]
  BY <1>1, <1>2, Moves
<1>5. Contents' = Contents
  BY <1>3, ContentsStay
<1>6. ASSUME NEW u \in Receivers
      PROVE  (Holds(u)' <=> Holds(u)) /\ (Holds(u) => message'[u] = message[u])
  BY <1>1, <1>3, <1>4 DEF Holds
<1>7. /\ sequence' \in [Senders -> Sequences]
      /\ \A p \in Senders :
           sequence'[p] = IF p = t THEN NextNumber(sequence[p]) ELSE sequence[p]
  <2>1. t \in Senders => NextNumber(sequence[t]) \in Sequences
    BY <1>1, NumberTypes, NextNumberIs
  <2> QED
    BY <1>1, <1>2, <2>1 DEF AfterLine, DemoNumbers
<1>8. RingNumbered'
  <2> SUFFICES ASSUME NEW p \in Senders PROVE RingCounts(p)'
    BY DEF RingNumbered
  <2>1. FirstNumber(p)' = FirstNumber(p)
    BY <1>2, <1>6, FirstStays
  <2>2. LastNumber(p)' = LastNumber(p)
    <3>1. CASE p = t
      <4>1. Uncounted(p) = 1 /\ Uncounted(p)' = 0
        BY <1>4, <3>1 DEF Uncounted
      <4>2. LastNumber(p)' = sequence'[p]
        BY <4>1 DEF LastNumber
      <4> QED
        BY <1>7, <3>1, <4>1, <4>2 DEF LastNumber
    <3>2. CASE p # t
      <4>1. Uncounted(p)' = Uncounted(p)
        BY <1>1, <1>3, <1>4, <3>2 DEF Uncounted
      <4> QED
        BY <1>7, <3>2, <4>1, LastStays
    <3> QED
      BY <3>1, <3>2
  <2> QED
    BY <1>1, <1>3, <1>5, <2>1, <2>2, CountsStay DEF RingNumbered
<1>9. DemoNumbers'
  <2>1. ASSUME NEW p \in Senders, pc'[p] = "called"
        PROVE  message'[p] = [producer_id |-> p, sequence |-> sequence'[p]]
    <3>1. p # t /\ pc[p] = "called"
      BY <1>1, <1>4, <2>1
    <3> QED
      BY <1>1, <1>3, <1>7, <3>1 DEF DemoNumbers
  <2> QED
    BY <1>1, <1>2, <1>3, <1>6, <1>7, <2>1 DEF DemoNumbers
<1> QED
  BY <1>2, <1>8, <1>9 DEF DemoInv, DemoSound

(* A sender's step that is done, and a consumer's message that is the one  *)
(* expected: from now on its successor is.                                 *)
LEMMA RecordKeeps ==
  ASSUME DemoInv, NEW t \in Workers, Record(t)
  PROVE  DemoInv'
<1>1. /\ DemoSound /\ QueueInv /\ DemoPlaces /\ DemoNumbers /\ RingNumbered
      /\ Senders \subseteq Workers /\ Receivers \subseteq Workers
  BY DemoFacts
<1>2. DemoSound' /\ QueueInv' /\ (Sent(t) \/ Received(t))
  BY <1>1, RecordSound DEF DemoSound
<1>3. /\ UNCHANGED <<ringVars, step, message, sequence>>
      /\ step[t] = "run" /\ Move(t, "called", "lock")
  BY <1>2 DEF Record, Sent, Received, queueVars, callVars
<1>4. pc[t] = "called" /\ pc'[t] = "lock" /\ \A u \in Workers \ {t} : pc'[u] = pc[u]
  BY <1>1, <1>3, Moves
<1>5. Contents' = Contents
  BY <1>3, ContentsStay
<1>6. ASSUME NEW p \in Senders
      PROVE  /\ Uncounted(p)' = Uncounted(p)
             /\ pc'[p] = "called" => pc[p] = "called" /\ message'[p] = message[p]
  BY <1>1, <1>3, <1>4 DEF Uncounted
<1>7. CASE Sent(t)
  <2>1. /\ UNCHANGED <<expected_sequence, g_message_queue_sequence_error_count>>
        /\ t \in Senders
    BY <1>7 DEF Sent, errorCounts
  <2>2. ASSUME NEW u \in Receivers
        PROVE  (Holds(u)' <=> Holds(u)) /\ (Holds(u) => message'[u] = message[u])
    <3>1. u # t
      BY <2>1, RolesAssumption
    <3> QED
      BY <1>1, <1>3, <1>4, <3>1 DEF Holds
  <2> QED
    BY <1>2, <1>3, <1>5, <1>6, <2>1, <2>2, NumbersStay
<1>8. CASE Received(t)
  <2> DEFINE q == message[t].producer_id
  <2>1. t \in Receivers /\ Holds(t) /\ ~Holds(t)'
    BY <1>3, <1>4, <1>8 DEF Received, Holds
  <2>2. /\ message[t] \in Messages /\ message[t] # Garbage /\ q \in Senders
        /\ message[t].sequence = expected_sequence[q]
    <3>1. message[t] \in Messages /\ message[t].sequence = expected_sequence[q]
      BY <1>1, <2>1 DEF DemoNumbers
    <3>2. q \in Senders
      BY <3>1, RolesAssumption DEF DemoMessages
    <3> QED
      BY <3>1, <3>2, QueueAssumption
  <2>3. /\ g_message_queue_sequence_error_count' = 0
        /\ expected_sequence' =
             [expected_sequence EXCEPT ![q] = NextNumber(expected_sequence[q])]
    <3>1. g_message_queue_sequence_error_count = 0
      BY <1>1 DEF DemoNumbers
    <3> HIDE DEF q
    <3> QED
      BY <1>8, <2>2, <3>1 DEF Received, q
  <2> HIDE DEF q
  <2>4. /\ expected_sequence' \in [Senders -> Sequences]
        /\ \A p \in Senders : expected_sequence'[p] =
             IF p = q THEN NextNumber(expected_sequence[p]) ELSE expected_sequence[p]
    <3>1. NextNumber(expected_sequence[q]) \in Sequences
      BY <1>1, <2>2, NumberTypes, NextNumberIs
    <3> QED
      BY <1>1, <2>2, <2>3, <3>1 DEF DemoNumbers
  <2>5. ASSUME NEW u \in Receivers
        PROVE  u = t /\ ~Holds(u)'
    BY <2>1, RolesAssumption
  <2>6. RingNumbered'
    <3> SUFFICES ASSUME NEW p \in Senders PROVE RingCounts(p)'
      BY DEF RingNumbered
    <3>1. LastNumber(p)' = LastNumber(p)
      BY <1>3, <1>6, LastStays
    <3>2. Held(p) <=> p = q
      BY <2>1, <2>5 DEF Held, q
    <3>3. ~Held(p)'
      BY <2>5 DEF Held
    <3>4. FirstNumber(p)' = expected_sequence'[p]
      BY <3>3 DEF FirstNumber
    <3>5. FirstNumber(p)' = FirstNumber(p)
      BY <2>4, <3>2, <3>4 DEF FirstNumber
    <3> QED
      BY <1>1, <1>2, <1>5, <3>1, <3>5, CountsStay DEF RingNumbered
  <2>7. DemoNumbers'
    BY <1>1, <1>3, <1>6, <2>3, <2>4, <2>5 DEF DemoNumbers
  <2> QED
    BY <1>2, <2>6, <2>7 DEF DemoInv, DemoSound
<1> QED
  BY <1>2, <1>7, <1>8

-----------------------------------------------------------------------------
(* The index moves: a sender adds the message that bears its next number.  *)
LEMMA SendKeeps ==
  ASSUME DemoInv, NEW t \in Senders, Continue(t), step[t] = "advance"
  PROVE  DemoInv'
<1>1. /\ DemoSound /\ QueueInv /\ ~primask /\ DemoPlaces /\ DemoNumbers /\ RingNumbered
      /\ t \in Workers /\ t \in AppTasks /\ t \notin Receivers
      /\ Senders \subseteq Workers /\ Receivers \subseteq Workers /\ Workers \subseteq AppTasks
  BY DemoFacts, RolesAssumption
<1>2. /\ DemoSound' /\ QueueInv' /\ step'[t] = "unlock"
      /\ \A u \in AppTasks \ {t} : step'[u] = step[u]
  BY <1>1, ContinueSound DEF CallEffect, NextStep
<1>3. /\ UNCHANGED <<pc, sequence, expected_sequence,
                     g_message_queue_sequence_error_count>>
      /\ pc[t] = "called" /\ InCall(t) /\ call[t] = "send"
  BY <1>1 DEF Continue, loopVars, errorCounts, DemoPlaces
<1>4. /\ \A u \in AppTasks : message'[u] = message[u]
      /\ message[t] \in Messages /\ Contents' = Append(Contents, message[t])
  BY <1>1, <1>3, CallContents
<1>5. message[t].producer_id = t /\ message[t].sequence = sequence[t]
  <2>1. message[t] = [producer_id |-> t, sequence |-> sequence[t]]
    BY <1>1, <1>3 DEF DemoNumbers
  <2> QED
    BY <2>1
<1>6. ASSUME NEW u \in Receivers
      PROVE  (Holds(u)' <=> Holds(u)) /\ (Holds(u) => message'[u] = message[u])
  <2>1. u # t
    BY <1>1
  <2> QED
    BY <1>1, <1>2, <1>3, <1>4, <2>1 DEF Holds
<1>7. RingNumbered'
  <2> SUFFICES ASSUME NEW p \in Senders PROVE RingCounts(p)'
    BY DEF RingNumbered
  <2>1. FirstNumber(p)' = FirstNumber(p)
    BY <1>3, <1>6, FirstStays
  <2>2. IF message[t].producer_id = p
          THEN /\ message[t].sequence = LastNumber(p)
               /\ LastNumber(p)' = NextNumber(LastNumber(p))
          ELSE LastNumber(p)' = LastNumber(p)
    <3>1. CASE p = t
      <4>1. Uncounted(p) = 0 /\ Uncounted(p)' = 1
        BY <1>2, <1>3, <3>1 DEF Uncounted
      <4>2. LastNumber(p) = sequence[p] /\ LastNumber(p)' = NextNumber(sequence[p])
        BY <1>3, <4>1 DEF LastNumber, NextNumber
      <4> QED
        BY <1>5, <3>1, <4>2
    <3>2. CASE p # t
      <4>1. Uncounted(p)' = Uncounted(p)
        BY <1>1, <1>2, <1>3, <3>2 DEF Uncounted
      <4> QED
        BY <1>3, <1>5, <3>2, <4>1, LastStays
    <3> QED
      BY <3>1, <3>2
  <2>3. FirstNumber(p) \in Sequences /\ LastNumber(p) \in Sequences /\ RingCounts(p)
    BY <1>1, NumberTypes DEF RingNumbered
  <2> QED
    BY <1>1, <1>2, <1>4, <2>1, <2>2, <2>3, CountsGrow
<1>8. DemoNumbers'
  BY <1>1, <1>3, <1>4, <1>6 DEF DemoNumbers
<1> QED
  BY <1>2, <1>7, <1>8 DEF DemoInv, DemoSound

(* The index moves: the consumer holds the message from which its producer *)
(* is counted, the one that it expects.                                    *)
LEMMA ReceiveKeeps ==
  ASSUME DemoInv, NEW t \in Receivers, Continue(t), step[t] = "advance"
  PROVE  DemoInv'
<1>1. /\ DemoSound /\ QueueInv /\ ~primask /\ DemoPlaces /\ DemoNumbers /\ RingNumbered
      /\ t \in Workers /\ t \in AppTasks /\ t \notin Senders
      /\ Senders \subseteq Workers /\ Receivers \subseteq Workers /\ Workers \subseteq AppTasks
  BY DemoFacts, RolesAssumption
<1>2. /\ DemoSound' /\ QueueInv' /\ step'[t] = "unlock"
      /\ \A u \in AppTasks \ {t} : step'[u] = step[u]
  BY <1>1, ContinueSound DEF CallEffect, NextStep
<1>3. /\ UNCHANGED <<pc, sequence, expected_sequence,
                     g_message_queue_sequence_error_count>>
      /\ pc[t] = "called" /\ InCall(t) /\ call[t] = "receive"
  BY <1>1 DEF Continue, loopVars, errorCounts, DemoPlaces
<1>4. /\ \A u \in AppTasks : message'[u] = message[u]
      /\ Contents # <<>> /\ message[t] = Head(Contents) /\ Contents' = Tail(Contents)
  BY <1>1, <1>3, CallContents
<1>5. message[t] \in Messages /\ message[t].producer_id \in Senders
  <2>1. Contents \in Seq(Messages)
    BY <1>1, RingOf DEF RingContents
  <2>2. message[t] \in Messages
    BY <1>4, <2>1, HeadTailProperties
  <2> QED
    BY <2>2, RolesAssumption DEF DemoMessages
<1>6. ASSUME NEW u \in Receivers
      PROVE  u = t /\ ~Holds(u) /\ Holds(u)'
  BY <1>1, <1>2, <1>3, RolesAssumption DEF Holds
<1>7. ASSUME NEW p \in Senders
      PROVE  /\ FirstNumber(p) = expected_sequence[p]
             /\ FirstNumber(p)' = IF Head(Contents).producer_id = p
                                    THEN NextNumber(FirstNumber(p)) ELSE FirstNumber(p)
  <2>1. ~Held(p)
    BY <1>6 DEF Held
  <2>2. Held(p)' <=> Head(Contents).producer_id = p
    BY <1>1, <1>4, <1>6 DEF Held
  <2> QED
    BY <1>3, <2>1, <2>2 DEF FirstNumber, NextNumber
<1>8. RingNumbered'
  <2> SUFFICES ASSUME NEW p \in Senders PROVE RingCounts(p)'
    BY DEF RingNumbered
  <2>1. LastNumber(p)' = LastNumber(p)
    <3>1. Uncounted(p)' = Uncounted(p)
      BY <1>1, <1>2, <1>3 DEF Uncounted
    <3> QED
      BY <1>3, <3>1, LastStays
  <2>2. FirstNumber(p) \in Sequences /\ LastNumber(p) \in Sequences /\ RingCounts(p)
    BY <1>1, NumberTypes DEF RingNumbered
  <2> QED
    BY <1>1, <1>2, <1>4, <1>7, <2>1, <2>2, CountsShrink
<1>9. message[t].sequence = expected_sequence[message[t].producer_id]
  <2> DEFINE q == message[t].producer_id
  <2>1. RingCounts(q) /\ Head(Contents).producer_id = q /\ FirstNumber(q) = expected_sequence[q]
    BY <1>1, <1>4, <1>5, <1>7 DEF RingNumbered
  <2> HIDE DEF q
  <2>2. Head(Contents).sequence = FirstNumber(q)
    BY <1>1, <1>4, <2>1, HeadIsFirst
  <2> QED
    BY <1>4, <2>1, <2>2 DEF q
<1>10. DemoNumbers'
  <2>1. ASSUME NEW u \in Receivers
        PROVE  /\ message'[u] \in Messages
               /\ message'[u].sequence = expected_sequence'[message'[u].producer_id]
    BY <1>1, <1>3, <1>4, <1>5, <1>6, <1>9
  <2>2. \A p \in Senders : message'[p] = message[p]
    BY <1>1, <1>4
  <2> QED
    BY <1>1, <1>3, <2>1, <2>2 DEF DemoNumbers
<1> QED
  BY <1>2, <1>8, <1>10 DEF DemoInv, DemoSound

-----------------------------------------------------------------------------
LEMMA DemoStep ==
  ASSUME DemoInv, [DemoNext]_demoVars
  PROVE  DemoInv'
<1>1. CASE CoreNext /\ DemoIdle
  BY <1>1, RestOfSystemKeeps
<1>2. ASSUME NEW t \in Workers, Worker(t)
      PROVE  DemoInv'
  <2>1. CASE Begin(t)
    BY <2>1, BeginKeeps
  <2>2. CASE Continue(t)
    <3>1. t \in Senders \/ t \in Receivers
      BY DEF Workers
    <3> QED
      BY <2>2, <3>1, CallKeeps, SendKeeps, ReceiveKeeps
  <2>3. CASE Record(t)
    BY <2>3, RecordKeeps
  <2>4. CASE LockConsole(t)
    BY <2>4, LockKeepsNumbers
  <2>5. CASE UnlockConsole(t)
    BY <2>5, UnlockKeepsNumbers
  <2>6. CASE Rest(t)
    BY <2>6, RestKeeps
  <2> QED
    BY <1>2, <2>1, <2>2, <2>3, <2>4, <2>5, <2>6 DEF Worker
<1>3. CASE UNCHANGED demoVars
  <2>1. UNCHANGED layerVars /\ DemoIdle
    BY <1>3 DEF demoVars, queueVars, DemoIdle, Idle
  <2> QED
    BY <2>1, RestOfSystemKeeps
<1> QED
  BY <1>1, <1>2, <1>3 DEF DemoNext

LEMMA DemoInitInv ==
  ASSUME DemoInit
  PROVE  DemoInv
<1>1. QueueInv /\ ~primask
  BY QueueInitInv DEF DemoInit, QInit, LayerInit
<1>2. Console!MutexSound
  BY DEF DemoInit, Console!os_mutex_init, Console!MutexSound, Console!MutexType,
         Console!NoTask, Console!IdleTask
<1>3. /\ stored = 0 /\ step = [t \in AppTasks |-> "run"]
      /\ status = [t \in AppTasks |-> "OK"]
      /\ pc = [t \in Workers |-> "call"]
      /\ sequence = [t \in Senders |-> 0] /\ expected_sequence = [t \in Senders |-> 0]
      /\ g_message_queue_sequence_error_count = 0 /\ g_message_queue_error_count = 0
  BY DEF DemoInit, QInit, os_message_queue_init
<1>4. Workers \subseteq AppTasks /\ Senders \subseteq Workers /\ Receivers \subseteq Workers
  BY WorkersAreTasks DEF Workers
<1>5. DemoPlaces
  <2>1. g_console_mutex.owner_task_id = NoTask /\ g_console_mutex.waiting = {}
    BY DEF DemoInit, Console!os_mutex_init, Console!NoTask, NoTask
  <2>2. \A t \in AppTasks : t # NoTask
    BY DEF AppTasks, Tasks, NoTask
  <2> QED
    BY <1>3, <1>4, <2>1, <2>2 DEF DemoPlaces
<1>6. 0 \in Sequences
  BY SequenceRoom DEF Sequences
<1>7. DemoNumbers
  BY <1>3, <1>4, <1>6 DEF DemoNumbers, Holds
<1>8. RingNumbered
  <2> SUFFICES ASSUME NEW p \in Senders PROVE RingCounts(p)
    BY DEF RingNumbered
  <2>1. FirstNumber(p) = 0 /\ LastNumber(p) = 0
    BY <1>3, <1>4 DEF FirstNumber, LastNumber, Held, Holds, Uncounted
  <2>2. InRing(p) = 0
    <3>1. Of(p) = {}
      BY <1>3 DEF Of
    <3> QED
      BY <1>1, <3>1, RingOf, FS_EmptySet DEF RingContents
  <2>3. Distance(0, 0) = 0
    BY DEF Distance
  <2>4. Numbered(p, [i \in 0 .. stored |-> 0])
    BY <1>3, <2>1 DEF Numbered
  <2>5. [i \in 0 .. stored |-> 0] \in [0 .. stored -> Sequences]
    BY <1>6
  <2> QED
    BY <2>1, <2>2, <2>3, <2>4, <2>5 DEF RingCounts
<1> QED
  BY <1>1, <1>2, <1>5, <1>7, <1>8 DEF DemoInv

(* The inductive invariant of the demo: the two locks, the ring and the    *)
(* counters agree, for any number of producers and any capacity            *)
(* (kernel_run_queue_producer, kernel_run_queue_consumer).                 *)
THEOREM QueueDemoInvariant == DemoSpec => []DemoInv
<1>1. DemoInit => DemoInv
  BY DemoInitInv
<1>2. DemoInv /\ [DemoNext]_demoVars => DemoInv'
  BY DemoStep
<1> QED
  BY <1>1, <1>2, PTL DEF DemoSpec

(* No call of the queue or of the console fails, and the consumer gets the *)
(* messages of each producer in order and without a gap, whatever the      *)
(* tasks interleave: the two error counters of the demo stay 0             *)
(* (kernel_record_message_queue_receive_success,                           *)
(* kernel_record_message_queue_error).                                     *)
THEOREM NothingGoesWrong == DemoSpec => []NoQueueErrors
<1>1. DemoInv => NoQueueErrors
  BY DEF DemoInv, DemoPlaces, DemoNumbers, NoQueueErrors
<1> QED
  BY <1>1, QueueDemoInvariant, PTL

(* The queue of the demo is that bounded FIFO, whatever its workers do     *)
(* between two calls: the console they share, and the numbers they check,  *)
(* are no part of it (kernel_run_queue_producer,                           *)
(* kernel_run_queue_consumer).                                             *)
THEOREM DemoQueueIsFifo == DemoSpec => ImplementsFifo
<1>1. DemoInit => Fifo!FifoInit
  BY QueueInitView DEF DemoInit, Abs!FifoInit, Fifo!FifoInit, Contents, Phase, Buffer
<1>2. ASSUME DemoInv, DemoInv', [DemoNext]_demoVars
      PROVE  [Abs!FifoNext]_(Abs!fifoVars)
  <2>1. QueueInv /\ QueueInv'
    BY <1>2 DEF DemoInv
  <2>2. CASE CoreNext /\ DemoIdle
    BY <2>2, IdleView DEF DemoIdle, Idle
  <2>3. ASSUME NEW t \in Workers, Worker(t)
        PROVE  [Abs!FifoNext]_(Abs!fifoVars)
    <3>1. CASE Begin(t) \/ Continue(t)
      <4>1. t \in AppTasks /\ (Start(t) \/ InCall(t))
        BY <3>1, WorkersAreTasks DEF Begin, Continue
      <4> QED
        BY <2>1, <4>1, QueueStepView DEF QNext
    <3>2. CASE Record(t) \/ LockConsole(t) \/ UnlockConsole(t) \/ Rest(t)
      <4>1. UNCHANGED <<ringVars, callVars>>
        BY <3>2 DEF Record, LockConsole, UnlockConsole, Rest, queueVars
      <4> QED
        BY <4>1, IdleView
    <3> QED
      BY <2>3, <3>1, <3>2 DEF Worker
  <2>4. CASE UNCHANGED demoVars
    BY <2>4, IdleView DEF demoVars, queueVars
  <2> QED
    BY <1>2, <2>2, <2>3, <2>4 DEF DemoNext
<1>3. DemoInv /\ DemoInv' /\ [DemoNext]_demoVars => [Fifo!FifoNext]_(Fifo!fifoVars)
  BY <1>2, AbsIsFifo
<1> QED
  BY <1>1, <1>3, QueueDemoInvariant, PTL DEF DemoSpec, ImplementsFifo, Fifo!FifoSpec

LEMMA Modulo ==
  ASSUME NEW M \in Nat \ {0}, NEW r \in 0 .. M - 1, NEW x \in Int,
         x = r \/ x = r - M \/ x = r + M
  PROVE  x % M = r
<1>1. CASE x = r
  BY <1>1
<1>2. CASE x = r - M
  <2>1. (r - M) % M = r
    OBVIOUS
  <2> QED
    BY <1>2, <2>1
<1>3. CASE x = r + M
  <2>1. (r + M) % M = r
    OBVIOUS
  <2> QED
    BY <1>3, <2>1
<1> QED
  BY <1>1, <1>2, <1>3

LEMMA CountsAgree ==
  ASSUME DemoInv
  PROVE  MessagesAccounted
<1> SUFFICES ASSUME NEW p \in Senders
             PROVE  (sequence[p] + Uncounted(p) - expected_sequence[p]) % SequenceModulus
                      = InRing(p) + Unchecked(p)
  BY DEF MessagesAccounted
<1>1. /\ QueueInv /\ DemoNumbers /\ RingCounts(p) /\ RingBounded
      /\ FirstNumber(p) \in Sequences /\ LastNumber(p) \in Sequences
      /\ sequence[p] \in Sequences /\ expected_sequence[p] \in Sequences
  BY DemoFacts, NumberTypes, RingIsBounded DEF RingNumbered
<1> DEFINE checks == {t \in Receivers :
                        /\ pc[t] = "called" /\ step[t] \in {"unlock", "post", "run"}
                        /\ message[t] # Garbage /\ message[t].producer_id = p}
<1>2. Unchecked(p) = Cardinality(checks)
  BY DEF Unchecked
<1>3. \A t \in Receivers : t \in checks <=> Holds(t) /\ message[t].producer_id = p
  <2>1. \A t \in Receivers : Holds(t) => message[t] # Garbage
    BY <1>1, QueueAssumption DEF DemoNumbers
  <2> QED
    BY <2>1 DEF Holds
<1>4. Unchecked(p) = IF Held(p) THEN 1 ELSE 0
  <2>1. CASE Held(p)
    <3>1. PICK t \in Receivers : t \in checks
      BY <1>3, <2>1 DEF Held
    <3>2. checks = {t}
      BY <3>1, RolesAssumption
    <3> QED
      BY <1>2, <2>1, <3>2, FS_Singleton
  <2>2. CASE ~Held(p)
    <3>1. checks = {}
      BY <1>3, <2>2 DEF Held
    <3> QED
      BY <1>2, <2>2, <3>1, FS_EmptySet
  <2> QED
    BY <2>1, <2>2
<1> HIDE DEF checks
<1>5. /\ SequenceModulus \in Nat \ {0} /\ Capacity \in Nat /\ Capacity < SequenceModulus
      /\ Held(p) => Capacity + 1 < SequenceModulus
  <2>1. Held(p) => Receivers # {}
    BY DEF Held
  <2> QED
    BY <2>1, SequenceRoom
<1> DEFINE n == InRing(p)
           e == expected_sequence[p]
           s == sequence[p]
           l == LastNumber(p)
<1>6. /\ n \in Nat /\ n <= Capacity
      /\ n = Distance(FirstNumber(p), l)
      /\ e \in 0 .. SequenceModulus - 1 /\ s \in 0 .. SequenceModulus - 1
      /\ l \in 0 .. SequenceModulus - 1
  BY <1>1 DEF RingBounded, RingCounts, Sequences
<1>7. FirstNumber(p) = IF Held(p) THEN (IF e + 1 = SequenceModulus THEN 0 ELSE e + 1) ELSE e
  BY <1>1, NextNumberIs DEF FirstNumber
<1>8. /\ Uncounted(p) \in {0, 1}
      /\ l = IF Uncounted(p) = 1 THEN (IF s + 1 = SequenceModulus THEN 0 ELSE s + 1) ELSE s
  BY <1>1, NextNumberIs DEF LastNumber, Uncounted
<1> HIDE DEF n, e, s, l
<1>9. n + Unchecked(p) \in 0 .. SequenceModulus - 1
  BY <1>4, <1>5, <1>6
<1>10. \/ l - e = n + Unchecked(p)
       \/ l - e = n + Unchecked(p) - SequenceModulus
  BY <1>4, <1>5, <1>6, <1>7 DEF Distance
<1>11. \/ s + Uncounted(p) = l
       \/ s + Uncounted(p) = l + SequenceModulus /\ l = 0
  BY <1>5, <1>6, <1>8
<1> DEFINE r == n + Unchecked(p)
           x == s + Uncounted(p) - e
<1>12. r \in 0 .. SequenceModulus - 1 /\ x \in Int
  BY <1>6, <1>8, <1>9
<1>13. x = r \/ x = r - SequenceModulus \/ x = r + SequenceModulus
  <2>1. Unchecked(p) \in {0, 1}
    BY <1>4
  <2> QED
    BY <1>5, <1>6, <1>8, <1>10, <1>11, <2>1
<1> HIDE DEF r, x
<1>14. x % SequenceModulus = r
  BY <1>5, <1>12, <1>13, Modulo
<1> QED
  BY <1>14 DEF x, r, n, s, e

(* No message of the demo is lost or delivered twice: those between a      *)
(* producer's counter and the consumer's are in the ring, or in the hands  *)
(* of the two tasks.                                                       *)
THEOREM EveryMessageAccounted == DemoSpec => []MessagesAccounted
<1>1. DemoInv => MessagesAccounted
  BY CountsAgree
<1> QED
  BY <1>1, QueueDemoInvariant, PTL

-----------------------------------------------------------------------------
(***************************************************************************)
(* The demo never deadlocks.  A BLOCKED task has its bit in the queue or   *)
(* in the console mutex; then, if all workers are BLOCKED, nobody owns     *)
(* either mutex, and producers and consumer wait for opposite reasons.     *)
(***************************************************************************)
LEMMA BitsFollow ==
  ASSUME DemoInv, BlockedBehindBit, NEW t \in Workers, Worker(t)
  PROVE  BlockedBehindBit'
<1>1. t \in AppTasks /\ QueueInv /\ LayerInv /\ Console!MutexSound
  BY WorkersAreTasks DEF DemoInv, QueueInv
<1>2. CASE Continue(t)
  <2>1. WaitsFollow /\ UNCHANGED g_console_mutex
    BY <1>1, <1>2, CallFollows DEF Continue, loopVars
  <2> QED
    BY <2>1 DEF WaitsFollow, BlockedBehindBit
<1>3. CASE Begin(t) \/ Record(t) \/ Rest(t)
  <2>1. UNCHANGED syncVars /\ UNCHANGED g_console_mutex
    BY <1>3 DEF Begin, Start, Record, Rest, queueVars
  <2>2. UNCHANGED layerVars \/ os_sleep(t)
    BY <1>3 DEF Begin, Start, Record, Rest, queueVars
  <2>3. WaitsFollow
    BY <1>1, <2>1, <2>2, OutsideFollows
  <2> QED
    BY <2>1, <2>3 DEF WaitsFollow, BlockedBehindBit
<1>4. CASE LockConsole(t)
  <2>1. PICK result : Console!os_mutex_lock(t, result)
    BY <1>4 DEF LockConsole
  <2>2. /\ Elsewhere(t, {})
        /\ \/ /\ UNCHANGED task_state
              /\ \/ g_console_mutex'.waiting = g_console_mutex.waiting
                 \/ g_console_mutex'.waiting = g_console_mutex.waiting \ {t}
           \/ g_console_mutex'.waiting = g_console_mutex.waiting \cup {t}
    BY <1>1, <2>1, LockConsoleEffect DEF layerVars
  <2>3. ~Blocked(t)
    BY <1>1, <2>1, CallRuns DEF Console!os_mutex_lock, Console!Executing, Executing, Blocked
  <2>4. \A u \in AppTasks : WaitsInQueue(u) <=> WaitsInQueue(u)'
    BY <1>4 DEF LockConsole, syncVars, WaitsInQueue
  <2> QED
    BY <2>2, <2>3, <2>4 DEF BlockedBehindBit, Blocked, Elsewhere
<1>5. CASE UnlockConsole(t)
  <2>1. PICK result : Console!os_mutex_unlock(t, result)
    BY <1>5 DEF UnlockConsole
  <2>2. pc[t] = "unlock" /\ t \notin g_console_mutex.waiting
    BY <1>1, <1>5 DEF UnlockConsole, Move, DemoInv, DemoPlaces
  <2>3. /\ Elsewhere(t, g_console_mutex.waiting)
        /\ g_console_mutex'.waiting = g_console_mutex.waiting
    BY <1>1, <2>1, <2>2, UnlockConsoleEffect
  <2>4. ~Blocked(t)'
    BY <1>1, <2>1, CallerStaysUp
  <2>5. \A u \in AppTasks : WaitsInQueue(u) <=> WaitsInQueue(u)'
    BY <1>5 DEF UnlockConsole, syncVars, WaitsInQueue
  <2> QED
    BY <2>3, <2>4, <2>5 DEF BlockedBehindBit, Blocked, Elsewhere
<1> QED
  BY <1>2, <1>3, <1>4, <1>5 DEF Worker

LEMMA SomeoneGoesOn ==
  ASSUME DemoInv, BlockedBehindBit, NEW s \in Senders, NEW r \in Receivers
  PROVE  \E t \in Workers : ~Blocked(t)
<1> SUFFICES ASSUME \A t \in Workers : Blocked(t) PROVE FALSE
  OBVIOUS
<1>1. /\ QueueInv /\ PlacesAgree /\ DemoPlaces /\ Console!MutexSound
      /\ s \in Workers /\ r \in Workers /\ s # r
      /\ s \in AppTasks /\ r \in AppTasks
  BY WorkersAreTasks, RolesAssumption DEF DemoInv, QueueInv, Workers
<1>2. /\ access_mutex.waiting = {}
      /\ available_items.waiting = {} \/ available_spaces.waiting = {}
  <2>1. \A t \in AppTasks : step[t] # "run" => Blocked(t) /\ WaitsInQueue(t)
    BY <1>1 DEF DemoPlaces, BlockedBehindBit
  <2> QED
    BY <1>1, <2>1, NobodyInside
<1>3. g_console_mutex.waiting = {}
  <2> SUFFICES ASSUME g_console_mutex.waiting # {} PROVE FALSE
    OBVIOUS
  <2> DEFINE owner == g_console_mutex.owner_task_id
  <2>1. owner \in AppTasks
    BY <1>1 DEF Console!MutexSound, Console!MutexType, Console!Tasks, Tasks, Console!NoTask,
                Console!IdleTask, IdleTask, AppTasks
  <2>2. owner \in g_console_mutex.waiting => ~Blocked(owner)
    BY <1>1 DEF Console!MutexSound, Blocked
  <2>3. owner \in Workers /\ pc[owner] \in {"lock", "unlock"}
    BY <1>1, <2>1 DEF DemoPlaces
  <2>4. WaitsInQueue(owner)
    BY <2>1, <2>2, <2>3 DEF BlockedBehindBit
  <2>5. step[owner] # "run"
    BY <1>1, <2>1, <2>4 DEF WaitsInQueue, PlacesAgree
  <2> QED
    BY <1>1, <2>1, <2>3, <2>5 DEF DemoPlaces
<1>4. ASSUME NEW t \in {s, r}
      PROVE  /\ t \in available_items.waiting \cup available_spaces.waiting
             /\ pc[t] = "called"
             /\ t \in available_items.waiting => call[t] = "receive"
             /\ t \in available_spaces.waiting => call[t] = "send"
  <2>1. t \in available_items.waiting \cup available_spaces.waiting
    BY <1>1, <1>2, <1>3 DEF BlockedBehindBit, WaitsInQueue
  <2> QED
    BY <1>1, <2>1 DEF PlacesAgree, DemoPlaces
<1>5. call[s] = "send" /\ call[r] = "receive"
  BY <1>1, <1>4, RolesAssumption DEF DemoPlaces
<1> QED
  BY <1>2, <1>4, <1>5

(* Whatever the workers do, one of them at least is not BLOCKED, for any   *)
(* number of producers and any capacity: the waits for a slot, a message,  *)
(* the mutex of the queue and the console never close a circle             *)
(* (kernel_run_queue_producer, kernel_run_queue_consumer).                 *)
THEOREM DemoNeverDeadlocks == DemoSpec => []NoDeadlock
<1>1. DemoInit => BlockedBehindBit
  BY DEF DemoInit, QInit, LayerInit, BlockedBehindBit, Blocked, AppTasks
<1>2. DemoInv /\ BlockedBehindBit /\ [DemoNext]_demoVars => BlockedBehindBit'
  <2> SUFFICES ASSUME DemoInv, BlockedBehindBit, [DemoNext]_demoVars
               PROVE  BlockedBehindBit'
    OBVIOUS
  <2>1. CASE (CoreNext /\ DemoIdle) \/ UNCHANGED demoVars
    <3>1. LayerInv /\ UNCHANGED syncVars /\ UNCHANGED g_console_mutex
      BY <2>1 DEF DemoInv, QueueInv, DemoIdle, Idle, loopVars, demoVars, queueVars
    <3>2. CoreNext \/ UNCHANGED layerVars
      BY <2>1 DEF demoVars, queueVars
    <3>3. WaitsFollow
      BY <3>1, <3>2, OutsideFollows
    <3> QED
      BY <3>1, <3>3 DEF WaitsFollow, BlockedBehindBit
  <2>2. ASSUME NEW t \in Workers, Worker(t) PROVE BlockedBehindBit'
    BY <2>2, BitsFollow
  <2> QED
    BY <2>1, <2>2 DEF DemoNext
<1>3. DemoInv /\ BlockedBehindBit => NoDeadlock
  BY SomeoneGoesOn DEF NoDeadlock
<1> QED
  BY <1>1, <1>2, <1>3, QueueDemoInvariant, PTL DEF DemoSpec

=============================================================================
