------------------------------- MODULE Mutex -------------------------------
(***************************************************************************)
(* The mutex service (mutex.c): one mutex, as an object that tasks call.   *)
(*                                                                         *)
(* Each action is one critical section of os_mutex_lock or os_mutex_unlock *)
(* executed by task t, ending with the result the call returns; "BLOCKED"  *)
(* is the result of a section of os_mutex_lock after which t is off the    *)
(* CPU and will go through the loop once more.  Both calls refuse idle and *)
(* run only after kernel_main has initialised the mutex and the scheduler  *)
(* has started, so their argument checks always succeed here.              *)
(***************************************************************************)
EXTENDS TaskLayer

VARIABLE mutex   \* is_locked, owner_task_id and waiting_task_mask (as a set)

MutexType ==
  [is_locked : BOOLEAN, owner_task_id : Tasks \cup {NoTask}, waiting : SUBSET Tasks]

os_mutex_init ==
  mutex = [is_locked |-> FALSE, owner_task_id |-> NoTask, waiting |-> {}]

(* Searches that begin at the head of the table, and that do not wrap.     *)
mutex_find_next_from_head == FirstBlocked(IdleTask, mutex.waiting)
mutex_find_next_no_wrap ==
  FirstBlocked(mutex.owner_task_id, {u \in mutex.waiting : u > mutex.owner_task_id})

mutex_find_next_waiting_task == FirstBlocked(mutex.owner_task_id, mutex.waiting)

-----------------------------------------------------------------------------
(* os_mutex_lock                                                           *)

lock_free(t, result) ==
  /\ ~mutex.is_locked
  /\ mutex' = [is_locked |-> TRUE, owner_task_id |-> t,
               waiting |-> mutex.waiting \ {t}]
  /\ result = "OK"
  /\ UNCHANGED layerVars

(* The waiting bit outlives the handoff.                                   *)
lock_handed_over_keeps_bit(t, result) ==
  /\ mutex.is_locked /\ mutex.owner_task_id = t
  /\ t \in mutex.waiting
  /\ result = "OK"
  /\ UNCHANGED <<mutex, layerVars>>

(* The owner made t the owner while t was blocked: t consumes its bit.     *)
lock_handed_over(t, result) ==
  /\ mutex.is_locked /\ mutex.owner_task_id = t
  /\ t \in mutex.waiting
  /\ mutex' = [mutex EXCEPT !.waiting = @ \ {t}]
  /\ result = "OK"
  /\ UNCHANGED layerVars

lock_recursive(t, result) ==
  /\ mutex.is_locked /\ mutex.owner_task_id = t
  /\ t \notin mutex.waiting
  /\ result = "RECURSIVE_LOCK"
  /\ UNCHANGED <<mutex, layerVars>>

lock_masked(t, result) ==
  /\ mutex.is_locked /\ mutex.owner_task_id # t
  /\ primask
  /\ result = "INTERRUPTS_DISABLED"
  /\ UNCHANGED <<mutex, layerVars>>

lock_block(t, result) ==
  /\ mutex.is_locked /\ mutex.owner_task_id # t
  /\ ~primask
  /\ IF CanBlock(t)
       THEN /\ mutex' = [mutex EXCEPT !.waiting = @ \cup {t}]
            /\ task_block(t)
            /\ os_trigger_context_switch
            /\ result = "BLOCKED"
            /\ UNCHANGED <<current, primask>>
       ELSE /\ mutex' = [mutex EXCEPT !.waiting = @ \ {t}]
            /\ result = "TASK_OPERATION"
            /\ UNCHANGED layerVars

os_mutex_lock(t, result) ==
  /\ Executing(t)
  /\ \/ lock_free(t, result)
     \/ lock_handed_over(t, result)
     \/ lock_recursive(t, result)
     \/ lock_masked(t, result)
     \/ lock_block(t, result)

LockResults == {"OK", "RECURSIVE_LOCK", "INTERRUPTS_DISABLED", "BLOCKED",
                "TASK_OPERATION"}

-----------------------------------------------------------------------------
(* os_mutex_unlock                                                         *)

IsOwner(t) == mutex.is_locked /\ mutex.owner_task_id = t

unlock_not_owner(t, result) ==
  /\ ~IsOwner(t)
  /\ result = "NOT_OWNER"
  /\ UNCHANGED <<mutex, layerVars>>

unlock_release(t, result) ==
  /\ IsOwner(t)
  /\ mutex_find_next_waiting_task = NoTask
  /\ mutex' = [is_locked |-> FALSE, owner_task_id |-> NoTask,
               waiting |-> WithoutStale(t, mutex.waiting)]
  /\ result = "OK"
  /\ UNCHANGED layerVars

(* Direct handoff: the mutex stays locked and changes its owner before the *)
(* new owner becomes READY, so nobody can take it in between.              *)
unlock_hand_over(t, result) ==
  /\ IsOwner(t)
  /\ LET next == mutex_find_next_waiting_task
     IN  /\ next # NoTask
         /\ task_unblock(next)
         /\ mutex' = [is_locked |-> TRUE, owner_task_id |-> next,
                      waiting |-> WithoutStale(t, mutex.waiting)]
  /\ result = "OK"
  /\ UNCHANGED <<current, pendsv, primask>>

os_mutex_unlock(t, result) ==
  /\ Executing(t)
  /\ \/ unlock_not_owner(t, result)
     \/ unlock_release(t, result)
     \/ unlock_hand_over(t, result)

UnlockResults == {"OK", "NOT_OWNER"}

-----------------------------------------------------------------------------
(***************************************************************************)
(* What a mutex keeps up by itself, whatever other objects its users wait  *)
(* for: only a locked mutex has waiting tasks; they are BLOCKED, except    *)
(* one that has been made the owner and has yet to hear of it.             *)
(***************************************************************************)
MutexSound ==
  /\ mutex \in MutexType
  /\ mutex.is_locked <=> mutex.owner_task_id # NoTask
  /\ mutex.owner_task_id # IdleTask
  /\ mutex.waiting \subseteq AppTasks
  /\ ~mutex.is_locked => mutex.waiting = {}
  /\ \A u \in mutex.waiting :
       task_state[u] = "BLOCKED" <=> u # mutex.owner_task_id
=============================================================================
