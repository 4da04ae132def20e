----------------------------- MODULE MutexTasks ----------------------------
(***************************************************************************)
(* Tasks that share one mutex, the way the demo tasks of kernel.c share    *)
(* g_console_mutex: each locks it, unlocks it, and may in between yield,   *)
(* sleep, mask interrupts, lock again or unlock what it does not own.      *)
(***************************************************************************)
EXTENDS Mutex

VARIABLES
  pc,        \* "run", or "lock" while t is inside a blocking os_mutex_lock
  holding    \* what t knows: its last lock succeeded and it did not unlock

taskVars  == <<pc, holding>>
mutexVars == <<layerVars, mutex, taskVars>>

MInit ==
  /\ LayerInit
  /\ os_mutex_init
  /\ pc = [t \in AppTasks |-> "run"]
  /\ holding = [t \in AppTasks |-> FALSE]

(* One turn of the loop of os_mutex_lock.                                  *)
Lock(t) ==
  \E result \in LockResults :
    /\ os_mutex_lock(t, result)
    /\ pc' = [pc EXCEPT ![t] = IF result = "BLOCKED" THEN "lock" ELSE "run"]
    /\ holding' = [holding EXCEPT ![t] = @ \/ result = "OK"]

Unlock(t) ==
  /\ pc[t] = "run"
  /\ \E result \in UnlockResults :
       /\ os_mutex_unlock(t, result)
       /\ holding' = [holding EXCEPT ![t] = @ /\ result # "OK"]
  /\ UNCHANGED pc

(* What else a task does between two calls.                                *)
Other(t) ==
  /\ pc[t] = "run"
  /\ os_sleep(t) \/ os_irq_save(t) \/ os_irq_restore(t)
  /\ UNCHANGED <<mutex, taskVars>>

Core == CoreNext /\ UNCHANGED <<mutex, taskVars>>

MNext == Core \/ \E t \in AppTasks : Lock(t) \/ Unlock(t) \/ Other(t)

MSpec == MInit /\ [][MNext]_mutexVars

(***************************************************************************)
(* Fairness.  Module Scheduler shows that a READY task gets the CPU and    *)
(* that sleepers wake up, while preemption is enabled; a time slice always *)
(* ends, and a switch is shorter than a slice; a task that keeps getting   *)
(* the CPU ends its masked sections, finishes its calls, and does not hold *)
(* the mutex for ever.                                                     *)
(***************************************************************************)
Run(t)    == Dispatch(t) /\ ~pendsv' /\ UNCHANGED <<mutex, taskVars>>
Resume(t) == (Wake({t}) \/ os_irq_restore(t)) /\ UNCHANGED <<mutex, taskVars>>
Call(t)   == (pc[t] = "lock" /\ Lock(t)) \/ (holding[t] /\ Unlock(t))

MFairness ==
  /\ WF_mutexVars(RequestSwitch /\ UNCHANGED <<mutex, taskVars>>)
  /\ \A t \in AppTasks :
       /\ SF_mutexVars(Run(t))
       /\ SF_mutexVars(Resume(t))
       /\ SF_mutexVars(Call(t))

MFairSpec == MSpec /\ MFairness

-----------------------------------------------------------------------------
(* Type invariant.                                                         *)
MTypeOK ==
  /\ LayerTypeOK
  /\ mutex \in MutexType
  /\ pc \in [AppTasks -> {"run", "lock"}]
  /\ holding \in [AppTasks -> BOOLEAN]

(***************************************************************************)
(* Ownership is what the tasks believe it is: the task whose os_mutex_lock *)
(* returned OK owns the mutex until its os_mutex_unlock does, so no two    *)
(* tasks hold it.  An owner that has not heard of it yet is a waiter that  *)
(* was handed the mutex and still has its waiting bit, so that its lock    *)
(* returns OK and not RECURSIVE_LOCK.                                      *)
(***************************************************************************)
OwnerAgrees ==
  \A t \in AppTasks :
    /\ holding[t] => IsOwner(t) /\ t \notin mutex.waiting /\ pc[t] = "run"
    /\ IsOwner(t) => holding[t] \/ (pc[t] = "lock" /\ t \in mutex.waiting)

(***************************************************************************)
(* No wakeup is lost: a task waits BLOCKED, with its bit set, only while   *)
(* somebody else owns the mutex and will find it; a task that is inside    *)
(* os_mutex_lock but not BLOCKED owns the mutex.                           *)
(***************************************************************************)
NoLostWakeup ==
  \A t \in AppTasks :
    /\ t \in mutex.waiting <=> pc[t] = "lock"
    /\ pc[t] = "lock" => IF IsOwner(t) THEN task_state[t] # "BLOCKED"
                         ELSE task_state[t] = "BLOCKED" /\ mutex.is_locked
    /\ task_state[t] = "BLOCKED" => pc[t] = "lock"

(* The inductive invariant (proved in MutexProofs).                        *)
MutexInv ==
  /\ LayerInv
  /\ MTypeOK
  /\ mutex.is_locked <=> mutex.owner_task_id # NoTask
  /\ mutex.owner_task_id # IdleTask /\ IdleTask \notin mutex.waiting
  /\ OwnerAgrees
  /\ NoLostWakeup

(* A task that waits for the mutex gets it.                                *)
LockReturns == \A t \in AppTasks : pc[t] = "lock" ~> holding[t]
=============================================================================
