----------------------------- MODULE Semaphore -----------------------------
(***************************************************************************)
(* The counting semaphore service (semaphore.c): one semaphore, as an      *)
(* object that tasks call.                                                 *)
(*                                                                         *)
(* As in Mutex, each action is one critical section executed by task t     *)
(* with the result the call returns; "BLOCKED" is the result of a turn of  *)
(* the loop of os_semaphore_wait after which t is off the CPU and will go  *)
(* through the loop once more.  Application tasks call an initialised      *)
(* semaphore in thread mode, so the argument checks always succeed here.   *)
(***************************************************************************)
EXTENDS TaskLayer

VARIABLE semaphore   \* the fields of os_semaphore_t, the masks as sets

SemaphoreType ==
  [count : Nat, maximum_count : Nat, waiting : SUBSET Tasks,
   granted : SUBSET Tasks, last_granted_task_id : Tasks]

os_semaphore_init(initial_count, maximum_count) ==
  semaphore = [count |-> initial_count, maximum_count |-> maximum_count,
               waiting |-> {}, granted |-> {}, last_granted_task_id |-> IdleTask]

(* Searches that begin at the head of the table, and that do not wrap.     *)
semaphore_find_next_from_head == FirstBlocked(IdleTask, semaphore.waiting)
semaphore_find_next_no_wrap ==
  FirstBlocked(semaphore.last_granted_task_id,
               {u \in semaphore.waiting : u > semaphore.last_granted_task_id})

semaphore_find_next_waiting_task ==
  FirstBlocked(semaphore.last_granted_task_id, semaphore.waiting)

(* What the search for the next task leaves of the waiting bits.           *)
Searched == WithoutStale(semaphore.last_granted_task_id, semaphore.waiting)

-----------------------------------------------------------------------------
(* os_semaphore_wait                                                       *)

(* The grant is used and stays.                                            *)
wait_granted_stays(t, result) ==
  /\ t \in semaphore.granted
  /\ semaphore' = [semaphore EXCEPT !.waiting = @ \ {t}]
  /\ result = "OK"
  /\ UNCHANGED layerVars

(* A post has reserved a unit for t while t was blocked.                   *)
wait_granted(t, result) ==
  /\ t \in semaphore.granted
  /\ semaphore' = [semaphore EXCEPT !.granted = @ \ {t}, !.waiting = @ \ {t}]
  /\ result = "OK"
  /\ UNCHANGED layerVars

wait_take_unit(t, result) ==
  /\ t \notin semaphore.granted
  /\ semaphore.count > 0
  /\ semaphore' = [semaphore EXCEPT !.count = @ - 1, !.waiting = @ \ {t}]
  /\ result = "OK"
  /\ UNCHANGED layerVars

NothingFor(t) == t \notin semaphore.granted /\ semaphore.count = 0

wait_masked(t, result) ==
  /\ NothingFor(t)
  /\ primask
  /\ result = "INTERRUPTS_DISABLED"
  /\ UNCHANGED <<semaphore, layerVars>>

wait_block(t, result) ==
  /\ NothingFor(t)
  /\ ~primask
  /\ IF CanBlock(t)
       THEN /\ semaphore' = [semaphore EXCEPT !.waiting = @ \cup {t}]
            /\ task_block(t)
            /\ os_trigger_context_switch
            /\ result = "BLOCKED"
            /\ UNCHANGED <<current, primask>>
       ELSE /\ semaphore' = [semaphore EXCEPT !.waiting = @ \ {t}]
            /\ result = "TASK_OPERATION"
            /\ UNCHANGED layerVars

os_semaphore_wait(t, result) ==
  /\ Executing(t)
  /\ \/ wait_granted(t, result)
     \/ wait_take_unit(t, result)
     \/ wait_masked(t, result)
     \/ wait_block(t, result)

WaitResults == {"OK", "INTERRUPTS_DISABLED", "BLOCKED", "TASK_OPERATION"}

-----------------------------------------------------------------------------
(* os_semaphore_post                                                       *)

(* No further unit fits; off by one, and as it is.                         *)
Full_off_by_one == semaphore.count > semaphore.maximum_count
Full == semaphore.count >= semaphore.maximum_count

(* Direct handoff: the unit never becomes available to a later caller.     *)
post_grant(t, result) ==
  LET next == semaphore_find_next_waiting_task
  IN  /\ next # NoTask
      /\ task_unblock(next)
      /\ semaphore' = [semaphore EXCEPT !.waiting = Searched \ {next},
                                        !.granted = @ \cup {next},
                                        !.last_granted_task_id = next]
      /\ result = "OK"
      /\ UNCHANGED <<current, pendsv, primask>>

post_overflow(t, result) ==
  /\ semaphore_find_next_waiting_task = NoTask
  /\ Full
  /\ semaphore' = [semaphore EXCEPT !.waiting = Searched]
  /\ result = "OVERFLOW"
  /\ UNCHANGED layerVars

post_unit(t, result) ==
  /\ semaphore_find_next_waiting_task = NoTask
  /\ ~Full
  /\ semaphore' = [semaphore EXCEPT !.waiting = Searched, !.count = @ + 1]
  /\ result = "OK"
  /\ UNCHANGED layerVars

os_semaphore_post(t, result) ==
  /\ Executing(t)
  /\ \/ post_grant(t, result)
     \/ post_overflow(t, result)
     \/ post_unit(t, result)

PostResults == {"OK", "OVERFLOW"}

-----------------------------------------------------------------------------
(***************************************************************************)
(* What a semaphore keeps up by itself, whatever other objects its users   *)
(* wait for: a task waits BLOCKED or has a unit reserved, never both, and  *)
(* no unit lies in the count while a task waits.                           *)
(***************************************************************************)
SemaphoreSound ==
  /\ semaphore \in SemaphoreType
  /\ semaphore.count <= semaphore.maximum_count
  /\ semaphore.waiting \cup semaphore.granted \subseteq AppTasks
  /\ \A u \in semaphore.waiting :
       task_state[u] = "BLOCKED" /\ u \notin semaphore.granted
  /\ \A u \in semaphore.granted : task_state[u] # "BLOCKED"
  /\ semaphore.waiting # {} => semaphore.count = 0
=============================================================================
