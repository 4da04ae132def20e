------------------------ MODULE SchedulerRefinement ------------------------
(***************************************************************************)
(* Scheduler implements TaskLayer.                                         *)
(*                                                                         *)
(* TaskLayer switches tasks in one step; PendSV takes about ten, with      *)
(* SysTick in between.  The abstract switch happens when os_schedule_next  *)
(* marks the task it has found RUNNING.  Until then the outgoing task,     *)
(* which os_schedule_next has put back to READY at its start, still counts *)
(* as RUNNING; the history variable demoted remembers that it did so.      *)
(* Until SVC_Handler starts the first task, the layer does not move.       *)
(***************************************************************************)
EXTENDS Scheduler

VARIABLE demoted   \* os_schedule_next has put psp back to READY and scans

DemotedNext ==
  demoted' = \/ /\ cpu = "demote" /\ cpu' = "scan"
                /\ os_get_current_task_state = "RUNNING"
             \/ demoted /\ cpu' = "scan"

RefInit == Init /\ demoted = FALSE

RefSpec == RefInit /\ [][Next /\ DemotedNext]_<<vars, demoted>>

FirstTask == IF NumTasks = 1 THEN IdleTask ELSE 1

(* PendSV is active and has not chosen the next task yet.                  *)
Choosing == g_context_switch_started /\ cpu \in {"demote", "scan"}

layer_task_state ==
  IF ~g_context_switch_started
    THEN [t \in Tasks |-> IF t = FirstTask THEN "RUNNING" ELSE "READY"]
  ELSE IF demoted
    THEN [task_state EXCEPT ![psp] = "RUNNING"]
  ELSE task_state

layer_current ==
  IF ~g_context_switch_started THEN FirstTask
  ELSE IF cpu = "commit" THEN next_task
  ELSE IF cpu = "restore" THEN g_current_task_id
  ELSE psp

Layer == INSTANCE TaskLayer WITH
  task_state <- layer_task_state,
  current    <- layer_current,
  pendsv     <- pendsv \/ Choosing

(***************************************************************************)
(* Every step of the kernel core, seen through the mapping, is a step of   *)
(* the task layer or leaves it alone: a wakeup or a switch request that    *)
(* arrives in the middle of a switch is never lost, and a task that is     *)
(* dispatched was READY when it was chosen.                                *)
(***************************************************************************)
ImplementsTaskLayer == Layer!LayerSpec

-----------------------------------------------------------------------------
(* The inductive invariant behind ImplementsTaskLayer                      *)
(* (SchedulerProofs).                                            *)

(* The first os_schedule_next finds every task READY, starts behind idle   *)
(* and so chooses the first application task, if there is one.             *)
FirstChosen == cpu \in {"commit", "enable_preemption", "SVC"}

FirstStates ==
  [t \in Tasks |->
    IF t >= g_task_count THEN "UNUSED"
    ELSE IF FirstChosen /\ t = FirstTask THEN "RUNNING"
    ELSE "READY"]

FirstChoice ==
  /\ task_state = FirstStates
  /\ cpu \in {"os_context_switch_init", "os_scheduler_start", "demote", "scan"}
       => g_current_task_id = IdleTask
  /\ cpu \in {"enable_preemption", "SVC"} => g_current_task_id = FirstTask
  /\ cpu = "scan" => offset = 1 \/ (NumTasks = 1 /\ offset = 2)
  /\ cpu = "commit" => next_task = FirstTask

(* PendSV leaves g_current_task_id alone until it has chosen, so that the  *)
(* task it put back to READY is the one whose stack PSP still points into. *)
Demoted ==
  /\ demoted \in BOOLEAN
  /\ g_context_switch_started /\ cpu \in {"demote", "scan"}
       => g_current_task_id = psp
  /\ demoted => /\ g_context_switch_started
                /\ cpu = "scan"
                /\ task_state[psp] = "READY"

RefInv ==
  /\ SchedulerInv
  /\ ~g_context_switch_started => FirstChoice
  /\ Demoted
=============================================================================
