----------------------------- MODULE TaskLayer -----------------------------
(***************************************************************************)
(* What the scheduler of MELK OS promises to the code that runs in tasks.  *)
(*                                                                         *)
(* A task sees three things of the kernel core: the state field of every   *)
(* task control block, which task owns the CPU, and whether a PendSV is    *)
(* pending.  SysTick, the scan of os_schedule_next and the saved contexts  *)
(* are hidden: SysTick appears as "some sleeping tasks wake up" and as     *)
(* "somebody asked for a switch", PendSV as one atomic choice of the next  *)
(* task.  Module Scheduler models all of that in detail and is checked to  *)
(* implement this specification; Mutex, Semaphore and MessageQueue are     *)
(* built on it.                                                            *)
(***************************************************************************)
EXTENDS Integers

CONSTANT NumTasks   \* g_task_count once kernel_main has created the tasks

ASSUME NumTasksAssumption == NumTasks \in Nat \ {0}

Tasks    == 0 .. NumTasks - 1
IdleTask == 0                       \* TASK_IDLE_TASK_ID
AppTasks == Tasks \ {IdleTask}
NoTask   == -1                      \* OS_MUTEX_INVALID_OWNER_ID and the like

TaskStates == {"UNUSED", "READY", "RUNNING", "BLOCKED", "SLEEPING"}

VARIABLES
  task_state,   \* g_task_table[t].state
  current,      \* g_current_task_id, the task whose context is on the CPU
  pendsv,       \* is a PendSV pending?
  primask       \* PRIMASK: has the current task masked interrupts itself?

layerVars == <<task_state, current, pendsv, primask>>

(***************************************************************************)
(* Distance from task t to task c in the order in which the round-robin    *)
(* loops of the kernel visit the tasks: t + 1, t + 2, ..., t itself last.  *)
(***************************************************************************)
CyclicOffset(t, c) ==
  IF c > t THEN c - t ELSE c + NumTasks - t

(***************************************************************************)
(* The search of the services for the task to wake: among the waiting      *)
(* tasks, the BLOCKED one visited first.  Waiting bits of tasks that are   *)
(* not BLOCKED are stale; those the search passes are cleared.             *)
(***************************************************************************)
BlockedAmong(waiting) ==
  {u \in waiting : u # IdleTask /\ task_state[u] = "BLOCKED"}

FirstBlocked(from, waiting) ==
  IF BlockedAmong(waiting) = {} THEN NoTask
  ELSE CHOOSE u \in BlockedAmong(waiting) :
         \A v \in BlockedAmong(waiting) :
           CyclicOffset(from, u) <= CyclicOffset(from, v)

WithoutStale(from, waiting) ==
  LET found == FirstBlocked(from, waiting)
  IN  {u \in waiting : \/ u = IdleTask
                      \/ /\ found # NoTask
                         /\ CyclicOffset(from, u) >= CyclicOffset(from, found)}

(***************************************************************************)
(* The instruction stream of task t may advance: t owns the CPU and no     *)
(* exception can preempt it.  A pending PendSV is taken at once unless     *)
(* PRIMASK holds it back.                                                  *)
(***************************************************************************)
Executing(t) ==
  /\ current = t
  /\ pendsv => primask

(***************************************************************************)
(* Task operations, each one part of a critical section of a service.      *)
(***************************************************************************)
CanBlock(t) == t # IdleTask /\ task_state[t] = "RUNNING"

task_block(t) ==
  /\ CanBlock(t)
  /\ task_state' = [task_state EXCEPT ![t] = "BLOCKED"]

task_unblock(t) ==
  /\ t # IdleTask
  /\ task_state[t] = "BLOCKED"
  /\ task_state' = [task_state EXCEPT ![t] = "READY"]

(* A request for a switch, lost and as it is.                              *)
os_trigger_context_switch_lost == UNCHANGED pendsv

os_trigger_context_switch == pendsv' = TRUE

(***************************************************************************)
(* os_sleep on the task's side: it becomes SLEEPING and asks for a switch  *)
(* in one critical section.  Callers do not sleep with interrupts masked.  *)
(***************************************************************************)
os_sleep(t) ==
  /\ Executing(t) /\ ~primask
  /\ CanBlock(t)
  /\ task_state' = [task_state EXCEPT ![t] = "SLEEPING"]
  /\ os_trigger_context_switch
  /\ UNCHANGED <<current, primask>>

(* os_yield, and SysTick at the end of a time slice.                       *)
RequestSwitch ==
  /\ os_trigger_context_switch
  /\ UNCHANGED <<task_state, current, primask>>

(* Sections in which a task keeps interrupts masked on its own account.    *)
os_irq_save(t) ==
  /\ Executing(t) /\ ~primask
  /\ primask' = TRUE
  /\ UNCHANGED <<task_state, current, pendsv>>

os_irq_restore(t) ==
  /\ Executing(t) /\ primask
  /\ primask' = FALSE
  /\ UNCHANGED <<task_state, current, pendsv>>

(***************************************************************************)
(* SysTick wakes the sleeping tasks of S; it may ask for a switch as well. *)
(***************************************************************************)
Wake(S) ==
  /\ ~primask
  /\ S # {} /\ \A t \in S : task_state[t] = "SLEEPING"
  /\ task_state' = [t \in Tasks |-> IF t \in S THEN "READY" ELSE task_state[t]]
  /\ pendsv' \in {pendsv, TRUE}
  /\ UNCHANGED <<current, primask>>

(***************************************************************************)
(* PendSV hands the CPU to u.  The outgoing task goes back to READY only   *)
(* if it was RUNNING: BLOCKED and SLEEPING are never overwritten.  An      *)
(* application task must be READY to be chosen; idle may be chosen at any  *)
(* time, because a task may wake up behind the back of the scan.  SysTick  *)
(* may pend the next PendSV while this one is still running.               *)
(***************************************************************************)
Requeued ==
  [task_state EXCEPT ![current] = IF @ = "RUNNING" THEN "READY" ELSE @]

Dispatch(u) ==
  /\ pendsv /\ ~primask
  /\ u = IdleTask \/ Requeued[u] = "READY"
  /\ task_state' = [Requeued EXCEPT ![u] = "RUNNING"]
  /\ current' = u
  /\ pendsv' \in BOOLEAN
  /\ UNCHANGED primask

-----------------------------------------------------------------------------
(* SVC_Handler has just started the first task that os_schedule_next chose *)
FirstTask == IF NumTasks = 1 THEN IdleTask ELSE 1

LayerInit ==
  /\ task_state = [t \in Tasks |-> IF t = FirstTask THEN "RUNNING" ELSE "READY"]
  /\ current = FirstTask
  /\ pendsv = FALSE
  /\ primask = FALSE

(* A service blocks its caller, or makes a blocked task READY again.       *)
Block(t) ==
  /\ Executing(t) /\ ~primask
  /\ task_block(t)
  /\ os_trigger_context_switch
  /\ UNCHANGED <<current, primask>>

Unblock(t, u) ==
  /\ Executing(t)
  /\ task_unblock(u)
  /\ UNCHANGED <<current, pendsv, primask>>

(* Steps of the kernel core that may happen whatever the tasks do.         *)
CoreNext ==
  \/ RequestSwitch
  \/ \E S \in SUBSET AppTasks : Wake(S)
  \/ \E u \in Tasks : Dispatch(u)

LayerNext ==
  \/ CoreNext
  \/ \E t \in AppTasks :
       \/ os_sleep(t)
       \/ os_irq_save(t)
       \/ os_irq_restore(t)
       \/ Block(t)
       \/ \E u \in AppTasks : Unblock(t, u)

LayerSpec == LayerInit /\ [][LayerNext]_layerVars

(***************************************************************************)
(* Type invariant.                                                         *)
(***************************************************************************)
LayerTypeOK ==
  /\ task_state \in [Tasks -> TaskStates]
  /\ current \in Tasks
  /\ pendsv \in BOOLEAN
  /\ primask \in BOOLEAN

(***************************************************************************)
(* A task that executes instructions is RUNNING and nobody else is: a task *)
(* that blocked or went to sleep does not execute past the PendSV it asked *)
(* for (os_mutex_lock, os_semaphore_wait and os_sleep rely on it).         *)
(***************************************************************************)
OneRunning ==
  /\ \A t \in Tasks : task_state[t] = "RUNNING" => t = current
  /\ (pendsv => primask) => task_state[current] = "RUNNING"

(* The inductive invariant of the layer; idle can always be dispatched.    *)
LayerInv ==
  /\ LayerTypeOK
  /\ OneRunning
  /\ task_state[IdleTask] \in {"READY", "RUNNING"}
=============================================================================
