----------------------------- MODULE Scheduler -----------------------------
(***************************************************************************)
(* The kernel core of MELK OS in detail: the task table (task.c), the      *)
(* round-robin scheduler (task_scheduler.c), the tick (systick.c) and the  *)
(* context switch (context_switch.c, context_switch_asm.asm), from the     *)
(* boot sequence of kernel_main to tasks that yield, sleep, block and wake *)
(* each other.                                                             *)
(*                                                                         *)
(* One CPU executes three kinds of code.  Thread mode runs a task.  PendSV *)
(* switches tasks; it has the lowest priority, so SysTick preempts it      *)
(* between any two of its accesses to the task table, and here it is a     *)
(* sequence of steps.  SysTick and SVC have the highest priority in use    *)
(* and are one atomic step each.  A section with PRIMASK set is not        *)
(* preempted at all: each critical section of a service is one step.       *)
(***************************************************************************)
EXTENDS Integers

CONSTANTS
  NumTasks,       \* tasks that kernel_main creates, idle included
  SLICE,          \* SCHEDULER_TIME_SLICE_TICKS (10)
  TickModulus,    \* g_os_ticks wraps here (2^32)
  MaxSleep,       \* bound: the longest os_sleep
  RuntimeToggle,  \* may tasks enable and disable preemption?
  MaskedSleep     \* may tasks call os_sleep while they mask interrupts?

ASSUME NumTasksAssumption == NumTasks \in Nat \ {0}
ASSUME SliceAssumption == SLICE \in Nat \ {0}
ASSUME TickAssumption ==
  /\ TickModulus \in Nat \ {0} /\ TickModulus % 2 = 0
  /\ MaxSleep \in Nat \ {0} /\ MaxSleep < TickModulus
ASSUME SwitchAssumption == {RuntimeToggle, MaskedSleep} \subseteq BOOLEAN

Tasks    == 0 .. NumTasks - 1
IdleTask == 0
AppTasks == Tasks \ {IdleTask}
NoTask   == -1                       \* SCHEDULER_INVALID_TASK_ID, PSP = 0
NoTick   == -1
Ticks    == 0 .. TickModulus - 1

TaskStates == {"UNUSED", "READY", "RUNNING", "BLOCKED", "SLEEPING"}

(* What the CPU does.  kernel_main runs the boot steps one after the       *)
(* other; os_schedule_next is called by os_scheduler_start and by PendSV.  *)
BootSteps   == {"task_system_init", "task_create", "os_scheduler_init",
                "os_context_switch_init", "os_scheduler_start",
                "enable_preemption", "SVC"}
ScheduleSteps == {"demote", "scan", "commit"}
CpuSteps    == BootSteps \cup ScheduleSteps \cup {"thread", "restore", "fault"}

VARIABLES
  task_state,               \* g_task_table[t].state
  wakeup_tick,              \* g_task_table[t].wakeup_tick
  saved_context,            \* does g_task_table[t].stack_pointer point to a
                            \* frame with the registers t left the CPU with?
  g_task_count,
  g_current_task_id,
  g_scheduler_state,        \* "STOPPED", "INITIALIZED" or "RUNNING"
  g_preemption_enabled,
  g_scheduler_tick_count,
  g_os_ticks,
  g_context_switch_started,
  pendsv,                   \* is PendSV pending?
  primask,                  \* PRIMASK
  psp,                      \* the task whose stack PSP points into
  cpu,                      \* the step the CPU is at
  offset,                   \* local of os_schedule_next
  next_task,                \* local of os_schedule_next: the task selected
  sleep_until               \* local wakeup_tick of t's call of os_sleep

table == <<task_state, wakeup_tick, saved_context, g_task_count>>
sched == <<g_current_task_id, g_scheduler_state, g_preemption_enabled,
           g_scheduler_tick_count>>
scanv == <<offset, next_task>>
vars  == <<table, sched, g_os_ticks, g_context_switch_started, pendsv,
           primask, psp, cpu, scanv, sleep_until>>

-----------------------------------------------------------------------------
(* Helpers                                                                 *)

(* A comparison that the wrap of the counter fools.                        *)
task_has_wakeup_tick_expired_unsafe(current_tick, wakeup) == current_tick >= wakeup

(* The wrap-safe comparison of two tick counts.                            *)
task_has_wakeup_tick_expired(current_tick, wakeup) ==
  (current_tick - wakeup) % TickModulus < TickModulus \div 2

(* A loop over the task table that ends at the first task that is awake,   *)
(* instead of going on with the next.                                      *)
Expired_until_awake(tick) ==
  {t \in Tasks : /\ t < g_task_count
                 /\ \A u \in 0 .. t : task_state[u] = "SLEEPING"
                 /\ task_has_wakeup_tick_expired(tick, wakeup_tick[t])}

Expired(tick) ==
  {t \in Tasks : /\ t < g_task_count
                 /\ task_state[t] = "SLEEPING"
                 /\ task_has_wakeup_tick_expired(tick, wakeup_tick[t])}

os_get_current_task_state ==
  IF g_current_task_id = NoTask THEN "UNUSED" ELSE task_state[g_current_task_id]

(* The request gets lost.                                                  *)
os_trigger_context_switch_lost == UNCHANGED pendsv

os_trigger_context_switch == pendsv' = TRUE

(* Task t executes its own instructions: nothing preempts it.              *)
Executing(t) ==
  /\ cpu = "thread" /\ psp = t
  /\ pendsv => primask

(* ... and it is not in the middle of os_sleep.                            *)
Calling(t) == Executing(t) /\ sleep_until[t] = NoTick

(* What the CPU does after os_schedule_next has returned.                  *)
AfterSchedule ==
  IF g_context_switch_started THEN "restore" ELSE "enable_preemption"

-----------------------------------------------------------------------------
(* kernel_main, up to the first task                                       *)

Init ==
  /\ task_state = [t \in Tasks |-> "UNUSED"]
  /\ wakeup_tick = [t \in Tasks |-> 0]
  /\ saved_context = [t \in Tasks |-> FALSE]
  /\ g_task_count = 0
  /\ g_current_task_id = NoTask
  /\ g_scheduler_state = "STOPPED"
  /\ g_preemption_enabled = FALSE
  /\ g_scheduler_tick_count = 0
  /\ g_os_ticks = 0
  /\ g_context_switch_started = FALSE
  /\ pendsv = FALSE /\ primask = FALSE
  /\ psp = NoTask
  /\ cpu = "task_system_init"
  /\ offset = 1 /\ next_task = NoTask
  /\ sleep_until = [t \in Tasks |-> NoTick]

(* A control block that is counted without being made READY.               *)
AddTask_not_ready(t) ==
  /\ UNCHANGED <<task_state, wakeup_tick>>
  /\ saved_context' = [saved_context EXCEPT ![t] = TRUE]
  /\ g_task_count' = t + 1

(* task_create fills the next free control block and only then counts it.  *)
AddTask(t) ==
  /\ task_state' = [task_state EXCEPT ![t] = "READY"]
  /\ wakeup_tick' = [wakeup_tick EXCEPT ![t] = 0]
  /\ saved_context' = [saved_context EXCEPT ![t] = TRUE]
  /\ g_task_count' = t + 1

task_system_init ==
  /\ cpu = "task_system_init"
  /\ AddTask(IdleTask)
  /\ cpu' = IF NumTasks = 1 THEN "os_scheduler_init" ELSE "task_create"
  /\ UNCHANGED <<sched, g_os_ticks, g_context_switch_started, pendsv, primask,
                 psp, scanv, sleep_until>>

task_create ==
  /\ cpu = "task_create"
  /\ AddTask(g_task_count)
  /\ cpu' = IF g_task_count + 1 = NumTasks THEN "os_scheduler_init" ELSE cpu
  /\ UNCHANGED <<sched, g_os_ticks, g_context_switch_started, pendsv, primask,
                 psp, scanv, sleep_until>>

os_scheduler_init ==
  /\ cpu = "os_scheduler_init"
  /\ g_current_task_id' = IdleTask
  /\ g_scheduler_state' = "INITIALIZED"
  /\ g_preemption_enabled' = FALSE
  /\ g_scheduler_tick_count' = 0
  /\ cpu' = "os_context_switch_init"
  /\ UNCHANGED <<table, g_os_ticks, g_context_switch_started, pendsv, primask,
                 psp, scanv, sleep_until>>

os_context_switch_init ==
  /\ cpu = "os_context_switch_init"
  /\ g_context_switch_started' = FALSE
  /\ cpu' = "os_scheduler_start"
  /\ UNCHANGED <<table, sched, g_os_ticks, pendsv, primask, psp, scanv,
                 sleep_until>>

os_scheduler_start ==
  /\ cpu = "os_scheduler_start"
  /\ g_scheduler_state' = "RUNNING"
  /\ cpu' = "demote"
  /\ UNCHANGED <<table, g_current_task_id, g_preemption_enabled,
                 g_scheduler_tick_count, g_os_ticks, g_context_switch_started,
                 pendsv, primask, psp, scanv, sleep_until>>

SetPreemption(on) ==
  /\ g_preemption_enabled' = on
  /\ g_scheduler_tick_count' = 0
  /\ UNCHANGED <<g_current_task_id, g_scheduler_state>>

os_scheduler_enable_preemption ==
  /\ cpu = "enable_preemption"
  /\ SetPreemption(TRUE)
  /\ cpu' = "SVC"
  /\ UNCHANGED <<table, g_os_ticks, g_context_switch_started, pendsv, primask,
                 psp, scanv, sleep_until>>

(* The stack pointer of g_current_task_id becomes PSP: the task's saved    *)
(* registers are on the CPU now, and the copy grows stale.                 *)
LoadContext(t) ==
  /\ psp' = t
  /\ saved_context' = [saved_context EXCEPT ![t] = FALSE]
  /\ UNCHANGED <<task_state, wakeup_tick, g_task_count>>

SVC_Handler ==
  /\ cpu = "SVC"
  /\ LoadContext(g_current_task_id)
  /\ g_context_switch_started' = TRUE
  /\ cpu' = "thread"
  /\ UNCHANGED <<sched, g_os_ticks, pendsv, primask, scanv, sleep_until>>

-----------------------------------------------------------------------------
(* SysTick                                                                 *)

(* woken: the tasks whose wakeup tick has expired.  The first form forgets *)
(* to clear it.                                                            *)
task_wake_expired_sleeping_tasks_keep(woken) ==
  /\ task_state' = [t \in Tasks |-> IF t \in woken THEN "READY" ELSE task_state[t]]
  /\ UNCHANGED wakeup_tick

task_wake_expired_sleeping_tasks(woken) ==
  /\ task_state' = [t \in Tasks |-> IF t \in woken THEN "READY" ELSE task_state[t]]
  /\ wakeup_tick' = [t \in Tasks |-> IF t \in woken THEN 0 ELSE wakeup_tick[t]]

(* The comparison with the time slice.                                     *)
SliceExpires == g_scheduler_tick_count + 1 >= SLICE

(* os_scheduler_tick, once the expired sleepers are READY.                 *)
os_scheduler_tick(woken) ==
  IF ~g_context_switch_started
    THEN UNCHANGED <<pendsv, g_scheduler_tick_count>>
  ELSE IF woken # {} /\ g_current_task_id = IdleTask
    THEN g_scheduler_tick_count' = 0 /\ os_trigger_context_switch
  ELSE IF ~g_preemption_enabled
    THEN UNCHANGED <<pendsv, g_scheduler_tick_count>>
  ELSE /\ g_scheduler_tick_count' =
            IF SliceExpires THEN 0 ELSE g_scheduler_tick_count + 1
       /\ pendsv' = (pendsv \/ SliceExpires)

SysTick_Handler ==
  /\ ~primask
  /\ g_os_ticks' = (g_os_ticks + 1) % TickModulus
  /\ LET woken == IF g_scheduler_state = "RUNNING" THEN Expired(g_os_ticks') ELSE {}
     IN  /\ task_wake_expired_sleeping_tasks(woken)
         /\ os_scheduler_tick(woken)
  /\ UNCHANGED <<saved_context, g_task_count, g_current_task_id,
                 g_scheduler_state, g_preemption_enabled,
                 g_context_switch_started, primask, psp, cpu, scanv, sleep_until>>

-----------------------------------------------------------------------------
(* PendSV                                                                  *)

(* PendSV saves R4-R11 and hands PSP to the control block of               *)
(* g_current_task_id.  task_set_stack_pointer refuses a pointer into the   *)
(* stack of another task, and the error is ignored; the first form has     *)
(* every pointer refused.                                                  *)
SaveContext_refused == UNCHANGED saved_context

SaveContext ==
  saved_context' = [t \in Tasks |->
    IF t = g_current_task_id /\ t = psp THEN TRUE ELSE saved_context[t]]

PendSV_Handler ==
  /\ cpu = "thread" /\ pendsv /\ ~primask
  /\ pendsv' = FALSE
  /\ SaveContext
  /\ cpu' = "demote"
  /\ UNCHANGED <<task_state, wakeup_tick, g_task_count, sched, g_os_ticks,
                 g_context_switch_started, primask, psp, scanv, sleep_until>>

(* os_schedule_next: a RUNNING current task becomes READY again; BLOCKED   *)
(* and SLEEPING are left alone (the first form does not ask).              *)
Requeued_always == [task_state EXCEPT ![g_current_task_id] = "READY"]

Requeued ==
  IF os_get_current_task_state = "RUNNING"
    THEN [task_state EXCEPT ![g_current_task_id] = "READY"]
    ELSE task_state

DemoteCurrent ==
  /\ cpu = "demote"
  /\ task_state' = Requeued
  /\ offset' = 1
  /\ cpu' = "scan"
  /\ UNCHANGED <<wakeup_tick, saved_context, g_task_count, sched, g_os_ticks,
                 g_context_switch_started, pendsv, primask, psp, next_task,
                 sleep_until>>

(* A scan that always begins at the head of the table, and the real one.   *)
candidate_id_from_head == offset % g_task_count

candidate_id == (g_current_task_id + offset) % g_task_count

CandidateReady ==
  /\ candidate_id # IdleTask
  /\ task_state[candidate_id] = "READY"

(* scheduler_set_current_task, first half: the state of the task ...       *)
Select(t) ==
  /\ task_state' = [task_state EXCEPT ![t] = "RUNNING"]
  /\ next_task' = t
  /\ cpu' = "commit"
  /\ UNCHANGED <<wakeup_tick, saved_context, g_task_count, sched, g_os_ticks,
                 g_context_switch_started, pendsv, primask, psp, offset,
                 sleep_until>>

ScanSkip ==
  /\ cpu = "scan" /\ offset <= g_task_count
  /\ ~CandidateReady
  /\ offset' = offset + 1
  /\ UNCHANGED <<table, sched, g_os_ticks, g_context_switch_started, pendsv,
                 primask, psp, cpu, next_task, sleep_until>>

ScanSelect ==
  /\ cpu = "scan" /\ offset <= g_task_count
  /\ CandidateReady
  /\ Select(candidate_id)

(* No application task was READY when the loop passed it.  Without an idle *)
(* task there would be nothing to run, and the handler would spin.         *)
SelectIdle ==
  /\ cpu = "scan" /\ offset > g_task_count
  /\ IF task_state[IdleTask] # "UNUSED"
       THEN Select(IdleTask)
       ELSE /\ cpu' = "fault"
            /\ g_current_task_id' = NoTask
            /\ UNCHANGED <<table, g_scheduler_state, g_preemption_enabled,
                           g_scheduler_tick_count, g_os_ticks,
                           g_context_switch_started, pendsv, primask, psp,
                           scanv, sleep_until>>

(* ... second half: g_current_task_id.                                     *)
CommitCurrent ==
  /\ cpu = "commit"
  /\ g_current_task_id' = next_task
  /\ cpu' = AfterSchedule
  /\ offset' = 1 /\ next_task' = NoTask
  /\ UNCHANGED <<table, g_scheduler_state, g_preemption_enabled,
                 g_scheduler_tick_count, g_os_ticks, g_context_switch_started,
                 pendsv, primask, psp, sleep_until>>

(* PendSV loads the context of the task selected and returns to it.        *)
RestoreContext ==
  /\ cpu = "restore"
  /\ LoadContext(g_current_task_id)
  /\ cpu' = "thread"
  /\ UNCHANGED <<sched, g_os_ticks, g_context_switch_started, pendsv, primask,
                 scanv, sleep_until>>

-----------------------------------------------------------------------------
(* Calls of tasks                                                          *)

os_yield(t) ==
  /\ Calling(t)
  /\ IF g_scheduler_state = "RUNNING" /\ g_context_switch_started
       THEN os_trigger_context_switch
       ELSE UNCHANGED pendsv
  /\ UNCHANGED <<table, sched, g_os_ticks, g_context_switch_started, primask,
                 psp, cpu, scanv, sleep_until>>

(* os_sleep reads the tick before it masks interrupts, so SysTick, and a   *)
(* whole switch to other tasks and back, may come in between.              *)
os_sleep_read_tick(t, milliseconds) ==
  /\ Calling(t)
  /\ primask => MaskedSleep
  /\ sleep_until' = [sleep_until EXCEPT ![t] =
                       (g_os_ticks + milliseconds) % TickModulus]
  /\ UNCHANGED <<table, sched, g_os_ticks, g_context_switch_started, pendsv,
                 primask, psp, cpu, scanv>>

task_sleep_until(t, wakeup) ==
  /\ task_state[t] \in {"RUNNING", "READY"}
  /\ wakeup_tick' = [wakeup_tick EXCEPT ![t] = wakeup]
  /\ task_state' = [task_state EXCEPT ![t] = "SLEEPING"]

os_sleep_commit(t) ==
  /\ Executing(t) /\ sleep_until[t] # NoTick
  /\ \/ /\ task_sleep_until(t, sleep_until[t])
        /\ g_scheduler_tick_count' = 0
        /\ os_trigger_context_switch
     \/ /\ task_state[t] \notin {"RUNNING", "READY"}
        /\ UNCHANGED <<task_state, wakeup_tick, g_scheduler_tick_count, pendsv>>
  /\ sleep_until' = [sleep_until EXCEPT ![t] = NoTick]
  /\ UNCHANGED <<saved_context, g_task_count, g_current_task_id,
                 g_scheduler_state, g_preemption_enabled, g_os_ticks,
                 g_context_switch_started, primask, psp, cpu, scanv>>

(* A section of the task's own with interrupts masked.                     *)
os_irq_save(t) ==
  /\ Calling(t) /\ ~primask
  /\ primask' = TRUE
  /\ UNCHANGED <<table, sched, g_os_ticks, g_context_switch_started, pendsv,
                 psp, cpu, scanv, sleep_until>>

os_irq_restore(t) ==
  /\ Calling(t) /\ primask
  /\ primask' = FALSE
  /\ UNCHANGED <<table, sched, g_os_ticks, g_context_switch_started, pendsv,
                 psp, cpu, scanv, sleep_until>>

(* A service blocks its caller for a resource: os_mutex_lock and           *)
(* os_semaphore_wait, which refuse to do so with interrupts masked.        *)
task_block(t) ==
  /\ Calling(t) /\ ~primask
  /\ task_state[t] = "RUNNING"
  /\ wakeup_tick' = [wakeup_tick EXCEPT ![t] = 0]
  /\ task_state' = [task_state EXCEPT ![t] = "BLOCKED"]
  /\ os_trigger_context_switch
  /\ UNCHANGED <<saved_context, g_task_count, sched, g_os_ticks,
                 g_context_switch_started, primask, psp, cpu, scanv, sleep_until>>

(* os_mutex_unlock and os_semaphore_post make a blocked task READY; they   *)
(* do not ask for a switch.                                                *)
task_unblock(t, u) ==
  /\ Calling(t)
  /\ task_state[u] = "BLOCKED"
  /\ wakeup_tick' = [wakeup_tick EXCEPT ![u] = 0]
  /\ task_state' = [task_state EXCEPT ![u] = "READY"]
  /\ UNCHANGED <<saved_context, g_task_count, sched, g_os_ticks,
                 g_context_switch_started, pendsv, primask, psp, cpu, scanv,
                 sleep_until>>

TogglePreemption(t) ==
  /\ RuntimeToggle /\ Calling(t)
  /\ \E on \in BOOLEAN : SetPreemption(on)
  /\ UNCHANGED <<table, g_os_ticks, g_context_switch_started, pendsv, primask,
                 psp, cpu, scanv, sleep_until>>

-----------------------------------------------------------------------------
Boot == \/ task_system_init \/ task_create \/ os_scheduler_init
        \/ os_context_switch_init \/ os_scheduler_start
        \/ os_scheduler_enable_preemption \/ SVC_Handler

os_schedule_next == \/ DemoteCurrent \/ ScanSkip \/ ScanSelect \/ SelectIdle
                    \/ CommitCurrent

Switch == PendSV_Handler \/ os_schedule_next \/ RestoreContext

TaskStep(t) ==
  \/ os_yield(t)
  \/ \E ms \in 1 .. MaxSleep : os_sleep_read_tick(t, ms)
  \/ os_sleep_commit(t)
  \/ os_irq_save(t)
  \/ os_irq_restore(t)
  \/ task_block(t)
  \/ \E u \in AppTasks : task_unblock(t, u)
  \/ TogglePreemption(t)

Next == Boot \/ SysTick_Handler \/ Switch \/ \E t \in AppTasks : TaskStep(t)

Spec == Init /\ [][Next]_vars

(* The clock ticks, code in handler mode and in kernel_main runs on, and a *)
(* masked section ends.  SysTick and PendSV requests are latched by the    *)
(* hardware while PRIMASK is set, hence strong fairness for the two.       *)
(* Nothing obliges a task to call the kernel.                              *)
Fairness ==
  /\ SF_vars(SysTick_Handler)
  /\ WF_vars(Boot)
  /\ SF_vars(Switch)
  /\ \A t \in AppTasks : WF_vars(os_sleep_commit(t)) /\ WF_vars(os_irq_restore(t))

-----------------------------------------------------------------------------
(* Type invariant.                                                         *)
TypeOK ==
  /\ task_state \in [Tasks -> TaskStates]
  /\ wakeup_tick \in [Tasks -> Ticks]
  /\ saved_context \in [Tasks -> BOOLEAN]
  /\ g_task_count \in 0 .. NumTasks
  /\ g_current_task_id \in Tasks \cup {NoTask}
  /\ g_scheduler_state \in {"STOPPED", "INITIALIZED", "RUNNING"}
  /\ g_preemption_enabled \in BOOLEAN
  /\ g_scheduler_tick_count \in 0 .. SLICE - 1
  /\ g_os_ticks \in Ticks
  /\ g_context_switch_started \in BOOLEAN
  /\ pendsv \in BOOLEAN /\ primask \in BOOLEAN
  /\ psp \in Tasks \cup {NoTask}
  /\ cpu \in CpuSteps
  /\ offset \in 1 .. NumTasks + 1
  /\ next_task \in Tasks \cup {NoTask}
  /\ sleep_until \in [Tasks -> Ticks \cup {NoTick}]

(***************************************************************************)
(* No task loses its registers: whenever a task is not on the CPU, the     *)
(* stack pointer in its control block points to the frame it left with,    *)
(* and PendSV and SVC only ever load such a frame.  SysTick may preempt    *)
(* PendSV and ask for the next switch while g_current_task_id and PSP name *)
(* different tasks.                                                        *)
(***************************************************************************)
ContextsSaved ==
  /\ \A t \in Tasks : t < g_task_count /\ t # psp => saved_context[t]
  /\ cpu \in {"SVC", "restore"} => /\ g_current_task_id \in Tasks
                                   /\ saved_context[g_current_task_id]
  /\ cpu = "thread" => psp = g_current_task_id

(***************************************************************************)
(* Only the task that owns the CPU executes, and it is RUNNING: a task     *)
(* that went to sleep or blocked executes nothing more, although SysTick   *)
(* may wake it before PendSV has taken it off the CPU.                     *)
(***************************************************************************)
ExecutingIsRunning ==
  /\ \A t \in Tasks : Executing(t) => task_state[t] = "RUNNING"
  /\ cpu = "thread" => \A t \in Tasks : task_state[t] = "RUNNING" => t = psp

(***************************************************************************)
(* BLOCKED and SLEEPING are independent: a wakeup tick is set only while   *)
(* the task sleeps, so SysTick never wakes a task that waits for a         *)
(* resource (task.c:329-332).                                              *)
(***************************************************************************)
WakeupTickOnlyWhileSleeping ==
  \A t \in Tasks : task_state[t] # "SLEEPING" => wakeup_tick[t] = 0

(* os_schedule_next always finds a task: the fault loop of PendSV and the  *)
(* error return of os_scheduler_start are never reached.                   *)
AlwaysATask == cpu # "fault" /\ task_state[IdleTask] \in
  (IF g_task_count = 0 THEN {"UNUSED"} ELSE {"READY", "RUNNING"})

(* Tasks leave preemption enabled from some time on.                       *)
PreemptionStaysOn ==
  <>[](g_preemption_enabled) /\ <>[][\A t \in AppTasks : ~TogglePreemption(t)]_vars

(***************************************************************************)
(* A task that is READY gets the CPU sooner or later, whatever the other   *)
(* tasks do, unless they go on switching preemption off, or on again,      *)
(* which restarts the time slice.                                          *)
(***************************************************************************)
ReadyTasksRun ==
  PreemptionStaysOn => \A t \in AppTasks : task_state[t] = "READY" ~> psp = t

(* A sleep ends: the task gets the CPU back.                               *)
SleepersWake ==
  PreemptionStaysOn =>
    \A t \in AppTasks :
      task_state[t] = "SLEEPING" ~> psp = t /\ task_state[t] = "RUNNING"

(***************************************************************************)
(* "If the CPU is running idle and a task wakes up, switch immediately"    *)
(* (task_scheduler.c:303): idle does not execute while an application task *)
(* is READY.                                                               *)
(***************************************************************************)
IdleSwitchesAtOnce ==
  Executing(IdleTask) => \A t \in AppTasks : task_state[t] # "READY"

(* "os_sleep() suspends the current task" (docs/kernel_services.md:27):    *)
(* the task that executes is RUNNING.                                      *)
SleepSuspends == \A t \in AppTasks : Executing(t) => task_state[t] # "SLEEPING"

-----------------------------------------------------------------------------
(* The inductive invariant behind ContextsSaved and ExecutingIsRunning     *)
(* (proved in SchedulerProofs).                                            *)

(* How far kernel_main has come.                                           *)
BootProgress ==
  /\ cpu = "task_system_init" => g_task_count = 0
  /\ cpu = "task_create" => g_task_count \in 1 .. NumTasks - 1
  /\ cpu \notin {"task_system_init", "task_create"} => g_task_count = NumTasks
  /\ cpu \notin {"task_system_init", "task_create", "os_scheduler_init"}
       => g_current_task_id \in Tasks
  /\ cpu \in BootSteps => ~g_context_switch_started
  /\ cpu \in {"thread", "restore"} => g_context_switch_started
  /\ IF g_context_switch_started THEN psp \in Tasks
     ELSE psp = NoTask /\ ~pendsv
  /\ primask => cpu = "thread"
  /\ cpu = "commit" => next_task \in Tasks
  /\ AlwaysATask

(* Where the registers of each task are.                                   *)
ContextPlaces ==
  /\ \A t \in Tasks : t < g_task_count /\ t # psp => saved_context[t]
  /\ g_context_switch_started /\ cpu # "thread" => saved_context[psp]
  /\ cpu = "thread" => psp = g_current_task_id

(* Which task is RUNNING, step by step.                                    *)
TaskOnCpu ==
  IF cpu = "commit" THEN {next_task}
  ELSE IF cpu \in {"enable_preemption", "SVC", "restore", "thread", "demote"}
    THEN {g_current_task_id}
  ELSE {}

RunningPlaces ==
  /\ \A t \in Tasks : task_state[t] = "RUNNING" => t \in TaskOnCpu
  /\ cpu \in {"commit", "enable_preemption", "SVC", "restore"}
       => \A t \in TaskOnCpu : task_state[t] = "RUNNING"
  /\ cpu = "thread" /\ (pendsv => primask) => task_state[psp] = "RUNNING"
  /\ primask => sleep_until[psp] = NoTick

(* ExecutingIsRunning needs the part about RUNNING, which holds only if no *)
(* task sleeps in a section it masks.                                      *)
SchedulerInv ==
  /\ TypeOK
  /\ BootProgress
  /\ ContextPlaces
  /\ ~MaskedSleep => RunningPlaces
=============================================================================
