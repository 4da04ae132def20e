-------------------------- MODULE SchedulerProofs --------------------------
(***************************************************************************)
(* Proofs about Scheduler, SchedulerRefinement and SchedulerTiming, for    *)
(* any number of tasks, any time slice and any width of the tick counter:  *)
(* SchedulerInv is an inductive invariant, the kernel core implements      *)
(* TaskLayer, the round robin is fair step by step, and os_sleep returns   *)
(* neither early nor late.                                                 *)
(***************************************************************************)
EXTENDS SchedulerTiming, TLAPS

(* A remainder is smaller than the modulus.                                *)
LEMMA ModRange ==
  ASSUME NEW a \in Int, NEW n \in Nat \ {0}
  PROVE  a % n \in 0 .. n - 1
OBVIOUS

(* All tasks have a control block when the scan runs, and the candidate is *)
(* one of them.                                                            *)
LEMMA CandidateIsTask ==
  ASSUME TypeOK, BootProgress, cpu \in ScheduleSteps
  PROVE  /\ g_task_count = NumTasks
         /\ candidate_id \in Tasks
<1>1. g_task_count = NumTasks /\ g_current_task_id \in Tasks
  BY DEF BootProgress, ScheduleSteps
<1>2. g_current_task_id + offset \in Int
  BY <1>1, NumTasksAssumption DEF TypeOK, Tasks
<1>3. candidate_id \in 0 .. NumTasks - 1
  BY <1>1, <1>2, ModRange, NumTasksAssumption DEF candidate_id
<1> QED
  BY <1>1, <1>3 DEF Tasks

LEMMA TickZero == TickModulus \in Nat \ {0} /\ 0 \in Ticks
BY TickAssumption DEF Ticks

LEMMA SliceZero == SLICE \in Nat /\ 0 \in 0 .. SLICE - 1
BY SliceAssumption

LEMMA CountRange ==
  /\ NumTasks \in Nat
  /\ 0 \in 0 .. NumTasks
  /\ 1 \in 1 .. NumTasks + 1
BY NumTasksAssumption

LEMMA IdleIsTask == IdleTask \in Tasks
BY NumTasksAssumption DEF IdleTask, Tasks

LEMMA AddTaskTypes ==
  ASSUME TypeOK, NEW t \in Tasks, AddTask(t)
  PROVE  /\ task_state' \in [Tasks -> TaskStates]
         /\ wakeup_tick' \in [Tasks -> Ticks]
         /\ saved_context' \in [Tasks -> BOOLEAN]
         /\ g_task_count' \in 0 .. NumTasks
<1>1. t + 1 \in 0 .. NumTasks
  BY NumTasksAssumption DEF Tasks
<1> QED
  BY <1>1, TickZero DEF AddTask, TypeOK, TaskStates

(* Initially the invariant holds.                                          *)
LEMMA InitInv == Init => SchedulerInv
<1> SUFFICES ASSUME Init PROVE SchedulerInv
  OBVIOUS
<1> USE CountRange, SliceZero, TickZero DEF Init
<1>1. TypeOK
  BY DEF TypeOK, TaskStates, CpuSteps, BootSteps
<1>2. BootProgress
  BY IdleIsTask DEF BootProgress, BootSteps, AlwaysATask
<1>3. ContextPlaces
  BY DEF ContextPlaces, Tasks
<1>4. RunningPlaces
  BY DEF RunningPlaces, TaskOnCpu
<1> QED
  BY <1>1, <1>2, <1>3, <1>4 DEF SchedulerInv

(* Every step preserves the types.                                         *)
LEMMA TypeStep ==
  ASSUME TypeOK, BootProgress, [Next]_vars
  PROVE  TypeOK'
<1> USE CountRange, SliceZero, TickZero, IdleIsTask
<1> USE DEF TypeOK, table, sched, scanv, os_trigger_context_switch
<1>1. CASE task_system_init
  BY <1>1, AddTaskTypes DEF task_system_init, CpuSteps, BootSteps
<1>2. CASE task_create
  <2>1. g_task_count \in Tasks
    BY <1>2, NumTasksAssumption DEF task_create, BootProgress, Tasks
  <2> QED
    BY <1>2, <2>1, AddTaskTypes DEF task_create, CpuSteps, BootSteps
<1>3. CASE os_scheduler_init
  BY <1>3 DEF os_scheduler_init, CpuSteps, BootSteps
<1>4. CASE os_context_switch_init
  BY <1>4 DEF os_context_switch_init, CpuSteps, BootSteps
<1>5. CASE os_scheduler_start
  BY <1>5 DEF os_scheduler_start, CpuSteps, ScheduleSteps
<1>6. CASE os_scheduler_enable_preemption
  BY <1>6 DEF os_scheduler_enable_preemption, SetPreemption, CpuSteps, BootSteps
<1>7. CASE SVC_Handler
  BY <1>7 DEF SVC_Handler, LoadContext, CpuSteps
<1>8. CASE SysTick_Handler
  <2> DEFINE woken == IF g_scheduler_state = "RUNNING"
                        THEN Expired(g_os_ticks') ELSE {}
  <2>1. /\ task_state' = [t \in Tasks |-> IF t \in woken THEN "READY" ELSE task_state[t]]
        /\ wakeup_tick' = [t \in Tasks |-> IF t \in woken THEN 0 ELSE wakeup_tick[t]]
        /\ os_scheduler_tick(woken)
    BY <1>8 DEF SysTick_Handler, task_wake_expired_sleeping_tasks
  <2> HIDE DEF woken
  <2>2. g_os_ticks' \in Ticks
    BY <1>8, ModRange DEF SysTick_Handler, Ticks
  <2>3. task_state' \in [Tasks -> TaskStates] /\ wakeup_tick' \in [Tasks -> Ticks]
    BY <2>1 DEF TaskStates
  <2>4. g_scheduler_tick_count' \in 0 .. SLICE - 1
    <3>1. ~SliceExpires => g_scheduler_tick_count + 1 \in 0 .. SLICE - 1
      BY DEF SliceExpires
    <3> QED
      BY <2>1, <3>1 DEF os_scheduler_tick
  <2>5. pendsv' \in BOOLEAN
    BY <2>1 DEF os_scheduler_tick
  <2> QED
    BY <1>8, <2>2, <2>3, <2>4, <2>5 DEF SysTick_Handler
<1>9. CASE PendSV_Handler
  BY <1>9 DEF PendSV_Handler, SaveContext, CpuSteps, ScheduleSteps
<1>10. CASE DemoteCurrent
  BY <1>10 DEF DemoteCurrent, Requeued, CpuSteps, ScheduleSteps, TaskStates
<1>11. CASE ScanSkip
  BY <1>11 DEF ScanSkip
<1>12. CASE ScanSelect
  BY <1>12, CandidateIsTask
     DEF ScanSelect, Select, CpuSteps, ScheduleSteps, TaskStates
<1>13. CASE SelectIdle
  BY <1>13 DEF SelectIdle, Select, CpuSteps, ScheduleSteps, TaskStates
<1>14. CASE CommitCurrent
  BY <1>14 DEF CommitCurrent, AfterSchedule, CpuSteps, BootSteps
<1>15. CASE RestoreContext
  BY <1>15 DEF RestoreContext, LoadContext, CpuSteps
<1>16. ASSUME NEW t \in AppTasks, TaskStep(t)
       PROVE  TypeOK'
  <2>1. CASE os_yield(t)
    BY <2>1 DEF os_yield
  <2>2. ASSUME NEW ms \in 1 .. MaxSleep, os_sleep_read_tick(t, ms)
        PROVE  TypeOK'
    <3>1. (g_os_ticks + ms) % TickModulus \in Ticks
      BY ModRange, TickAssumption DEF Ticks
    <3> QED
      BY <2>2, <3>1 DEF os_sleep_read_tick
  <2>3. CASE os_sleep_commit(t)
    <3>1. t \in Tasks /\ sleep_until[t] \in Ticks
      BY <2>3 DEF os_sleep_commit, AppTasks
    <3>2. task_state' \in [Tasks -> TaskStates] /\ wakeup_tick' \in [Tasks -> Ticks]
      BY <2>3, <3>1 DEF os_sleep_commit, task_sleep_until, TaskStates
    <3>3. g_scheduler_tick_count' \in 0 .. SLICE - 1 /\ pendsv' \in BOOLEAN
      BY <2>3 DEF os_sleep_commit
    <3>4. sleep_until' \in [Tasks -> Ticks \cup {NoTick}]
      BY <2>3 DEF os_sleep_commit
    <3> QED
      BY <2>3, <3>2, <3>3, <3>4 DEF os_sleep_commit
  <2>4. CASE os_irq_save(t)
    BY <2>4 DEF os_irq_save
  <2>5. CASE os_irq_restore(t)
    BY <2>5 DEF os_irq_restore
  <2>6. CASE task_block(t)
    BY <2>6 DEF task_block, TaskStates
  <2>7. ASSUME NEW u \in AppTasks, task_unblock(t, u)
        PROVE  TypeOK'
    BY <2>7 DEF task_unblock, TaskStates
  <2>8. CASE TogglePreemption(t)
    BY <2>8 DEF TogglePreemption, SetPreemption
  <2> QED
    BY <1>16, <2>1, <2>2, <2>3, <2>4, <2>5, <2>6, <2>7, <2>8 DEF TaskStep
<1>17. CASE UNCHANGED vars
  BY <1>17 DEF vars
<1> QED
  BY <1>1, <1>2, <1>3, <1>4, <1>5, <1>6, <1>7, <1>8, <1>9, <1>10, <1>11, <1>12,
     <1>13, <1>14, <1>15, <1>16, <1>17
     DEF Next, Boot, Switch, os_schedule_next

(* Every step preserves the part of the invariant about boot and handlers. *)
LEMMA BootStep ==
  ASSUME TypeOK, BootProgress, [Next]_vars
  PROVE  BootProgress'
<1> USE CountRange, IdleIsTask
<1> USE DEF BootProgress, AlwaysATask, BootSteps, TypeOK, table, sched, scanv,
            os_trigger_context_switch
<1>1. CASE task_system_init
  BY <1>1, NumTasksAssumption DEF task_system_init, AddTask, IdleTask
<1>2. CASE task_create
  BY <1>2 DEF task_create, AddTask, IdleTask
<1>3. CASE os_scheduler_init
  BY <1>3 DEF os_scheduler_init
<1>4. CASE os_context_switch_init
  BY <1>4 DEF os_context_switch_init
<1>5. CASE os_scheduler_start
  BY <1>5 DEF os_scheduler_start
<1>6. CASE os_scheduler_enable_preemption
  BY <1>6 DEF os_scheduler_enable_preemption, SetPreemption
<1>7. CASE SVC_Handler
  BY <1>7 DEF SVC_Handler, LoadContext
<1>8. CASE SysTick_Handler
  <2>1. ~g_context_switch_started => pendsv' = pendsv
    BY <1>8 DEF SysTick_Handler, os_scheduler_tick
  <2>2. task_state'[IdleTask] \in {"READY", task_state[IdleTask]}
    BY <1>8 DEF SysTick_Handler, task_wake_expired_sleeping_tasks
  <2>3. g_task_count = 0 => task_state'[IdleTask] = "UNUSED"
    BY <1>8 DEF SysTick_Handler, task_wake_expired_sleeping_tasks, Expired
  <2> QED
    BY <1>8, <2>1, <2>2, <2>3 DEF SysTick_Handler
<1>9. CASE PendSV_Handler
  BY <1>9 DEF PendSV_Handler, SaveContext
<1>10. CASE DemoteCurrent
  <2>1. task_state'[IdleTask] \in {"READY", task_state[IdleTask]}
    BY <1>10 DEF DemoteCurrent, Requeued
  <2>2. g_task_count # 0
    BY <1>10, NumTasksAssumption DEF DemoteCurrent, Requeued
  <2>3. AlwaysATask'
    BY <1>10, <2>1, <2>2 DEF DemoteCurrent, Requeued
  <2> QED
    BY <1>10, <2>3 DEF DemoteCurrent, Requeued
<1>11. CASE ScanSkip
  BY <1>11 DEF ScanSkip
<1>12. CASE ScanSelect
  BY <1>12, CandidateIsTask DEF ScanSelect, Select, ScheduleSteps
<1>13. CASE SelectIdle
  BY <1>13, NumTasksAssumption DEF SelectIdle, Select
<1>14. CASE CommitCurrent
  BY <1>14 DEF CommitCurrent, AfterSchedule
<1>15. CASE RestoreContext
  BY <1>15 DEF RestoreContext, LoadContext
<1>16. ASSUME NEW t \in AppTasks, TaskStep(t)
       PROVE  BootProgress'
  <2>1. /\ cpu = "thread" /\ cpu' = cpu
        /\ UNCHANGED <<g_task_count, g_current_task_id, g_context_switch_started, psp>>
    BY <1>16 DEF TaskStep, os_yield, os_sleep_read_tick, os_sleep_commit,
         os_irq_save, os_irq_restore, task_block, task_unblock,
         TogglePreemption, SetPreemption, Calling, Executing
  <2>2. task_state'[IdleTask] = task_state[IdleTask]
    BY <1>16 DEF TaskStep, os_yield, os_sleep_read_tick, os_sleep_commit,
         os_irq_save, os_irq_restore, task_block, task_unblock,
         TogglePreemption, task_sleep_until, AppTasks
  <2> QED
    BY <2>1, <2>2
<1>17. CASE UNCHANGED vars
  BY <1>17 DEF vars
<1> QED
  BY <1>1, <1>2, <1>3, <1>4, <1>5, <1>6, <1>7, <1>8, <1>9, <1>10, <1>11, <1>12,
     <1>13, <1>14, <1>15, <1>16, <1>17
     DEF Next, Boot, Switch, os_schedule_next

(* Every step preserves the part of the invariant about saved contexts.    *)
LEMMA ContextStep ==
  ASSUME TypeOK, BootProgress, ContextPlaces, [Next]_vars
  PROVE  ContextPlaces'
<1> USE CountRange, IdleIsTask
<1> USE DEF ContextPlaces, TypeOK, table, sched, scanv
<1>1. CASE task_system_init
  BY <1>1 DEF task_system_init, AddTask, BootProgress, BootSteps, Tasks, IdleTask
<1>2. CASE task_create
  BY <1>2 DEF task_create, AddTask, BootProgress, BootSteps, Tasks
<1>3. CASE os_scheduler_init
  BY <1>3 DEF os_scheduler_init
<1>4. CASE os_context_switch_init
  BY <1>4 DEF os_context_switch_init
<1>5. CASE os_scheduler_start
  BY <1>5 DEF os_scheduler_start, BootProgress, BootSteps
<1>6. CASE os_scheduler_enable_preemption
  BY <1>6 DEF os_scheduler_enable_preemption, SetPreemption
<1>7. CASE SVC_Handler
  BY <1>7 DEF SVC_Handler, LoadContext, BootProgress, BootSteps, Tasks, NoTask
<1>8. CASE SysTick_Handler
  BY <1>8 DEF SysTick_Handler
<1>9. CASE PendSV_Handler
  BY <1>9 DEF PendSV_Handler, SaveContext, BootProgress
<1>10. CASE DemoteCurrent
  BY <1>10 DEF DemoteCurrent, Requeued
<1>11. CASE ScanSkip
  BY <1>11 DEF ScanSkip
<1>12. CASE ScanSelect
  BY <1>12 DEF ScanSelect, Select
<1>13. CASE SelectIdle
  BY <1>13 DEF SelectIdle, Select
<1>14. CASE CommitCurrent
  BY <1>14 DEF CommitCurrent, AfterSchedule
<1>15. CASE RestoreContext
  BY <1>15 DEF RestoreContext, LoadContext, BootProgress
<1>16. ASSUME NEW t \in AppTasks, TaskStep(t)
       PROVE  ContextPlaces'
  <2>1. UNCHANGED <<cpu, saved_context, g_task_count, g_current_task_id,
                    g_context_switch_started, psp>>
    BY <1>16 DEF TaskStep, os_yield, os_sleep_read_tick, os_sleep_commit,
         os_irq_save, os_irq_restore, task_block, task_unblock,
         TogglePreemption, SetPreemption
  <2> QED
    BY <2>1
<1>17. CASE UNCHANGED vars
  BY <1>17 DEF vars
<1> QED
  BY <1>1, <1>2, <1>3, <1>4, <1>5, <1>6, <1>7, <1>8, <1>9, <1>10, <1>11, <1>12,
     <1>13, <1>14, <1>15, <1>16, <1>17
     DEF Next, Boot, Switch, os_schedule_next

(* Every step preserves the part of the invariant about RUNNING, provided  *)
(* that no task calls os_sleep in a section it masks.                      *)
LEMMA RunningStep ==
  ASSUME TypeOK, BootProgress, ContextPlaces, RunningPlaces, ~MaskedSleep,
         [Next]_vars
  PROVE  RunningPlaces'
<1> USE IdleIsTask
<1> USE DEF RunningPlaces, TaskOnCpu, TypeOK, table, sched, scanv,
            os_trigger_context_switch
<1>1. CASE task_system_init
  BY <1>1 DEF task_system_init, AddTask, BootProgress
<1>2. CASE task_create
  BY <1>2 DEF task_create, AddTask, BootProgress
<1>3. CASE os_scheduler_init
  BY <1>3 DEF os_scheduler_init, BootProgress
<1>4. CASE os_context_switch_init
  BY <1>4 DEF os_context_switch_init
<1>5. CASE os_scheduler_start
  BY <1>5 DEF os_scheduler_start
<1>6. CASE os_scheduler_enable_preemption
  BY <1>6 DEF os_scheduler_enable_preemption, SetPreemption
<1>7. CASE SVC_Handler
  BY <1>7 DEF SVC_Handler, LoadContext, BootProgress, BootSteps
<1>8. CASE SysTick_Handler
  <2>1. \A t \in Tasks : task_state[t] = "RUNNING" <=> task_state'[t] = "RUNNING"
    BY <1>8 DEF SysTick_Handler, task_wake_expired_sleeping_tasks, Expired
  <2>2. /\ UNCHANGED <<cpu, primask, psp, sleep_until, g_current_task_id, next_task>>
        /\ ~primask
    BY <1>8 DEF SysTick_Handler
  <2>3. pendsv' = pendsv \/ pendsv' = TRUE
    BY <1>8 DEF SysTick_Handler, os_scheduler_tick
  <2>4. cpu = "thread" => psp \in Tasks
    BY DEF BootProgress
  <2>5. \A t \in TaskOnCpu : cpu # "demote" => t \in Tasks
    BY DEF BootProgress
  <2> QED
    BY <2>1, <2>2, <2>3, <2>4, <2>5
<1>9. CASE PendSV_Handler
  BY <1>9 DEF PendSV_Handler, SaveContext, ContextPlaces
<1>10. CASE DemoteCurrent
  <2>1. \A t \in Tasks : task_state'[t] # "RUNNING"
    BY <1>10 DEF DemoteCurrent, Requeued, os_get_current_task_state, BootProgress, NoTask, Tasks
  <2> QED
    BY <1>10, <2>1 DEF DemoteCurrent, Requeued, BootProgress
<1>11. CASE ScanSkip
  BY <1>11 DEF ScanSkip
<1>12. CASE ScanSelect
  BY <1>12, CandidateIsTask DEF ScanSelect, Select, ScheduleSteps, BootProgress
<1>13. CASE SelectIdle
  BY <1>13 DEF SelectIdle, Select, BootProgress
<1>14. CASE CommitCurrent
  BY <1>14 DEF CommitCurrent, AfterSchedule, BootProgress
<1>15. CASE RestoreContext
  BY <1>15 DEF RestoreContext, LoadContext, BootProgress
<1>16. ASSUME NEW t \in AppTasks, TaskStep(t)
       PROVE  RunningPlaces'
  <2>1. t \in Tasks
    BY DEF AppTasks
  <2>2. CASE os_yield(t)
    BY <2>1, <2>2 DEF os_yield, Calling, Executing
  <2>3. ASSUME NEW ms \in 1 .. MaxSleep, os_sleep_read_tick(t, ms)
        PROVE  RunningPlaces'
    BY <2>1, <2>3 DEF os_sleep_read_tick, Calling, Executing
  <2>4. CASE os_sleep_commit(t)
    BY <2>1, <2>4 DEF os_sleep_commit, task_sleep_until, Executing
  <2>5. CASE os_irq_save(t)
    BY <2>1, <2>5 DEF os_irq_save, Calling, Executing
  <2>6. CASE os_irq_restore(t)
    BY <2>1, <2>6 DEF os_irq_restore, Calling, Executing
  <2>7. CASE task_block(t)
    BY <2>1, <2>7 DEF task_block, Calling, Executing
  <2>8. ASSUME NEW u \in AppTasks, task_unblock(t, u)
        PROVE  RunningPlaces'
    BY <2>1, <2>8 DEF task_unblock, Calling, Executing, AppTasks
  <2>9. CASE TogglePreemption(t)
    BY <2>9 DEF TogglePreemption, SetPreemption
  <2> QED
    BY <1>16, <2>2, <2>3, <2>4, <2>5, <2>6, <2>7, <2>8, <2>9 DEF TaskStep
<1>17. CASE UNCHANGED vars
  BY <1>17 DEF vars
<1> QED
  BY <1>1, <1>2, <1>3, <1>4, <1>5, <1>6, <1>7, <1>8, <1>9, <1>10, <1>11, <1>12,
     <1>13, <1>14, <1>15, <1>16, <1>17
     DEF Next, Boot, Switch, os_schedule_next

(* Every step leaves wakeup ticks to the sleepers.                         *)
LEMMA WakeupStep ==
  ASSUME TypeOK, BootProgress, WakeupTickOnlyWhileSleeping, [Next]_vars
  PROVE  WakeupTickOnlyWhileSleeping'
<1> USE IdleIsTask
<1> USE DEF WakeupTickOnlyWhileSleeping, TypeOK, table, sched, scanv
<1>1. CASE task_system_init
  BY <1>1, TickZero DEF task_system_init, AddTask
<1>2. CASE task_create
  BY <1>2, TickZero DEF task_create, AddTask
<1>3. CASE UNCHANGED <<task_state, wakeup_tick>>
  BY <1>3
<1>4. CASE SysTick_Handler
  BY <1>4 DEF SysTick_Handler, task_wake_expired_sleeping_tasks
<1>5. CASE DemoteCurrent
  BY <1>5 DEF DemoteCurrent, Requeued, os_get_current_task_state
<1>6. CASE ScanSelect
  BY <1>6, CandidateIsTask DEF ScanSelect, Select, CandidateReady, ScheduleSteps
<1>7. CASE SelectIdle
  <2>1. task_state[IdleTask] # "SLEEPING"
    BY DEF BootProgress, AlwaysATask
  <2> QED
    BY <1>7, <2>1 DEF SelectIdle, Select
<1>8. ASSUME NEW t \in AppTasks, TaskStep(t)
      PROVE  WakeupTickOnlyWhileSleeping'
  <2>1. CASE os_sleep_commit(t)
    BY <2>1 DEF os_sleep_commit, task_sleep_until
  <2>2. CASE task_block(t)
    BY <2>2 DEF task_block
  <2>3. ASSUME NEW u \in AppTasks, task_unblock(t, u)
        PROVE  WakeupTickOnlyWhileSleeping'
    BY <2>3 DEF task_unblock
  <2>4. ASSUME NEW ms \in 1 .. MaxSleep, os_sleep_read_tick(t, ms)
        PROVE  WakeupTickOnlyWhileSleeping'
    BY <1>3, <2>4 DEF os_sleep_read_tick
  <2>5. CASE \/ os_yield(t) \/ os_irq_save(t) \/ os_irq_restore(t)
            \/ TogglePreemption(t)
    BY <1>3, <2>5 DEF os_yield, os_irq_save, os_irq_restore, TogglePreemption
  <2> QED
    BY <1>8, <2>1, <2>2, <2>3, <2>4, <2>5 DEF TaskStep
<1>9. CASE \/ os_scheduler_init \/ os_context_switch_init \/ os_scheduler_start
          \/ os_scheduler_enable_preemption \/ SVC_Handler
  BY <1>3, <1>9 DEF os_scheduler_init, os_context_switch_init, os_scheduler_start,
     os_scheduler_enable_preemption, SVC_Handler, LoadContext
<1>10. CASE \/ PendSV_Handler \/ ScanSkip \/ CommitCurrent \/ RestoreContext
  BY <1>3, <1>10 DEF PendSV_Handler, ScanSkip, CommitCurrent, RestoreContext,
     LoadContext
<1>11. CASE UNCHANGED vars
  BY <1>3, <1>11 DEF vars
<1> QED
  BY <1>1, <1>2, <1>4, <1>5, <1>6, <1>7, <1>8, <1>9, <1>10, <1>11
     DEF Next, Boot, Switch, os_schedule_next

-----------------------------------------------------------------------------
(* The inductive invariant holds throughout: for every number of tasks,    *)
(* time slice and tick width, whatever tasks do and wherever SysTick cuts  *)
(* into boot and PendSV.                                                   *)
THEOREM InvariantHolds == Spec => []SchedulerInv
<1>1. Init => SchedulerInv
  BY InitInv
<1>2. SchedulerInv /\ [Next]_vars => SchedulerInv'
  BY TypeStep, BootStep, ContextStep, RunningStep DEF SchedulerInv
<1> QED
  BY <1>1, <1>2, PTL DEF Spec

(* Every variable keeps its type, whatever the number of tasks.            *)
THEOREM TypesHold == Spec => []TypeOK
<1>1. SchedulerInv => TypeOK
  BY DEF SchedulerInv
<1> QED
  BY <1>1, InvariantHolds, PTL

(* No task ever loses its registers in a context switch.                   *)
THEOREM ContextsAreSaved == Spec => []ContextsSaved
<1>1. SchedulerInv => ContextsSaved
  <2> SUFFICES ASSUME SchedulerInv PROVE ContextsSaved
    OBVIOUS
  <2>1. TypeOK /\ BootProgress /\ ContextPlaces
    BY DEF SchedulerInv
  <2>2. ASSUME cpu \in {"SVC", "restore"}
        PROVE  g_current_task_id \in Tasks /\ saved_context[g_current_task_id]
    <3>1. g_current_task_id \in Tasks /\ g_task_count = NumTasks
      BY <2>1, <2>2 DEF BootProgress
    <3>2. g_current_task_id < g_task_count
      BY <3>1, NumTasksAssumption DEF Tasks
    <3>3. CASE cpu = "SVC"
      <4>1. g_current_task_id # psp
        BY <2>1, <3>1, <3>3 DEF BootProgress, BootSteps, NoTask, Tasks
      <4> QED
        BY <2>1, <3>1, <3>2, <4>1 DEF ContextPlaces
    <3>4. CASE cpu = "restore"
      BY <2>1, <3>1, <3>2, <3>4 DEF BootProgress, ContextPlaces
    <3> QED
      BY <2>2, <3>3, <3>4, <3>1
  <2> QED
    BY <2>1, <2>2 DEF ContextsSaved, ContextPlaces
<1> QED
  BY <1>1, InvariantHolds, PTL

(* The task that executes is RUNNING and it is the only one, as long as    *)
(* tasks do not call os_sleep in a section they mask.                      *)
THEOREM OnlyRunningTaskExecutes ==
  ASSUME ~MaskedSleep
  PROVE  Spec => []ExecutingIsRunning
<1>1. SchedulerInv => ExecutingIsRunning
  BY DEF SchedulerInv, ExecutingIsRunning, RunningPlaces, ContextPlaces,
         TaskOnCpu, Executing
<1> QED
  BY <1>1, InvariantHolds, PTL

(* os_schedule_next always has a task to return, and idle never blocks.    *)
THEOREM SomethingToRun == Spec => []AlwaysATask
<1>1. SchedulerInv => AlwaysATask
  BY DEF SchedulerInv, BootProgress
<1> QED
  BY <1>1, InvariantHolds, PTL

(* SysTick wakes only tasks that sleep: the wakeup tick of a task that     *)
(* waits for a resource, or is READY, is always zero.                      *)
THEOREM TicksWakeOnlySleepers == Spec => []WakeupTickOnlyWhileSleeping
<1>1. Init => WakeupTickOnlyWhileSleeping
  BY DEF Init, WakeupTickOnlyWhileSleeping
<1>2. SchedulerInv /\ WakeupTickOnlyWhileSleeping /\ [Next]_vars
        => WakeupTickOnlyWhileSleeping'
  BY WakeupStep DEF SchedulerInv
<1> QED
  BY <1>1, <1>2, InvariantHolds, PTL DEF Spec
-----------------------------------------------------------------------------
(* Scheduler implements TaskLayer, as long as no task calls os_sleep in a  *)
(* section it masks.                                                       *)

LEMMA FirstIsTask == FirstTask \in Tasks
BY NumTasksAssumption DEF FirstTask, IdleTask, Tasks

(* The scan behind idle reaches the first application task at once.        *)
LEMMA FirstCandidate ==
  ASSUME g_current_task_id = IdleTask, g_task_count = NumTasks, offset = 1
  PROVE  candidate_id = FirstTask
<1>1. CASE NumTasks = 1
  BY <1>1 DEF candidate_id, FirstTask, IdleTask
<1>2. CASE NumTasks > 1
  BY <1>2, NumTasksAssumption DEF candidate_id, FirstTask, IdleTask
<1> QED
  BY <1>1, <1>2, NumTasksAssumption

(* Until SVC_Handler has run, every step keeps to the first choice.        *)
LEMMA FirstChoiceStep ==
  ASSUME TypeOK, BootProgress, ~g_context_switch_started, FirstChoice, Next,
         ~g_context_switch_started'
  PROVE  FirstChoice'
<1> USE CountRange, IdleIsTask, FirstIsTask
<1> USE DEF FirstChoice, FirstChosen, table, sched, scanv
<1>1. CASE task_system_init
  BY <1>1, NumTasksAssumption
     DEF task_system_init, AddTask, BootProgress, FirstStates, Tasks, IdleTask
<1>2. CASE task_create
  <2>1. /\ task_state' = [task_state EXCEPT ![g_task_count] = "READY"]
        /\ g_task_count' = g_task_count + 1
        /\ cpu' \in {"task_create", "os_scheduler_init"}
    BY <1>2 DEF task_create, AddTask
  <2>2. g_task_count \in Nat /\ task_state = [t \in Tasks |-> IF t >= g_task_count THEN "UNUSED" ELSE "READY"]
    BY <1>2 DEF task_create, BootProgress, FirstStates
  <2>3. task_state' = [t \in Tasks |-> IF t >= g_task_count' THEN "UNUSED" ELSE "READY"]
    BY <2>1, <2>2, NumTasksAssumption DEF Tasks
  <2>4. ~FirstChosen'
    BY <2>1
  <2> QED
    BY <2>1, <2>3, <2>4 DEF FirstStates
<1>3. CASE os_scheduler_init
  BY <1>3 DEF os_scheduler_init, FirstStates
<1>4. CASE os_context_switch_init
  BY <1>4 DEF os_context_switch_init, FirstStates
<1>5. CASE os_scheduler_start
  BY <1>5 DEF os_scheduler_start, FirstStates
<1>6. CASE os_scheduler_enable_preemption
  BY <1>6 DEF os_scheduler_enable_preemption, SetPreemption, FirstStates
<1>7. CASE SVC_Handler
  BY <1>7 DEF SVC_Handler
<1>8. CASE SysTick_Handler
  <2>1. task_state' = task_state
    BY <1>8 DEF SysTick_Handler, task_wake_expired_sleeping_tasks, Expired,
         FirstStates, TypeOK
  <2> QED
    BY <1>8, <2>1 DEF SysTick_Handler, FirstStates
<1>9. CASE DemoteCurrent
  <2>1. task_state' = task_state
    BY <1>9 DEF DemoteCurrent, Requeued, os_get_current_task_state,
         FirstStates, IdleTask, NoTask
  <2> QED
    BY <1>9, <2>1 DEF DemoteCurrent, FirstStates
<1>10. CASE ScanSkip
  <2>1. g_task_count = NumTasks /\ g_current_task_id = IdleTask
    BY <1>10 DEF ScanSkip, BootProgress
  <2>2. offset = 1 => NumTasks = 1
    <3> SUFFICES ASSUME offset = 1, NumTasks # 1 PROVE FALSE
      OBVIOUS
    <3>1. candidate_id = FirstTask
      BY <2>1, FirstCandidate
    <3>2. FirstTask = 1 /\ FirstTask < g_task_count
      BY <2>1, NumTasksAssumption DEF FirstTask
    <3>3. task_state[FirstTask] = "READY"
      <4>1. task_state[FirstTask] = IF FirstTask >= g_task_count THEN "UNUSED"
                                    ELSE "READY"
        BY <1>10 DEF ScanSkip, FirstStates
      <4> QED
        BY <2>1, <3>2, <4>1, NumTasksAssumption
    <3> QED
      BY <1>10, <3>1, <3>2, <3>3 DEF ScanSkip, CandidateReady, IdleTask
  <2>3. offset = 1 /\ NumTasks = 1
    BY <1>10, <2>1, <2>2 DEF ScanSkip
  <2> QED
    BY <1>10, <2>3 DEF ScanSkip, FirstStates
<1>11. CASE ScanSelect
  <2>1. g_task_count = NumTasks /\ g_current_task_id = IdleTask
    BY <1>11 DEF ScanSelect, BootProgress
  <2>2. offset = 1
    BY <1>11, <2>1 DEF ScanSelect
  <2>3. candidate_id = FirstTask
    BY <2>1, <2>2, FirstCandidate
  <2>4. FirstTask < NumTasks
    BY NumTasksAssumption DEF FirstTask, IdleTask
  <2>5. task_state' = [task_state EXCEPT ![FirstTask] = "RUNNING"] /\ next_task' = FirstTask
    BY <1>11, <2>3 DEF ScanSelect, Select
  <2>6. task_state' = FirstStates'
    BY <1>11, <2>1, <2>4, <2>5 DEF ScanSelect, Select, FirstStates, Tasks
  <2> QED
    BY <1>11, <2>5, <2>6 DEF ScanSelect, Select
<1>12. CASE SelectIdle
  <2>1. g_task_count = NumTasks /\ cpu = "scan"
    BY <1>12 DEF SelectIdle, BootProgress
  <2>2. NumTasks = 1 /\ FirstTask = IdleTask
    BY <1>12, <2>1, NumTasksAssumption DEF SelectIdle, FirstTask
  <2>3. task_state = [t \in Tasks |-> "READY"] /\ Tasks = {IdleTask}
    BY <2>1, <2>2 DEF FirstStates, IdleTask, Tasks
  <2>4. task_state' = [task_state EXCEPT ![IdleTask] = "RUNNING"]
        /\ next_task' = IdleTask /\ cpu' = "commit" /\ g_task_count' = g_task_count
    BY <1>12, <2>3 DEF SelectIdle, Select
  <2>5. task_state' = FirstStates'
    <3>1. task_state' = [t \in Tasks |-> "RUNNING"]
      BY <2>3, <2>4
    <3>2. FirstStates' = [t \in Tasks |-> "RUNNING"]
      BY <2>1, <2>2, <2>3, <2>4 DEF FirstStates, IdleTask
    <3> QED
      BY <3>1, <3>2
  <2> QED
    BY <2>2, <2>4, <2>5
<1>13. CASE CommitCurrent
  BY <1>13 DEF CommitCurrent, AfterSchedule, FirstStates
<1>14. CASE PendSV_Handler \/ RestoreContext \/ \E t \in AppTasks : TaskStep(t)
  BY <1>14 DEF BootProgress, PendSV_Handler, RestoreContext, TaskStep, os_yield,
     os_sleep_read_tick, os_sleep_commit, os_irq_save, os_irq_restore,
     task_block, task_unblock, TogglePreemption, Calling, Executing
<1> QED
  BY <1>1, <1>2, <1>3, <1>4, <1>5, <1>6, <1>7, <1>8, <1>9, <1>10, <1>11, <1>12,
     <1>13, <1>14 DEF Next, Boot, Switch, os_schedule_next

(* Every step keeps the history variable true to the switch in progress.   *)
LEMMA DemotedStep ==
  ASSUME TypeOK, BootProgress, ContextPlaces, Demoted,
         ~g_context_switch_started => FirstChoice, Next, DemotedNext
  PROVE  Demoted'
<1> USE IdleIsTask
<1> USE DEF Demoted, DemotedNext, BootProgress, BootSteps, table, sched, scanv
<1>0. demoted' \in BOOLEAN /\ (cpu' # "scan" => ~demoted')
  OBVIOUS
<1>1. CASE cpu' \notin {"demote", "scan"}
  BY <1>0, <1>1
<1>2. CASE os_scheduler_start
  BY <1>0, <1>2 DEF os_scheduler_start
<1>3. CASE SysTick_Handler
  <2>1. task_state[psp] = "READY" /\ psp \in Tasks => task_state'[psp] = "READY"
    BY <1>3 DEF SysTick_Handler, task_wake_expired_sleeping_tasks
  <2> QED
    BY <1>0, <1>3, <2>1 DEF SysTick_Handler
<1>4. CASE PendSV_Handler
  BY <1>0, <1>4 DEF PendSV_Handler, SaveContext, ContextPlaces
<1>5. CASE DemoteCurrent
  <2>1. UNCHANGED <<g_context_switch_started, g_current_task_id, psp>> /\ cpu' = "scan"
    BY <1>5 DEF DemoteCurrent
  <2>2. ASSUME demoted' PROVE g_context_switch_started' /\ task_state'[psp] = "READY"
    <3>1. os_get_current_task_state = "RUNNING"
      BY <1>5, <2>2 DEF DemoteCurrent
    <3>2. task_state' = [task_state EXCEPT ![g_current_task_id] = "READY"]
      BY <1>5, <3>1 DEF DemoteCurrent, Requeued
    <3>3. g_context_switch_started
      <4>1. ~g_context_switch_started => task_state[IdleTask] # "RUNNING"
        BY <1>5 DEF DemoteCurrent, FirstChoice, FirstStates, FirstChosen
      <4> QED
        BY <1>5, <3>1, <4>1 DEF DemoteCurrent, FirstChoice,
           os_get_current_task_state, IdleTask, NoTask
    <3> QED
      BY <1>5, <2>1, <3>2, <3>3 DEF DemoteCurrent, TypeOK
  <2> QED
    BY <1>0, <1>5, <2>1, <2>2 DEF DemoteCurrent
<1>6. CASE ScanSkip
  BY <1>0, <1>6 DEF ScanSkip
<1>7. CASE \/ task_system_init \/ task_create \/ os_scheduler_init
          \/ os_context_switch_init \/ os_scheduler_enable_preemption
          \/ SVC_Handler \/ ScanSelect \/ SelectIdle \/ CommitCurrent
          \/ RestoreContext
  BY <1>1, <1>7 DEF task_system_init, task_create, os_scheduler_init,
     os_context_switch_init, os_scheduler_enable_preemption, SVC_Handler,
     ScanSelect, SelectIdle, Select, CommitCurrent, AfterSchedule, RestoreContext
<1>8. ASSUME NEW t \in AppTasks, TaskStep(t)
      PROVE  Demoted'
  BY <1>1, <1>8 DEF TaskStep, os_yield, os_sleep_read_tick, os_sleep_commit,
     os_irq_save, os_irq_restore, task_block, task_unblock, TogglePreemption,
     Calling, Executing
<1> QED
  BY <1>2, <1>3, <1>4, <1>5, <1>6, <1>7, <1>8
     DEF Next, Boot, Switch, os_schedule_next

(* The invariant is inductive.                                             *)
LEMMA RefInvInit == RefInit => RefInv
<1> SUFFICES ASSUME RefInit PROVE RefInv
  OBVIOUS
<1>1. SchedulerInv
  BY InitInv DEF RefInit
<1>2. FirstChoice
  BY DEF RefInit, Init, FirstChoice, FirstChosen, FirstStates, Tasks
<1>3. Demoted
  BY DEF RefInit, Init, Demoted
<1> QED
  BY <1>1, <1>2, <1>3 DEF RefInv

LEMMA RefInvStep == RefInv /\ [Next /\ DemotedNext]_<<vars, demoted>> => RefInv'
<1> SUFFICES ASSUME RefInv, [Next /\ DemotedNext]_<<vars, demoted>>
             PROVE  RefInv'
  OBVIOUS
<1>1. [Next]_vars /\ TypeOK /\ BootProgress /\ ContextPlaces
  BY DEF RefInv, SchedulerInv
<1>2. SchedulerInv'
  BY <1>1, TypeStep, BootStep, ContextStep, RunningStep DEF RefInv, SchedulerInv
<1>3. CASE Next /\ DemotedNext
  <2>1. ~g_context_switch_started' => ~g_context_switch_started
    BY <1>1, <1>3 DEF Next, Boot, Switch, os_schedule_next, task_system_init,
       task_create, os_scheduler_init, os_context_switch_init,
       os_scheduler_start, os_scheduler_enable_preemption, SVC_Handler,
       SysTick_Handler, PendSV_Handler, DemoteCurrent, ScanSkip, ScanSelect,
       SelectIdle, Select, CommitCurrent, RestoreContext, TaskStep, os_yield,
       os_sleep_read_tick, os_sleep_commit, os_irq_save, os_irq_restore,
       task_block, task_unblock, TogglePreemption, BootProgress, BootSteps
  <2>2. ~g_context_switch_started' => FirstChoice'
    BY <1>1, <1>3, <2>1, FirstChoiceStep DEF RefInv
  <2>3. Demoted'
    BY <1>1, <1>3, DemotedStep DEF RefInv
  <2> QED
    BY <1>2, <2>2, <2>3 DEF RefInv
<1>4. CASE UNCHANGED <<vars, demoted>>
  BY <1>2, <1>4 DEF RefInv, FirstChoice, FirstChosen, FirstStates, Demoted, vars,
     table, sched, scanv
<1> QED
  BY <1>3, <1>4

-----------------------------------------------------------------------------
(* Until SVC_Handler has run, the layer does not move.                     *)
LEMMA LayerBeforeStart ==
  ASSUME TypeOK, BootProgress, ~g_context_switch_started
  PROVE  /\ layer_task_state =
              [t \in Tasks |-> IF t = FirstTask THEN "RUNNING" ELSE "READY"]
         /\ layer_current = FirstTask
         /\ (pendsv \/ Choosing) = FALSE
         /\ primask = FALSE
BY DEF layer_task_state, layer_current, Choosing, BootProgress, BootSteps, TypeOK

LEMMA InitMaps == RefInit => Layer!LayerInit
<1> SUFFICES ASSUME RefInit PROVE Layer!LayerInit
  OBVIOUS
<1> QED
  BY DEF RefInit, Init, Layer!LayerInit, Layer!FirstTask, Layer!Tasks,
     Layer!IdleTask, FirstTask, Tasks, IdleTask, layer_task_state, layer_current,
     Choosing

(* Boot steps, and SVC_Handler, which starts the task first chosen.        *)
LEMMA BootMaps ==
  ASSUME RefInv, RefInv', Next, DemotedNext, ~g_context_switch_started
  PROVE  UNCHANGED Layer!layerVars
<1> USE DEF RefInv, SchedulerInv
<1>1. CASE ~g_context_switch_started'
  <2>1. layer_task_state' = layer_task_state /\ layer_current' = layer_current
    BY <1>1, LayerBeforeStart DEF layer_task_state, layer_current
  <2>2. (pendsv \/ Choosing)' = FALSE
    BY <1>1 DEF BootProgress, Choosing
  <2>3. primask' = FALSE
    BY <1>1 DEF BootProgress, BootSteps, TypeOK
  <2> QED
    BY <2>1, <2>2, <2>3, LayerBeforeStart DEF Layer!layerVars
<1>2. CASE g_context_switch_started'
  <2>1. SVC_Handler
    BY <1>2 DEF Next, Boot, Switch, os_schedule_next, task_system_init,
       task_create, os_scheduler_init, os_context_switch_init,
       os_scheduler_start, os_scheduler_enable_preemption, SVC_Handler,
       SysTick_Handler, PendSV_Handler, DemoteCurrent, ScanSkip, ScanSelect,
       SelectIdle, Select, CommitCurrent, RestoreContext, TaskStep, os_yield,
       os_sleep_read_tick, os_sleep_commit, os_irq_save, os_irq_restore,
       task_block, task_unblock, TogglePreemption, BootProgress, Calling,
       Executing, table, sched, scanv
  <2>2. /\ cpu = "SVC" /\ cpu' = "thread" /\ psp' = g_current_task_id
        /\ UNCHANGED <<task_state, pendsv, primask>>
    BY <2>1 DEF SVC_Handler, LoadContext
  <2>3. ~demoted'
    BY <2>2 DEF DemotedNext
  <2>4. g_current_task_id = FirstTask /\ g_task_count = NumTasks
    BY <2>2 DEF FirstChoice, BootProgress
  <2>5. task_state = [t \in Tasks |-> IF t = FirstTask THEN "RUNNING" ELSE "READY"]
    BY <2>2, <2>4, NumTasksAssumption DEF FirstChoice, FirstChosen, FirstStates, Tasks
  <2>6. layer_task_state' = layer_task_state
    BY <1>2, <2>2, <2>3, <2>5, LayerBeforeStart DEF layer_task_state
  <2>7. layer_current' = layer_current
    BY <1>2, <2>2, <2>4, LayerBeforeStart DEF layer_current
  <2>8. (pendsv \/ Choosing)' = FALSE /\ (pendsv \/ Choosing) = FALSE
    BY <2>2 DEF BootProgress, Choosing
  <2> QED
    BY <2>2, <2>6, <2>7, <2>8 DEF Layer!layerVars
<1> QED
  BY <1>1, <1>2

(* A tick wakes sleepers, asks for a switch, or both.                      *)
LEMMA TickMaps ==
  ASSUME RefInv, DemotedNext, g_context_switch_started, SysTick_Handler
  PROVE  [Layer!LayerNext]_(Layer!layerVars)
<1> DEFINE woken == IF g_scheduler_state = "RUNNING"
                      THEN Expired(g_os_ticks') ELSE {}
<1> USE DEF RefInv, SchedulerInv
<1>1. /\ task_state' = [t \in Tasks |-> IF t \in woken THEN "READY" ELSE task_state[t]]
      /\ os_scheduler_tick(woken)
      /\ UNCHANGED <<g_context_switch_started, primask, psp, cpu, next_task,
                     g_current_task_id>>
      /\ ~primask
  BY DEF SysTick_Handler, task_wake_expired_sleeping_tasks, scanv
<1>2. woken \in SUBSET AppTasks /\ \A t \in woken : task_state[t] = "SLEEPING"
  BY DEF Expired, AppTasks, BootProgress, AlwaysATask
<1> HIDE DEF woken
<1>3. pendsv' \in {pendsv, TRUE}
  BY <1>1 DEF os_scheduler_tick, os_trigger_context_switch, TypeOK
<1>4. demoted' = demoted
  BY <1>1 DEF DemotedNext, Demoted
<1>5. layer_current' = layer_current
  BY <1>1 DEF layer_current
<1>6. (pendsv \/ Choosing)' \in {pendsv \/ Choosing, TRUE}
  BY <1>1, <1>3 DEF Choosing, TypeOK
<1>7. \A t \in woken : layer_task_state[t] = "SLEEPING"
  BY <1>2 DEF layer_task_state, Demoted, TypeOK, BootProgress, AppTasks
<1>8. layer_task_state' = [t \in Tasks |-> IF t \in woken THEN "READY" ELSE layer_task_state[t]]
  BY <1>1, <1>2, <1>4 DEF layer_task_state, Demoted, TypeOK, BootProgress
<1>9. CASE woken = {}
  <2>1. layer_task_state' = layer_task_state
    BY <1>8, <1>9 DEF layer_task_state, TypeOK
  <2>2. CASE (pendsv \/ Choosing)' = TRUE
    BY <1>1, <1>5, <2>1, <2>2 DEF Layer!LayerNext, Layer!CoreNext,
       Layer!RequestSwitch, Layer!os_trigger_context_switch
  <2>3. CASE (pendsv \/ Choosing)' = (pendsv \/ Choosing)
    BY <1>1, <1>5, <2>1, <2>3 DEF Layer!layerVars
  <2> QED
    BY <1>6, <2>2, <2>3
<1>10. CASE woken # {}
  <2>1. Layer!Wake(woken)
    BY <1>1, <1>5, <1>6, <1>7, <1>8, <1>10 DEF Layer!Wake, Layer!Tasks, Tasks
  <2>2. woken \in SUBSET Layer!AppTasks
    BY <1>2 DEF Layer!AppTasks, Layer!Tasks, Layer!IdleTask, AppTasks, Tasks, IdleTask
  <2> QED
    BY <2>1, <2>2 DEF Layer!LayerNext, Layer!CoreNext
<1> QED
  BY <1>9, <1>10

(* PendSV up to its choice, and from there on, is invisible ...            *)
LEMMA HandlerMaps ==
  ASSUME RefInv, DemotedNext, g_context_switch_started,
         \/ PendSV_Handler \/ DemoteCurrent \/ ScanSkip \/ CommitCurrent
         \/ RestoreContext
  PROVE  UNCHANGED Layer!layerVars
<1> USE DEF RefInv, SchedulerInv, table, sched, scanv
<1>1. CASE PendSV_Handler
  <2>1. layer_task_state' = layer_task_state
    BY <1>1 DEF PendSV_Handler, layer_task_state, DemotedNext, Demoted
  <2>2. layer_current' = layer_current /\ primask' = primask
    BY <1>1 DEF PendSV_Handler, layer_current
  <2>3. (pendsv \/ Choosing)' = TRUE /\ (pendsv \/ Choosing) = TRUE
    BY <1>1 DEF PendSV_Handler, Choosing
  <2> QED
    BY <2>1, <2>2, <2>3 DEF Layer!layerVars
<1>2. CASE DemoteCurrent
  <2>1. /\ task_state' = Requeued /\ cpu = "demote" /\ cpu' = "scan" /\ ~demoted
        /\ UNCHANGED <<g_context_switch_started, g_current_task_id, pendsv,
                       primask, psp>>
    BY <1>2 DEF DemoteCurrent, Demoted
  <2>2. g_current_task_id = psp /\ psp \in Tasks
    BY <2>1 DEF Demoted, BootProgress
  <2>3. layer_task_state' = layer_task_state
    <3>1. CASE task_state[psp] = "RUNNING"
      <4>1. demoted' /\ task_state' = [task_state EXCEPT ![psp] = "READY"]
        BY <2>1, <2>2, <3>1
           DEF DemotedNext, os_get_current_task_state, Requeued, Tasks, NoTask
      <4> QED
        BY <2>1, <3>1, <4>1 DEF layer_task_state, TypeOK
    <3>2. CASE task_state[psp] # "RUNNING"
      <4>1. ~demoted' /\ task_state' = task_state
        BY <2>1, <2>2, <3>2
           DEF DemotedNext, os_get_current_task_state, Requeued, Tasks, NoTask
      <4> QED
        BY <2>1, <4>1 DEF layer_task_state
    <3> QED
      BY <3>1, <3>2
  <2>4. layer_current' = layer_current
    BY <2>1 DEF layer_current
  <2>5. (pendsv \/ Choosing)' = TRUE /\ (pendsv \/ Choosing) = TRUE
    BY <2>1 DEF Choosing
  <2> QED
    BY <2>1, <2>3, <2>4, <2>5 DEF Layer!layerVars
<1>3. CASE ScanSkip
  BY <1>3 DEF ScanSkip, layer_task_state, layer_current, Choosing, DemotedNext,
     Demoted, Layer!layerVars
<1>4. CASE CommitCurrent
  BY <1>4 DEF CommitCurrent, AfterSchedule, layer_task_state, layer_current,
     Choosing, DemotedNext, Demoted, Layer!layerVars
<1>5. CASE RestoreContext
  BY <1>5 DEF RestoreContext, LoadContext, layer_task_state, layer_current,
     Choosing, DemotedNext, Demoted, Layer!layerVars
<1> QED
  BY <1>1, <1>2, <1>3, <1>4, <1>5

(* ... and the choice is the switch.  No task is RUNNING in the table      *)
(* while os_schedule_next scans, so what it scans is the table of the      *)
(* layer with the outgoing task put back.                                  *)
LEMMA ChoiceMaps ==
  ASSUME RefInv, RunningPlaces, DemotedNext, g_context_switch_started,
         cpu = "scan", NEW t \in Tasks, Select(t),
         t = IdleTask \/ task_state[t] = "READY"
  PROVE  Layer!Dispatch(t)
<1> USE DEF RefInv, SchedulerInv, scanv
<1>1. /\ task_state' = [task_state EXCEPT ![t] = "RUNNING"]
      /\ next_task' = t /\ cpu' = "commit"
      /\ UNCHANGED <<g_context_switch_started, pendsv, primask>>
  BY DEF Select
<1>2. psp \in Tasks /\ ~primask
  BY DEF BootProgress, TypeOK
<1>3. \A u \in Tasks : task_state[u] # "RUNNING"
  BY DEF RunningPlaces, TaskOnCpu
<1>4. layer_current = psp /\ layer_current' = t
  BY <1>1 DEF layer_current
<1>5. layer_task_state' = [task_state EXCEPT ![t] = "RUNNING"]
  BY <1>1 DEF layer_task_state, DemotedNext
<1>6. Layer!Requeued = task_state
  BY <1>2, <1>3, <1>4 DEF Layer!Requeued, layer_task_state, Demoted, TypeOK
<1>7. (pendsv \/ Choosing) = TRUE /\ (pendsv \/ Choosing)' \in BOOLEAN
  BY <1>1 DEF Choosing
<1> QED
  BY <1>1, <1>2, <1>4, <1>5, <1>6, <1>7 DEF Layer!Dispatch, Layer!IdleTask, IdleTask

(* While a task executes, the layer shows the table as it is.              *)
LEMMA TaskMaps ==
  ASSUME RefInv, RunningPlaces, DemotedNext, g_context_switch_started,
         NEW t \in AppTasks, TaskStep(t)
  PROVE  [Layer!LayerNext]_(Layer!layerVars)
<1> USE DEF RefInv, SchedulerInv, table, sched, scanv
<1>1. /\ Executing(t)
      /\ UNCHANGED <<g_context_switch_started, cpu, psp, next_task, g_current_task_id>>
  BY DEF TaskStep, os_yield, os_sleep_read_tick, os_sleep_commit, os_irq_save,
     os_irq_restore, task_block, task_unblock, TogglePreemption, SetPreemption,
     Calling
<1>2. cpu = "thread" /\ psp = t /\ (pendsv => primask)
  BY <1>1 DEF Executing
<1>3. ~demoted /\ ~demoted' /\ ~Choosing /\ ~Choosing'
  BY <1>1, <1>2 DEF Demoted, DemotedNext, Choosing
<1>4. layer_task_state = task_state /\ layer_task_state' = task_state'
  BY <1>1, <1>3 DEF layer_task_state
<1>5. layer_current = t /\ layer_current' = t
  BY <1>1, <1>2 DEF layer_current
<1>6. (pendsv \/ Choosing) = pendsv /\ (pendsv \/ Choosing)' = pendsv'
  <2>1. pendsv \in BOOLEAN
    BY DEF TypeOK
  <2>2. pendsv' \in BOOLEAN
    BY <2>1 DEF TaskStep, os_yield, os_sleep_read_tick, os_sleep_commit,
       os_irq_save, os_irq_restore, task_block, task_unblock, TogglePreemption,
       os_trigger_context_switch
  <2> QED
    BY <1>3, <2>1, <2>2
<1>7. Layer!Executing(t)
  BY <1>2, <1>5, <1>6 DEF Layer!Executing
<1>8. t \in Layer!AppTasks /\ t # Layer!IdleTask /\ t \in Tasks
  BY DEF Layer!AppTasks, Layer!Tasks, Layer!IdleTask, AppTasks, Tasks, IdleTask
<1>9. task_state[t] = "RUNNING"
  BY <1>2 DEF RunningPlaces
<1>10. CASE UNCHANGED <<task_state, pendsv, primask>>
  BY <1>4, <1>5, <1>6, <1>10 DEF Layer!layerVars
<1>11. CASE os_yield(t)
  <2>1. UNCHANGED <<task_state, primask>> /\ (pendsv' = TRUE \/ pendsv' = pendsv)
    BY <1>11 DEF os_yield, os_trigger_context_switch
  <2>2. CASE pendsv' = TRUE
    BY <1>4, <1>5, <1>6, <2>1, <2>2 DEF Layer!RequestSwitch,
       Layer!os_trigger_context_switch, Layer!LayerNext, Layer!CoreNext
  <2> QED
    BY <1>10, <2>1, <2>2
<1>12. CASE os_sleep_commit(t)
  <2>1. /\ task_state' = [task_state EXCEPT ![t] = "SLEEPING"]
        /\ pendsv' = TRUE /\ primask' = primask
    BY <1>9, <1>12 DEF os_sleep_commit, task_sleep_until, os_trigger_context_switch
  <2>2. ~primask
    BY <1>2, <1>12 DEF os_sleep_commit, RunningPlaces
  <2>3. Layer!os_sleep(t)
    BY <1>4, <1>5, <1>6, <1>7, <1>8, <1>9, <2>1, <2>2 DEF Layer!os_sleep,
       Layer!CanBlock, Layer!os_trigger_context_switch
  <2> QED
    BY <1>8, <2>3 DEF Layer!LayerNext
<1>13. CASE os_irq_save(t)
  <2>1. ~primask /\ primask' = TRUE /\ UNCHANGED <<task_state, pendsv>>
    BY <1>13 DEF os_irq_save
  <2>2. Layer!os_irq_save(t)
    BY <1>4, <1>5, <1>6, <1>7, <2>1 DEF Layer!os_irq_save
  <2> QED
    BY <1>8, <2>2 DEF Layer!LayerNext
<1>14. CASE os_irq_restore(t)
  <2>1. primask /\ primask' = FALSE /\ UNCHANGED <<task_state, pendsv>>
    BY <1>14 DEF os_irq_restore
  <2>2. Layer!os_irq_restore(t)
    BY <1>4, <1>5, <1>6, <1>7, <2>1 DEF Layer!os_irq_restore
  <2> QED
    BY <1>8, <2>2 DEF Layer!LayerNext
<1>15. CASE task_block(t)
  <2>1. /\ ~primask /\ primask' = primask /\ pendsv' = TRUE
        /\ task_state' = [task_state EXCEPT ![t] = "BLOCKED"]
    BY <1>15 DEF task_block, os_trigger_context_switch
  <2>2. Layer!Block(t)
    BY <1>4, <1>5, <1>6, <1>7, <1>8, <1>9, <2>1 DEF Layer!Block,
       Layer!task_block, Layer!CanBlock, Layer!os_trigger_context_switch
  <2> QED
    BY <1>8, <2>2 DEF Layer!LayerNext
<1>16. ASSUME NEW u \in AppTasks, task_unblock(t, u)
       PROVE  [Layer!LayerNext]_(Layer!layerVars)
  <2>1. /\ UNCHANGED <<pendsv, primask>> /\ task_state[u] = "BLOCKED"
        /\ task_state' = [task_state EXCEPT ![u] = "READY"]
    BY <1>16 DEF task_unblock
  <2>2. u \in Layer!AppTasks /\ u # Layer!IdleTask
    BY DEF Layer!AppTasks, Layer!Tasks, Layer!IdleTask, AppTasks, Tasks, IdleTask
  <2>3. Layer!Unblock(t, u)
    BY <1>4, <1>5, <1>6, <1>7, <2>1, <2>2 DEF Layer!Unblock, Layer!task_unblock
  <2> QED
    BY <1>8, <2>2, <2>3 DEF Layer!LayerNext
<1>17. ASSUME NEW ms \in 1 .. MaxSleep, os_sleep_read_tick(t, ms)
       PROVE  [Layer!LayerNext]_(Layer!layerVars)
  BY <1>10, <1>17 DEF os_sleep_read_tick
<1>18. CASE TogglePreemption(t)
  BY <1>10, <1>18 DEF TogglePreemption
<1> QED
  BY <1>11, <1>12, <1>13, <1>14, <1>15, <1>16, <1>17, <1>18 DEF TaskStep

(* Every step of the kernel core is a step of the layer, or stutters.      *)
LEMMA StepMaps ==
  ASSUME RefInv, RefInv', ~MaskedSleep, Next, DemotedNext
  PROVE  [Layer!LayerNext]_(Layer!layerVars)
<1>1. CASE ~g_context_switch_started
  BY <1>1, BootMaps
<1>2. CASE g_context_switch_started
  <2>1. RunningPlaces /\ BootProgress /\ TypeOK
    BY DEF RefInv, SchedulerInv
  <2>2. CASE Boot
    BY <1>2, <2>1, <2>2 DEF Boot, task_system_init, task_create,
       os_scheduler_init, os_context_switch_init, os_scheduler_start,
       os_scheduler_enable_preemption, SVC_Handler, BootProgress, BootSteps
  <2>3. CASE SysTick_Handler
    BY <1>2, <2>3, TickMaps
  <2>4. CASE \/ PendSV_Handler \/ DemoteCurrent \/ ScanSkip \/ CommitCurrent
            \/ RestoreContext
    BY <1>2, <2>4, HandlerMaps
  <2>5. CASE ScanSelect \/ SelectIdle
    <3>1. cpu = "scan" /\ candidate_id \in Tasks /\ IdleTask \in Tasks
      BY <2>1, <2>5, CandidateIsTask, IdleIsTask
         DEF ScanSelect, SelectIdle, ScheduleSteps
    <3>2. \E t \in Tasks : Select(t) /\ (t = IdleTask \/ task_state[t] = "READY")
      <4>1. CASE ScanSelect
        BY <3>1, <4>1 DEF ScanSelect, CandidateReady
      <4>2. CASE SelectIdle
        <5>1. task_state[IdleTask] # "UNUSED"
          BY <2>1, <3>1, NumTasksAssumption DEF BootProgress, AlwaysATask
        <5> QED
          BY <3>1, <4>2, <5>1 DEF SelectIdle
      <4> QED
        BY <2>5, <4>1, <4>2
    <3>3. PICK t \in Tasks : Select(t) /\ (t = IdleTask \/ task_state[t] = "READY")
      BY <3>2
    <3>4. Layer!Dispatch(t)
      BY <1>2, <2>1, <3>1, <3>3, ChoiceMaps
    <3>5. t \in Layer!Tasks
      BY DEF Layer!Tasks, Tasks
    <3> QED
      BY <3>4, <3>5 DEF Layer!LayerNext, Layer!CoreNext
  <2>6. ASSUME NEW t \in AppTasks, TaskStep(t)
        PROVE  [Layer!LayerNext]_(Layer!layerVars)
    BY <1>2, <2>1, <2>6, TaskMaps
  <2> QED
    BY <2>2, <2>3, <2>4, <2>5, <2>6 DEF Next, Switch, os_schedule_next
<1> QED
  BY <1>1, <1>2

-----------------------------------------------------------------------------
(* The inductive invariant of the refinement.                              *)
THEOREM RefInvariantHolds == RefSpec => []RefInv
<1> QED
  BY RefInvInit, RefInvStep, PTL DEF RefSpec

(* The kernel core implements the task layer that mutex, semaphore and     *)
(* queue are built on: no wakeup and no request for a switch is lost, and  *)
(* a switch dispatches a task that is READY, or idle, for any number of    *)
(* tasks, as long as none calls os_sleep in a section it masks.            *)
THEOREM CoreImplementsLayer ==
  ASSUME ~MaskedSleep
  PROVE  RefSpec => ImplementsTaskLayer
<1>1. RefInv /\ RefInv' /\ [Next /\ DemotedNext]_<<vars, demoted>>
        => [Layer!LayerNext]_(Layer!layerVars)
  <2> SUFFICES ASSUME RefInv, RefInv', [Next /\ DemotedNext]_<<vars, demoted>>
               PROVE  [Layer!LayerNext]_(Layer!layerVars)
    OBVIOUS
  <2>1. CASE Next /\ DemotedNext
    BY <2>1, StepMaps
  <2>2. CASE UNCHANGED <<vars, demoted>>
    BY <2>2 DEF vars, table, sched, scanv, Layer!layerVars, layer_task_state,
       layer_current, Choosing
  <2> QED
    BY <2>1, <2>2
<1> QED
  BY <1>1, InitMaps, RefInvariantHolds, PTL
     DEF RefSpec, ImplementsTaskLayer, Layer!LayerSpec

-----------------------------------------------------------------------------
(* SchedulerTiming: fairness of the round robin, and the length of a sleep *)

LEMMA TimingImpliesCore == TimingSpec => []SchedulerInv
<1>1. TimingInit => SchedulerInv
  BY InitInv DEF TimingInit, RefInit
<1>2. SchedulerInv /\ [Next /\ DemotedNext /\ TimingNext]_timingVars => SchedulerInv'
  BY TypeStep, BootStep, ContextStep, RunningStep
     DEF SchedulerInv, timingVars
<1> QED
  BY <1>1, <1>2, PTL DEF TimingSpec

-----------------------------------------------------------------------------
(* The ring of tasks, and the scan that goes round it.                     *)

LEMMA BehindRange ==
  ASSUME NEW t \in Tasks, NEW u \in Tasks
  PROVE  Behind(t, u) \in 1 .. NumTasks
BY NumTasksAssumption DEF Behind, Tasks

(* The candidate of a scan stands behind the current task by the offset.   *)
LEMMA CandidateBehind ==
  ASSUME TypeOK, BootProgress, cpu = "scan", offset <= NumTasks
  PROVE  /\ candidate_id \in Tasks
         /\ Behind(g_current_task_id, candidate_id) = offset
<1> DEFINE c == g_current_task_id
<1>1. /\ g_task_count = NumTasks /\ candidate_id \in Tasks /\ c \in Tasks
      /\ offset \in 1 .. NumTasks
  BY CandidateIsTask, NumTasksAssumption
     DEF BootProgress, ScheduleSteps, TypeOK
<1>2. CASE c + offset < NumTasks
  <2>1. candidate_id = c + offset
    BY <1>1, <1>2, NumTasksAssumption DEF candidate_id, Tasks
  <2> QED
    BY <1>1, <2>1, NumTasksAssumption DEF Behind, Tasks
<1>3. CASE c + offset >= NumTasks
  <2>1. candidate_id = c + offset - NumTasks
    BY <1>1, <1>3, NumTasksAssumption DEF candidate_id, Tasks
  <2> QED
    BY <1>1, <2>1, NumTasksAssumption DEF Behind, Tasks
<1> QED
  BY <1>1, <1>2, <1>3, NumTasksAssumption DEF Tasks

(* If c is found before t, going round from where, c stands further behind *)
(* t than where.                                                           *)
LEMMA FoundBefore ==
  ASSUME NEW t \in Tasks, NEW where \in Tasks, NEW c \in Tasks,
         t # where, Behind(where, c) < Behind(where, t)
  PROVE  Behind(t, where) < Behind(t, c)
BY NumTasksAssumption DEF Behind, Tasks

(* Who stands equally far behind a task is the same task.                  *)
LEMMA BehindInjective ==
  ASSUME NEW t \in Tasks, NEW u \in Tasks, NEW w \in Tasks,
         Behind(t, u) = Behind(t, w)
  PROVE  u = w
BY NumTasksAssumption DEF Behind, Tasks

-----------------------------------------------------------------------------
(* Round robin                                                             *)

(* A step that neither dispatches nor moves the scan on: a task may become *)
(* READY, or stop being READY, and has nobody to remember then.            *)
LEMMA TurnsStay ==
  ASSUME TurnInv, TypeOK, TimingNext,
         task_state' \in [Tasks -> TaskStates],
         UNCHANGED <<g_current_task_id, offset, next_task>>,
         cpu # "commit" \/ cpu' = "commit",
         cpu' = "scan" => cpu = "scan",
         cpu' = "commit" => cpu = "commit" /\ task_state'[next_task] = "RUNNING",
         cpu' \in BeforeStart => cpu \in BeforeStart
  PROVE  TurnInv'
<1>1. overtaken' = [t \in Tasks |->
         IF task_state'[t] # "READY" THEN {} ELSE overtaken[t]]
  BY DEF TimingNext
<1>2. overtaken' \in [Tasks -> SUBSET Tasks]
  BY <1>1 DEF TurnInv
<1>3. cpu' \in BeforeStart => \A t \in Tasks : overtaken'[t] = {}
  BY <1>1 DEF TurnInv
<1>4. \A t \in Tasks : task_state'[t] # "READY" => overtaken'[t] = {}
  BY <1>1
<1>5. ASSUME NEW t \in AppTasks, overtaken'[t] # {}
      PROVE  /\ t # g_current_task_id'
             /\ \A u \in overtaken'[t] :
                  Behind(t, u) <= Behind(t, g_current_task_id')
             /\ cpu' = "scan" => offset' <= Behind(g_current_task_id', t)
             /\ cpu' = "commit" =>
                  Behind(t, g_current_task_id') < Behind(t, next_task')
  <2>1. t \in Tasks /\ overtaken'[t] = overtaken[t]
    BY <1>1, <1>5 DEF AppTasks
  <2> QED
    BY <2>1, <1>5 DEF TurnInv
<1> QED
  BY <1>2, <1>3, <1>4, <1>5 DEF TurnInv, Behind

(* The current task goes back to READY with nobody dispatched since, and   *)
(* the scan begins behind it.                                              *)
LEMMA TurnsDemote ==
  ASSUME TurnInv, TypeOK, BootProgress, TimingNext, DemoteCurrent
  PROVE  TurnInv'
<1> DEFINE c == g_current_task_id
<1>1. /\ cpu = "demote" /\ cpu' = "scan" /\ offset' = 1
      /\ UNCHANGED <<g_current_task_id, next_task>>
      /\ c \in Tasks
  BY DEF DemoteCurrent, sched, BootProgress
<1>2. /\ task_state' \in [Tasks -> TaskStates]
      /\ \A t \in Tasks : task_state'[t] = "READY" =>
           task_state[t] = "READY" \/ overtaken[t] = {}
  BY <1>1 DEF DemoteCurrent, Requeued, os_get_current_task_state, TypeOK,
       TurnInv, TaskStates
<1>3. overtaken' = [t \in Tasks |->
         IF task_state'[t] # "READY" THEN {} ELSE overtaken[t]]
  BY <1>1 DEF TimingNext
<1>4. overtaken' \in [Tasks -> SUBSET Tasks]
  BY <1>3 DEF TurnInv
<1>5. \A t \in Tasks : task_state'[t] # "READY" => overtaken'[t] = {}
  BY <1>3
<1>6. ASSUME NEW t \in AppTasks, overtaken'[t] # {}
      PROVE  /\ t # c
             /\ \A u \in overtaken'[t] : Behind(t, u) <= Behind(t, c)
             /\ 1 <= Behind(c, t)
  <2>1. t \in Tasks /\ overtaken'[t] = overtaken[t]
    BY <1>3, <1>6 DEF AppTasks
  <2>2. Behind(c, t) \in 1 .. NumTasks
    BY <2>1, <1>1, BehindRange
  <2> QED
    BY <2>1, <2>2, <1>6 DEF TurnInv
<1>7. cpu' \notin BeforeStart /\ cpu' # "commit"
  BY <1>1 DEF BeforeStart
<1> QED
  BY <1>1, <1>4, <1>5, <1>6, <1>7 DEF TurnInv, Behind

(* The task the scan passes was not READY, so it is not one of those the   *)
(* scan has yet to find.                                                   *)
LEMMA TurnsSkip ==
  ASSUME TurnInv, TypeOK, BootProgress, TimingNext, ScanSkip
  PROVE  TurnInv'
<1> DEFINE c == g_current_task_id
<1>1. /\ cpu = "scan" /\ cpu' = "scan" /\ offset' = offset + 1
      /\ UNCHANGED <<g_current_task_id, next_task, task_state>>
      /\ c \in Tasks /\ offset \in 1 .. NumTasks
  BY NumTasksAssumption DEF ScanSkip, sched, table, BootProgress, TypeOK
<1>2. candidate_id \in Tasks /\ Behind(c, candidate_id) = offset
  BY <1>1, CandidateBehind
<1>3. \A t \in Tasks : overtaken'[t] = overtaken[t]
  BY <1>1 DEF TimingNext, TurnInv
<1>4. overtaken' \in [Tasks -> SUBSET Tasks]
  BY <1>1 DEF TimingNext, TurnInv
<1>5. ASSUME NEW t \in AppTasks, overtaken'[t] # {}
      PROVE  /\ t # c
             /\ \A u \in overtaken'[t] : Behind(t, u) <= Behind(t, c)
             /\ offset + 1 <= Behind(c, t)
  <2>1. t \in Tasks /\ t # IdleTask /\ overtaken[t] # {}
    BY <1>3, <1>5 DEF AppTasks
  <2>2. t # candidate_id
    BY <2>1, <1>1, <1>2 DEF ScanSkip, CandidateReady, TurnInv
  <2>3. Behind(c, t) # offset
    BY <2>1, <2>2, <1>1, <1>2, BehindInjective
  <2>4. offset <= Behind(c, t) /\ Behind(c, t) \in 1 .. NumTasks
    BY <2>1, <1>1, <1>5, BehindRange DEF TurnInv
  <2>5. offset + 1 <= Behind(c, t)
    BY <2>3, <2>4, <1>1
  <2> QED
    BY <2>1, <2>5, <1>3, <1>5 DEF TurnInv
<1>6. cpu' \notin BeforeStart /\ cpu' # "commit"
  BY <1>1 DEF BeforeStart
<1>7. \A t \in Tasks : task_state'[t] # "READY" => overtaken'[t] = {}
  BY <1>1, <1>3 DEF TurnInv
<1> QED
  BY <1>1, <1>4, <1>5, <1>6, <1>7 DEF TurnInv, Behind

(* What the scan selects stands before everybody who still waits, and the  *)
(* scan gets round to idle only when nobody does.                          *)
LEMMA TurnsSelect ==
  ASSUME TurnInv, TypeOK, BootProgress, TimingNext, NEW x \in Tasks,
         cpu = "scan", Select(x),
         \A t \in AppTasks : overtaken[t] # {} /\ t # x =>
           Behind(t, g_current_task_id) < Behind(t, x)
  PROVE  TurnInv'
<1> DEFINE c == g_current_task_id
<1>1. /\ cpu' = "commit" /\ next_task' = x
      /\ UNCHANGED <<g_current_task_id, offset>>
      /\ task_state' = [task_state EXCEPT ![x] = "RUNNING"]
  BY DEF Select, sched
<1>2. overtaken' = [t \in Tasks |->
         IF task_state'[t] # "READY" THEN {} ELSE overtaken[t]]
  BY DEF TimingNext
<1>3. overtaken' \in [Tasks -> SUBSET Tasks]
  BY <1>2 DEF TurnInv
<1>4. task_state'[x] = "RUNNING"
  BY <1>1 DEF TypeOK
<1>5. \A t \in Tasks : task_state'[t] # "READY" => overtaken'[t] = {}
  BY <1>2
<1>6. ASSUME NEW t \in AppTasks, overtaken'[t] # {}
      PROVE  /\ t # c
             /\ \A u \in overtaken'[t] : Behind(t, u) <= Behind(t, c)
             /\ Behind(t, c) < Behind(t, x)
  <2>1. t \in Tasks /\ overtaken'[t] = overtaken[t] /\ t # x
    BY <1>2, <1>4, <1>6 DEF AppTasks
  <2> QED
    BY <2>1, <1>6 DEF TurnInv
<1>7. cpu' \notin BeforeStart /\ cpu' # "scan"
  BY <1>1 DEF BeforeStart
<1> QED
  BY <1>1, <1>3, <1>4, <1>5, <1>6, <1>7 DEF TurnInv, Behind

LEMMA TurnsChoose ==
  ASSUME TurnInv, TypeOK, BootProgress, TimingNext, ScanSelect \/ SelectIdle
  PROVE  TurnInv'
<1> DEFINE c == g_current_task_id
<1>1. cpu = "scan" /\ c \in Tasks /\ g_task_count = NumTasks
  BY DEF ScanSelect, SelectIdle, BootProgress
<1>2. CASE ScanSelect
  <2>1. offset <= NumTasks
    BY <1>1, <1>2 DEF ScanSelect
  <2>2. candidate_id \in Tasks /\ Behind(c, candidate_id) = offset
    BY <1>1, <2>1, CandidateBehind
  <2>3. ASSUME NEW t \in AppTasks, overtaken[t] # {}, t # candidate_id
        PROVE  Behind(t, c) < Behind(t, candidate_id)
    <3>1. t \in Tasks /\ t # c /\ offset <= Behind(c, t)
      BY <2>3, <1>1 DEF TurnInv, AppTasks
    <3>2. Behind(c, t) # offset
      BY <3>1, <2>2, <2>3, <1>1, BehindInjective
    <3>3. Behind(c, candidate_id) < Behind(c, t)
      <4>1. Behind(c, t) \in 1 .. NumTasks /\ offset \in Nat
        BY <3>1, <1>1, BehindRange DEF TypeOK
      <4> QED
        BY <4>1, <3>1, <3>2, <2>2
    <3> QED
      BY <3>1, <3>3, <2>2, <1>1, FoundBefore
  <2>4. Select(candidate_id)
    BY <1>2 DEF ScanSelect
  <2> HIDE DEF c
  <2> QED
    BY <2>2, <2>3, <2>4, <1>1, TurnsSelect DEF c
<1>3. CASE SelectIdle
  <2>1. Select(IdleTask)
    BY <1>1, <1>3, NumTasksAssumption
       DEF SelectIdle, BootProgress, AlwaysATask
  <2>2. \A t \in AppTasks : overtaken[t] = {}
    <3> SUFFICES ASSUME NEW t \in AppTasks, overtaken[t] # {} PROVE FALSE
      OBVIOUS
    <3>1. t \in Tasks /\ offset <= Behind(c, t)
      BY <1>1 DEF TurnInv, AppTasks
    <3>2. Behind(c, t) \in 1 .. NumTasks /\ offset \in Nat /\ offset > NumTasks
      BY <3>1, <1>1, <1>3, BehindRange DEF SelectIdle, TypeOK
    <3> QED
      BY <3>1, <3>2, NumTasksAssumption
  <2> QED
    BY <2>1, <2>2, <1>1, IdleIsTask, TurnsSelect
<1> QED
  BY <1>2, <1>3

(* The task selected becomes the current one: it is the one furthest       *)
(* behind everybody who waits.                                             *)
LEMMA TurnsCommit ==
  ASSUME TurnInv, TypeOK, BootProgress, TimingNext, CommitCurrent
  PROVE  TurnInv'
<1> DEFINE c == g_current_task_id
           x == next_task
<1>1. /\ cpu = "commit" /\ cpu' \in {"restore", "enable_preemption"}
      /\ g_current_task_id' = x /\ x \in Tasks /\ c \in Tasks
      /\ task_state' = task_state /\ task_state[x] = "RUNNING"
  BY DEF CommitCurrent, AfterSchedule, table, BootProgress, TurnInv
<1>2. overtaken' = [t \in Tasks |->
         IF task_state[t] # "READY" THEN {} ELSE overtaken[t] \cup {x}]
  BY <1>1 DEF TimingNext
<1>3. overtaken' \in [Tasks -> SUBSET Tasks]
  BY <1>1, <1>2 DEF TurnInv
<1>4. \A t \in Tasks : task_state'[t] # "READY" => overtaken'[t] = {}
  BY <1>1, <1>2
<1>5. ASSUME NEW t \in AppTasks, overtaken'[t] # {}
      PROVE  /\ t # x
             /\ \A u \in overtaken'[t] : Behind(t, u) <= Behind(t, x)
  <2>1. t \in Tasks /\ overtaken'[t] = overtaken[t] \cup {x} /\ t # x
    BY <1>1, <1>2, <1>5 DEF AppTasks
  <2>2. ASSUME NEW u \in overtaken[t]
        PROVE  Behind(t, u) <= Behind(t, x)
    <3>1. Behind(t, u) <= Behind(t, c) /\ Behind(t, c) < Behind(t, x)
      BY <1>1, <2>2 DEF TurnInv
    <3>2. u \in Tasks
      BY <2>1, <2>2 DEF TurnInv
    <3>3. /\ Behind(t, u) \in Nat /\ Behind(t, c) \in Nat /\ Behind(t, x) \in Nat
      BY <3>2, <2>1, <1>1, BehindRange
    <3> QED
      BY <3>1, <3>3
  <2>3. Behind(t, x) \in Nat
    BY <2>1, <1>1, BehindRange
  <2> QED
    BY <2>1, <2>2, <2>3
<1>6. cpu' \notin BeforeStart /\ cpu' \notin {"scan", "commit"}
  BY <1>1 DEF BeforeStart
<1> QED
  BY <1>1, <1>3, <1>4, <1>5, <1>6 DEF TurnInv, Behind

(* Until the scheduler starts, nobody has been dispatched.                 *)
LEMMA TurnsBeforeStart ==
  ASSUME TurnInv, TypeOK, TimingNext, cpu \in BeforeStart,
         cpu' \notin {"scan", "commit"}
  PROVE  TurnInv'
<1>1. overtaken' = [t \in Tasks |-> {}]
  BY DEF TimingNext, TurnInv, BeforeStart
<1> QED
  BY <1>1 DEF TurnInv, AppTasks

LEMMA TurnsStep ==
  ASSUME TurnInv, TypeOK, TypeOK', BootProgress, Next, TimingNext
  PROVE  TurnInv'
<1> USE DEF TypeOK
<1>1. CASE \/ task_system_init \/ task_create \/ os_scheduler_init
           \/ os_context_switch_init \/ os_scheduler_start
  <2>1. cpu \in BeforeStart /\ cpu' \notin {"scan", "commit"}
    BY <1>1 DEF task_system_init, task_create, os_scheduler_init,
         os_context_switch_init, os_scheduler_start, BeforeStart
  <2> QED
    BY <2>1, TurnsBeforeStart
<1>2. CASE os_scheduler_enable_preemption \/ SVC_Handler \/ PendSV_Handler
           \/ RestoreContext
  <2>1. /\ UNCHANGED <<g_current_task_id, offset, next_task>>
        /\ cpu \in {"enable_preemption", "SVC", "thread", "restore"}
        /\ cpu' \in {"SVC", "thread", "demote"}
    BY <1>2 DEF os_scheduler_enable_preemption, SVC_Handler, PendSV_Handler,
         RestoreContext, SetPreemption, scanv, sched
  <2> QED
    BY <2>1, TurnsStay DEF BeforeStart
<1>3. CASE SysTick_Handler
  <2>1. UNCHANGED <<g_current_task_id, offset, next_task, cpu>>
    BY <1>3 DEF SysTick_Handler, scanv
  <2>2. ASSUME cpu = "commit"
        PROVE  task_state'[next_task] = "RUNNING"
    <3>1. next_task \in Tasks /\ task_state[next_task] = "RUNNING"
      BY <2>2 DEF TurnInv, BootProgress
    <3>2. next_task \notin Expired(g_os_ticks')
      BY <3>1 DEF Expired
    <3> QED
      BY <1>3, <3>1, <3>2 DEF SysTick_Handler, task_wake_expired_sleeping_tasks
  <2> QED
    BY <2>1, <2>2, TurnsStay
<1>4. CASE os_schedule_next
  BY <1>4, TurnsDemote, TurnsSkip, TurnsChoose, TurnsCommit DEF os_schedule_next
<1>5. ASSUME NEW t \in AppTasks, TaskStep(t)
      PROVE  TurnInv'
  <2>1. /\ UNCHANGED <<g_current_task_id, offset, next_task, cpu>>
        /\ cpu = "thread"
    BY <1>5 DEF TaskStep, os_yield, os_sleep_read_tick, os_sleep_commit,
         os_irq_save, os_irq_restore, task_block, task_unblock,
         TogglePreemption, SetPreemption, Calling, Executing, sched, scanv
  <2> QED
    BY <2>1, TurnsStay DEF BeforeStart
<1> QED
  BY <1>1, <1>2, <1>3, <1>4, <1>5 DEF Next, Boot, Switch

(* Between a task and the current one stand those that were dispatched     *)
(* while it is READY: the inductive invariant behind NobodyOvertakesTwice. *)
THEOREM TurnsInvariant == TimingSpec => []TurnInv
<1>1. TimingInit => TurnInv
  BY DEF TimingInit, RefInit, Init, TurnInv, AppTasks
<1>2. SchedulerInv /\ SchedulerInv' /\ TurnInv
        /\ [Next /\ DemotedNext /\ TimingNext]_timingVars => TurnInv'
  <2> SUFFICES ASSUME SchedulerInv, SchedulerInv', TurnInv,
                      [Next /\ DemotedNext /\ TimingNext]_timingVars
               PROVE  TurnInv'
    OBVIOUS
  <2>1. CASE Next /\ TimingNext
    BY <2>1, TurnsStep DEF SchedulerInv
  <2>2. CASE UNCHANGED timingVars
    BY <2>2 DEF timingVars, vars, table, sched, scanv, TurnInv, Behind
  <2> QED
    BY <2>1, <2>2
<1> QED
  BY <1>1, <1>2, TimingImpliesCore, PTL DEF TimingSpec

(* Round robin for any number of tasks: while a task is READY no other     *)
(* task is dispatched twice, wherever SysTick cuts into the scan           *)
(* (task_scheduler.c:140-189).                                             *)
THEOREM RoundRobinIsFair == TimingSpec => []NobodyOvertakesTwice
<1>1. SchedulerInv /\ TurnInv => NobodyOvertakesTwice
  <2> SUFFICES ASSUME SchedulerInv, TurnInv, cpu = "commit",
                      NEW t \in AppTasks, next_task \in overtaken[t]
               PROVE  FALSE
    BY DEF NobodyOvertakesTwice
  <2>1. /\ Behind(t, next_task) <= Behind(t, g_current_task_id)
        /\ Behind(t, g_current_task_id) < Behind(t, next_task)
    BY DEF TurnInv
  <2>2. /\ t \in Tasks /\ next_task \in Tasks /\ g_current_task_id \in Tasks
    BY DEF SchedulerInv, BootProgress, AppTasks
  <2>3. Behind(t, next_task) \in Nat /\ Behind(t, g_current_task_id) \in Nat
    BY <2>2, BehindRange
  <2> QED
    BY <2>1, <2>3
<1> QED
  BY <1>1, TurnsInvariant, TimingImpliesCore, PTL

-----------------------------------------------------------------------------
(* Tick counts                                                             *)

LEMMA HalfRange ==
  ASSUME MaxSleep < TickModulus \div 2
  PROVE  /\ TickModulus \in Nat /\ TickModulus \div 2 \in Nat
         /\ TickModulus = 2 * (TickModulus \div 2)
         /\ MaxSleep \in 1 .. (TickModulus \div 2) - 1
BY TickAssumption

LEMMA Wrap ==
  ASSUME NEW n \in Nat \ {0}, NEW x \in Int
  PROVE  /\ x \in 0 .. n - 1 => x % n = x
         /\ x \in n .. 2 * n - 1 => x % n = x - n
         /\ x \in -n .. -1 => x % n = x + n
OBVIOUS

LEMMA TickDifference ==
  ASSUME NEW a \in Ticks, NEW b \in Ticks
  PROVE  (a - b) % TickModulus = IF a >= b THEN a - b ELSE a - b + TickModulus
<1>1. TickModulus \in Nat \ {0} /\ a - b \in Int
      /\ (a >= b => a - b \in 0 .. TickModulus - 1)
      /\ (~(a >= b) => a - b \in -TickModulus .. -1)
  BY TickAssumption DEF Ticks
<1> QED
  BY <1>1, Wrap

LEMMA NextTick ==
  ASSUME NEW a \in Ticks
  PROVE  /\ (a + 1) % TickModulus = IF a = TickModulus - 1 THEN 0 ELSE a + 1
         /\ (a + 1) % TickModulus \in Ticks
<1>1. TickModulus \in Nat \ {0} /\ a + 1 \in Int
      /\ (a # TickModulus - 1 => a + 1 \in 0 .. TickModulus - 1)
      /\ (a = TickModulus - 1 => a + 1 \in TickModulus .. 2 * TickModulus - 1)
  BY TickAssumption DEF Ticks
<1>2. (a + 1) % TickModulus = IF a = TickModulus - 1 THEN 0 ELSE a + 1
  BY <1>1, Wrap
<1> QED
  BY <1>1, <1>2 DEF Ticks

(* With every tick, what lies ahead comes one tick nearer.                 *)
LEMMA OneTickNearer ==
  ASSUME NEW a \in Ticks, NEW now \in Ticks, NEW new,
         new = (now + 1) % TickModulus
  PROVE  (a - new) % TickModulus =
           IF (a - now) % TickModulus = 0 THEN TickModulus - 1
           ELSE ((a - now) % TickModulus) - 1
<1>1. new = IF now = TickModulus - 1 THEN 0 ELSE now + 1
  BY NextTick
<1>2. new \in Ticks
  BY NextTick
<1>3. (a - new) % TickModulus = IF a >= new THEN a - new ELSE a - new + TickModulus
  BY <1>2, TickDifference
<1>4. (a - now) % TickModulus = IF a >= now THEN a - now ELSE a - now + TickModulus
  BY TickDifference
<1> QED
  BY <1>1, <1>3, <1>4, TickAssumption DEF Ticks

(* A wakeup tick has expired when it is not ahead, or so far ahead that it *)
(* must be behind.                                                         *)
LEMMA ExpiredIs ==
  ASSUME MaxSleep < TickModulus \div 2, NEW a \in Ticks, NEW now \in Ticks
  PROVE  task_has_wakeup_tick_expired(now, a) <=>
           \/ (a - now) % TickModulus = 0
           \/ (a - now) % TickModulus > TickModulus \div 2
<1>1. (a - now) % TickModulus = IF a >= now THEN a - now ELSE a - now + TickModulus
  BY TickDifference
<1>2. (now - a) % TickModulus = IF now >= a THEN now - a ELSE now - a + TickModulus
  BY TickDifference
<1> DEFINE H == TickModulus \div 2
<1>3. TickModulus = 2 * H /\ H \in Nat /\ MaxSleep < H
  BY HalfRange
<1>4. task_has_wakeup_tick_expired(now, a) <=> (now - a) % TickModulus < H
  BY DEF task_has_wakeup_tick_expired
<1> HIDE DEF H
<1>5. (now - a) % TickModulus < H <=>
        (a - now) % TickModulus = 0 \/ (a - now) % TickModulus > H
  BY <1>1, <1>2, <1>3, TickAssumption DEF Ticks
<1> QED
  BY <1>4, <1>5 DEF H

(* What lies one tick ahead or less has expired with the next tick.        *)
LEMMA ExpiresNext ==
  ASSUME MaxSleep < TickModulus \div 2, NEW a \in Ticks, NEW now \in Ticks,
         \/ (a - now) % TickModulus \in {0, 1}
         \/ (a - now) % TickModulus > TickModulus \div 2 + 1
  PROVE  task_has_wakeup_tick_expired(now + 1, a)
<1>1. (a - now) % TickModulus = IF a >= now THEN a - now ELSE a - now + TickModulus
  BY TickDifference
<1>2. PICK d \in Int : d = (now + 1) - a
  BY DEF Ticks
<1>3. PICK H \in Nat : H = TickModulus \div 2 /\ TickModulus = 2 * H /\ H > 1
  BY HalfRange
<1>4. TickModulus \in Nat \ {0}
  BY TickAssumption
<1>5. d \in 0 .. H - 1 \/ d = TickModulus \/ d + TickModulus \in 0 .. H - 1
  BY <1>1, <1>2, <1>3, <1>4 DEF Ticks
<1>6. d % TickModulus < H
  <2>1. CASE d \in 0 .. H - 1
    <3>1. d \in 0 .. TickModulus - 1
      BY <2>1, <1>3
    <3> QED
      BY <3>1, <2>1, <1>2, <1>3, <1>4, Wrap
  <2>2. CASE d = TickModulus
    BY <2>2, <1>3, <1>4
  <2>3. CASE d + TickModulus \in 0 .. H - 1
    <3>1. d \in -TickModulus .. -1
      BY <2>3, <1>2, <1>3, <1>4
    <3>2. d % TickModulus = d + TickModulus
      BY <3>1, <1>2, <1>4, Wrap
    <3> QED
      BY <3>2, <2>3, <1>3
  <2> QED
    BY <2>1, <2>2, <2>3, <1>5
<1> QED
  BY <1>2, <1>3, <1>6 DEF task_has_wakeup_tick_expired

(* A sleep of ms ticks ends ms ticks ahead.                                *)
LEMMA SleepAhead ==
  ASSUME NEW now \in Ticks, NEW ms \in 1 .. MaxSleep
  PROVE  /\ (now + ms) % TickModulus \in Ticks
         /\ (((now + ms) % TickModulus) - now) % TickModulus = ms
<1> DEFINE w == (now + ms) % TickModulus
<1>1. TickModulus \in Nat \ {0} /\ now + ms \in 0 .. 2 * TickModulus - 1
      /\ ms \in 1 .. TickModulus - 1 /\ now \in 0 .. TickModulus - 1
  BY TickAssumption DEF Ticks
<1>2. w = IF now + ms < TickModulus THEN now + ms ELSE (now + ms) - TickModulus
  <2>1. \A x \in Int :
          /\ x \in 0 .. TickModulus - 1 => x % TickModulus = x
          /\ x \in TickModulus .. 2 * TickModulus - 1 =>
               x % TickModulus = x - TickModulus
    BY <1>1, Wrap
  <2>2. now + ms \in Int
    BY <1>1
  <2>3. /\ now + ms \in 0 .. TickModulus - 1 => w = now + ms
        /\ now + ms \in TickModulus .. 2 * TickModulus - 1 =>
             w = (now + ms) - TickModulus
    BY <2>1, <2>2, Zenon
  <2> QED
    BY <2>3, <1>1
<1>3. w \in Ticks
  BY <1>1, <1>2 DEF Ticks
<1> HIDE DEF w
<1>4. (w - now) % TickModulus = IF w >= now THEN w - now ELSE w - now + TickModulus
  BY <1>3, TickDifference
<1>5. (w - now) % TickModulus = ms
  BY <1>1, <1>2, <1>4
<1> QED
  BY <1>3, <1>5 DEF w

-----------------------------------------------------------------------------
(* Sleeping on time                                                        *)

(* A step in which the clock stands still and nobody starts a sleep.       *)
LEMMA SleepStays ==
  ASSUME SleepInv, TimingNext,
         cpu' \notin BeforeStart => g_scheduler_state' = "RUNNING",
         UNCHANGED <<g_os_ticks, sleep_until>>,
         g_context_switch_started => g_context_switch_started',
         \A t \in Tasks : /\ task_state'[t] = "SLEEPING" <=> task_state[t] = "SLEEPING"
                          /\ task_state[t] = "SLEEPING" =>
                               wakeup_tick'[t] = wakeup_tick[t]
  PROVE  SleepInv'
<1> USE DEF SleepInv
<1>1. \A t \in Tasks : ~StartsSleep(t)
  BY DEF StartsSleep
<1>2. \A t \in Tasks : remaining'[t] = remaining[t]
  BY <1>1 DEF TimingNext
<1>3. remaining' \in [Tasks -> 0 .. MaxSleep]
  BY <1>1 DEF TimingNext
<1>4. missed' \in [Tasks -> BOOLEAN]
  BY <1>1 DEF TimingNext
<1>5. \A t \in Tasks : missed[t] => missed'[t]
  BY <1>1 DEF TimingNext
<1>6. ASSUME NEW t \in Tasks, NEW tick, OnTime(t, tick)
      PROVE  OnTime(t, tick)'
  BY <1>2, <1>5, <1>6 DEF OnTime, Ahead
<1>7. ASSUME NEW t \in Tasks
      PROVE  /\ remaining'[t] > 0 => g_context_switch_started'
             /\ sleep_until'[t] # NoTick => OnTime(t, sleep_until[t])'
             /\ task_state'[t] = "SLEEPING" =>
                  g_context_switch_started' /\ OnTime(t, wakeup_tick[t])'
             /\ remaining'[t] > 0 =>
                  sleep_until'[t] # NoTick \/ task_state'[t] = "SLEEPING"
  BY <1>2, <1>6 DEF NeverEarly
<1> QED
  BY <1>3, <1>4, <1>7 DEF NeverEarly

(* The task that executes is RUNNING, and has no sleep left to wait for    *)
(* unless it is on its way to sleep.                                       *)
LEMMA SleeperRuns ==
  ASSUME SchedulerInv, ~MaskedSleep, SleepInv, NEW t \in AppTasks, Executing(t)
  PROVE  /\ t \in Tasks /\ task_state[t] = "RUNNING"
         /\ g_context_switch_started
         /\ sleep_until[t] = NoTick => remaining[t] = 0
<1>1. t \in Tasks /\ cpu = "thread" /\ psp = t /\ (pendsv => primask)
  BY DEF Executing, AppTasks
<1>2. task_state[t] = "RUNNING" /\ g_context_switch_started
  BY <1>1 DEF SchedulerInv, BootProgress, RunningPlaces
<1>3. remaining[t] \in Nat /\ ~(remaining[t] > 0) => remaining[t] = 0
  OBVIOUS
<1>4. remaining[t] \in Nat
  BY <1>1 DEF SleepInv
<1> QED
  BY <1>1, <1>2, <1>3, <1>4 DEF SleepInv, NeverEarly

(* os_sleep has read the tick: its time lies ahead by what it asked for.   *)
LEMMA SleepReads ==
  ASSUME SchedulerInv, ~MaskedSleep, SleepInv, TimingNext,
         NEW t \in AppTasks, NEW ms \in 1 .. MaxSleep, os_sleep_read_tick(t, ms)
  PROVE  SleepInv'
<1>1. /\ Executing(t) /\ sleep_until[t] = NoTick
      /\ sleep_until' = [sleep_until EXCEPT ![t] = (g_os_ticks + ms) % TickModulus]
      /\ UNCHANGED <<task_state, wakeup_tick, g_os_ticks, g_scheduler_state,
                     g_context_switch_started, cpu>>
  BY DEF os_sleep_read_tick, Calling, table, sched
<1>2. t \in Tasks /\ task_state[t] = "RUNNING" /\ g_context_switch_started
  BY <1>1, SleeperRuns
<1>3. g_os_ticks \in Ticks /\ sleep_until \in [Tasks -> Ticks \cup {NoTick}]
  BY DEF SchedulerInv, TypeOK
<1>4. /\ (g_os_ticks + ms) % TickModulus \in Ticks
      /\ (((g_os_ticks + ms) % TickModulus) - g_os_ticks) % TickModulus = ms
  BY <1>3, SleepAhead
<1>5. sleep_until'[t] = (g_os_ticks + ms) % TickModulus /\ sleep_until'[t] \in Ticks
  BY <1>1, <1>2, <1>3, <1>4
<1>6. sleep_until'[t] # NoTick
  BY <1>5, TickAssumption DEF Ticks, NoTick
<1>7. StartsSleep(t) /\ \A u \in Tasks \ {t} : ~StartsSleep(u)
  BY <1>1, <1>3, <1>6 DEF StartsSleep
<1>8. \A u \in Tasks : remaining'[u] = IF u = t THEN ms ELSE remaining[u]
  <2>1. remaining' = [u \in Tasks |->
          IF StartsSleep(u) THEN (sleep_until'[u] - g_os_ticks) % TickModulus
          ELSE remaining[u]]
    BY <1>1 DEF TimingNext
  <2>2. (sleep_until'[t] - g_os_ticks) % TickModulus = ms
    BY <1>4, <1>5
  <2> QED
    BY <2>1, <2>2, <1>7, <1>2
<1>9. remaining' \in [Tasks -> 0 .. MaxSleep]
  <2>1. ms \in 0 .. MaxSleep
    BY TickAssumption
  <2>2. remaining' = [u \in Tasks |-> remaining'[u]]
    BY DEF TimingNext
  <2> QED
    BY <2>1, <2>2, <1>8 DEF SleepInv
<1>10. missed' \in [Tasks -> BOOLEAN]
  BY DEF TimingNext
<1>11. \A u \in Tasks \ {t} : missed[u] => missed'[u]
  BY <1>7 DEF TimingNext
<1>12. ASSUME NEW u \in Tasks \ {t}, NEW tick, OnTime(u, tick)
       PROVE  OnTime(u, tick)'
  BY <1>1, <1>8, <1>11, <1>12 DEF OnTime, Ahead
<1>13. OnTime(t, sleep_until[t])'
  <2>1. remaining'[t] = ms /\ ms > 0
    BY <1>2, <1>8
  <2>2. Ahead(sleep_until[t])' = ms
    BY <1>1, <1>4, <1>5 DEF Ahead
  <2> QED
    BY <2>1, <2>2 DEF OnTime
<1>14. ASSUME NEW u \in Tasks
       PROVE  /\ remaining'[u] > 0 => g_context_switch_started'
              /\ sleep_until'[u] # NoTick => OnTime(u, sleep_until[u])'
              /\ task_state'[u] = "SLEEPING" =>
                   g_context_switch_started' /\ OnTime(u, wakeup_tick[u])'
              /\ remaining'[u] > 0 =>
                   sleep_until'[u] # NoTick \/ task_state'[u] = "SLEEPING"
  <2>1. CASE u = t
    BY <2>1, <1>1, <1>2, <1>6, <1>13
  <2>2. CASE u # t
    <3>1. sleep_until'[u] = sleep_until[u] /\ remaining'[u] = remaining[u]
      BY <1>1, <1>3, <1>8, <2>2
    <3> QED
      BY <3>1, <1>1, <1>2, <1>12, <2>2 DEF SleepInv, NeverEarly
  <2> QED
    BY <2>1, <2>2
<1>15. cpu' \notin BeforeStart => g_scheduler_state' = "RUNNING"
  BY <1>1 DEF SleepInv
<1> QED
  BY <1>9, <1>10, <1>14, <1>15 DEF SleepInv, NeverEarly

(* os_sleep goes to sleep: the wakeup tick is the one it has read, however *)
(* long ago.                                                               *)
LEMMA SleepCommits ==
  ASSUME SchedulerInv, ~MaskedSleep, SleepInv, TimingNext,
         NEW t \in AppTasks, os_sleep_commit(t)
  PROVE  SleepInv'
<1>1. /\ Executing(t) /\ sleep_until[t] # NoTick
      /\ sleep_until' = [sleep_until EXCEPT ![t] = NoTick]
      /\ UNCHANGED <<g_os_ticks, g_scheduler_state, g_context_switch_started, cpu>>
  BY DEF os_sleep_commit
<1>2. t \in Tasks /\ task_state[t] = "RUNNING" /\ g_context_switch_started
  BY <1>1, SleeperRuns
<1>3. /\ sleep_until \in [Tasks -> Ticks \cup {NoTick}]
      /\ task_state \in [Tasks -> TaskStates] /\ wakeup_tick \in [Tasks -> Ticks]
  BY DEF SchedulerInv, TypeOK
<1>4. /\ task_state' = [task_state EXCEPT ![t] = "SLEEPING"]
      /\ wakeup_tick' = [wakeup_tick EXCEPT ![t] = sleep_until[t]]
  BY <1>2 DEF os_sleep_commit, task_sleep_until
<1>5. \A u \in Tasks : ~StartsSleep(u)
  BY <1>1, <1>3 DEF StartsSleep
<1>6. \A u \in Tasks : remaining'[u] = remaining[u]
  BY <1>1, <1>5 DEF TimingNext
<1>7. remaining' \in [Tasks -> 0 .. MaxSleep]
  BY <1>1, <1>5 DEF TimingNext, SleepInv
<1>8. missed' \in [Tasks -> BOOLEAN]
  BY DEF TimingNext
<1>9. \A u \in Tasks : missed[u] => missed'[u]
  BY <1>5 DEF TimingNext
<1>10. ASSUME NEW u \in Tasks, NEW tick, OnTime(u, tick)
       PROVE  OnTime(u, tick)'
  BY <1>1, <1>6, <1>9, <1>10 DEF OnTime, Ahead
<1>11. ASSUME NEW u \in Tasks
       PROVE  /\ remaining'[u] > 0 => g_context_switch_started'
              /\ sleep_until'[u] # NoTick => OnTime(u, sleep_until[u])'
              /\ task_state'[u] = "SLEEPING" =>
                   g_context_switch_started' /\ OnTime(u, wakeup_tick[u])'
              /\ remaining'[u] > 0 =>
                   sleep_until'[u] # NoTick \/ task_state'[u] = "SLEEPING"
  <2>1. CASE u = t
    <3>1. /\ task_state'[t] = "SLEEPING" /\ wakeup_tick'[t] = sleep_until[t]
          /\ sleep_until'[t] = NoTick
      BY <1>1, <1>2, <1>3, <1>4
    <3>2. OnTime(t, sleep_until[t])
      BY <1>1, <1>2 DEF SleepInv
    <3>3. OnTime(t, wakeup_tick[t])'
      BY <3>1, <3>2, <1>1, <1>2, <1>6, <1>9 DEF OnTime, Ahead
    <3> QED
      BY <2>1, <3>1, <3>3, <1>1, <1>2
  <2>2. CASE u # t
    <3>1. /\ sleep_until'[u] = sleep_until[u] /\ task_state'[u] = task_state[u]
          /\ wakeup_tick'[u] = wakeup_tick[u]
      BY <1>1, <1>3, <1>4, <2>2
    <3>2. /\ sleep_until[u] # NoTick => OnTime(u, sleep_until[u])'
          /\ task_state[u] = "SLEEPING" => OnTime(u, wakeup_tick[u])'
      BY <3>1, <1>1, <1>6, <1>9 DEF SleepInv, OnTime, Ahead
    <3> QED
      BY <3>1, <3>2, <1>1, <1>2, <1>6 DEF SleepInv, NeverEarly
  <2> QED
    BY <2>1, <2>2
<1>12. cpu' \notin BeforeStart => g_scheduler_state' = "RUNNING"
  BY <1>1 DEF SleepInv
<1> QED
  BY <1>7, <1>8, <1>11, <1>12 DEF SleepInv, NeverEarly

(* A tick: every sleep is one tick shorter, and who still sleeps after it  *)
(* has time left, or was held up too long.                                 *)
LEMMA SleepTicks ==
  ASSUME SchedulerInv, MaxSleep < TickModulus \div 2, SleepInv, TimingNext,
         SysTick_Handler
  PROVE  SleepInv'
<1> DEFINE H == TickModulus \div 2
           new == g_os_ticks'
<1>1. /\ new = (g_os_ticks + 1) % TickModulus
      /\ g_os_ticks \in Ticks /\ new \in Ticks /\ new # g_os_ticks
      /\ UNCHANGED <<g_scheduler_state, g_context_switch_started, cpu, sleep_until>>
  <2>1. g_os_ticks \in Ticks /\ new = (g_os_ticks + 1) % TickModulus
    BY DEF SchedulerInv, TypeOK, SysTick_Handler
  <2>2. /\ (g_os_ticks + 1) % TickModulus =
             IF g_os_ticks = TickModulus - 1 THEN 0 ELSE g_os_ticks + 1
        /\ (g_os_ticks + 1) % TickModulus \in Ticks
    BY <2>1, NextTick
  <2>3. TickModulus > 1
    BY HalfRange
  <2> QED
    BY <2>1, <2>2, <2>3, TickAssumption DEF SysTick_Handler, Ticks
<1>2. /\ sleep_until \in [Tasks -> Ticks \cup {NoTick}]
      /\ task_state \in [Tasks -> TaskStates] /\ wakeup_tick \in [Tasks -> Ticks]
      /\ remaining \in [Tasks -> 0 .. MaxSleep]
  BY DEF SchedulerInv, TypeOK, SleepInv
<1>3. TickModulus = 2 * H /\ H \in Nat /\ MaxSleep \in 1 .. H - 1
  BY HalfRange
<1>4. \A u \in Tasks : ~StartsSleep(u)
  BY <1>1 DEF StartsSleep
<1>5. remaining' = [u \in Tasks |->
         IF remaining[u] > 0 THEN remaining[u] - 1 ELSE remaining[u]]
  BY <1>1, <1>4 DEF TimingNext
<1>6. \A u \in Tasks :
        /\ remaining[u] > 0 => remaining'[u] = remaining[u] - 1
        /\ ~(remaining[u] > 0) => remaining'[u] = remaining[u]
        /\ remaining[u] \in 0 .. MaxSleep /\ remaining'[u] \in 0 .. MaxSleep
  BY <1>2, <1>3, <1>5
<1>7. remaining' \in [Tasks -> 0 .. MaxSleep]
  BY <1>5, <1>6
<1>8. missed' \in [Tasks -> BOOLEAN]
  BY DEF TimingNext
<1>9. \A u \in Tasks : missed[u] => missed'[u]
  BY <1>4 DEF TimingNext
<1>10. ASSUME NEW tick \in Ticks
       PROVE  /\ Ahead(tick) \in 0 .. TickModulus - 1
              /\ (tick - new) % TickModulus =
                   IF Ahead(tick) = 0 THEN TickModulus - 1 ELSE Ahead(tick) - 1
  <2>1. (tick - g_os_ticks) % TickModulus \in 0 .. TickModulus - 1
    <3>1. tick - g_os_ticks \in Int /\ TickModulus \in Nat \ {0}
      BY <1>1, TickAssumption DEF Ticks
    <3> QED
      BY <3>1, ModRange
  <2>2. (tick - new) % TickModulus =
          IF (tick - g_os_ticks) % TickModulus = 0 THEN TickModulus - 1
          ELSE ((tick - g_os_ticks) % TickModulus) - 1
    BY <1>1, OneTickNearer
  <2> QED
    BY <2>1, <2>2 DEF Ahead
<1> HIDE DEF H, new
<1>11. ASSUME NEW u \in Tasks, sleep_until[u] # NoTick
       PROVE  OnTime(u, sleep_until[u])'
  <2> DEFINE s == sleep_until[u]
             a == Ahead(s)
             b == (s - new) % TickModulus
  <2>1. s \in Ticks /\ OnTime(u, s)
    BY <1>2, <1>11 DEF SleepInv
  <2>2. /\ a \in 0 .. TickModulus - 1
        /\ b = IF a = 0 THEN TickModulus - 1 ELSE a - 1
    BY <2>1, <1>10
  <2>3. Ahead(s)' = b
    BY <1>1 DEF Ahead, new
  <2>4. b \in MaxSleep + 1 .. H + 1 => missed'[u]
    <3>1. b \in MaxSleep + 1 .. H + 1 => TooLate(u)
      BY <1>1, <1>11 DEF TooLate, H, new
    <3> QED
      BY <3>1 DEF TimingNext
  <2>5. /\ remaining[u] > 0 => a = remaining[u]
        /\ ~(remaining[u] > 0) => missed[u] \/ a = 0 \/ a > H + 1
    BY <2>1 DEF OnTime, H
  <2> HIDE DEF s, a, b
  <2>6. CASE remaining[u] > 0
    <3>1. remaining'[u] = remaining[u] - 1 /\ b = remaining'[u]
      BY <2>6, <2>2, <2>5, <1>6
    <3>2. ~(remaining'[u] > 0) => b = 0
      BY <3>1, <1>3, <1>6
    <3> QED
      BY <3>1, <3>2, <2>3, <1>1 DEF OnTime, s
  <2>7. CASE ~(remaining[u] > 0)
    <3>1. ~(remaining'[u] > 0)
      BY <2>7, <1>6
    <3>2. missed'[u] \/ b > H + 1
      <4>1. CASE missed[u]
        BY <4>1, <1>9
      <4>2. CASE a = 0 /\ ~(TickModulus - 1 > H + 1)
        <5>1. b = TickModulus - 1
          BY <4>2, <2>2
        <5>2. b \in MaxSleep + 1 .. H + 1
          BY <5>1, <4>2, <1>3
        <5> QED
          BY <5>2, <2>4
      <4>3. CASE a = 0 /\ TickModulus - 1 > H + 1
        BY <4>3, <2>2
      <4>4. CASE a > H + 1
        <5>1. b = a - 1
          BY <4>4, <2>2, <1>3
        <5>2. b \in MaxSleep + 1 .. H + 1 \/ b > H + 1
          BY <5>1, <4>4, <2>2, <1>3
        <5> QED
          BY <5>2, <2>4
      <4> QED
        BY <4>1, <4>2, <4>3, <4>4, <2>5, <2>7
    <3> QED
      BY <3>1, <3>2, <2>3, <1>1 DEF OnTime, s, H
  <2> QED
    BY <2>6, <2>7
<1>12. g_context_switch_started => g_scheduler_state = "RUNNING"
  BY DEF SchedulerInv, BootProgress, SleepInv, BeforeStart, BootSteps
<1>13. ASSUME NEW u \in Tasks, task_state[u] = "SLEEPING"
       PROVE  task_has_wakeup_tick_expired(new, wakeup_tick[u]) => u \in Expired(new)
  <2>1. g_context_switch_started
    BY <1>13 DEF SleepInv
  <2>2. g_task_count = NumTasks
    BY <2>1 DEF SchedulerInv, BootProgress, BootSteps
  <2> QED
    BY <2>2, <1>13, NumTasksAssumption DEF Expired, Tasks
<1>14. /\ task_state' = [u \in Tasks |->
             IF g_scheduler_state = "RUNNING" /\ u \in Expired(new)
               THEN "READY" ELSE task_state[u]]
       /\ wakeup_tick' = [u \in Tasks |->
             IF g_scheduler_state = "RUNNING" /\ u \in Expired(new)
               THEN 0 ELSE wakeup_tick[u]]
  <2>1. CASE g_scheduler_state = "RUNNING"
    BY <2>1 DEF SysTick_Handler, task_wake_expired_sleeping_tasks, new
  <2>2. CASE g_scheduler_state # "RUNNING"
    BY <2>2 DEF SysTick_Handler, task_wake_expired_sleeping_tasks, new
  <2> QED
    BY <2>1, <2>2
<1>15. ASSUME NEW u \in Tasks, task_state[u] = "SLEEPING"
       PROVE  /\ task_state'[u] = "SLEEPING" => OnTime(u, wakeup_tick[u])'
              /\ task_state'[u] # "SLEEPING" => ~(remaining'[u] > 0)
  <2> DEFINE w == wakeup_tick[u]
             a == Ahead(w)
             b == (w - new) % TickModulus
  <2>1. w \in Ticks /\ OnTime(u, w) /\ g_context_switch_started
    BY <1>2, <1>15 DEF SleepInv
  <2>2. /\ a \in 0 .. TickModulus - 1
        /\ b = IF a = 0 THEN TickModulus - 1 ELSE a - 1
    BY <2>1, <1>10
  <2>3. u \in Expired(new) <=> b = 0 \/ b > H
    <3>1. task_has_wakeup_tick_expired(new, w) <=> b = 0 \/ b > H
      BY <2>1, <1>1, ExpiredIs DEF H
    <3> QED
      BY <3>1, <1>13, <1>15 DEF Expired
  <2>4. /\ remaining[u] > 0 => a = remaining[u]
        /\ ~(remaining[u] > 0) => missed[u] \/ a = 0 \/ a > H + 1
    BY <2>1 DEF OnTime, H
  <2>5. g_scheduler_state = "RUNNING"
    BY <2>1, <1>12
  <2>6. ASSUME task_state'[u] = "SLEEPING"
        PROVE  u \notin Expired(new) /\ wakeup_tick'[u] = w
    BY <2>5, <2>6, <1>14
  <2>7. ASSUME task_state'[u] # "SLEEPING"
        PROVE  u \in Expired(new)
    BY <2>7, <1>14, <1>15
  <2>8. ASSUME task_state'[u] = "SLEEPING"
        PROVE  Ahead(wakeup_tick[u])' = b
    BY <2>6, <2>8, <1>1 DEF Ahead, new
  <2> HIDE DEF w, a, b
  <2>9. CASE remaining[u] > 0
    <3>1. remaining'[u] = remaining[u] - 1 /\ b = remaining'[u]
      BY <2>9, <2>2, <2>4, <1>6
    <3>2. b \in 0 .. H - 1
      BY <3>1, <1>3, <1>6
    <3>3. u \in Expired(new) => remaining'[u] = 0
      BY <3>1, <3>2, <2>3, <1>3
    <3>4. ~(remaining'[u] > 0) => b = 0
      BY <3>1, <1>3, <1>6
    <3>5. task_state'[u] = "SLEEPING" => OnTime(u, wakeup_tick[u])'
      BY <3>1, <3>4, <2>8 DEF OnTime
    <3> QED
      BY <3>3, <3>5, <2>7, <1>3, <1>6
  <2>10. CASE ~(remaining[u] > 0)
    <3>1. ~(remaining'[u] > 0)
      BY <2>10, <1>6
    <3>2. u \notin Expired(new) => missed[u]
      <4>1. TickModulus - 1 > H
        BY <1>3
      <4>2. a = 0 => b > H
        BY <4>1, <2>2
      <4>3. a > H + 1 => b > H
        BY <2>2, <1>3
      <4> QED
        BY <4>2, <4>3, <2>3, <2>4, <2>10
    <3>3. task_state'[u] = "SLEEPING" => missed'[u]
      BY <3>2, <2>6, <1>9
    <3> QED
      BY <3>1, <3>3 DEF OnTime
  <2> QED
    BY <2>9, <2>10
<1>16. ASSUME NEW u \in Tasks, task_state[u] # "SLEEPING"
       PROVE  task_state'[u] # "SLEEPING"
  BY <1>14, <1>16 DEF Expired
<1>17. ASSUME NEW u \in Tasks
       PROVE  /\ remaining'[u] > 0 => g_context_switch_started'
              /\ sleep_until'[u] # NoTick => OnTime(u, sleep_until[u])'
              /\ task_state'[u] = "SLEEPING" =>
                   g_context_switch_started' /\ OnTime(u, wakeup_tick[u])'
              /\ remaining'[u] > 0 =>
                   sleep_until'[u] # NoTick \/ task_state'[u] = "SLEEPING"
  <2>1. remaining'[u] > 0 => remaining[u] > 0
    BY <1>6
  <2>2. remaining'[u] > 0 => g_context_switch_started'
    BY <2>1, <1>1 DEF SleepInv
  <2>3. task_state'[u] = "SLEEPING" =>
          g_context_switch_started' /\ OnTime(u, wakeup_tick[u])'
    BY <1>1, <1>15, <1>16 DEF SleepInv
  <2>4. remaining'[u] > 0 =>
          sleep_until'[u] # NoTick \/ task_state'[u] = "SLEEPING"
    BY <2>1, <1>1, <1>15 DEF SleepInv, NeverEarly
  <2> QED
    BY <2>2, <2>3, <2>4, <1>1, <1>11
<1>18. cpu' \notin BeforeStart => g_scheduler_state' = "RUNNING"
  BY <1>1 DEF SleepInv
<1> QED
  BY <1>7, <1>8, <1>17, <1>18 DEF SleepInv, NeverEarly

LEMMA SleepStep ==
  ASSUME SchedulerInv, ~MaskedSleep, MaxSleep < TickModulus \div 2, SleepInv,
         Next, TimingNext
  PROVE  SleepInv'
<1>1. TypeOK /\ BootProgress
  BY DEF SchedulerInv
<1>2. ASSUME UNCHANGED <<g_scheduler_state, task_state, wakeup_tick, g_os_ticks,
                         sleep_until>>,
             g_context_switch_started => g_context_switch_started',
             cpu \in BeforeStart => cpu' \in BeforeStart
      PROVE  SleepInv'
  BY <1>2, SleepStays DEF SleepInv
<1>3. ASSUME NEW t \in Tasks, AddTask(t), ~g_context_switch_started,
             UNCHANGED <<g_os_ticks, sleep_until, g_scheduler_state>>,
             cpu \in BeforeStart => cpu' \in BeforeStart
      PROVE  SleepInv'
  <2>1. \A u \in Tasks : task_state[u] # "SLEEPING" /\ task_state'[u] # "SLEEPING"
    BY <1>1, <1>3 DEF AddTask, SleepInv, TypeOK
  <2> QED
    BY <2>1, <1>3, SleepStays DEF SleepInv
<1>4. CASE task_system_init \/ task_create
  <2>1. CASE task_system_init
    BY <2>1, <1>1, <1>3, IdleIsTask
       DEF task_system_init, sched, BootProgress, BootSteps, BeforeStart
  <2>2. CASE task_create
    <3>1. g_task_count \in Tasks
      BY <2>2, <1>1, NumTasksAssumption DEF task_create, BootProgress, Tasks
    <3> QED
      BY <2>2, <3>1, <1>1, <1>3
         DEF task_create, sched, BootProgress, BootSteps, BeforeStart
  <2> QED
    BY <1>4, <2>1, <2>2
<1>5. CASE os_scheduler_init \/ os_scheduler_start
  <2>1. /\ UNCHANGED <<task_state, wakeup_tick, g_os_ticks, sleep_until,
                       g_context_switch_started>>
        /\ cpu' \notin BeforeStart => g_scheduler_state' = "RUNNING"
    BY <1>5 DEF os_scheduler_init, os_scheduler_start, table, BeforeStart
  <2> QED
    BY <2>1, SleepStays
<1>6. CASE os_context_switch_init
  BY <1>6, <1>1, <1>2
     DEF os_context_switch_init, table, sched, BootProgress, BootSteps, BeforeStart
<1>7. CASE os_scheduler_enable_preemption \/ SVC_Handler \/ PendSV_Handler
           \/ ScanSkip \/ RestoreContext
  BY <1>7, <1>2
     DEF os_scheduler_enable_preemption, SVC_Handler, PendSV_Handler, ScanSkip,
         RestoreContext, SetPreemption, LoadContext, table, sched, BeforeStart
<1>8. CASE SysTick_Handler
  BY <1>8, SleepTicks
<1>9. CASE DemoteCurrent
  <2>1. /\ UNCHANGED <<g_scheduler_state, wakeup_tick, g_os_ticks, sleep_until,
                       g_context_switch_started>>
        /\ cpu \notin BeforeStart
    BY <1>9 DEF DemoteCurrent, sched, BeforeStart
  <2>2. \A u \in Tasks :
          task_state'[u] = "SLEEPING" <=> task_state[u] = "SLEEPING"
    BY <1>9, <1>1 DEF DemoteCurrent, Requeued, os_get_current_task_state, TypeOK
  <2> QED
    BY <2>1, <2>2, SleepStays DEF SleepInv
<1>10. ASSUME NEW x \in Tasks, Select(x), cpu = "scan", task_state[x] # "SLEEPING"
       PROVE  SleepInv'
  <2>1. /\ UNCHANGED <<g_scheduler_state, wakeup_tick, g_os_ticks, sleep_until,
                       g_context_switch_started>>
        /\ cpu \notin BeforeStart
    BY <1>10 DEF Select, sched, BeforeStart
  <2>2. \A u \in Tasks :
          task_state'[u] = "SLEEPING" <=> task_state[u] = "SLEEPING"
    BY <1>10, <1>1 DEF Select, TypeOK
  <2> QED
    BY <2>1, <2>2, SleepStays DEF SleepInv
<1>11. CASE ScanSelect
  <2>1. candidate_id \in Tasks
    BY <1>1, <1>11, CandidateIsTask DEF ScanSelect, ScheduleSteps
  <2> QED
    BY <2>1, <1>10, <1>11 DEF ScanSelect, CandidateReady
<1>12. CASE SelectIdle
  <2>1. task_state[IdleTask] \in {"READY", "RUNNING"} /\ cpu = "scan"
    BY <1>1, <1>12, NumTasksAssumption DEF SelectIdle, BootProgress, AlwaysATask
  <2> QED
    BY <2>1, <1>10, <1>12, IdleIsTask DEF SelectIdle
<1>13. CASE CommitCurrent
  BY <1>13, <1>2 DEF CommitCurrent, AfterSchedule, table, BeforeStart
<1>14. ASSUME NEW t \in AppTasks, TaskStep(t)
       PROVE  SleepInv'
  <2>1. CASE os_yield(t) \/ os_irq_save(t) \/ os_irq_restore(t) \/ TogglePreemption(t)
    BY <2>1, <1>2
       DEF os_yield, os_irq_save, os_irq_restore, TogglePreemption, SetPreemption,
           table, sched
  <2>2. ASSUME NEW ms \in 1 .. MaxSleep, os_sleep_read_tick(t, ms)
        PROVE  SleepInv'
    BY <2>2, SleepReads
  <2>3. CASE os_sleep_commit(t)
    BY <2>3, SleepCommits
  <2>4. ASSUME NEW u \in Tasks, NEW s, s # "SLEEPING", task_state[u] # "SLEEPING",
               task_state' = [task_state EXCEPT ![u] = s],
               wakeup_tick' = [wakeup_tick EXCEPT ![u] = 0],
               UNCHANGED <<sched, g_os_ticks, g_context_switch_started, cpu,
                           sleep_until>>
        PROVE  SleepInv'
    <3>1. \A w \in Tasks :
            /\ task_state'[w] = "SLEEPING" <=> task_state[w] = "SLEEPING"
            /\ task_state[w] = "SLEEPING" => wakeup_tick'[w] = wakeup_tick[w]
      BY <2>4, <1>1 DEF TypeOK
    <3> QED
      BY <3>1, <2>4, SleepStays DEF SleepInv, sched
  <2>5. CASE task_block(t)
    BY <2>5, <2>4 DEF task_block, AppTasks
  <2>6. ASSUME NEW u \in AppTasks, task_unblock(t, u)
        PROVE  SleepInv'
    BY <2>6, <2>4 DEF task_unblock, AppTasks
  <2> QED
    BY <1>14, <2>1, <2>2, <2>3, <2>5, <2>6 DEF TaskStep
<1> QED
  BY <1>4, <1>5, <1>6, <1>7, <1>8, <1>9, <1>11, <1>12, <1>13, <1>14
     DEF Next, Boot, Switch, os_schedule_next

(* Every sleep lies as far ahead as it has left, or was held up: the       *)
(* inductive invariant behind NeverEarly and WokenOnTime.                  *)
THEOREM SleepInvariant ==
  ASSUME ~MaskedSleep, MaxSleep < TickModulus \div 2
  PROVE  TimingSpec => []SleepInv
<1>1. TimingInit => SleepInv
  BY TickAssumption
     DEF TimingInit, RefInit, Init, SleepInv, NeverEarly, BeforeStart, NoTick
<1>2. SchedulerInv /\ SleepInv
        /\ [Next /\ DemotedNext /\ TimingNext]_timingVars => SleepInv'
  <2> SUFFICES ASSUME SchedulerInv, SleepInv,
                      [Next /\ DemotedNext /\ TimingNext]_timingVars
               PROVE  SleepInv'
    OBVIOUS
  <2>1. CASE Next /\ TimingNext
    BY <2>1, SleepStep
  <2>2. CASE UNCHANGED timingVars
    BY <2>2 DEF timingVars, vars, table, sched, SleepInv, NeverEarly, OnTime, Ahead
  <2> QED
    BY <2>1, <2>2
<1> QED
  BY <1>1, <1>2, TimingImpliesCore, PTL DEF TimingSpec

(* os_sleep never returns early, for any width of the tick counter of      *)
(* which no sleep takes half, if nobody sleeps in a section it masks.      *)
THEOREM SleepIsNeverEarly ==
  ASSUME ~MaskedSleep, MaxSleep < TickModulus \div 2
  PROVE  TimingSpec => []NeverEarly
<1>1. SleepInv => NeverEarly
  BY DEF SleepInv
<1> QED
  BY <1>1, SleepInvariant, PTL

(* The SysTick at the end of a sleep wakes the task, unless it was held up *)
(* for almost half the range of the counter.                               *)
THEOREM SleepEndsOnTime ==
  ASSUME ~MaskedSleep, MaxSleep < TickModulus \div 2
  PROVE  TimingSpec => []WokenOnTime
<1>1. SchedulerInv /\ SleepInv => WokenOnTime
  <2> SUFFICES ASSUME SchedulerInv, SleepInv, NEW t \in Tasks,
                      task_state[t] = "SLEEPING", remaining[t] <= 1, ~missed[t]
               PROVE  task_has_wakeup_tick_expired(g_os_ticks + 1, wakeup_tick[t])
    BY DEF WokenOnTime
  <2> DEFINE w == wakeup_tick[t]
             now == g_os_ticks
  <2>1. w \in Ticks /\ now \in Ticks /\ remaining[t] \in 0 .. MaxSleep
    BY DEF SchedulerInv, TypeOK, SleepInv
  <2>2. /\ remaining[t] > 0 => Ahead(w) = 1
        /\ ~(remaining[t] > 0) => Ahead(w) = 0 \/ Ahead(w) > TickModulus \div 2 + 1
    BY <2>1, TickAssumption DEF SleepInv, OnTime
  <2> QED
    BY <2>1, <2>2, ExpiresNext DEF Ahead
<1> QED
  BY <1>1, SleepInvariant, TimingImpliesCore, PTL

=============================================================================
