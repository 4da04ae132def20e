-------------------------- MODULE SchedulerTiming --------------------------
(***************************************************************************)
(* How long tasks sleep and wait: Scheduler with three more history        *)
(* variables, next to the one of SchedulerRefinement, so that one run      *)
(* checks all that there is to say of a step of the kernel core.           *)
(***************************************************************************)
EXTENDS SchedulerRefinement

VARIABLES
  remaining,   \* ticks until the last os_sleep of t may return
  missed,      \* was that call held up beyond what a tick count can order?
  overtaken    \* tasks dispatched since t became READY

timingVars == <<vars, demoted, remaining, missed, overtaken>>

TimingInit ==
  /\ RefInit
  /\ remaining = [t \in Tasks |-> 0]
  /\ missed = [t \in Tasks |-> FALSE]
  /\ overtaken = [t \in Tasks |-> {}]

StartsSleep(t) == sleep_until[t] = NoTick /\ sleep_until'[t] # NoTick

(* Between reading the tick and going to sleep t may be preempted.  Its    *)
(* wakeup tick lies ahead by at most MaxSleep; once the next SysTick finds *)
(* it half the counter behind, it takes it for a future one.               *)
TooLate(t) ==
  /\ sleep_until'[t] # NoTick
  /\ (sleep_until'[t] - g_os_ticks') % TickModulus
        \in MaxSleep + 1 .. TickModulus \div 2 + 1

TimingNext ==
  /\ remaining' = [t \in Tasks |->
       IF StartsSleep(t)
         THEN (sleep_until'[t] - g_os_ticks) % TickModulus
       ELSE IF g_os_ticks' # g_os_ticks /\ remaining[t] > 0
         THEN remaining[t] - 1
       ELSE remaining[t]]
  /\ missed' = [t \in Tasks |-> TooLate(t) \/ (missed[t] /\ ~StartsSleep(t))]
  /\ overtaken' = [t \in Tasks |->
       IF task_state'[t] # "READY" THEN {}
       ELSE IF cpu = "commit" /\ cpu' # "commit" THEN overtaken[t] \cup {next_task}
       ELSE overtaken[t]]

TimingSpec == TimingInit /\ [][Next /\ DemotedNext /\ TimingNext]_timingVars

TimingFairSpec == TimingSpec /\ Fairness

(***************************************************************************)
(* os_sleep never returns early, wherever the tick counter wraps and       *)
(* however long the task is preempted between reading the tick and going   *)
(* to sleep: until its time is over, the task sleeps or is about to.  It   *)
(* takes MaxSleep < TickModulus \div 2, as the comment in                  *)
(* task_has_wakeup_tick_expired says.                                      *)
(***************************************************************************)
NeverEarly ==
  \A t \in Tasks : remaining[t] > 0 =>
    sleep_until[t] # NoTick \/ task_state[t] = "SLEEPING"

(***************************************************************************)
(* ... and does not oversleep: once its time is over, a task that still    *)
(* sleeps is woken by the next SysTick, unless it was held up for almost   *)
(* half the range of the counter on its way to sleep.                      *)
(***************************************************************************)
WokenOnTime ==
  \A t \in Tasks :
    task_state[t] = "SLEEPING" /\ remaining[t] <= 1 /\ ~missed[t] =>
    task_has_wakeup_tick_expired(g_os_ticks + 1, wakeup_tick[t])

(***************************************************************************)
(* Round robin: while a task is READY, no other task, idle included, is    *)
(* dispatched twice, whatever yields, sleeps, wakeups and SysTicks in the  *)
(* middle of a scan come in between.                                       *)
(***************************************************************************)
NobodyOvertakesTwice ==
  cpu = "commit" =>
    \A t \in AppTasks : task_state[t] = "READY" => next_task \notin overtaken[t]
-----------------------------------------------------------------------------
(* The inductive invariants behind the three (SchedulerProofs).            *)

BeforeStart == {"task_system_init", "task_create", "os_scheduler_init",
                "os_context_switch_init", "os_scheduler_start"}

(* How many ticks lie ahead of a wakeup tick, round the counter.           *)
Ahead(tick) == (tick - g_os_ticks) % TickModulus

(* A wakeup tick lies as far ahead as the sleep of t has left, or it has   *)
(* passed less than half the range of the counter ago.                     *)
OnTime(t, tick) ==
  IF remaining[t] > 0 THEN Ahead(tick) = remaining[t]
  ELSE missed[t] \/ Ahead(tick) = 0 \/ Ahead(tick) > TickModulus \div 2 + 1

SleepInv ==
  /\ remaining \in [Tasks -> 0 .. MaxSleep]
  /\ missed \in [Tasks -> BOOLEAN]
  /\ cpu \notin BeforeStart => g_scheduler_state = "RUNNING"
  /\ \A t \in Tasks :
       /\ remaining[t] > 0 => g_context_switch_started
       /\ sleep_until[t] # NoTick => OnTime(t, sleep_until[t])
       /\ task_state[t] = "SLEEPING" =>
            g_context_switch_started /\ OnTime(t, wakeup_tick[t])
  /\ NeverEarly

(* How far behind t the task u stands in the ring that the scan goes round. *)
Behind(t, u) == IF u > t THEN u - t ELSE u + NumTasks - t

(* The tasks dispatched while t is READY stand between t and the current   *)
(* one, and the scan finds t before it finds any of them again.            *)
TurnInv ==
  /\ overtaken \in [Tasks -> SUBSET Tasks]
  /\ cpu \in BeforeStart => \A t \in Tasks : overtaken[t] = {}
  /\ cpu = "commit" => task_state[next_task] = "RUNNING"
  /\ \A t \in Tasks : task_state[t] # "READY" => overtaken[t] = {}
  /\ \A t \in AppTasks : overtaken[t] # {} =>
       /\ t # g_current_task_id
       /\ \A u \in overtaken[t] : Behind(t, u) <= Behind(t, g_current_task_id)
       /\ cpu = "scan" => offset <= Behind(g_current_task_id, t)
       /\ cpu = "commit" => Behind(t, g_current_task_id) < Behind(t, next_task)
=============================================================================
