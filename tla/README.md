# A TLA+ model of MELK OS

MELK OS (`src/`) is a small preemptive kernel for the TM4C123GH6PM (ARM Cortex-M4, one core):
a task table, a round-robin scheduler with time slices, sleeping tasks, a mutex, a counting
semaphore and a message queue, with the boot code, the drivers and the demo tasks that use them. This directory holds TLA+ modules translated from its code, the
TLC configurations that check them on small instances, and proofs that TLAPS checks for every
value of the constants.

Contents: [the system](#the-system), [modules](#modules-and-their-correspondence-to-the-code),
[runs](#what-each-run-checks), [bounds](#bounds), [fairness](#fairness), [findings](#findings),
[proofs](#proofs), [what is not modelled](#what-is-not-modelled), [plan](#plan).

## The system

| Component | State | Operations | Interacts with |
|---|---|---|---|
| Task table (`kernel/task.c`) | `g_task_table` (state, wakeup tick, stack pointer of each task), `g_task_count` | `task_system_init`, `task_create`, `task_sleep_until`, `task_block`, `task_unblock`, `task_set_stack_pointer`, `task_wake_expired_sleeping_tasks` | called by the scheduler, the context switch and the services |
| Scheduler (`kernel/task_scheduler.c`) | `g_current_task_id`, `g_scheduler_state`, `g_preemption_enabled`, `g_scheduler_tick_count` | init, start, `os_schedule_next`, `os_yield`, `os_sleep`, enable/disable preemption, `os_scheduler_tick` | called by tasks, by SysTick and by PendSV |
| Context switch (`kernel/context_switch.c`, `context_switch_asm.asm`) | `g_context_switch_started`, PSP, the pending bit of PendSV, PRIMASK | `SVC_Handler`, `PendSV_Handler`, `os_trigger_context_switch`, `os_irq_save/restore` | hardware exceptions; calls the scheduler |
| System tick (`drivers/systick.c`) | `g_os_ticks` (32 bits, wraps), SysTick's reload value | `systick_init`, `systick_handler` | calls `os_scheduler_tick` |
| Mutex (`kernel/mutex.c`) | `is_locked`, `owner_task_id`, `waiting_task_mask` | init, lock, unlock | blocks and unblocks tasks |
| Counting semaphore (`kernel/semaphore.c`) | `count`, `maximum_count`, `waiting_task_mask`, `granted_task_mask`, `last_granted_task_id` | init, wait, post | blocks and unblocks tasks |
| Message queue (`kernel/message_queue.c`) | ring storage, `head`, `tail`, one mutex, two semaphores | init, send, receive | calls mutex and semaphores |
| Startup and demos (`kernel/kernel.c`) | demo tasks, debug counters | `kernel_main`, `app_task_1..3` and the worker, producer and consumer they run | call everything |
| Printing (`kernel/printk.c`) | none | `kernel_print`, `kernel_print_uint32` | calls the UART driver |
| UART driver (`drivers/uart.c`) | baud rate divisors, transmit FIFO | `uart0_init`, `uart0_write_char`, `uart0_write_string` | asks `system_get_clock_hz`; the UART empties the FIFO |
| GPIO driver (`drivers/gpio.c`) | the data register of port F | `gpio_init`, three toggles | called by the demo tasks |
| System clock (`system/system.c`) | RCC2, PLL lock, flash wait states | `SystemInit`, `system_get_clock_hz` | called by `Reset_Handler`, asked by UART and SysTick |
| Boot (`boot/`) | vector table, initialised RAM | `Reset_Handler` | runs before `kernel_main` |

### What is hard about it

Three kinds of code share the task table. Tasks run in thread mode and mask interrupts with PRIMASK
around each critical section. SysTick and SVC run at the highest priority in use. PendSV, which
switches tasks, has the lowest, so **SysTick preempts PendSV** anywhere: between saving the outgoing
task's stack pointer and choosing the next task, in the middle of the scan of the table, between
marking the chosen task `RUNNING` and storing `g_current_task_id`. SysTick may wake a task that the
scan has already passed, and may pend the next PendSV before the present one has ended. None of this
can be provoked reliably by a test on the board.

The other hard parts: `os_sleep` reads the tick before it masks interrupts, so its wakeup tick may be
old when it is stored; ticks wrap; a task that blocks must not execute one more instruction, and must
not miss the wakeup that comes before PendSV has taken it off the CPU; the mutex and the semaphore
hand over directly to a waiter, and the waiter finds out what happened to it only when it runs again;
a queue operation is a sequence of calls of other services that can be preempted, or fail, between any
two of them. A demo task waits for two objects in turn, and its state `BLOCKED` does not say for
which. The UART and the LEDs are shared: a line of output is dozens of calls that look at the FIFO and
then write to it, and an LED's toggle is a load and a store of the register of all three LEDs. Startup
depends on hardware that answers in its own time (the PLL, the peripherals), runs with SysTick on for
its second half, and starts from whatever RAM a reset left. `PROJECT.json` lists these hazards at their lines with the properties that cover each.

### What makes each component correct

* Task table and scheduler: whoever executes is `RUNNING` and nobody else is; every `READY` task is
  reached; a sleeping task is woken in time and not before; a task that waits for a resource is not
  woken by the clock; there is always a task to run.
* Context switch: no task ever loses its registers or resumes from an old frame.
* Mutex: one owner, who knows it; no waiter forgotten, none passed twice; every lock returns.
* Semaphore: units neither lost nor created; no unit idle while somebody waits; fair handoff.
* Queue: a bounded FIFO, each message delivered whole and once; a failed call has no effect; senders
  and receivers never wait for each other in a circle.
* Demos: the error and violation counters stay zero, which is what the documentation tells the reader to
  watch; every task makes progress; a wait for one object is not ended by another.
* Output: every line arrives whole, once and in order.
* Startup: the CPU leaves the oscillator only for a locked PLL and with enough wait states; UART and
  SysTick get the right rates; no switch is requested before the first task runs; the first task runs.

## Modules and their correspondence to the code

```
 SchedulerProofs                                   Startup <- StartupProofs
      |
 SchedulerTiming                                   ServiceProofs (about TaskLayer, Mutex,
      |                                                           Semaphore; used by the
 SchedulerRefinement ==> TaskLayer <- Leds                        proofs below)
      |                 /     |     \
  Scheduler        Mutex  Semaphore  MessageQueue ==> BoundedFifo
                     |        |            |
                     |        |       QueueDemo <- MessageQueueProofs
                     |        |
                     |        +-- SemaphoreDemo <- SemaphoreDemoProofs
                     |        +-- SemaphoreTasks <- SemaphoreProofs, SemaphoreFairness
                     |
                     +-- Console ==> MutexTasks   <- ConsoleProofs
                     +-- MutexTasks <- MutexProofs, MutexFairness      (==> implements)
```

SemaphoreDemo extends Semaphore and takes an instance of Mutex for the console; QueueDemo extends
MessageQueue, which takes one instance of Mutex and two of Semaphore, and takes another Mutex for the
console; Console extends Mutex.

**Scheduler** is the kernel core in detail. A variable of the model is the C variable of the same
name; a field of a control block is a function of the task. `cpu` says what the processor does: a
step of `kernel_main`, a step of `os_schedule_next`, the last part of PendSV (`restore`), or `thread`.
`psp` is the task whose stack PSP points into. `saved_context[t]` abstracts a stack: it is TRUE when
the stack pointer in t's control block points to a frame that holds t's registers; loading it onto
the CPU makes it stale, saving makes it true again.

* `task_system_init` ... `os_scheduler_enable_preemption`, `SVC_Handler` are the calls of
  `kernel_main` in their order. SysTick may come between any two of them. (In the code it has been
  running since before `kernel_main`; it then only counts.)
* `SysTick_Handler` is `systick_handler` whole: the tick, the scan for expired sleepers, the switch
  when idle runs, the time slice. It is one step because nothing preempts it.
* `PendSV_Handler`, `DemoteCurrent`, `ScanSkip`, `ScanSelect`, `SelectIdle`, `CommitCurrent`,
  `RestoreContext` are PendSV, cut at each access to data that SysTick shares. The first action takes
  the pending bit and saves the context; `os_schedule_next` puts a `RUNNING` task back to `READY`,
  visits `(current + offset) % task_count`, marks the choice and stores its id; then the context is
  loaded. `os_scheduler_start` goes through the same steps before the first task.
* `os_yield`, `os_sleep_read_tick` and `os_sleep_commit` (the two halves of `os_sleep`, since it can
  be preempted in between), `os_irq_save`, `os_irq_restore`, `task_block`, `task_unblock`,
  `TogglePreemption` are what tasks do. A section with interrupts masked inside a service is one
  step; `task_block` and `task_unblock` here are the sections of the services, seen from the core.
* `Executing(t)` is the condition for a task to take a step: it owns the CPU in thread mode, and no
  PendSV is pending that the hardware would take first.

**SchedulerRefinement** adds the history variable and the mapping under which Scheduler implements
TaskLayer: the abstract switch happens when `os_schedule_next` marks the task it has found; until then
the outgoing task still counts as `RUNNING`. **SchedulerTiming** extends it by history variables for
the ticks until a sleep may end and for who was dispatched while a task was `READY`.

**TaskLayer** is the abstract specification of the core: task states, the current task, the pending
switch, PRIMASK; a switch is one step, SysTick is "some sleepers wake". It also defines the part of
the core that services use (`task_block`, `task_unblock`, `os_trigger_context_switch`) and the search
that both services make for the task to wake (`FirstBlocked`, `WithoutStale`): round robin from a
given task, skipping idle and tasks that are not `BLOCKED`, clearing the bits it finds stale.

**Mutex** and **Semaphore** model the services as objects on top of TaskLayer. An action is one
critical section with the result the call returns; one turn of the loop in `os_mutex_lock` that ends
in blocking has the result `"BLOCKED"`, and the task takes the next turn when it runs again. The bit
masks are sets of tasks. **MutexTasks** and **SemaphoreTasks** are the tasks that use one such object
in every way an application task can, wrong uses included: recursive locks, unlocking what one does
not own, calls with interrupts masked, posts beyond the maximum, sleeping while owning. `holding`,
`using` and `ledger` record what the tasks know from the results they got. **MutexFairness** and
**SemaphoreFairness** add history variables for bounded bypass.

**MessageQueue** composes one Mutex and two Semaphores (`INSTANCE ... WITH`) with the ring. A call
goes through `wait`, `lock`, `copy`, `advance`, `unlock`, `post`, or from a failed `lock` to
`give_back`. The copy of a message is two steps, with the slot (for a sender) holding `Garbage` in
between and the receiver's copy compared at its end, so that an overlap would show. **BoundedFifo** is
what it promises; the refinement mapping makes a call take effect when it moves the index.

**SemaphoreDemo** is `kernel_run_semaphore_worker`: wait for a slot, count in, write a line under
`g_console_mutex`, sleep with the slot, write another, count out, post, rest. **QueueDemo** is
`kernel_run_queue_producer` and `kernel_run_queue_consumer` with the sequence numbers, the checks of the
consumer and the lines both write. The debug counters of `kernel.c` that mean trouble are variables;
those that count successes are left out.

**Console** is the demo that is built if the other two are disabled (`kernel.c` as it stands enables the message
queue demo): `kernel_write_task_event` with the mutex, `kernel_print` and
`kernel_print_uint32` down to `uart0_write_char`, whose look at TXFF (`PollFifo`) and write (`WriteChar`)
are two steps, and the UART that sends (`UartSends`). A line is the name of the task, the decimal digits of a
tick count and CR LF; the constant words in between are left out. The digits are made as the code makes
them, least significant first and then reversed, and read back by another definition (`ReadLine`).
`UsesMutex` maps it to MutexTasks. **Leds** is the toggles of `gpio.c` as the load and the store that
`^=` is.

**Startup** goes from reset to the first task. `SystemInit` is bypass, PLL configuration, wait states,
the bounded wait for the lock one poll at a time, and the choice of the clock; `PllLocks` may come between any
two steps or never. `gpio_init` and `uart0_init` enable clocks, spin until a peripheral says that it is
ready, and touch its registers (`Access` goes to `"fault"` if it is not). `systick_init` validates the
clock; from there on `SysTick_Handler` interrupts, with the guards of `os_scheduler_tick`. `Reset` may
come at any step, also under running tasks; it clears registers and keeps RAM, and `Reset_Handler` clears
the kernel's static variables. `SYSTEM_CLOCK_HZ` is chosen in the initial state among the values that the
`#error` directives let pass, so that one run covers all builds.

## What each run checks

The constants are numbers, Booleans and sets of tasks, so the configurations instantiate the modules
directly. Task ids are ordered (the searches are round robin), so no symmetry set is used; `Messages`
are model values, but liveness or refinement rules symmetry out there as well. Every run checks
for deadlock.

| Run | Module | States | Shows |
|---|---|---|---|
| `sched_core` | SchedulerTiming | 384k | From boot on, two tasks and idle that need not cooperate and switch preemption off and on at will, with SysTick anywhere in a switch. No registers are lost (`ContextsSaved`), whoever executes is `RUNNING` (`ExecutingIsRunning`), the clock never wakes a task that waits for a resource (`WakeupTickOnlyWhileSleeping`), sleeps are not cut short (`NeverEarly`) and end with the first tick that may end them (`WokenOnTime`), nobody is dispatched twice while another task is `READY` (`NobodyOvertakesTwice`); the invariant that is proved holds (`SchedulerInv`; among others there is always a task to run, `AlwaysATask`), and every step is a step of TaskLayer (`ImplementsTaskLayer`). Once preemption stays on, every `READY` task runs (`ReadyTasksRun`), and every sleeper wakes and runs (`SleepersWake`). |
| `mutex` | MutexFairness | 1033 | Three application tasks that use a mutex in every way: the owner knows that it is (`OwnerAgrees`), every blocked task will be found (`NoLostWakeup`), nobody gets the mutex twice while another waits (`NobodyPassesTwice`), every lock returns (`LockReturns`). |
| `semaphore_signal` | SemaphoreFairness | 187k | Four tasks, count 0 to 2, anybody posts: units are conserved through grants and overflows (`UnitsConserved`), nobody is served twice while another waits (`NobodyServedTwice`). |
| `semaphore_demo` | SemaphoreDemo | 62k | Three workers, two slots, one console: the demo's counters of violations and errors stay zero (`NoPoolViolation`), a `BLOCKED` task waits for the object whose call it is in, no other object has its waiting bit, and the waits never close a circle (`WaitsForOneObject`), everyone gets a slot again and again (`EveryoneGetsASlot`). |
| `queue_ring` | MessageQueue | 743k | A task that sends and one that sends and receives, on a ring of two slots, who may mask interrupts so that a lock fails: the invariant that is proved holds (`QueueInv`), the semaphores and the ring agree (`SlotsAccounted`), a bounded FIFO is implemented (`ImplementsFifo`), waiting has a reason and, if everybody waits, the same one (`WaitsForAReason`). |
| `queue_demo` | QueueDemo | 43k | A producer and a consumer that also share the console: no gap in the sequence numbers and no error (`NoQueueErrors`), the messages between the two counters are where they should be (`MessagesAccounted`), the waits for a slot, a message and the two mutexes never close a circle (`NoDeadlock`), and messages keep arriving (`EveryProducerHeard`). |
| `console` | Console | 6764 | Two tasks write lines through a FIFO: the lines arrive whole and in order (`LinesArrive`), the demo's counters stay zero (`NoMutexViolation`), the tasks keep to the protocol of MutexTasks (`UsesMutex`), everyone gets its lines out (`EveryoneWrites`). |
| `startup` | Startup | 5208 | Fourteen clocks, a PLL that locks at any time or never, two resets: the CPU leaves the oscillator only safely (`ClockSafe`) and, when it has, UART and SysTick have the right rates (`RatesRight`); `NoSwitchDuringBoot`, `NoBusFault`, the invariant that is proved (`StartupInv`), and the first task starts (`BootCompletes`). |
| `idle_misses_wakeup`, `masked_sleep_returns` | Scheduler | | Violations, see [findings](#findings). |
| `toggle_lost` | Leds | | Violation, see [findings](#findings). |
| `baud_without_pll` | Startup | | Violation, see [findings](#findings). |

Each property of a passing run is also checked to be sensitive to the code: `PROJECT.json` names for
each a plausible bug ("mutant") under which the run fails. The mutated forms (a search that does not
wrap, a lost switch request, a control block counted before it is READY, a lock result that is ignored ...) are written
before the definitions they change.

## Bounds

* *Tasks.* Three or four application tasks, and idle, for the services and the semaphore demo, where
  properties are about who goes first among several; two where "another one" is enough: in the core (whose
  safety properties are all proved for any number of tasks), in the console, and in `queue_ring`, where one
  of the two has both roles. `OS_MAX_TASKS` is 8. All safety invariants
  but `LinesArrive` are proved for any number.
* *Time slice* `SLICE = 2` instead of 10: one tick that does not end the slice and one that does.
* *Tick counter* `TickModulus = 8` instead of 2^32, `MaxSleep` 3 (2 in the runs that show a violation): a sleep of one tick and of
  more, wakeup ticks before and behind the wrap, and a preemption inside `os_sleep` longer than the
  sleep itself. What matters for the wrap-safe comparison is that sleeps are shorter than half the
  range, as in the code's comment (`task.c:36`).
* *Queue.* Two slots, as in one of the two configurations of `kernel.c` (the other has four): order, a
  wrap of the indices, and a sender and a receiver that contend for the mutex, which one slot would
  rule out. Two contents of messages in `queue_ring`, so that reordering or duplication shows; in
  `queue_demo` sequence numbers modulo 4, more than can be under way at once. `queue_demo` has one
  producer: with two, as in `kernel.c`, there are 17 million states, too many for a liveness check. The
  safety properties of that instance were checked separately and hold.
* *Semaphore* maximum 2 (the demo's). `ledger` is bounded by the count.
* *Console.* A FIFO of two characters instead of 16, which is empty, half full and full in turn; tick counts 0 and 10: one
  digit and two, a zero by itself and one at the end.
* *Startup.* A wait for the lock of at most 3 polls instead of 1,000,000: the lock comes in time, in the last
  poll, or too late. All fourteen legal clocks. Two resets after power-on: a reset during startup and
  one under running tasks, in either order.

## Fairness

*Scheduler.* SysTick and PendSV requests are latched by hardware while PRIMASK is set, and are taken
as soon as it is clear: strong fairness for `SysTick_Handler` and for the steps of PendSV. (Those are
preempted by SysTick, and cannot be disabled by it.) `kernel_main` runs on: weak fairness. A task that has the CPU ends a
masked section and leaves `os_sleep`: weak fairness for each task. Nothing obliges a task to yield,
sleep, block or unblock: `ReadyTasksRun` holds because the time slice ends. Tasks may switch preemption
off and on, and the two properties say what follows if they stop doing so with preemption on
(`PreemptionStaysOn`): every call of `os_scheduler_enable_preemption` restarts the slice
(`task_scheduler.c`), so a task that kept calling it would keep the CPU.

*Services and demos.* The fairness of MutexFairness, Console, SemaphoreDemo and QueueDemo is what
`sched_core` shows of the core, restated for TaskLayer: a switch is requested again and again (time
slices), a task that is `READY` at infinitely many switches gets the CPU in a state in which no further
switch is pending (a switch is much shorter than a slice of 10 ticks), sleepers wake, masked sections
end, and a task that gets the CPU again and again goes on with its code. Strong fairness is needed
because all of this is disabled every time another task is on the CPU. In MutexFairness it is assumed that owners
unlock, as the demo tasks do; a task that is not inside a call owes nothing. In the demos nothing is
assumed of the tasks but that they execute: that they give back what they took is in their code. In Console the
UART goes on sending.

*Startup.* The CPU executes, and a peripheral whose clock is enabled becomes ready, which the code
waits for without a bound. Nothing obliges the PLL to lock. Resets are bounded in number.

## Findings

1. **Idle can miss a wakeup** (`idle_misses_wakeup`, `task_scheduler.c:306`). `os_scheduler_tick`
   switches at once if idle runs and a task wakes up; its comment says that this avoids waiting for a
   full time slice. If SysTick preempts PendSV after the scan has passed the sleeper,
   `g_current_task_id` is still the outgoing task, no switch is requested, and PendSV goes on to
   select idle: idle runs until its slice ends, with a task `READY`. If preemption has been disabled at run
   time, which nothing in the repository does, there is no slice to end, and the task, being `READY`,
   is not woken a second time.
2. **`os_sleep` with interrupts masked returns at once** (`masked_sleep_returns`,
   `task_scheduler.c:251`). The caller goes on as `SLEEPING`. `os_mutex_lock` and `os_semaphore_wait`
   refuse such callers; `os_sleep` does not. All other properties of the core that depend on it
   (`ExecutingIsRunning`, the refinement) are stated for callers that do not do so (`MaskedSleep = FALSE`);
   `ContextsSaved` and `AlwaysATask` are proved without that assumption.

3. **A toggle can undo another task's toggle** (`toggle_lost`, `gpio.c:95`, also 70 and 100).
   `GPIO_PORTF_DATA_R ^= LED` reads and writes back all three LEDs, and interrupts are not masked. If the
   task is preempted between the two and the others toggle theirs meanwhile, the store restores their old
   state; such an LED is inverted from then on. The README gives each task a LED to toggle, and the tasks toggle outside
   of the section that the console's mutex protects. The register has bit-masked addresses that would avoid it.

4. **Without the PLL the baud rate is wrong** (`baud_without_pll`, `uart.c:104`, `system.c:114`). If the PLL does
   not lock in time, the CPU stays on the 16 MHz oscillator, as a comment in `system.c` says, and
   `system_get_clock_hz` returns `SYSTEM_CLOCK_HZ` all the same. `uart0_init` computes the divisors for a clock
   that does not run, against its comment (`uart.c:102`) and the README of the repository, which speak of the
   active clock; at 80 MHz, the console sends at a fifth of 115200 baud. SysTick's reload value comes from
   the same function, so its millisecond is five long. `RatesRight`, which is proved, is therefore
   stated for a CPU that runs from the PLL.

## Proofs

| Module | Theorem | Statement |
|---|---|---|
| SchedulerProofs | `InvariantHolds`, `TypesHold`, `ContextsAreSaved`, `OnlyRunningTaskExecutes`, `SomethingToRun`, `TicksWakeOnlySleepers` | `Spec => []SchedulerInv` and what follows from it |
| | `RefInvariantHolds`, `CoreImplementsLayer` | `RefSpec => ImplementsTaskLayer`: every step of the core is a step of TaskLayer or stutters |
| | `TurnsInvariant`, `RoundRobinIsFair` | `TimingSpec => []NobodyOvertakesTwice` |
| | `SleepInvariant`, `SleepIsNeverEarly`, `SleepEndsOnTime` | `TimingSpec => []NeverEarly`, `[]WokenOnTime` |
| ServiceProofs | `LayerInvariant`, `OffsetIsModulo`, `OffsetInjective` | the layer's invariant; the visiting order of the searches is the code's `(from + offset) % task_count`; what a call of mutex and semaphore does, for whoever uses them |
| MutexProofs | `MutexInvariant`, `MutexTypes`, `OwnershipIsExclusive`, `NoWakeupIsLost` | `MSpec => []MutexInv` and its parts |
| | `PassedInvariant`, `HandoffIsFair` | `PSpec => NobodyPassesTwice` |
| SemaphoreProofs | `SemaphoreInvariant`, `UnitsAreConserved`, `NoWaiterIsForgotten`, `PoolAddsUp` | `SSpec => []SemaphoreInv` and its parts; as a pool, units free, reserved and in use add up |
| | `ServedInvariant`, `ServiceIsFair` | `FSpec => NobodyServedTwice` |
| MessageQueueProofs | `QueueInvariant`, `NothingLeaks`, `BlockedForAReason`, `QueueIsFifo` | `QSpec => []QueueInv`, `[]SlotsAccounted`, `[]WaitsForAReason`, `ImplementsFifo` |
| | `QueueDemoInvariant`, `NothingGoesWrong`, `EveryMessageAccounted` | for QueueDemo: `DemoSpec => []DemoInv`, `[]NoQueueErrors`, `[]MessagesAccounted` |
| | `DemoQueueIsFifo`, `DemoNeverDeadlocks` | for QueueDemo: `DemoSpec => ImplementsFifo`, `[]NoDeadlock` |
| SemaphoreDemoProofs | `DemoInvariant`, `PoolIsNeverViolated`, `OneWaitAtATime` | `DemoSpec => []DemoInv`, `[]NoPoolViolation`, `[]WaitsForOneObject` |
| ConsoleProofs | `ConsoleInvariant`, `SectionIsExclusive`, `ConsoleUsesMutex` | `ConsoleSpec => []ConsoleInv`, `[]NoMutexViolation`, `UsesMutex` |
| StartupProofs | `StartupInvariant`, `ClockIsSafe`, `RatesAreRight`, `BootIsNotSwitched`, `PeripheralsAreReady` | `StartupSpec => []StartupInv` and what follows from it |

They hold for every number of tasks, slice, counter width, initial and maximum count, capacity of the
ring, depth of the FIFO, legal clock and length of the wait for the PLL that satisfy the named assumptions (`NumTasksAssumption`, `SliceAssumption`, `TickAssumption`, `SwitchAssumption`,
`CountAssumption`, `QueueAssumption`, `SequenceAssumption`, `RolesAssumption`, `StartupAssumption`), which TLC evaluates in each run.

*The core.* `ContextsSaved` and `ExecutingIsRunning` are not inductive: whether PendSV may load a
task's stack depends on how far the handler has come. `SchedulerInv` adds `BootProgress` (how much
of the state has been set up at each step of `kernel_main`; PRIMASK is set only in thread mode),
`ContextPlaces` (between save and restore the registers of the task PSP points to are in memory) and
`RunningPlaces` (which task is `RUNNING` at each step of a switch: the outgoing one until it is
demoted, nobody during the scan, the chosen one from then on). `TypeStep`, `BootStep`, `ContextStep`
and `RunningStep` prove that each part is preserved, one step per action. `RunningPlaces` needs
`~MaskedSleep`; the other parts do not.

*The refinement.* `CoreImplementsLayer` takes `~MaskedSleep` and maps steps one by one: until SVC_Handler
has run the layer does not move (`BootMaps`), which needs that the first `os_schedule_next` chooses the
first application task (`FirstChoice`: all tasks are `READY` and the scan starts behind idle); a tick is a
`Wake`, a `RequestSwitch` or nothing (`TickMaps`); PendSV is invisible up to its choice and from there on
(`HandlerMaps`), and the choice is `Dispatch` (`ChoiceMaps`), since nobody is `RUNNING` in the table during
the scan; task steps map to their namesakes (`TaskMaps`). With it, what is proved of MutexTasks and
SemaphoreTasks over the layer is about this core.

*Round robin.* `TurnInv` is an argument about the ring of tasks. While a task r is `READY`, the tasks
dispatched since form an arc that ends at the task on the CPU, and r lies ahead of them: whoever has had a
turn is nearer to the start of the arc than the scan is. A scan visits the tasks in the order of their
offsets from the outgoing one and takes the first that is `READY`; so it cannot reach a task of the arc
without passing r. A wakeup, a yield or a tick changes who is `READY` and never the order.

*Sleep.* `SleepInv` relates a wakeup tick, the counter and the history variable that counts the ticks
left: their difference modulo the width is the number left, as long as it is less than half the range,
which is how the code compares (`task.c:36`). It needs that no sleep is longer than half the range
(`MaxSleep < TickModulus \div 2`, the code's own restriction) and that SysTick is not masked around
a sleep (`~MaskedSleep`). What happens between reading the tick and storing the wakeup tick in `os_sleep` is
part of the argument: the stored tick may have passed, and the next SysTick then wakes the task. Only a task
that is held up there for almost half the range of the counter is woken late; the history variable `missed` marks it.

*The layer.* `OneRunning` says that whoever can execute is `RUNNING`; with idle always `READY` or
`RUNNING` and the types it is inductive.

*Mutex.* `OwnerAgrees` and `NoLostWakeup` strengthen each other: the waiting bit of a task tells a
handoff from a recursive lock only because it is set exactly while the task is inside a lock, and a
blocked waiter is found only because its bit is set. The lemma `SearchFinds` (the search returns a
blocked waiter if there is one) rests on the offsets of different tasks being different
(`OffsetInjective`), `NothingStale` on every waiting task being blocked; `LockStep` and `UnlockStep` do the rest.

*Semaphore.* The same, with cardinalities: a unit is in the count or reserved for exactly one granted
task (`UnitsConserved`), granted and waiting are disjoint, and while somebody waits the count is zero.

*Message queue.* `QueueInv` is about who stands where in a call: the mutex belongs to the task between
lock and unlock, or to one that has been handed it and does not know yet; each unit of `empty` and `full` is in
the count, granted, or carried by a task at a known step (`SlotsAccounted`); the index and the slot in use by a
half-finished copy are no other task's. A failed lock sends the task to `give_back`, which posts what it
took. The frame of the proof is one lemma for each call of a mutex or a semaphore that says what the call
leaves alone in the other two objects. The refinement maps the ring to a sequence: `stored` and
`head` move together with the count of slots, so a message put in at `tail` is appended, one taken at
`head` is the first, and neither is overwritten while it is under way.

*The demos.* SemaphoreDemo's `SlotsAddUp` (count, granted units and users make the number of slots)
gives the bound of users that the demo counts, and `ConsoleOwned` says who has the console. That one table
entry `BLOCKED` serves two objects is harmless because a task is in one waiting set only, the one
of the call where it stands (`Inscribed`). Console's `SectionOwned` is the same for the mutex alone; from it
each step of a task is a step of MutexTasks, with `Lock`, `Unlock` and `Sleep` mapped to their namesakes
and the characters of a line to stuttering.

QueueDemo's `DemoInv` adds two things to `QueueInv`. `DemoPlaces` says where each task is in its loop, in
the queue and at the console, so that no call can fail: interrupts are enabled, nobody locks what it owns or
unlocks what it does not (`ContinueSound`, `RecordSound`, `LockSound`, `UnlockSound`). `RingNumbered` says that, going
through the ring from `head`, the messages of a producer bear consecutive numbers: the first is the one the consumer
expects next (or the one after it, if the consumer holds a message it has not checked), and after the last comes the
producer's own (or the one after it, from the moment the message is in the ring until `sequence++`). The existence of such a numbering is stable when the ring
stays, grows at the end or loses its head (`CountsStay`, `CountsGrow`, `CountsShrink`), which is all a call does to it
(`CallContents`, from the lemmas of the refinement). That the numbers differ by the count of messages in the ring although they wrap
(`RingCounts`) needs more numbers than the ring and the consumer hold (`SequenceAssumption`; 2^32 in the code). That
there is one consumer is used: two could check their messages in the other order. Any number of producers is allowed.

*Deadlock.* Who is `BLOCKED` has a bit in some waiting set: each call either keeps such a wait or ends it together with
its bit (`WaitUnitFollows`, `LockFollows`, `UnlockFollows`, `PostFollows`). So suppose that everybody is `BLOCKED`. The owner of a mutex is
not in its waiting set, unless it has been handed it, and is then not `BLOCKED`; it would have to wait for something else, but a task
inside the mutex of the queue or of the console waits for nothing. Hence nobody owns either, and nobody waits for it
(`NobodyInside`, `SomeoneGoesOn`). With no call under way but waits, `SlotsAccounted` says that tasks wait for a slot only if the ring is full and
for a message only if it is empty, which it cannot both be. In the queue by itself all waiting tasks are
then on the same side (`WaitsForAReason`); in the demo, where nobody both produces and consumes, producer or consumer
is not `BLOCKED` (`NoDeadlock`, at least one of each). In SemaphoreDemo the last step is that
all wait for a slot, no slot is in use, and `SlotsAddUp` has at least one free, but a count above zero
excludes waiting tasks. That the one who is not `BLOCKED` also gets on is liveness (`EveryProducerHeard`, `EveryoneGetsASlot`).

*Bounded bypass.* `PassedInv` and `ServedInv` are the ring argument of `TurnInv` for the searches of the services:
while t waits, the tasks that were given the mutex (a unit) lie between t and the present owner (the task
granted last), and the search goes on from there and stops at t at the latest (`SearchOrder`,
`PassedInOrder`). That nobody takes a unit from the count meanwhile is `NoLostWakeup`: the count is
zero while somebody waits.

*Startup.* `StartupInv` says for each step which registers and static variables have been set
(`ClockProgress`, `TickProgress`, `DeviceProgress`). `select_clock` with time left implies that the PLL has
locked: the loop that counts ends with a count above zero only if it saw the lock, and a lock stays. Two lemmas
hold the arithmetic: `ClockFacts` (a legal clock divides the VCO's rate, so the divided rate is the clock)
and `DivisorFacts` (the divisor is nearest). The carry of the fraction (`uart.c:111`) is modelled as it stands,
but none of the fourteen clocks reaches it, so nothing that is checked depends on it. That `systick_init` never fails and that
its reload value is exact needs that a legal clock is a multiple of 1000, which follows from the divisors 5 to 128
that divide 400,000,000.

Only model-checked: all liveness (out of the prover's reach), and `LinesArrive`, which is about the digits of a number and needs induction over them, as do the recursive functions
of Console.

## What is not modelled

* `os_sleep(0)` (it is `os_yield`) and `os_sleep` before the first task runs (a busy wait nobody uses).
* `task_wake` (no caller), `TASK_STATE_SUSPENDED` (never assigned), the getters, `task_exit_trap`.
* The failure of `task_unblock` inside `os_mutex_unlock` and `os_semaphore_post`: both have just found
  the task `BLOCKED` in the same critical section. Argument checks (null pointers, uninitialised
  objects, calls from handlers or from idle): callers here are application tasks with initialised objects.
* Stack depth: a task that overflows its stack has its stack pointer refused, and that error is
  ignored (`context_switch.c:87`). How deep the calls of a task go is not in the source; the mutant
  `SaveContext_refused` shows the consequence.
* `task_create` from a running task, and initialising a mutex, a semaphore or a queue that is in use: nothing
  in the repository does either.
* `systick_stop` (only called where the clock is invalid, which the `#error` directives exclude),
  `systick_reset_ticks`, `os_delay_ms`, the six functions of `gpio.c` that switch LEDs on and off: no caller.
* The vector table (data), the default handlers (endless loops), the linker script, pin multiplexing and line control
  of the UART, the sleep demo's statistics, the counters of successes and maxima in the demos, the texts of
  lines.

## Plan

Done, in this order: the core and its invariant; the task layer and the refinement; mutex and
semaphore with proofs; the message queue and the FIFO; startup with proofs; the demos and the console; the LEDs; the
proofs that the core implements the layer, that the queue implements the FIFO, that round robin is fair and sleeps are on
time, and of the three demos; that the demos cannot deadlock.

Next:

1. *Model.* The sleep demo with its lateness statistics, on top of SchedulerTiming, if an interesting
   property of them is found.
