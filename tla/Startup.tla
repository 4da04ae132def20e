------------------------------ MODULE Startup ------------------------------
(***************************************************************************)
(* From reset to the first task: Reset_Handler (boot_tm4c123gh6pm.c),      *)
(* SystemInit (system.c), the initialisation of GPIO, UART and SysTick,    *)
(* and the steps of kernel_main that decide what a SysTick may do while    *)
(* kernel_main still runs.  Module Scheduler continues where this ends.    *)
(*                                                                         *)
(* The code polls hardware that answers in its own time: the PLL may lock  *)
(* at any moment or never, a peripheral is ready some time after its clock *)
(* is enabled.  A reset may come at any moment, also under running tasks;  *)
(* it clears the registers but leaves RAM as it was.                       *)
(***************************************************************************)
EXTENDS Integers

CONSTANTS
  LockTimeout,   \* SYSTEM_PLL_LOCK_TIMEOUT (1000000)
  Clocks,        \* the values of SYSTEM_CLOCK_HZ to build for
  MaxResets      \* bound: resets after power-on

SYSTEM_PLL_VCO_HZ == 400000000
OscillatorHz      == 16000000         \* SYSTEM_MAIN_OSC_HZ
OS_TICKS_PER_SECOND == 1000
SYSTICK_MAX_RELOAD  == 16777215
BaudDivisor       == 16 * 115200      \* 16U * UART0_BAUD_RATE

(* The clocks that the #error directives of system.c let pass.             *)
LegalClock(hz) ==
  /\ hz \in Nat /\ 3125000 <= hz /\ hz <= 80000000
  /\ SYSTEM_PLL_VCO_HZ % hz = 0
  /\ SYSTEM_PLL_VCO_HZ \div hz \in 5 .. 128

ASSUME StartupAssumption ==
  /\ LockTimeout \in Nat \ {0} /\ MaxResets \in Nat
  /\ \A hz \in Clocks : LegalClock(hz)

Peripherals == {"GPIOF", "GPIOA", "UART0"}

Steps == {"Reset_Handler", "bypass", "configure_pll", "wait_states", "lock_pll",
          "select_clock", "gpio_clock", "gpio_wait", "gpio_configure",
          "uart_clock", "uart_wait", "uart_configure", "systick_init", "print",
          "os_scheduler_init",
          "os_context_switch_init", "os_scheduler_start", "enable_preemption",
          "SVC", "tasks", "fault"}

VARIABLES
  SYSTEM_CLOCK_HZ,           \* of this build; never changes
  step,                      \* where Reset_Handler or kernel_main is
  sysinit_timeout,           \* local of SystemInit
  bypass, pll_powered, sysdiv2, wait_states,   \* RCC2 and FLASHCFG
  pll_locked,                \* RIS
  clocked, ready,            \* RCGC and PR: peripherals
  uart,                      \* IBRD and FBRD
  systick,                   \* reload value; 0 while SysTick is off
  pendsv,
  g_scheduler_state, g_context_switch_started, g_preemption_enabled,
  resets

clockRegs == <<bypass, pll_powered, sysdiv2, wait_states, pll_locked>>
deviceRegs == <<clocked, ready, uart, systick>>
statics == <<g_scheduler_state, g_context_switch_started, g_preemption_enabled>>
startupVars == <<SYSTEM_CLOCK_HZ, step, sysinit_timeout, clockRegs, deviceRegs,
                 pendsv, statics, resets>>

SchedulerStates == {"STOPPED", "INITIALIZED", "RUNNING"}

-----------------------------------------------------------------------------
(* Helpers                                                                 *)

Goto(from, to) == step = from /\ step' = to

(* Steps at which SysTick interrupts.                                      *)
WithSysTick == {"print", "os_scheduler_init", "os_context_switch_init",
                "os_scheduler_start", "enable_preemption", "SVC", "tasks"}

(* The clock that the CPU and the peripherals run on.                      *)
ActiveClock ==
  IF bypass THEN OscillatorHz ELSE SYSTEM_PLL_VCO_HZ \div (sysdiv2 + 1)

(* SYSTEM_FLASH_WAIT_STATES                                                *)
FlashWaitStates(hz) ==
  IF hz > 50000000 THEN 2 ELSE IF hz > 25000000 THEN 1 ELSE 0

system_get_clock_hz == SYSTEM_CLOCK_HZ

(* The fraction in 64ths, rounded down, and rounded as the code does.      *)
FractionalDivisor_truncated(hz) == ((hz % BaudDivisor) * 64) \div BaudDivisor

FractionalDivisor(hz) ==
  ((hz % BaudDivisor) * 64 + BaudDivisor \div 2) \div BaudDivisor

(* The divisor registers for a clock.                                      *)
Divisors(hz) ==
  IF FractionalDivisor(hz) = 64
    THEN [ibrd |-> hz \div BaudDivisor + 1, fbrd |-> 0]
    ELSE [ibrd |-> hz \div BaudDivisor, fbrd |-> FractionalDivisor(hz)]

systick_is_valid_clock(hz) ==
  /\ hz # 0
  /\ hz % OS_TICKS_PER_SECOND = 0
  /\ hz \div OS_TICKS_PER_SECOND - 1 <= SYSTICK_MAX_RELOAD

NoDivisor == [ibrd |-> 0, fbrd |-> 0]

-----------------------------------------------------------------------------
(* Reset and hardware                                                      *)

(* Power-on: RAM holds anything.                                           *)
StartupInit ==
  /\ SYSTEM_CLOCK_HZ \in Clocks
  /\ step = "Reset_Handler"
  /\ sysinit_timeout = 0
  /\ bypass = TRUE /\ pll_powered = FALSE /\ pll_locked = FALSE
  /\ sysdiv2 = 0 /\ wait_states = 0
  /\ clocked = {} /\ ready = {}
  /\ uart = NoDivisor /\ systick = 0
  /\ pendsv = FALSE
  /\ g_scheduler_state \in SchedulerStates
  /\ g_context_switch_started \in BOOLEAN
  /\ g_preemption_enabled \in BOOLEAN
  /\ resets = 0

Reset ==
  /\ resets < MaxResets
  /\ resets' = resets + 1
  /\ step' = "Reset_Handler"
  /\ sysinit_timeout' = 0
  /\ bypass' = TRUE /\ pll_powered' = FALSE /\ pll_locked' = FALSE
  /\ sysdiv2' = 0 /\ wait_states' = 0
  /\ clocked' = {} /\ ready' = {}
  /\ uart' = NoDivisor /\ systick' = 0
  /\ pendsv' = FALSE
  /\ UNCHANGED <<SYSTEM_CLOCK_HZ, statics>>

PllLocks ==
  /\ pll_powered /\ ~pll_locked
  /\ pll_locked' = TRUE
  /\ UNCHANGED <<SYSTEM_CLOCK_HZ, step, sysinit_timeout, bypass, pll_powered,
                 sysdiv2, wait_states, deviceRegs, pendsv, statics, resets>>

PeripheralReady(p) ==
  /\ p \in clocked \ ready
  /\ ready' = ready \cup {p}
  /\ UNCHANGED <<SYSTEM_CLOCK_HZ, step, sysinit_timeout, clockRegs, clocked,
                 uart, systick, pendsv, statics, resets>>

(* os_scheduler_tick does nothing until the scheduler runs, and asks for a *)
(* switch only once the first task has started; when it does is the        *)
(* business of module Scheduler.                                           *)
SysTick_Handler ==
  /\ systick # 0
  /\ pendsv' = \/ pendsv
               \/ g_scheduler_state = "RUNNING" /\ g_context_switch_started
  /\ UNCHANGED <<SYSTEM_CLOCK_HZ, step, sysinit_timeout, clockRegs, deviceRegs,
                 statics, resets>>

-----------------------------------------------------------------------------
(* Reset_Handler and SystemInit                                            *)

(* Without the loop that clears .bss, and with it.                         *)
Reset_Handler_data_only ==
  /\ Goto("Reset_Handler", "bypass")
  /\ UNCHANGED <<SYSTEM_CLOCK_HZ, sysinit_timeout, clockRegs, deviceRegs,
                 pendsv, statics, resets>>

Reset_Handler ==
  /\ Goto("Reset_Handler", "bypass")
  /\ g_scheduler_state' = "STOPPED"
  /\ g_context_switch_started' = FALSE
  /\ g_preemption_enabled' = FALSE
  /\ UNCHANGED <<SYSTEM_CLOCK_HZ, sysinit_timeout, clockRegs, deviceRegs,
                 pendsv, resets>>

BypassPll ==
  /\ Goto("bypass", "configure_pll")
  /\ bypass' = TRUE
  /\ UNCHANGED <<SYSTEM_CLOCK_HZ, sysinit_timeout, pll_powered, sysdiv2,
                 wait_states, pll_locked, deviceRegs, pendsv, statics, resets>>

ConfigurePll ==
  /\ Goto("configure_pll", "wait_states")
  /\ pll_powered' = TRUE
  /\ sysdiv2' = SYSTEM_PLL_VCO_HZ \div SYSTEM_CLOCK_HZ - 1
  /\ UNCHANGED <<SYSTEM_CLOCK_HZ, sysinit_timeout, bypass, wait_states,
                 pll_locked, deviceRegs, pendsv, statics, resets>>

SetWaitStates ==
  /\ Goto("wait_states", "lock_pll")
  /\ wait_states' = FlashWaitStates(SYSTEM_CLOCK_HZ)
  /\ sysinit_timeout' = LockTimeout
  /\ UNCHANGED <<SYSTEM_CLOCK_HZ, bypass, pll_powered, sysdiv2, pll_locked,
                 deviceRegs, pendsv, statics, resets>>

(* One evaluation of the condition of the loop that waits for the lock; a  *)
(* loop that does not count, and the real one.                             *)
WaitForLock_forever ==
  /\ step = "lock_pll" /\ pll_locked
  /\ step' = "select_clock"
  /\ UNCHANGED <<SYSTEM_CLOCK_HZ, sysinit_timeout, clockRegs, deviceRegs,
                 pendsv, statics, resets>>

WaitForLock ==
  /\ step = "lock_pll"
  /\ IF ~pll_locked /\ sysinit_timeout > 0
       THEN sysinit_timeout' = sysinit_timeout - 1 /\ UNCHANGED step
       ELSE step' = "select_clock" /\ UNCHANGED sysinit_timeout
  /\ UNCHANGED <<SYSTEM_CLOCK_HZ, clockRegs, deviceRegs, pendsv, statics, resets>>

(* Without a look at the timeout, and as it is.                            *)
UsePll_always == TRUE

UsePll == sysinit_timeout > 0

SelectClock ==
  /\ Goto("select_clock", "gpio_clock")
  /\ bypass' = (bypass /\ ~UsePll)
  /\ UNCHANGED <<SYSTEM_CLOCK_HZ, sysinit_timeout, pll_powered, sysdiv2,
                 wait_states, pll_locked, deviceRegs, pendsv, statics, resets>>

-----------------------------------------------------------------------------
(* kernel_main: devices                                                    *)

EnableClocks(from, to, peripherals) ==
  /\ Goto(from, to)
  /\ clocked' = clocked \cup peripherals
  /\ UNCHANGED <<SYSTEM_CLOCK_HZ, sysinit_timeout, clockRegs, ready, uart,
                 systick, pendsv, statics, resets>>

(* The code spins until the peripherals are ready ...                      *)
Await(from, to, isReady) ==
  /\ isReady
  /\ Goto(from, to)
  /\ UNCHANGED <<SYSTEM_CLOCK_HZ, sysinit_timeout, clockRegs, deviceRegs,
                 pendsv, statics, resets>>

(* ... and then writes to their registers; a write to a peripheral that is *)
(* not ready ends in a fault handler.                                      *)
Access(from, to, peripherals) ==
  /\ step = from
  /\ step' = IF peripherals \subseteq ready THEN to ELSE "fault"
  /\ UNCHANGED <<SYSTEM_CLOCK_HZ, sysinit_timeout, clockRegs, clocked, ready,
                 systick, pendsv, statics, resets>>

gpio_init ==
  \/ EnableClocks("gpio_clock", "gpio_wait", {"GPIOF"})
  \/ Await("gpio_wait", "gpio_configure", "GPIOF" \in ready)
  \/ Access("gpio_configure", "uart_clock", {"GPIOF"}) /\ UNCHANGED uart

(* A wait for the UART alone, and for both peripherals.                    *)
uart0_ready_uart_only == "UART0" \in ready

uart0_ready == {"UART0", "GPIOA"} \subseteq ready

uart0_init ==
  \/ EnableClocks("uart_clock", "uart_wait", {"UART0", "GPIOA"})
  \/ Await("uart_wait", "uart_configure", uart0_ready)
  \/ /\ Access("uart_configure", "systick_init", {"UART0", "GPIOA"})
     /\ uart' = Divisors(system_get_clock_hz)

(* From here on SysTick interrupts kernel_main.                            *)
systick_init ==
  /\ Goto("systick_init", "print")
  /\ systick' = IF systick_is_valid_clock(system_get_clock_hz)
                  THEN system_get_clock_hz \div OS_TICKS_PER_SECOND - 1
                  ELSE 0
  /\ UNCHANGED <<SYSTEM_CLOCK_HZ, sysinit_timeout, clockRegs, clocked, ready,
                 uart, pendsv, statics, resets>>

(* The boot messages; the task table, the mutex and the queue, initialised *)
(* in between, belong to modules Scheduler, Mutex and MessageQueue.        *)
PrintBootMessages ==
  /\ Access("print", "os_scheduler_init", {"UART0", "GPIOA"})
  /\ UNCHANGED uart

-----------------------------------------------------------------------------
(* kernel_main: scheduler                                                  *)

os_scheduler_init ==
  /\ Goto("os_scheduler_init", "os_context_switch_init")
  /\ g_scheduler_state' = "INITIALIZED"
  /\ g_preemption_enabled' = FALSE
  /\ UNCHANGED <<SYSTEM_CLOCK_HZ, sysinit_timeout, clockRegs, deviceRegs,
                 pendsv, g_context_switch_started, resets>>

os_context_switch_init ==
  /\ Goto("os_context_switch_init", "os_scheduler_start")
  /\ g_context_switch_started' = FALSE
  /\ UNCHANGED <<SYSTEM_CLOCK_HZ, sysinit_timeout, clockRegs, deviceRegs,
                 pendsv, g_scheduler_state, g_preemption_enabled, resets>>

os_scheduler_start ==
  /\ Goto("os_scheduler_start", "enable_preemption")
  /\ g_scheduler_state' = "RUNNING"
  /\ UNCHANGED <<SYSTEM_CLOCK_HZ, sysinit_timeout, clockRegs, deviceRegs,
                 pendsv, g_context_switch_started, g_preemption_enabled, resets>>

os_scheduler_enable_preemption ==
  /\ Goto("enable_preemption", "SVC")
  /\ g_preemption_enabled' = TRUE
  /\ UNCHANGED <<SYSTEM_CLOCK_HZ, sysinit_timeout, clockRegs, deviceRegs,
                 pendsv, g_scheduler_state, g_context_switch_started, resets>>

os_start_first_task ==
  /\ Goto("SVC", "tasks")
  /\ g_context_switch_started' = TRUE
  /\ UNCHANGED <<SYSTEM_CLOCK_HZ, sysinit_timeout, clockRegs, deviceRegs,
                 pendsv, g_scheduler_state, g_preemption_enabled, resets>>

-----------------------------------------------------------------------------
SystemInit == BypassPll \/ ConfigurePll \/ SetWaitStates \/ WaitForLock \/ SelectClock

kernel_main ==
  \/ gpio_init \/ uart0_init \/ systick_init \/ PrintBootMessages
  \/ os_scheduler_init \/ os_context_switch_init \/ os_scheduler_start
  \/ os_scheduler_enable_preemption \/ os_start_first_task

Hardware == PllLocks \/ SysTick_Handler \/ \E p \in Peripherals : PeripheralReady(p)

StartupNext == Reset \/ Hardware \/ Reset_Handler \/ SystemInit \/ kernel_main

(* The CPU executes, and a peripheral becomes ready; nothing obliges the   *)
(* PLL to lock.                                                            *)
StartupFairness ==
  /\ WF_startupVars(Reset_Handler \/ SystemInit \/ kernel_main)
  /\ \A p \in Peripherals : WF_startupVars(PeripheralReady(p))

StartupSpec == StartupInit /\ [][StartupNext]_startupVars /\ StartupFairness

-----------------------------------------------------------------------------
(***************************************************************************)
(* The CPU never runs from a PLL that has not locked, nor faster than the  *)
(* flash can follow: SystemInit (system.c:83-109) leaves the oscillator    *)
(* only behind the wait states and the lock, whenever the PLL locks, and   *)
(* then at the rate that SYSTEM_CLOCK_HZ promises.                         *)
(***************************************************************************)
ClockSafe ==
  ~bypass => /\ pll_locked
             /\ wait_states >= FlashWaitStates(ActiveClock)
             /\ ActiveClock = SYSTEM_CLOCK_HZ

(***************************************************************************)
(* SysTick interrupts kernel_main from systick_init on, but nothing asks   *)
(* for a context switch before the first task runs, whatever a reset found *)
(* in RAM (task_scheduler.c:292-300).                                      *)
(***************************************************************************)
NoSwitchDuringBoot == pendsv => step = "tasks"

(* No register of a peripheral is touched before the peripheral is ready.  *)
NoBusFault == step # "fault"

(* The divisor is the one nearest to clock / (16 * baud), in 64ths.  (The  *)
(* first line follows from the second; it keeps TLC's numbers small.)      *)
NearestDivisor(hz) ==
  LET rest  == hz - uart.ibrd * BaudDivisor
      error == 64 * rest - uart.fbrd * BaudDivisor
  IN  /\ -BaudDivisor <= rest /\ rest <= BaudDivisor
      /\ -BaudDivisor <= 2 * error /\ 2 * error <= BaudDivisor
      /\ 1 <= uart.ibrd /\ uart.ibrd <= 65535 /\ uart.fbrd \in 0 .. 63

(***************************************************************************)
(* UART0 sends at the rate nearest to 115200 baud: uart0_init computes the *)
(* divisors from what it calls the active clock (uart.c:102).  It does not *)
(* hold: if the PLL has not locked, the CPU stays on the oscillator, and   *)
(* system_get_clock_hz returns SYSTEM_CLOCK_HZ all the same.               *)
(***************************************************************************)
BaudFollowsActiveClock == uart # NoDivisor => NearestDivisor(ActiveClock)

(***************************************************************************)
(* What does hold, for every legal SYSTEM_CLOCK_HZ: once the CPU runs from *)
(* the PLL, UART0 has the nearest rate and SysTick ticks once a            *)
(* millisecond; systick_init never fails.                                  *)
(***************************************************************************)
RatesRight ==
  ~bypass =>
    /\ BaudFollowsActiveClock
    /\ step \in WithSysTick =>
         (systick + 1) * OS_TICKS_PER_SECOND = ActiveClock

(* Whether or not the PLL locks, kernel_main starts the first task.        *)
BootCompletes == <>[](step = "tasks")

-----------------------------------------------------------------------------
(* The inductive invariant (proved in StartupProofs).                      *)

StartupTypeOK ==
  /\ SYSTEM_CLOCK_HZ \in Clocks
  /\ step \in Steps
  /\ sysinit_timeout \in 0 .. LockTimeout
  /\ bypass \in BOOLEAN /\ pll_powered \in BOOLEAN /\ pll_locked \in BOOLEAN
  /\ pendsv \in BOOLEAN
  /\ sysdiv2 \in 0 .. 127 /\ wait_states \in 0 .. 2
  /\ clocked \subseteq Peripherals /\ ready \subseteq Peripherals
  /\ uart \in {NoDivisor, Divisors(SYSTEM_CLOCK_HZ)}
  /\ systick \in Nat
  /\ g_scheduler_state \in SchedulerStates
  /\ g_context_switch_started \in BOOLEAN
  /\ g_preemption_enabled \in BOOLEAN
  /\ resets \in 0 .. MaxResets

(* Before, while and after SystemInit chooses the clock.                   *)
InSystemInit == {"Reset_Handler", "bypass", "configure_pll", "wait_states",
                 "lock_pll", "select_clock"}

ClockProgress ==
  /\ step \in InSystemInit => bypass
  /\ step \in {"lock_pll", "select_clock"} \/ ~bypass =>
       /\ sysdiv2 = SYSTEM_PLL_VCO_HZ \div SYSTEM_CLOCK_HZ - 1
       /\ wait_states = FlashWaitStates(SYSTEM_CLOCK_HZ)
  /\ step = "wait_states" => sysdiv2 = SYSTEM_PLL_VCO_HZ \div SYSTEM_CLOCK_HZ - 1
  /\ step = "select_clock" /\ sysinit_timeout > 0 => pll_locked
  /\ ~bypass => pll_locked

(* SysTick, and what it finds in the state of the scheduler.               *)
TickProgress ==
  /\ systick # 0 => step \in WithSysTick
  /\ step \in WithSysTick => systick = SYSTEM_CLOCK_HZ \div OS_TICKS_PER_SECOND - 1
  /\ step \notin {"Reset_Handler", "tasks"} => ~g_context_switch_started
  /\ pendsv => step = "tasks"

DeviceProgress ==
  /\ step = "gpio_configure" => "GPIOF" \in ready
  /\ step \in {"uart_configure", "systick_init", "print"} =>
       {"UART0", "GPIOA"} \subseteq ready
  /\ step # "fault"

StartupInv == StartupTypeOK /\ ClockProgress /\ TickProgress /\ DeviceProgress
=============================================================================
