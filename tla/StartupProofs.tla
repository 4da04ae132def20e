--------------------------- MODULE StartupProofs ---------------------------
(***************************************************************************)
(* Proofs about Startup: for every clock that system.c accepts, any bound  *)
(* of the wait for the PLL and any number of resets, StartupInv is an      *)
(* inductive invariant; the properties of the clock, of the devices and of *)
(* the boot sequence follow from it.                                       *)
(*                                                                         *)
(* The frequencies are large numbers: only the lemmas about arithmetic     *)
(* expand them, and those leaves are for the SMT solver alone.             *)
(***************************************************************************)
EXTENDS Startup, TLAPS

-----------------------------------------------------------------------------
(* Arithmetic of the clocks                                                *)

LEMMA DivisionIsExact ==
  ASSUME NEW a \in Nat \ {0}, NEW b \in Nat, b % a = 0
  PROVE  b = a * (b \div a) /\ b \div a \in Nat
BY SMT

LEMMA ProductOverFactor ==
  ASSUME NEW a \in Nat \ {0}, NEW b \in Nat \ {0}
  PROVE  (a * b) \div a = b
BY SMT

(* Dividing by a divisor twice leads back to it.                           *)
LEMMA DivideBack ==
  ASSUME NEW a \in Nat \ {0}, NEW b \in Nat \ {0}, b % a = 0
  PROVE  b \div a \in Nat \ {0} /\ b \div (b \div a) = a
<1>1. b = a * (b \div a) /\ b \div a \in Nat
  BY DivisionIsExact
<1>2. PICK k \in Nat \ {0} : k = b \div a
  BY <1>1
<1>3. b = k * a
  BY <1>1, <1>2
<1> QED
  BY <1>2, <1>3, ProductOverFactor

(* The divisors from 5 to 128 of the frequency of the PLL.                 *)
DividersOfVco == {5, 8, 10, 16, 20, 25, 32, 40, 50, 64, 80, 100, 125, 128}

LEMMA DividersListed ==
  ASSUME NEW k \in 5 .. 128, NEW hz \in Nat, hz * k = 400000000
  PROVE  k \in DividersOfVco
BY SMTT(60) DEF DividersOfVco

(* What the arithmetic of SystemInit and systick_init needs of a clock.    *)
LEMMA ClockFacts ==
  ASSUME NEW hz \in Clocks
  PROVE  /\ hz \in Nat \ {0}
         /\ SYSTEM_PLL_VCO_HZ \div hz - 1 \in 0 .. 127
         /\ SYSTEM_PLL_VCO_HZ \div ((SYSTEM_PLL_VCO_HZ \div hz - 1) + 1) = hz
         /\ systick_is_valid_clock(hz)
         /\ hz \div OS_TICKS_PER_SECOND - 1 \in Nat \ {0}
         /\ ((hz \div OS_TICKS_PER_SECOND - 1) + 1) * OS_TICKS_PER_SECOND = hz
         /\ FlashWaitStates(hz) \in 0 .. 2
<1>1. LegalClock(hz)
  BY StartupAssumption
<1>2. /\ hz \in Nat \ {0}
      /\ SYSTEM_PLL_VCO_HZ % hz = 0
      /\ SYSTEM_PLL_VCO_HZ \div hz \in 5 .. 128
  BY <1>1, SMT DEF LegalClock
<1>3. hz \in Nat /\ 3125000 <= hz /\ hz <= 80000000
  BY <1>1, SMT DEF LegalClock
<1>4. PICK k \in 5 .. 128 : k = SYSTEM_PLL_VCO_HZ \div hz
  BY <1>2, SMT
<1>5. SYSTEM_PLL_VCO_HZ \div k = hz /\ hz * k = SYSTEM_PLL_VCO_HZ
  BY <1>2, <1>4, DivideBack, DivisionIsExact, SMT DEF SYSTEM_PLL_VCO_HZ
<1>6. k \in DividersOfVco
  BY <1>2, <1>5, DividersListed, SMT DEF SYSTEM_PLL_VCO_HZ
<1>7. hz \in Nat /\ 3125000 <= hz /\ hz <= 80000000 /\ hz % 1000 = 0
  BY <1>3, <1>5, <1>6, SMTT(30) DEF DividersOfVco, SYSTEM_PLL_VCO_HZ
<1>8. /\ systick_is_valid_clock(hz)
      /\ hz \div OS_TICKS_PER_SECOND - 1 \in Nat \ {0}
      /\ ((hz \div OS_TICKS_PER_SECOND - 1) + 1) * OS_TICKS_PER_SECOND = hz
  BY <1>7, SMT DEF systick_is_valid_clock, OS_TICKS_PER_SECOND, SYSTICK_MAX_RELOAD
<1>9. FlashWaitStates(hz) \in 0 .. 2
  BY <1>3, SMT DEF FlashWaitStates
<1>10. k - 1 \in 0 .. 127 /\ (k - 1) + 1 = k
  BY SMT
<1> QED
  BY <1>2, <1>4, <1>5, <1>8, <1>9, <1>10

(* The rounding of uart0_init.  The bounds on a clock alone do not exclude *)
(* the carry of the fraction, which none of the legal clocks reaches.      *)
LEMMA DivisorFacts ==
  ASSUME NEW hz \in Clocks, uart = Divisors(hz)
  PROVE  NearestDivisor(hz)
<1>1. LegalClock(hz)
  BY StartupAssumption
<1>2. hz \in Nat /\ 3125000 <= hz /\ hz <= 80000000
  BY <1>1, SMT DEF LegalClock
<1>3. PICK q \in Nat, r \in Nat :
        /\ hz = 1843200 * q + r /\ r < 1843200
        /\ q = hz \div 1843200 /\ r = hz % 1843200 /\ q \in 1 .. 43
  BY <1>2, SMT
<1>4. PICK f \in Nat : f = (r * 64 + 921600) \div 1843200
  BY <1>3, SMT
<1>5. /\ f \in 0 .. 64
      /\ 1843200 * f <= 64 * r + 921600
      /\ 64 * r + 921600 < 1843200 * f + 1843200
  BY <1>3, <1>4, SMT
<1>6. FractionalDivisor(hz) = f /\ BaudDivisor = 1843200
  BY <1>3, <1>4, SMT DEF FractionalDivisor, BaudDivisor
<1>7. CASE f = 64
  <2>1. uart.ibrd = q + 1 /\ uart.fbrd = 0
    BY <1>3, <1>6, <1>7, SMT DEF Divisors
  <2>2. /\ -1843200 <= hz - (q + 1) * 1843200 /\ hz - (q + 1) * 1843200 <= 1843200
        /\ -1843200 <= 2 * (64 * (hz - (q + 1) * 1843200) - 0 * 1843200)
        /\ 2 * (64 * (hz - (q + 1) * 1843200) - 0 * 1843200) <= 1843200
        /\ 1 <= q + 1 /\ q + 1 <= 65535 /\ 0 \in 0 .. 63
    BY <1>3, <1>5, <1>7, SMT
  <2> QED
    BY <1>6, <2>1, <2>2, SMT DEF NearestDivisor
<1>8. CASE f # 64
  <2>1. uart.ibrd = q /\ uart.fbrd = f
    BY <1>3, <1>6, <1>8, SMT DEF Divisors
  <2>2. /\ -1843200 <= hz - q * 1843200 /\ hz - q * 1843200 <= 1843200
        /\ -1843200 <= 2 * (64 * (hz - q * 1843200) - f * 1843200)
        /\ 2 * (64 * (hz - q * 1843200) - f * 1843200) <= 1843200
        /\ 1 <= q /\ q <= 65535 /\ f \in 0 .. 63
    BY <1>3, <1>5, <1>8, SMT
  <2> QED
    BY <1>6, <2>1, <2>2, SMT DEF NearestDivisor
<1> QED
  BY <1>7, <1>8

-----------------------------------------------------------------------------
(* The inductive invariant                                                 *)

(* What the invariant says of the clock of this build.                     *)
LEMMA BuildClock ==
  ASSUME SYSTEM_CLOCK_HZ \in Clocks
  PROVE  /\ SYSTEM_CLOCK_HZ \in Nat \ {0}
         /\ SYSTEM_PLL_VCO_HZ \div SYSTEM_CLOCK_HZ - 1 \in 0 .. 127
         /\ systick_is_valid_clock(SYSTEM_CLOCK_HZ)
         /\ SYSTEM_CLOCK_HZ \div OS_TICKS_PER_SECOND - 1 \in Nat \ {0}
         /\ FlashWaitStates(SYSTEM_CLOCK_HZ) \in 0 .. 2
BY ClockFacts

LEMMA StartupBegins == StartupInit => StartupInv
<1> SUFFICES ASSUME StartupInit
             PROVE  StartupInv
  OBVIOUS
<1> USE StartupAssumption DEF StartupInit
<1>1. StartupTypeOK
  <2>1. 0 \in 0 .. LockTimeout /\ 0 \in 0 .. MaxResets /\ 0 \in 0 .. 127 /\ 0 \in 0 .. 2
    OBVIOUS
  <2>2. {} \subseteq Peripherals /\ "Reset_Handler" \in Steps
    BY DEF Steps
  <2> QED
    BY <2>1, <2>2 DEF StartupTypeOK
<1>2. ClockProgress
  BY DEF ClockProgress
<1>3. TickProgress
  BY DEF TickProgress, WithSysTick
<1>4. DeviceProgress
  BY DEF DeviceProgress
<1> QED
  BY <1>1, <1>2, <1>3, <1>4 DEF StartupInv

(* A reset clears the registers, whatever RAM holds.                       *)
LEMMA ResetStep == StartupInv /\ Reset => StartupInv'
<1> SUFFICES ASSUME StartupInv, Reset
             PROVE  StartupInv'
  OBVIOUS
<1> USE StartupAssumption DEF StartupInv, Reset, statics
<1>1. StartupTypeOK'
  <2>1. 0 \in 0 .. LockTimeout /\ 0 \in 0 .. 127 /\ 0 \in 0 .. 2
    OBVIOUS
  <2>2. resets' \in 0 .. MaxResets
    BY DEF StartupTypeOK
  <2>3. {} \subseteq Peripherals /\ "Reset_Handler" \in Steps
    BY DEF Steps
  <2> QED
    BY <2>1, <2>2, <2>3 DEF StartupTypeOK
<1>2. ClockProgress'
  BY DEF ClockProgress
<1>3. TickProgress'
  BY DEF TickProgress, WithSysTick
<1>4. DeviceProgress'
  BY DEF DeviceProgress
<1> QED
  BY <1>1, <1>2, <1>3, <1>4

LEMMA HardwareStep == StartupInv /\ Hardware => StartupInv'
<1> SUFFICES ASSUME StartupInv, Hardware
             PROVE  StartupInv'
  OBVIOUS
<1> USE DEF deviceRegs, clockRegs, statics, StartupInv, StartupTypeOK,
            ClockProgress, TickProgress, DeviceProgress
<1>1. CASE PllLocks
  BY <1>1 DEF PllLocks
<1>2. CASE SysTick_Handler
  BY <1>2 DEF SysTick_Handler, WithSysTick
<1>3. ASSUME NEW p \in Peripherals, PeripheralReady(p)
      PROVE  StartupInv'
  BY <1>3 DEF PeripheralReady
<1> QED
  BY <1>1, <1>2, <1>3 DEF Hardware

LEMMA SystemInitStep ==
  StartupInv /\ (Reset_Handler \/ SystemInit) => StartupInv'
<1> SUFFICES ASSUME StartupInv, Reset_Handler \/ SystemInit
             PROVE  StartupInv'
  OBVIOUS
<1> USE DEF deviceRegs, clockRegs, statics, Goto, StartupInv, StartupTypeOK,
            ClockProgress, TickProgress, DeviceProgress, Steps, WithSysTick,
            InSystemInit
<1>1. CASE Reset_Handler
  BY <1>1 DEF Reset_Handler, SchedulerStates
<1>2. CASE BypassPll
  BY <1>2 DEF BypassPll
<1>3. CASE ConfigurePll
  BY <1>3, BuildClock DEF ConfigurePll
<1>4. CASE SetWaitStates
  BY <1>4, BuildClock, StartupAssumption DEF SetWaitStates
<1>5. CASE WaitForLock
  BY <1>5, StartupAssumption DEF WaitForLock
<1>6. CASE SelectClock
  BY <1>6 DEF SelectClock, UsePll
<1> QED
  BY <1>1, <1>2, <1>3, <1>4, <1>5, <1>6 DEF SystemInit

LEMMA DevicesStep ==
  StartupInv /\ (gpio_init \/ uart0_init \/ systick_init \/ PrintBootMessages)
    => StartupInv'
<1> SUFFICES ASSUME StartupInv,
                    gpio_init \/ uart0_init \/ systick_init \/ PrintBootMessages
             PROVE  StartupInv'
  OBVIOUS
<1> USE DEF deviceRegs, clockRegs, statics, Goto, StartupInv, StartupTypeOK,
            ClockProgress, TickProgress, DeviceProgress, Steps, WithSysTick,
            InSystemInit
<1>1. CASE gpio_init
  <2>1. CASE EnableClocks("gpio_clock", "gpio_wait", {"GPIOF"})
    BY <2>1 DEF EnableClocks, Peripherals
  <2>2. CASE Await("gpio_wait", "gpio_configure", "GPIOF" \in ready)
    BY <2>2 DEF Await
  <2>3. CASE Access("gpio_configure", "uart_clock", {"GPIOF"}) /\ UNCHANGED uart
    BY <2>3 DEF Access
  <2> QED
    BY <1>1, <2>1, <2>2, <2>3 DEF gpio_init
<1>2. CASE uart0_init
  <2>1. CASE EnableClocks("uart_clock", "uart_wait", {"UART0", "GPIOA"})
    BY <2>1 DEF EnableClocks, Peripherals
  <2>2. CASE Await("uart_wait", "uart_configure", uart0_ready)
    BY <2>2 DEF Await, uart0_ready
  <2>3. CASE /\ Access("uart_configure", "systick_init", {"UART0", "GPIOA"})
             /\ uart' = Divisors(system_get_clock_hz)
    BY <2>3 DEF Access, system_get_clock_hz
  <2> QED
    BY <1>2, <2>1, <2>2, <2>3 DEF uart0_init
<1>3. CASE systick_init
  BY <1>3, BuildClock DEF systick_init, system_get_clock_hz
<1>4. CASE PrintBootMessages
  BY <1>4 DEF PrintBootMessages, Access
<1> QED
  BY <1>1, <1>2, <1>3, <1>4

LEMMA SchedulerStep ==
  ASSUME StartupInv,
         \/ os_scheduler_init \/ os_context_switch_init \/ os_scheduler_start
         \/ os_scheduler_enable_preemption \/ os_start_first_task
  PROVE  StartupInv'
<1> USE DEF deviceRegs, clockRegs, statics, Goto, StartupInv, StartupTypeOK,
            ClockProgress, TickProgress, DeviceProgress, Steps, WithSysTick,
            InSystemInit, SchedulerStates
<1>1. CASE os_scheduler_init
  BY <1>1 DEF os_scheduler_init
<1>2. CASE os_context_switch_init
  BY <1>2 DEF os_context_switch_init
<1>3. CASE os_scheduler_start
  BY <1>3 DEF os_scheduler_start
<1>4. CASE os_scheduler_enable_preemption
  BY <1>4 DEF os_scheduler_enable_preemption
<1>5. CASE os_start_first_task
  BY <1>5 DEF os_start_first_task
<1> QED
  BY <1>1, <1>2, <1>3, <1>4, <1>5

LEMMA StartupStep == StartupInv /\ [StartupNext]_startupVars => StartupInv'
<1> SUFFICES ASSUME StartupInv, [StartupNext]_startupVars
             PROVE  StartupInv'
  OBVIOUS
<1>1. CASE Reset
  BY <1>1, ResetStep
<1>2. CASE Hardware
  BY <1>2, HardwareStep
<1>3. CASE Reset_Handler \/ SystemInit
  BY <1>3, SystemInitStep
<1>4. CASE gpio_init \/ uart0_init \/ systick_init \/ PrintBootMessages
  BY <1>4, DevicesStep
<1>5. CASE \/ os_scheduler_init \/ os_context_switch_init \/ os_scheduler_start
           \/ os_scheduler_enable_preemption \/ os_start_first_task
  BY <1>5, SchedulerStep
<1>6. CASE UNCHANGED startupVars
  BY <1>6 DEF startupVars, clockRegs, deviceRegs, statics, StartupInv,
              StartupTypeOK, ClockProgress, TickProgress, DeviceProgress
<1> QED
  BY <1>1, <1>2, <1>3, <1>4, <1>5, <1>6 DEF StartupNext, kernel_main

(***************************************************************************)
(* The inductive invariant of the startup code holds for every clock that  *)
(* system.c can be built for, every bound of the wait for the PLL and any  *)
(* number of resets.                                                       *)
(***************************************************************************)
THEOREM StartupInvariant == StartupSpec => []StartupInv
BY StartupBegins, StartupStep, PTL DEF StartupSpec

-----------------------------------------------------------------------------
(* What follows from it                                                    *)

LEMMA ClockSafeFollows == StartupInv => ClockSafe
<1> SUFFICES ASSUME StartupInv, ~bypass
             PROVE  /\ pll_locked
                    /\ wait_states >= FlashWaitStates(ActiveClock)
                    /\ ActiveClock = SYSTEM_CLOCK_HZ
  BY DEF ClockSafe
<1>1. /\ pll_locked
      /\ sysdiv2 = SYSTEM_PLL_VCO_HZ \div SYSTEM_CLOCK_HZ - 1
      /\ wait_states = FlashWaitStates(SYSTEM_CLOCK_HZ)
      /\ SYSTEM_CLOCK_HZ \in Clocks
  BY DEF StartupInv, StartupTypeOK, ClockProgress
<1>2. ActiveClock = SYSTEM_CLOCK_HZ
  BY <1>1, ClockFacts DEF ActiveClock
<1>3. wait_states \in 0 .. 2
  BY DEF StartupInv, StartupTypeOK
<1> QED
  BY <1>1, <1>2, <1>3

(***************************************************************************)
(* The CPU leaves the oscillator only for a locked PLL and with enough     *)
(* wait states, and then runs at SYSTEM_CLOCK_HZ (system.c:83-109).        *)
(***************************************************************************)
THEOREM ClockIsSafe == StartupSpec => []ClockSafe
BY StartupInvariant, ClockSafeFollows, PTL

(* The rates that uart0_init and systick_init choose fit the clock.        *)
LEMMA RatesFollow == StartupInv => RatesRight
<1> SUFFICES ASSUME StartupInv, ~bypass
             PROVE  /\ uart # NoDivisor => NearestDivisor(ActiveClock)
                    /\ step \in WithSysTick =>
                         (systick + 1) * OS_TICKS_PER_SECOND = ActiveClock
  BY DEF RatesRight, BaudFollowsActiveClock
<1>1. ActiveClock = SYSTEM_CLOCK_HZ /\ SYSTEM_CLOCK_HZ \in Clocks
  BY ClockSafeFollows DEF ClockSafe, StartupInv, StartupTypeOK
<1>2. ASSUME uart # NoDivisor
      PROVE  NearestDivisor(ActiveClock)
  <2>1. uart = Divisors(SYSTEM_CLOCK_HZ)
    BY <1>2 DEF StartupInv, StartupTypeOK
  <2> QED
    BY <1>1, <2>1, DivisorFacts
<1>3. ASSUME step \in WithSysTick
      PROVE  (systick + 1) * OS_TICKS_PER_SECOND = ActiveClock
  <2>1. systick = SYSTEM_CLOCK_HZ \div OS_TICKS_PER_SECOND - 1
    BY <1>3 DEF StartupInv, TickProgress
  <2> QED
    BY <1>1, <2>1, ClockFacts
<1> QED
  BY <1>2, <1>3

(***************************************************************************)
(* With the PLL locked in time, UART0 sends at the rate nearest to 115200  *)
(* baud and SysTick ticks once a millisecond, for every legal clock        *)
(* (uart.c:104-118, systick.c:45-67).                                      *)
(***************************************************************************)
THEOREM RatesAreRight == StartupSpec => []RatesRight
BY StartupInvariant, RatesFollow, PTL

(***************************************************************************)
(* SysTick requests no context switch before the first task runs, after    *)
(* any reset (task_scheduler.c:292-300).                                   *)
(***************************************************************************)
THEOREM BootIsNotSwitched == StartupSpec => []NoSwitchDuringBoot
<1>1. StartupInv => NoSwitchDuringBoot
  BY DEF StartupInv, TickProgress, NoSwitchDuringBoot
<1> QED
  BY <1>1, StartupInvariant, PTL

(***************************************************************************)
(* gpio_init and uart0_init touch no register of a peripheral that is not  *)
(* ready (gpio.c:43-66, uart.c:83-89).                                     *)
(***************************************************************************)
THEOREM PeripheralsAreReady == StartupSpec => []NoBusFault
<1>1. StartupInv => NoBusFault
  BY DEF StartupInv, DeviceProgress, NoBusFault
<1> QED
  BY <1>1, StartupInvariant, PTL
=============================================================================
