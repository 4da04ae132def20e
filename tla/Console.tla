------------------------------ MODULE Console ------------------------------
(***************************************************************************)
(* The application tasks of kernel.c write lines to the console: the demo  *)
(* that is built if neither the semaphore demo nor the message queue demo  *)
(* is enabled.  Each task calls kernel_write_task_event and sleeps, with   *)
(* g_console_mutex, kernel_print (printk.c) and the UART driver (uart.c)   *)
(* down to the transmit FIFO.                                              *)
(*                                                                         *)
(* A line is many calls of uart0_write_char, each of which looks at the    *)
(* FIFO and writes to it in two steps; a task may be preempted between any *)
(* two of them, and the UART sends characters in its own time.  The fixed  *)
(* parts of a line are abbreviated to one character, the name of the task; *)
(* the number and the end of the line are sent as the code does.           *)
(***************************************************************************)
EXTENDS Mutex, SequencesExt

CONSTANTS
  FifoDepth,      \* characters the UART can hold (16)
  PrintedTicks    \* tick counts that a line may show

ASSUME ConsoleAssumption ==
  FifoDepth \in Nat \ {0} /\ PrintedTicks \subseteq Nat

VARIABLES
  pc,         \* where t is in its loop
  text,       \* what t has yet to write of its line
  fifo,       \* the transmit FIFO of UART0
  received,   \* what the terminal has received of the current line
  spoken,     \* history: lines begun and not yet received
  g_mutex_critical_depth, g_mutex_violation_count, g_mutex_error_count

counters    == <<g_mutex_critical_depth, g_mutex_violation_count,
                 g_mutex_error_count>>
wire        == <<fifo, received>>
consoleVars == <<layerVars, mutex, pc, text, wire, spoken, counters>>

Places == {"lock", "enter", "poll", "write", "leave", "unlock", "sleep"}

-----------------------------------------------------------------------------
(* Characters and numbers                                                  *)

LF == 10
CR == 13
Digit0 == 48
NameOf(t) == 64 + t

(* The buffer of kernel_print_uint32: the least significant digit first.   *)
buffer[value \in Nat] ==
  IF value = 0 THEN <<>>
  ELSE <<Digit0 + (value % 10)>> \o buffer[value \div 10]

(* The digits in the order of the buffer, and as they are written.         *)
Digits_unreversed(value) == IF value = 0 THEN <<Digit0>> ELSE buffer[value]

Digits(value) == IF value = 0 THEN <<Digit0>> ELSE Reverse(buffer[value])

(* uart0_write_string sends a line feed as CR LF.                          *)
Line(t, tick) == <<NameOf(t)>> \o Digits(tick) \o <<CR, LF>>

-----------------------------------------------------------------------------
ConsoleInit ==
  /\ LayerInit
  /\ os_mutex_init
  /\ pc = [t \in AppTasks |-> "lock"]
  /\ text = [t \in AppTasks |-> <<>>]
  /\ fifo = <<>> /\ received = <<>> /\ spoken = <<>>
  /\ g_mutex_critical_depth = 0
  /\ g_mutex_violation_count = 0
  /\ g_mutex_error_count = 0

Goto(t, from, to) == pc[t] = from /\ pc' = [pc EXCEPT ![t] = to]

(* What follows the line: the counters updated after the unlock, and as in *)
(* the code.                                                               *)
Then_late == [line |-> "unlock", unlock |-> "leave", leave |-> "sleep"]

Then == [line |-> "leave", leave |-> "unlock", unlock |-> "sleep"]

-----------------------------------------------------------------------------
(* kernel_write_task_event                                                 *)

Lock(t) ==
  \E result \in LockResults :
    /\ os_mutex_lock(t, result)
    /\ \/ result = "BLOCKED" /\ Goto(t, "lock", "lock") /\ UNCHANGED counters
       \/ result = "OK" /\ Goto(t, "lock", "enter") /\ UNCHANGED counters
       \/ /\ result \notin {"BLOCKED", "OK"}
          /\ Goto(t, "lock", "sleep")
          /\ g_mutex_error_count' = g_mutex_error_count + 1
          /\ UNCHANGED <<g_mutex_critical_depth, g_mutex_violation_count>>
    /\ UNCHANGED <<text, wire, spoken>>

Enter(t) ==
  /\ Executing(t)
  /\ Goto(t, "enter", "poll")
  /\ g_mutex_critical_depth' = g_mutex_critical_depth + 1
  /\ g_mutex_violation_count' =
       g_mutex_violation_count + (IF g_mutex_critical_depth' > 1 THEN 1 ELSE 0)
  /\ \E tick \in PrintedTicks :
       /\ text' = [text EXCEPT ![t] = Line(t, tick)]
       /\ spoken' = Append(spoken, <<t, tick>>)
  /\ UNCHANGED <<layerVars, mutex, wire, g_mutex_error_count>>

(* uart0_write_char looks at TXFF until the FIFO has room ...              *)
HasRoom_unchecked == TRUE

HasRoom == Len(fifo) < FifoDepth

PollFifo(t) ==
  /\ Executing(t)
  /\ HasRoom
  /\ Goto(t, "poll", "write")
  /\ UNCHANGED <<layerVars, mutex, text, wire, spoken, counters>>

(* ... and writes; a character written to a full FIFO is lost.             *)
WriteChar(t) ==
  /\ Executing(t)
  /\ Goto(t, "write", IF Len(text[t]) = 1 THEN Then.line ELSE "poll")
  /\ fifo' = IF Len(fifo) < FifoDepth THEN Append(fifo, Head(text[t])) ELSE fifo
  /\ text' = [text EXCEPT ![t] = Tail(@)]
  /\ UNCHANGED <<layerVars, mutex, received, spoken, counters>>

Leave(t) ==
  /\ Executing(t)
  /\ Goto(t, "leave", Then.leave)
  /\ g_mutex_critical_depth' = g_mutex_critical_depth - 1
  /\ UNCHANGED <<layerVars, mutex, text, wire, spoken, g_mutex_violation_count,
                 g_mutex_error_count>>

Unlock(t) ==
  \E result \in UnlockResults :
    /\ os_mutex_unlock(t, result)
    /\ Goto(t, "unlock", Then.unlock)
    /\ g_mutex_error_count' = g_mutex_error_count + (IF result = "OK" THEN 0 ELSE 1)
    /\ UNCHANGED <<text, wire, spoken, g_mutex_critical_depth,
                   g_mutex_violation_count>>

-----------------------------------------------------------------------------
(* app_task_1, 2 and 3 sleep between two lines (their LEDs: module Leds).  *)
Sleep(t) ==
  /\ os_sleep(t)
  /\ Goto(t, "sleep", "lock")
  /\ UNCHANGED <<mutex, text, wire, spoken, counters>>

(* The UART sends the oldest character.                                    *)
UartSends ==
  /\ fifo # <<>>
  /\ fifo' = Tail(fifo)
  /\ received' = Append(IF received # <<>> /\ Last(received) = LF THEN <<>>
                        ELSE received, Head(fifo))
  /\ spoken' = IF Head(fifo) = LF THEN Tail(spoken) ELSE spoken
  /\ UNCHANGED <<layerVars, mutex, pc, text, counters>>

Idle == UNCHANGED <<mutex, pc, text, wire, spoken, counters>>

AppTask(t) ==
  \/ Lock(t) \/ Enter(t) \/ PollFifo(t) \/ WriteChar(t) \/ Leave(t) \/ Unlock(t)
  \/ Sleep(t)

ConsoleNext ==
  (CoreNext /\ Idle) \/ UartSends \/ \E t \in AppTasks : AppTask(t)

ConsoleSpec == ConsoleInit /\ [][ConsoleNext]_consoleVars

(***************************************************************************)
(* Fairness as in MutexTasks; the tasks never mask interrupts, and the     *)
(* UART goes on sending.                                                   *)
(***************************************************************************)
ConsoleFairness ==
  /\ WF_consoleVars(RequestSwitch /\ Idle)
  /\ WF_consoleVars(UartSends)
  /\ \A t \in AppTasks :
       /\ SF_consoleVars(Dispatch(t) /\ ~pendsv' /\ Idle)
       /\ WF_consoleVars(Wake({t}) /\ Idle)
       /\ SF_consoleVars(AppTask(t))

ConsoleFairSpec == ConsoleSpec /\ ConsoleFairness

-----------------------------------------------------------------------------
(* What a reader makes of a line; the number is read digit by digit.       *)
ReadNumber(s) ==
  IF s # <<>> /\ (\A i \in DOMAIN s : s[i] \in Digit0 .. Digit0 + 9)
     /\ (Len(s) > 1 => s[1] # Digit0)
    THEN FoldLeft(LAMBDA n, c : 10 * n + c - Digit0, 0, s)
    ELSE -1

ReadLine(s) ==
  IF Len(s) > 3 /\ s[Len(s) - 1] = CR
    THEN <<s[1] - NameOf(0), ReadNumber(SubSeq(s, 2, Len(s) - 2))>>
    ELSE <<>>

(***************************************************************************)
(* Every line that a task writes arrives at the terminal once, whole, in   *)
(* the order in which the tasks took the console, with the name of the     *)
(* task and the tick it was given: no two lines mix ("UART messages        *)
(* mixed", docs/debug_notes.md:183), and no character is lost although the *)
(* driver looks at the FIFO and writes to it in two steps.                 *)
(***************************************************************************)
LinesArrive ==
  [][received' # received /\ Last(received') = LF =>
       spoken # <<>> /\ ReadLine(received') = Head(spoken)]_consoleVars

(***************************************************************************)
(* "g_mutex_violation_count == 0", "g_mutex_error_count == 0"              *)
(* (docs/debug_notes.md:92): never two tasks inside the section that the   *)
(* mutex protects, and no call of the mutex fails.                         *)
(***************************************************************************)
NoMutexViolation ==
  /\ g_mutex_violation_count = 0
  /\ g_mutex_error_count = 0
  /\ g_mutex_critical_depth =
       Cardinality({t \in AppTasks : pc[t] \in {"poll", "write", "leave"}})

(* Every task gets its line out, and comes back for the next one.          *)
EveryoneWrites == \A t \in AppTasks : pc[t] = "lock" ~> pc[t] = "sleep"

-----------------------------------------------------------------------------
(***************************************************************************)
(* The tasks are users of the mutex in the sense of MutexTasks, so what is *)
(* proved of MutexTasks holds for g_console_mutex.                         *)
(***************************************************************************)
InSection == {"enter", "poll", "write", "leave", "unlock"}

Contract == INSTANCE MutexTasks WITH
  pc      <- [t \in AppTasks |-> IF t \in mutex.waiting THEN "lock" ELSE "run"],
  holding <- [t \in AppTasks |-> pc[t] \in InSection]

UsesMutex == Contract!MSpec

-----------------------------------------------------------------------------
(* The inductive invariant behind the two (ConsoleProofs): the console     *)
(* belongs to the task in the section, or to one that has been handed it   *)
(* and does not know yet, and only tasks that want it wait.                *)
SectionOwned ==
  \A t \in AppTasks :
    /\ pc[t] \in InSection => mutex.owner_task_id = t
    /\ mutex.owner_task_id = t =>
         pc[t] \in InSection \/ (pc[t] = "lock" /\ t \in mutex.waiting)
    /\ t \in mutex.waiting => pc[t] = "lock"

ConsoleInv ==
  /\ LayerInv /\ ~primask
  /\ MutexSound
  /\ pc \in [AppTasks -> Places]
  /\ SectionOwned
  /\ NoMutexViolation
=============================================================================
