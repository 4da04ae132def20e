--------------------------- MODULE SemaphoreDemo ---------------------------
(***************************************************************************)
(* The semaphore demo of kernel.c: every application task runs             *)
(* kernel_run_semaphore_worker, which takes one of the resource slots      *)
(* counted by g_resource_semaphore, writes a line under g_console_mutex,   *)
(* sleeps, writes another line, and gives the slot back.  A worker waits   *)
(* for the console while it holds a slot, so a task may be BLOCKED on      *)
(* either object, and a waiting bit that one object forgot to clear would  *)
(* be taken for a wait by the other's wakeup.                              *)
(*                                                                         *)
(* Left out: the printing itself (module Console), the LEDs (module Leds)  *)
(* and the counters of successes.                                          *)
(***************************************************************************)
EXTENDS Semaphore, FiniteSets

CONSTANT Capacity   \* KERNEL_SEMAPHORE_RESOURCE_CAPACITY

ASSUME CapacityAssumption == Capacity \in Nat \ {0}

VARIABLES
  pc,       \* where t is in its loop
  lines,    \* how many of the two lines of this turn t has written: 0 or 1
  g_console_mutex,
  g_semaphore_active_users, g_semaphore_violation_count, g_semaphore_error_count

counts   == <<g_semaphore_active_users, g_semaphore_violation_count,
              g_semaphore_error_count>>
loopVars == <<pc, lines>>
demoVars == <<layerVars, semaphore, g_console_mutex, loopVars, counts>>

Console == INSTANCE Mutex WITH mutex <- g_console_mutex

DemoInit ==
  /\ LayerInit
  /\ os_semaphore_init(Capacity, Capacity)
  /\ Console!os_mutex_init
  /\ pc = [t \in AppTasks |-> "wait"]
  /\ lines = [t \in AppTasks |-> 0]
  /\ g_semaphore_active_users = 0
  /\ g_semaphore_violation_count = 0
  /\ g_semaphore_error_count = 0

(* What follows the second line: the user leaves the books only after the  *)
(* post, and as in the code.                                               *)
Then_post_first == [line |-> "post", post |-> "exit", exit |-> "rest"]

Then == [line |-> "exit", exit |-> "post", post |-> "rest"]

Goto(t, from, to) == pc[t] = from /\ pc' = [pc EXCEPT ![t] = to]

-----------------------------------------------------------------------------
(* One turn of the loop of os_semaphore_wait, and                          *)
(* kernel_record_semaphore_error if it fails.                              *)
WaitUnit(t) ==
  \E result \in WaitResults :
    /\ os_semaphore_wait(t, result)
    /\ \/ result = "BLOCKED" /\ Goto(t, "wait", "wait")
          /\ UNCHANGED g_semaphore_error_count
       \/ result = "OK" /\ Goto(t, "wait", "enter")
          /\ UNCHANGED g_semaphore_error_count
       \/ result \notin {"BLOCKED", "OK"} /\ Goto(t, "wait", "rest")
          /\ g_semaphore_error_count' = g_semaphore_error_count + 1
    /\ UNCHANGED <<g_console_mutex, lines, g_semaphore_active_users,
                   g_semaphore_violation_count>>

(* kernel_record_semaphore_enter                                           *)
RecordEnter(t) ==
  /\ Executing(t)
  /\ Goto(t, "enter", "lock")
  /\ g_semaphore_active_users' = g_semaphore_active_users + 1
  /\ g_semaphore_violation_count' =
       g_semaphore_violation_count
         + (IF g_semaphore_active_users' > Capacity THEN 1 ELSE 0)
  /\ UNCHANGED <<layerVars, semaphore, g_console_mutex, lines,
                 g_semaphore_error_count>>

(* kernel_write_task_event, which swallows its errors: the first line is   *)
(* followed by the sleep that holds the slot, the second by the exit.      *)
AfterLine(t) == IF lines[t] = 0 THEN "hold" ELSE Then.line

LockConsole(t) ==
  \E result \in Console!LockResults :
    /\ Console!os_mutex_lock(t, result)
    /\ \/ /\ result = "BLOCKED"
          /\ Goto(t, "lock", "lock")
          /\ UNCHANGED lines
       \/ /\ result = "OK"
          /\ Goto(t, "lock", "unlock")
          /\ UNCHANGED lines
       \/ /\ result \notin {"BLOCKED", "OK"}
          /\ Goto(t, "lock", AfterLine(t))
          /\ lines' = [lines EXCEPT ![t] = 1 - @]
    /\ UNCHANGED <<semaphore, counts>>

UnlockConsole(t) ==
  /\ \E result \in Console!UnlockResults : Console!os_mutex_unlock(t, result)
  /\ Goto(t, "unlock", AfterLine(t))
  /\ lines' = [lines EXCEPT ![t] = 1 - @]
  /\ UNCHANGED <<semaphore, counts>>

(* os_sleep(KERNEL_SEMAPHORE_RESOURCE_HOLD_MS)                             *)
Hold(t) ==
  /\ os_sleep(t)
  /\ Goto(t, "hold", "lock")
  /\ UNCHANGED <<semaphore, g_console_mutex, lines, counts>>

(* kernel_record_semaphore_exit                                            *)
RecordExit(t) ==
  /\ Executing(t)
  /\ Goto(t, "exit", Then.exit)
  /\ IF g_semaphore_active_users = 0
       THEN /\ g_semaphore_violation_count' = g_semaphore_violation_count + 1
            /\ UNCHANGED g_semaphore_active_users
       ELSE /\ g_semaphore_active_users' = g_semaphore_active_users - 1
            /\ UNCHANGED g_semaphore_violation_count
  /\ UNCHANGED <<layerVars, semaphore, g_console_mutex, lines,
                 g_semaphore_error_count>>

PostUnit(t) ==
  \E result \in PostResults :
    /\ os_semaphore_post(t, result)
    /\ Goto(t, "post", Then.post)
    /\ g_semaphore_error_count' =
         g_semaphore_error_count + (IF result = "OK" THEN 0 ELSE 1)
    /\ UNCHANGED <<g_console_mutex, lines, g_semaphore_active_users,
                   g_semaphore_violation_count>>

(* os_sleep(rest_time_ms)                                                  *)
Rest(t) ==
  /\ os_sleep(t)
  /\ Goto(t, "rest", "wait")
  /\ UNCHANGED <<semaphore, g_console_mutex, lines, counts>>

-----------------------------------------------------------------------------
Worker(t) ==
  \/ WaitUnit(t) \/ RecordEnter(t) \/ LockConsole(t) \/ UnlockConsole(t)
  \/ Hold(t) \/ RecordExit(t) \/ PostUnit(t) \/ Rest(t)

Idle == UNCHANGED <<semaphore, g_console_mutex, loopVars, counts>>

DemoNext == (CoreNext /\ Idle) \/ \E t \in AppTasks : Worker(t)

DemoSpec == DemoInit /\ [][DemoNext]_demoVars

(* Fairness as in MutexTasks; no worker masks interrupts for long.         *)
DemoFairness ==
  /\ WF_demoVars(RequestSwitch /\ Idle)
  /\ \A t \in AppTasks :
       /\ SF_demoVars(Dispatch(t) /\ ~pendsv' /\ Idle)
       /\ WF_demoVars(Wake({t}) /\ Idle)
       /\ SF_demoVars(Worker(t))

DemoFairSpec == DemoSpec /\ DemoFairness
-----------------------------------------------------------------------------
(***************************************************************************)
(* "g_semaphore_violation_count == 0", "g_semaphore_error_count == 0"      *)
(* (docs/debug_notes.md:117-118): never more users than resource slots, no *)
(* user leaves twice, and no call of the semaphore fails.                  *)
(***************************************************************************)
NoPoolViolation ==
  g_semaphore_violation_count = 0 /\ g_semaphore_error_count = 0

(***************************************************************************)
(* A task that is BLOCKED waits for the one object whose call it is in,    *)
(* and no object keeps a waiting bit of a task that is not in its call: a  *)
(* stale bit would let an unlock or a post wake a task out of a wait for   *)
(* the other object, which waiting_task_mask and TASK_STATE_BLOCKED alone  *)
(* cannot tell apart (mutex.c:79-96, semaphore.c:77-94).  And the waits    *)
(* for slot and console never close a circle: one worker is not BLOCKED.   *)
(***************************************************************************)
BitsInCalls ==
  \A t \in AppTasks :
    /\ t \in semaphore.waiting \cup semaphore.granted => pc[t] = "wait"
    /\ t \in g_console_mutex.waiting => pc[t] = "lock"
    /\ task_state[t] = "BLOCKED" =>
         t \in semaphore.waiting \cup g_console_mutex.waiting

WaitsForOneObject ==
  /\ BitsInCalls
  /\ AppTasks # {} => \E t \in AppTasks : task_state[t] # "BLOCKED"

(* Every worker gets a slot, again and again.                              *)
EveryoneGetsASlot == \A t \in AppTasks : []<>(pc[t] = "hold")
-----------------------------------------------------------------------------
(* The inductive invariant behind the two (SemaphoreDemoProofs).           *)

(* The workers that have a slot, and those that are in the books.          *)
Users     == {t \in AppTasks : pc[t] \in {"enter", "lock", "unlock", "hold",
                                          "exit", "post"}}
Inscribed == {t \in AppTasks : pc[t] \in {"lock", "unlock", "hold", "exit"}}

(* The slots are free, reserved for a woken worker, or in use.             *)
SlotsAddUp ==
  /\ semaphore.maximum_count = Capacity
  /\ semaphore.count + Cardinality(semaphore.granted) + Cardinality(Users) = Capacity
  /\ g_semaphore_active_users = Cardinality(Inscribed)

(* The console belongs to the worker that writes, or to one that has been  *)
(* handed it and does not know yet.                                        *)
ConsoleOwned ==
  \A t \in AppTasks :
    /\ pc[t] = "unlock" => g_console_mutex.owner_task_id = t
    /\ g_console_mutex.owner_task_id = t =>
         pc[t] = "unlock" \/ (pc[t] = "lock" /\ t \in g_console_mutex.waiting)

DemoInv ==
  /\ LayerInv /\ ~primask
  /\ SemaphoreSound /\ Console!MutexSound
  /\ pc \in [AppTasks -> {"wait", "enter", "lock", "unlock", "hold", "exit",
                          "post", "rest"}]
  /\ lines \in [AppTasks -> {0, 1}]
  /\ SlotsAddUp
  /\ ConsoleOwned
  /\ NoPoolViolation
  /\ BitsInCalls
=============================================================================
