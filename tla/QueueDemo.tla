----------------------------- MODULE QueueDemo -----------------------------
(***************************************************************************)
(* The message queue demo of kernel.c: tasks 1 and 2 run                   *)
(* kernel_run_queue_producer, task 3 runs kernel_run_queue_consumer.  Each *)
(* message carries its producer and a sequence number; the consumer checks *)
(* that the numbers of each producer come without a gap.  After each call  *)
(* of the queue a task writes a line under g_console_mutex, so the demo    *)
(* composes the queue with the console.                                    *)
(*                                                                         *)
(* Left out: the printing itself (module Console), the LEDs (module Leds), *)
(* production_tick and the counters of successes.                          *)
(***************************************************************************)
EXTENDS MessageQueue

CONSTANT
  SequenceModulus   \* sequence numbers wrap here (2^32 in the code)

(* More numbers than one producer can have under way: in the ring, and in  *)
(* the hands of a consumer.                                                *)
ASSUME SequenceAssumption ==
  SequenceModulus \in Nat /\ SequenceModulus > Capacity + Cardinality(Receivers)

VARIABLES
  pc,                 \* where t is in its loop
  sequence,           \* sequence of the producers
  expected_sequence,  \* g_message_queue_producer_*_expected_sequence
  g_console_mutex,
  g_message_queue_sequence_error_count, g_message_queue_error_count

errorCounts == <<g_message_queue_sequence_error_count, g_message_queue_error_count>>
loopVars    == <<pc, sequence, expected_sequence, g_console_mutex, errorCounts>>
demoVars    == <<queueVars, loopVars>>

Sequences    == 0 .. SequenceModulus - 1
DemoMessages == [producer_id : Senders, sequence : Sequences]
Workers      == Senders \cup Receivers

(* Who produces does not consume, and there is one consumer: the roles that *)
(* kernel_main gives the tasks.                                            *)
ASSUME RolesAssumption ==
  /\ Messages = DemoMessages
  /\ Senders \cap Receivers = {}
  /\ \A t, u \in Receivers : t = u

Console == INSTANCE Mutex WITH mutex <- g_console_mutex

DemoInit ==
  /\ QInit
  /\ Console!os_mutex_init
  /\ pc = [t \in Workers |-> "call"]
  /\ sequence = [t \in Senders |-> 0]
  /\ expected_sequence = [t \in Senders |-> 0]
  /\ g_message_queue_sequence_error_count = 0
  /\ g_message_queue_error_count = 0

Move(t, from, to) == pc[t] = from /\ pc' = [pc EXCEPT ![t] = to]

NextNumber(n) == (n + 1) % SequenceModulus

-----------------------------------------------------------------------------
(* The call of the queue; a producer fills in its message first.           *)
Begin(t) ==
  /\ pc[t] = "call"
  /\ Start(t)
  /\ t \in Senders =>
       message'[t] = [producer_id |-> t, sequence |-> sequence[t]]
  /\ Move(t, "call", "called")
  /\ UNCHANGED <<sequence, expected_sequence, g_console_mutex, errorCounts>>

Continue(t) ==
  /\ pc[t] = "called"
  /\ InCall(t)
  /\ UNCHANGED loopVars

(* The result of the call: kernel_record_message_queue_error, or           *)
(* _receive_success.                                                       *)
Failed(t) ==
  /\ status[t] # "OK"
  /\ g_message_queue_error_count' = g_message_queue_error_count + 1
  /\ Move(t, "called", "sleep")
  /\ UNCHANGED <<expected_sequence, g_message_queue_sequence_error_count>>

Sent(t) ==
  /\ status[t] = "OK" /\ t \in Senders
  /\ Move(t, "called", "lock")
  /\ UNCHANGED <<expected_sequence, errorCounts>>

Received(t) ==
  /\ status[t] = "OK" /\ t \in Receivers
  /\ LET m     == message[t]
         right == m # Garbage /\ m.sequence = expected_sequence[m.producer_id]
     IN  /\ g_message_queue_sequence_error_count' =
              g_message_queue_sequence_error_count + (IF right THEN 0 ELSE 1)
         /\ expected_sequence' =
              IF m = Garbage THEN expected_sequence
              ELSE [expected_sequence EXCEPT ![m.producer_id] = NextNumber(m.sequence)]
  /\ Move(t, "called", "lock")
  /\ UNCHANGED g_message_queue_error_count

Record(t) ==
  /\ Executing(t) /\ step[t] = "run"
  /\ Failed(t) \/ Sent(t) \/ Received(t)
  /\ UNCHANGED <<queueVars, sequence, g_console_mutex>>

(* The successful branch ends with sequence++, whatever became of the      *)
(* line; first with that forgotten.                                        *)
AfterLine_same_number(t) == UNCHANGED sequence

AfterLine(t) ==
  sequence' = IF t \in Senders
                THEN [sequence EXCEPT ![t] = NextNumber(@)] ELSE sequence

(* kernel_write_queue_message                                              *)
LockConsole(t) ==
  \E result \in Console!LockResults :
    /\ Console!os_mutex_lock(t, result)
    /\ \/ /\ result = "BLOCKED"
          /\ Move(t, "lock", "lock")
          /\ UNCHANGED <<sequence, g_message_queue_error_count>>
       \/ /\ result = "OK"
          /\ Move(t, "lock", "unlock")
          /\ UNCHANGED <<sequence, g_message_queue_error_count>>
       \/ /\ result \notin {"BLOCKED", "OK"}
          /\ Move(t, "lock", "sleep")
          /\ AfterLine(t)
          /\ g_message_queue_error_count' = g_message_queue_error_count + 1
    /\ UNCHANGED <<ringVars, syncVars, callVars, expected_sequence,
                   g_message_queue_sequence_error_count>>

UnlockConsole(t) ==
  \E result \in Console!UnlockResults :
    /\ Console!os_mutex_unlock(t, result)
    /\ Move(t, "unlock", "sleep")
    /\ AfterLine(t)
    /\ g_message_queue_error_count' =
         g_message_queue_error_count + (IF result = "OK" THEN 0 ELSE 1)
    /\ UNCHANGED <<ringVars, syncVars, callVars, expected_sequence,
                   g_message_queue_sequence_error_count>>

(* Producers sleep between two messages; the consumer does or does not     *)
(* (KERNEL_CONSUMER_PROCESSING_MS), and always after an error.             *)
Rest(t) ==
  /\ Move(t, "sleep", "call")
  /\ \/ os_sleep(t)
     \/ t \in Receivers /\ status[t] = "OK" /\ Executing(t) /\ UNCHANGED layerVars
  /\ UNCHANGED <<ringVars, syncVars, callVars, sequence, expected_sequence,
                 g_console_mutex, errorCounts>>

-----------------------------------------------------------------------------
Worker(t) == \/ Begin(t) \/ Continue(t) \/ Record(t)
             \/ LockConsole(t) \/ UnlockConsole(t) \/ Rest(t)

DemoIdle == Idle /\ UNCHANGED loopVars

DemoNext == (CoreNext /\ DemoIdle) \/ \E t \in Workers : Worker(t)

DemoSpec == DemoInit /\ [][DemoNext]_demoVars

(***************************************************************************)
(* Fairness as in MutexTasks; no task of the demo masks interrupts for     *)
(* long, so a sleeper only needs SysTick to go on.                         *)
(***************************************************************************)
DemoFairness ==
  /\ WF_demoVars(RequestSwitch /\ DemoIdle)
  /\ \A t \in Workers :
       /\ SF_demoVars(Dispatch(t) /\ ~pendsv' /\ DemoIdle)
       /\ WF_demoVars(Wake({t}) /\ DemoIdle)
       /\ SF_demoVars(Worker(t))

DemoFairSpec == DemoSpec /\ DemoFairness

-----------------------------------------------------------------------------
(***************************************************************************)
(* "g_message_queue_sequence_error_count == 0", "g_message_queue_error_    *)
(* count == 0" (docs/debug_notes.md:139-140): whatever the three tasks and *)
(* SysTick do, the consumer gets every message of each producer, once, in  *)
(* the order in which it was sent, and no call fails.                      *)
(***************************************************************************)
NoQueueErrors ==
  /\ g_message_queue_sequence_error_count = 0
  /\ g_message_queue_error_count = 0

(***************************************************************************)
(* The messages of each producer between its counter and the consumer's    *)
(* are those in the ring, and those that a call has put in or taken out    *)
(* and whose task has not counted yet.                                     *)
(***************************************************************************)
MessageAt(i) == storage[(head + i) % Capacity]

InRing(p) ==
  Cardinality({i \in 0 .. stored - 1 :
                 MessageAt(i) # Garbage /\ MessageAt(i).producer_id = p})

Uncounted(p) ==
  IF \/ pc[p] \in {"lock", "unlock"}
     \/ pc[p] = "called" /\ step[p] \in {"unlock", "post", "run"}
    THEN 1 ELSE 0

Unchecked(p) ==
  Cardinality({t \in Receivers :
    /\ pc[t] = "called" /\ step[t] \in {"unlock", "post", "run"}
    /\ message[t] # Garbage /\ message[t].producer_id = p})

MessagesAccounted ==
  g_message_queue_error_count = 0 =>
    \A p \in Senders :
      (sequence[p] + Uncounted(p) - expected_sequence[p]) % SequenceModulus =
        InRing(p) + Unchecked(p)

(***************************************************************************)
(* The tasks never end up waiting for each other, across the queue and the *)
(* console: whatever a task is BLOCKED for, its bit is there for somebody  *)
(* to find, and one worker at least is not BLOCKED.                        *)
(***************************************************************************)
BlockedBehindBit ==
  \A t \in AppTasks : Blocked(t) => WaitsInQueue(t) \/ t \in g_console_mutex.waiting

NoDeadlock ==
  /\ BlockedBehindBit
  /\ Senders # {} /\ Receivers # {} => \E t \in Workers : ~Blocked(t)

(* Each producer gets message after message through to the consumer.       *)
EveryProducerHeard ==
  \A p \in Senders : []<><<expected_sequence'[p] # expected_sequence[p]>>_demoVars
-----------------------------------------------------------------------------
(***************************************************************************)
(* The inductive invariant behind the two (proved in MessageQueueProofs):  *)
(* where the tasks are, what their messages bear, and that the numbers of  *)
(* each producer count from the consumer's through the ring to its own.    *)
(***************************************************************************)
(* A task is where its call of the queue, or of the console, says it is,   *)
(* and no call has failed.                                                 *)
DemoPlaces ==
  /\ pc \in [Workers -> {"call", "called", "lock", "unlock", "sleep"}]
  /\ \A t \in AppTasks :
       /\ step[t] # "run" => t \in Workers /\ pc[t] = "called"
       /\ step[t] # "give_back" /\ status[t] = "OK"
       /\ t \in g_console_mutex.waiting => t \in Workers /\ pc[t] = "lock"
       /\ g_console_mutex.owner_task_id = t /\ t \notin g_console_mutex.waiting
            <=> t \in Workers /\ pc[t] = "unlock"
  /\ \A t \in Workers :
       pc[t] = "called" => call[t] = IF t \in Senders THEN "send" ELSE "receive"
  /\ g_message_queue_error_count = 0

(* A message that has left the ring, and that the consumer has not checked. *)
Holds(t) == pc[t] = "called" /\ step[t] \in {"unlock", "post", "run"}
Held(p)  == \E t \in Receivers : Holds(t) /\ message[t].producer_id = p

(* The number the oldest message of p in the ring has, or its next one.    *)
FirstNumber(p) ==
  IF Held(p) THEN NextNumber(expected_sequence[p]) ELSE expected_sequence[p]

LastNumber(p) ==
  IF Uncounted(p) = 1 THEN NextNumber(sequence[p]) ELSE sequence[p]

(* Between the two, the messages of p in the ring count without a gap.     *)
Distance(m, n) == IF m <= n THEN n - m ELSE n - m + SequenceModulus

Numbered(p, number) ==
  /\ number[0] = FirstNumber(p) /\ number[stored] = LastNumber(p)
  /\ \A i \in 0 .. stored - 1 :
       IF MessageAt(i).producer_id = p
         THEN MessageAt(i).sequence = number[i] /\ number[i + 1] = NextNumber(number[i])
         ELSE number[i + 1] = number[i]

RingCounts(p) ==
  /\ InRing(p) = Distance(FirstNumber(p), LastNumber(p))
  /\ \E number \in [0 .. stored -> Sequences] : Numbered(p, number)

RingNumbered == \A p \in Senders : RingCounts(p)

DemoNumbers ==
  /\ sequence \in [Senders -> Sequences]
  /\ expected_sequence \in [Senders -> Sequences]
  /\ \A t \in Senders :
       pc[t] = "called" => message[t] = [producer_id |-> t, sequence |-> sequence[t]]
  /\ \A t \in Receivers :
       Holds(t) => /\ message[t] \in Messages
                   /\ message[t].sequence = expected_sequence[message[t].producer_id]
  /\ g_message_queue_sequence_error_count = 0

DemoInv ==
  /\ QueueInv /\ ~primask /\ Console!MutexSound
  /\ DemoPlaces /\ DemoNumbers /\ RingNumbered
=============================================================================
