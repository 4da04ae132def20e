---------------------------- MODULE MessageQueue ---------------------------
(***************************************************************************)
(* The message queue service (message_queue.c) and tasks that call it: a   *)
(* ring of slots, the mutex that protects it, and the two semaphores that  *)
(* count its messages and its free slots.                                  *)
(*                                                                         *)
(* A call is a sequence of calls of the other services; a task may be      *)
(* preempted, or block, between any two of them.  Copying a message takes  *)
(* many instructions: a slot holds Garbage while a sender is at it, and a  *)
(* receiver gets Garbage if the slot changes while it reads.               *)
(***************************************************************************)
EXTENDS TaskLayer, FiniteSets

CONSTANTS
  Capacity,             \* slots in the storage of the queue
  Messages, Garbage,    \* contents of a message; no message
  Senders, Receivers    \* the tasks that call send and receive

ASSUME QueueAssumption ==
  /\ Capacity \in Nat \ {0}
  /\ Garbage \notin Messages
  /\ Senders \subseteq AppTasks /\ Receivers \subseteq AppTasks

VARIABLES
  storage, head, tail,                            \* the ring
  access_mutex, available_items, available_spaces,
  call,      \* the call t is in, or was in last: "send" or "receive"
  step,      \* where in that call t is; "run" outside of one
  message,   \* the buffer t sends from or receives into
  status,    \* what the last call of t returned
  stored     \* history: messages written and not yet read

ringVars  == <<storage, head, tail, stored>>
syncVars  == <<access_mutex, available_items, available_spaces>>
callVars  == <<call, step, message, status>>
queueVars == <<layerVars, ringVars, syncVars, callVars>>

Access == INSTANCE Mutex     WITH mutex     <- access_mutex
Items  == INSTANCE Semaphore WITH semaphore <- available_items
Spaces == INSTANCE Semaphore WITH semaphore <- available_spaces

Slots == 0 .. Capacity - 1
Calls == {"send", "receive"}
Steps == {"run", "wait", "lock", "copy", "advance", "unlock", "post", "give_back"}

os_message_queue_init ==
  /\ storage = [i \in Slots |-> Garbage]
  /\ head = 0 /\ tail = 0 /\ stored = 0
  /\ Access!os_mutex_init
  /\ Items!os_semaphore_init(0, Capacity)
  /\ Spaces!os_semaphore_init(Capacity, Capacity)

QInit ==
  /\ LayerInit
  /\ os_message_queue_init
  /\ call = [t \in AppTasks |-> "send"]
  /\ step = [t \in AppTasks |-> "run"]
  /\ message = [t \in AppTasks |-> Garbage]
  /\ status = [t \in AppTasks |-> "OK"]

-----------------------------------------------------------------------------
(* Helpers                                                                 *)

Goto(t, s) ==
  /\ step' = [step EXCEPT ![t] = s]
  /\ UNCHANGED <<call, status>>

ReturnStatus(t, s) ==
  /\ step' = [step EXCEPT ![t] = "run"]
  /\ status' = [status EXCEPT ![t] = s]
  /\ UNCHANGED call

(* The next slot; without the wrap of the ring, and as it is.              *)
NextSlot_no_wrap(i) == IF i + 1 > Capacity THEN 0 ELSE i + 1
NextSlot(i) == IF i + 1 >= Capacity THEN 0 ELSE i + 1

(* A send takes a free slot and leaves an item, a receive the reverse.     *)
WaitSpaces(t, result) ==
  Spaces!os_semaphore_wait(t, result) /\ UNCHANGED available_items
WaitItems(t, result) ==
  Items!os_semaphore_wait(t, result) /\ UNCHANGED available_spaces
PostSpaces(t, result) ==
  Spaces!os_semaphore_post(t, result) /\ UNCHANGED available_items
PostItems(t, result) ==
  Items!os_semaphore_post(t, result) /\ UNCHANGED available_spaces

-----------------------------------------------------------------------------
(* os_message_queue_send and os_message_queue_receive                      *)

Start(t) ==
  /\ Executing(t) /\ step[t] = "run"
  /\ step' = [step EXCEPT ![t] = "wait"]
  /\ \/ /\ t \in Senders
        /\ call' = [call EXCEPT ![t] = "send"]
        /\ \E m \in Messages : message' = [message EXCEPT ![t] = m]
     \/ /\ t \in Receivers
        /\ call' = [call EXCEPT ![t] = "receive"]
        /\ message' = [message EXCEPT ![t] = Garbage]
  /\ UNCHANGED <<layerVars, ringVars, syncVars, status>>

(* One turn of os_semaphore_wait on the semaphore the call takes from.     *)
WaitUnit(t) ==
  /\ step[t] = "wait"
  /\ \E result \in Items!WaitResults :
       /\ \/ call[t] = "send"    /\ WaitSpaces(t, result)
          \/ call[t] = "receive" /\ WaitItems(t, result)
       /\ \/ result = "BLOCKED" /\ Goto(t, "wait")
          \/ result = "OK"      /\ Goto(t, "lock")
          \/ result \notin {"BLOCKED", "OK"} /\ ReturnStatus(t, "SYNC_OPERATION")
  /\ UNCHANGED <<ringVars, access_mutex, message>>

(* One turn of os_mutex_lock; first with its result not looked at.         *)
Lock_unchecked(t) ==
  /\ step[t] = "lock"
  /\ \E result \in Access!LockResults :
       /\ Access!os_mutex_lock(t, result)
       /\ Goto(t, IF result = "BLOCKED" THEN "lock" ELSE "copy")
  /\ UNCHANGED <<ringVars, available_items, available_spaces, message>>

Lock(t) ==
  /\ step[t] = "lock"
  /\ \E result \in Access!LockResults :
       /\ Access!os_mutex_lock(t, result)
       /\ \/ result = "BLOCKED" /\ Goto(t, "lock")
          \/ result = "OK"      /\ Goto(t, "copy")
          \/ result \notin {"BLOCKED", "OK"} /\ Goto(t, "give_back")
  /\ UNCHANGED <<ringVars, available_items, available_spaces, message>>

(* The lock failed: the unit goes back, and the result of the post is      *)
(* ignored; first with the post forgotten.                                 *)
GiveBack_nothing(t) ==
  /\ Executing(t) /\ step[t] = "give_back"
  /\ ReturnStatus(t, "SYNC_OPERATION")
  /\ UNCHANGED <<layerVars, syncVars, ringVars, message>>

GiveBack(t) ==
  /\ step[t] = "give_back"
  /\ \E result \in Items!PostResults :
       \/ call[t] = "send"    /\ PostSpaces(t, result)
       \/ call[t] = "receive" /\ PostItems(t, result)
  /\ ReturnStatus(t, "SYNC_OPERATION")
  /\ UNCHANGED <<ringVars, access_mutex, message>>

(* The copy begins ...                                                     *)
Copy(t) ==
  /\ Executing(t) /\ step[t] = "copy"
  /\ \/ /\ call[t] = "send"
        /\ storage' = [storage EXCEPT ![tail] = Garbage]
        /\ UNCHANGED message
     \/ /\ call[t] = "receive"
        /\ message' = [message EXCEPT ![t] = storage[head]]
        /\ UNCHANGED storage
  /\ Goto(t, "advance")
  /\ UNCHANGED <<layerVars, head, tail, stored, syncVars>>

(* ... and ends, and the index moves on to the next slot.                  *)
Advance(t) ==
  /\ Executing(t) /\ step[t] = "advance"
  /\ \/ /\ call[t] = "send"
        /\ storage' = [storage EXCEPT ![tail] = message[t]]
        /\ tail' = NextSlot(tail)
        /\ stored' = stored + 1
        /\ UNCHANGED <<head, message>>
     \/ /\ call[t] = "receive"
        /\ message' = [message EXCEPT ![t] =
                         IF storage[head] = @ THEN @ ELSE Garbage]
        /\ head' = NextSlot(head)
        /\ stored' = stored - 1
        /\ UNCHANGED <<storage, tail>>
  /\ Goto(t, "unlock")
  /\ UNCHANGED <<layerVars, syncVars>>

Unlock(t) ==
  /\ step[t] = "unlock"
  /\ \E result \in Access!UnlockResults :
       /\ Access!os_mutex_unlock(t, result)
       /\ IF result = "OK" THEN Goto(t, "post") ELSE ReturnStatus(t, "SYNC_OPERATION")
  /\ UNCHANGED <<ringVars, available_items, available_spaces, message>>

PostUnit(t) ==
  /\ step[t] = "post"
  /\ \E result \in Items!PostResults :
       /\ \/ call[t] = "send"    /\ PostItems(t, result)
          \/ call[t] = "receive" /\ PostSpaces(t, result)
       /\ ReturnStatus(t, IF result = "OK" THEN "OK" ELSE "SYNC_OPERATION")
  /\ UNCHANGED <<ringVars, access_mutex, message>>

-----------------------------------------------------------------------------
Idle == UNCHANGED <<ringVars, syncVars, callVars>>

(* What else a task does between two calls.                                *)
Other(t) ==
  /\ step[t] = "run"
  /\ os_sleep(t) \/ os_irq_save(t) \/ os_irq_restore(t)
  /\ Idle

Core == CoreNext /\ Idle

InCall(t) == \/ WaitUnit(t) \/ Lock(t) \/ GiveBack(t) \/ Copy(t) \/ Advance(t)
             \/ Unlock(t) \/ PostUnit(t)

QNext == Core \/ \E t \in AppTasks : Start(t) \/ InCall(t) \/ Other(t)

QSpec == QInit /\ [][QNext]_queueVars

-----------------------------------------------------------------------------
(* Type invariant.                                                         *)
QTypeOK ==
  /\ LayerTypeOK
  /\ access_mutex \in Access!MutexType
  /\ available_items \in Items!SemaphoreType
  /\ available_spaces \in Spaces!SemaphoreType
  /\ storage \in [Slots -> Messages \cup {Garbage}]
  /\ head \in Slots /\ tail \in Slots /\ stored \in 0 .. Capacity
  /\ call \in [AppTasks -> Calls]
  /\ step \in [AppTasks -> Steps]
  /\ message \in [AppTasks -> Messages \cup {Garbage}]
  /\ status \in [AppTasks -> {"OK", "SYNC_OPERATION"}]

(* Units of a semaphore that are free or reserved for a woken task.        *)
Units(semaphore) == semaphore.count + Cardinality(semaphore.granted)

(* Calls that have taken their unit and not moved the index yet, and those *)
(* that have moved it and not posted the other unit yet.                   *)
Before(c) == Cardinality({t \in AppTasks :
  call[t] = c /\ step[t] \in {"lock", "copy", "advance", "give_back"}})
After(c) == Cardinality({t \in AppTasks :
  call[t] = c /\ step[t] \in {"unlock", "post"}})

(***************************************************************************)
(* The two semaphores and the ring agree, whatever calls are under way:    *)
(* no slot and no message leaks, on the error path of a failed lock        *)
(* either, and no call finds a full or an empty ring behind its unit.      *)
(***************************************************************************)
SlotsAccounted ==
  /\ Units(available_items) = stored - Before("receive") - After("send")
  /\ Units(available_spaces) = Capacity - stored - Before("send") - After("receive")
  /\ (tail - head - stored) % Capacity = 0

(***************************************************************************)
(* Nobody waits without a reason.  A BLOCKED task has its bit in one of    *)
(* the three objects; when no call is under way but those that wait, a     *)
(* sender waits only because the queue is full and a receiver only because *)
(* it is empty; and if all tasks are BLOCKED, all of them wait for a slot, *)
(* or all for a message: they never wait for each other in a circle.       *)
(***************************************************************************)
WaitsInQueue(t) ==
  t \in access_mutex.waiting \cup available_items.waiting \cup available_spaces.waiting

Blocked(t) == task_state[t] = "BLOCKED"

OnlyFullOrEmpty ==
  /\ \A t \in AppTasks : step[t] \in {"run", "wait"}
  /\ available_items.granted = {} /\ available_spaces.granted = {}
  => /\ available_spaces.waiting # {} => stored = Capacity
     /\ available_items.waiting # {} => stored = 0

WaitsForAReason ==
  /\ \A t \in AppTasks : Blocked(t) => WaitsInQueue(t)
  /\ OnlyFullOrEmpty
  /\ (\A t \in AppTasks : Blocked(t)) =>
       AppTasks \in {available_spaces.waiting, available_items.waiting}

(***************************************************************************)
(* The inductive invariant (proved in MessageQueueProofs): every object is *)
(* sound, a task has a bit or a unit reserved only where its call is, the  *)
(* task between lock and unlock is the owner and alone, and what it has    *)
(* read is still in the slot when it moves the index.                      *)
(***************************************************************************)
PlacesAgree ==
  \A t \in AppTasks :
    /\ t \in access_mutex.waiting => step[t] = "lock"
    /\ access_mutex.owner_task_id = t /\ t \notin access_mutex.waiting
         <=> step[t] \in {"copy", "advance", "unlock"}
    /\ t \in available_items.waiting \cup available_items.granted =>
         step[t] = "wait" /\ call[t] = "receive"
    /\ t \in available_spaces.waiting \cup available_spaces.granted =>
         step[t] = "wait" /\ call[t] = "send"

RingAgrees ==
  /\ tail = head + stored \/ tail = head + stored - Capacity
  /\ \A i \in 0 .. stored - 1 : storage[(head + i) % Capacity] \in Messages
  /\ \A t \in AppTasks :
       /\ call[t] = "send" /\ step[t] # "run" => message[t] \in Messages
       /\ call[t] = "receive" /\ step[t] \in {"wait", "lock", "copy", "give_back"}
            => message[t] = Garbage
       /\ call[t] = "receive" /\ step[t] = "advance" => message[t] = storage[head]

QueueInv ==
  /\ LayerInv
  /\ QTypeOK
  /\ Access!MutexSound /\ Items!SemaphoreSound /\ Spaces!SemaphoreSound
  /\ available_items.maximum_count = Capacity
  /\ available_spaces.maximum_count = Capacity
  /\ PlacesAgree
  /\ SlotsAccounted
  /\ RingAgrees

-----------------------------------------------------------------------------
(* The queue implements a bounded FIFO.  A call takes effect when the index *)
(* moves.                                                                  *)
Fifo == INSTANCE BoundedFifo WITH
  Callers <- AppTasks,
  fifo    <- [i \in 1 .. stored |-> storage[(head + i - 1) % Capacity]],
  phase   <- [t \in AppTasks |->
                CASE step[t] = "run" -> "idle"
                  [] step[t] \in {"unlock", "post"} -> "done"
                  [] OTHER -> call[t]],
  message <- [t \in AppTasks |->
                IF call[t] = "receive" /\ step[t] = "advance" THEN Garbage
                ELSE message[t]]

(***************************************************************************)
(* Messages come out once, complete, and in the order in which they went   *)
(* in, whatever senders and receivers interleave; a call that returns an   *)
(* error has neither sent nor received anything, and one that returns OK   *)
(* has.                                                                    *)
(***************************************************************************)
ImplementsFifo == Fifo!FifoSpec
=============================================================================
