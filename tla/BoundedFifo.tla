---------------------------- MODULE BoundedFifo ----------------------------
(***************************************************************************)
(* What the message queue promises (docs/message_queue.md): a FIFO of at   *)
(* most Capacity messages.  A call takes effect once, in one step between  *)
(* its start and its return, or returns an error and has had no effect.    *)
(***************************************************************************)
EXTENDS Integers, Sequences

CONSTANTS Callers, Messages, Garbage, Capacity

VARIABLES
  fifo,      \* the messages in the queue, oldest first
  phase,     \* what each task does: "idle", "send", "receive" or "done"
  message,   \* the buffer each task sends from or receives into
  status     \* what the last call of each task returned

fifoVars == <<fifo, phase, message, status>>

FifoInit ==
  /\ fifo = <<>>
  /\ phase = [t \in Callers |-> "idle"]
  /\ message = [t \in Callers |-> Garbage]
  /\ status = [t \in Callers |-> "OK"]

CallSend(t) ==
  /\ phase[t] = "idle"
  /\ \E m \in Messages : message' = [message EXCEPT ![t] = m]
  /\ phase' = [phase EXCEPT ![t] = "send"]
  /\ UNCHANGED <<fifo, status>>

CallReceive(t) ==
  /\ phase[t] = "idle"
  /\ message' = [message EXCEPT ![t] = Garbage]
  /\ phase' = [phase EXCEPT ![t] = "receive"]
  /\ UNCHANGED <<fifo, status>>

Put(t) ==
  /\ phase[t] = "send" /\ Len(fifo) < Capacity
  /\ fifo' = Append(fifo, message[t])
  /\ phase' = [phase EXCEPT ![t] = "done"]
  /\ UNCHANGED <<message, status>>

Take(t) ==
  /\ phase[t] = "receive" /\ fifo # <<>>
  /\ message' = [message EXCEPT ![t] = Head(fifo)]
  /\ fifo' = Tail(fifo)
  /\ phase' = [phase EXCEPT ![t] = "done"]
  /\ UNCHANGED status

Return(t) ==
  /\ phase[t] = "done"
  /\ phase' = [phase EXCEPT ![t] = "idle"]
  /\ status' = [status EXCEPT ![t] = "OK"]
  /\ UNCHANGED <<fifo, message>>

Fail(t) ==
  /\ phase[t] \in {"send", "receive"}
  /\ phase' = [phase EXCEPT ![t] = "idle"]
  /\ status' = [status EXCEPT ![t] = "SYNC_OPERATION"]
  /\ UNCHANGED <<fifo, message>>

FifoNext ==
  \E t \in Callers : \/ CallSend(t) \/ CallReceive(t) \/ Put(t) \/ Take(t)
                     \/ Return(t) \/ Fail(t)

FifoSpec == FifoInit /\ [][FifoNext]_fifoVars
=============================================================================
