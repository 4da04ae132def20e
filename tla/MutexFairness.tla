--------------------------- MODULE MutexFairness ---------------------------
(***************************************************************************)
(* MutexTasks with a history variable: which tasks were given the mutex    *)
(* since t began to wait for it.                                           *)
(***************************************************************************)
EXTENDS MutexTasks

VARIABLE passed

Acquirers == {u \in AppTasks : ~IsOwner(u) /\ IsOwner(u)'}

PassedNext ==
  passed' = [t \in AppTasks |->
               IF pc'[t] = "lock" /\ ~IsOwner(t)' THEN passed[t] \cup Acquirers
               ELSE {}]

PInit == MInit /\ passed = [t \in AppTasks |-> {}]

PSpec == PInit /\ [][MNext /\ PassedNext]_<<mutexVars, passed>>

PFairSpec == PSpec /\ MFairness

(***************************************************************************)
(* The handoff is fair: while t waits, no other task gets the mutex twice. *)
(* unlock searches from its own task id, not from the head of a queue, and *)
(* tasks that unlock come back and wait again.                             *)
(***************************************************************************)
NobodyPassesTwice ==
  [][\A t, u \in AppTasks :
       u \in Acquirers /\ pc[t] = "lock" /\ ~IsOwner(t) /\ ~IsOwner(t)'
         => u \notin passed[t]]_<<mutexVars, passed>>

-----------------------------------------------------------------------------
(* The inductive invariant behind it (MutexProofs): whoever passed t lies  *)
(* between t and the present owner, going round the ids as unlock does.    *)
PassedInv ==
  /\ passed \in [AppTasks -> SUBSET AppTasks]
  /\ \A t \in AppTasks : passed[t] # {} =>
       /\ pc[t] = "lock" /\ ~IsOwner(t)
       /\ \A u \in passed[t] :
            CyclicOffset(t, u) <= CyclicOffset(t, mutex.owner_task_id)
=============================================================================
