------------------------- MODULE SemaphoreFairness -------------------------
(***************************************************************************)
(* SemaphoreTasks with a history variable: which tasks were served since t *)
(* began to wait.                                                          *)
(***************************************************************************)
EXTENDS SemaphoreTasks

VARIABLE served

(* Tasks that get a unit in this step: by a grant, or from the count.      *)
Receivers ==
  {u \in AppTasks : \/ u \in semaphore'.granted /\ u \notin semaphore.granted
                    \/ /\ using'[u] /\ ~using[u]
                       /\ u \notin semaphore.granted}

ServedNext ==
  served' = [t \in AppTasks |->
               IF t \in semaphore'.waiting THEN served[t] \cup Receivers ELSE {}]

FInit == SInit /\ served = [t \in AppTasks |-> {}]

FSpec == FInit /\ [][SNext /\ ServedNext]_<<semVars, served>>

(***************************************************************************)
(* Nobody waits twice for the same competitor: while t waits, no other     *)
(* task gets a second unit, by handoff or by taking one from the count     *)
(* before t has run.                                                       *)
(***************************************************************************)
NobodyServedTwice ==
  [][\A t, u \in AppTasks :
       /\ t \in semaphore.waiting /\ t \in semaphore'.waiting
       /\ u \in Receivers
       => u \notin served[t]]_<<semVars, served>>

-----------------------------------------------------------------------------
(* The inductive invariant behind it (SemaphoreProofs): whoever was served *)
(* before t lies between t and the task granted last, going round the ids. *)
ServedInv ==
  /\ served \in [AppTasks -> SUBSET AppTasks]
  /\ \A t \in AppTasks : served[t] # {} =>
       /\ t \in semaphore.waiting /\ t # semaphore.last_granted_task_id
       /\ \A u \in served[t] :
            CyclicOffset(t, u) <= CyclicOffset(t, semaphore.last_granted_task_id)
=============================================================================
