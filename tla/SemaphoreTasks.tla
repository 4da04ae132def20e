--------------------------- MODULE SemaphoreTasks --------------------------
(***************************************************************************)
(* Tasks that share one counting semaphore.  As a pool of resources, the   *)
(* way the workers of kernel.c share g_resource_semaphore, only a task     *)
(* that took a unit posts one back; as a signal, any task may post.        *)
(***************************************************************************)
EXTENDS Semaphore, FiniteSets

CONSTANTS
  Initial, Maximum,   \* arguments of os_semaphore_init
  Pool                \* is the semaphore a pool of resources?

ASSUME CountAssumption ==
  /\ Initial \in Nat /\ Maximum \in Nat \ {0} /\ Initial <= Maximum
  /\ Pool \in BOOLEAN

VARIABLES
  pc,       \* "run", or "wait" while t is inside a blocking wait
  using,    \* has the last wait of t returned OK and t not posted since?
  ledger    \* posts that returned OK less waits that returned OK

taskVars == <<pc, using, ledger>>
semVars  == <<layerVars, semaphore, taskVars>>

SInit ==
  /\ LayerInit
  /\ os_semaphore_init(Initial, Maximum)
  /\ pc = [t \in AppTasks |-> "run"]
  /\ using = [t \in AppTasks |-> FALSE]
  /\ ledger = 0

(* One turn of the loop of os_semaphore_wait.                              *)
WaitUnit(t) ==
  /\ ~using[t]
  /\ \E result \in WaitResults :
       /\ os_semaphore_wait(t, result)
       /\ pc' = [pc EXCEPT ![t] = IF result = "BLOCKED" THEN "wait" ELSE "run"]
       /\ using' = [using EXCEPT ![t] = result = "OK"]
       /\ ledger' = IF result = "OK" THEN ledger - 1 ELSE ledger

PostUnit(t) ==
  /\ pc[t] = "run"
  /\ Pool => using[t]
  /\ \E result \in PostResults :
       /\ os_semaphore_post(t, result)
       /\ using' = [using EXCEPT ![t] = FALSE]
       /\ ledger' = IF result = "OK" THEN ledger + 1 ELSE ledger
  /\ UNCHANGED pc

(* A task that uses a unit for a signal is done with it at once.           *)
Other(t) ==
  /\ pc[t] = "run"
  /\ \/ /\ os_sleep(t) \/ os_irq_save(t) \/ os_irq_restore(t)
        /\ UNCHANGED using
     \/ /\ ~Pool /\ using[t] /\ Executing(t)
        /\ using' = [using EXCEPT ![t] = FALSE]
        /\ UNCHANGED layerVars
  /\ UNCHANGED <<semaphore, pc, ledger>>

Core == CoreNext /\ UNCHANGED <<semaphore, taskVars>>

SNext == Core \/ \E t \in AppTasks : WaitUnit(t) \/ PostUnit(t) \/ Other(t)

SSpec == SInit /\ [][SNext]_semVars

-----------------------------------------------------------------------------
(* Type invariant.                                                         *)
STypeOK ==
  /\ LayerTypeOK
  /\ semaphore \in SemaphoreType
  /\ semaphore.maximum_count = Maximum
  /\ pc \in [AppTasks -> {"run", "wait"}]
  /\ using \in [AppTasks -> BOOLEAN]
  /\ ledger \in Int

(***************************************************************************)
(* No unit is lost or created: the units in the count, and those reserved  *)
(* for woken tasks that have not run yet, are what the callers left of the *)
(* initial ones; the count stays within its maximum.                       *)
(***************************************************************************)
UnitsConserved ==
  /\ semaphore.count + Cardinality(semaphore.granted) = Initial + ledger
  /\ semaphore.count <= Maximum

(***************************************************************************)
(* No wakeup is lost and no unit lies idle while a task waits: a task that *)
(* is inside os_semaphore_wait is BLOCKED and waiting, or has a unit       *)
(* reserved and is not BLOCKED; while tasks wait, the count is zero.       *)
(***************************************************************************)
NoLostWakeup ==
  /\ \A t \in AppTasks :
       /\ pc[t] = "wait" <=> t \in semaphore.waiting \cup semaphore.granted
       /\ t \in semaphore.waiting => t \notin semaphore.granted
       /\ task_state[t] = "BLOCKED" <=> t \in semaphore.waiting
  /\ semaphore.waiting # {} => semaphore.count = 0

(***************************************************************************)
(* As a pool, at most Maximum tasks use a resource at a time, a resource   *)
(* whose user has gone is in the count or reserved for a waiting task, and *)
(* the post that returns it never overflows.                               *)
(***************************************************************************)
PoolBound ==
  Pool /\ Initial = Maximum =>
    semaphore.count + Cardinality(semaphore.granted)
      + Cardinality({t \in AppTasks : using[t]}) = Maximum

(* The inductive invariant (proved in SemaphoreProofs).                    *)
SemaphoreInv ==
  /\ LayerInv
  /\ STypeOK
  /\ semaphore.waiting \cup semaphore.granted \subseteq AppTasks
  /\ \A t \in AppTasks : pc[t] = "wait" => ~using[t]
  /\ UnitsConserved
  /\ NoLostWakeup
=============================================================================
