------------------------ MODULE SemaphoreDemoProofs ------------------------
(***************************************************************************)
(* Proofs about SemaphoreDemo: DemoInv is inductive for any number of      *)
(* workers and of resource slots, hence the pool is never overdrawn, no    *)
(* call of the semaphore fails, and a worker waits for one object only.    *)
(***************************************************************************)
EXTENDS SemaphoreDemo, ServiceProofs

(* What ServiceProofs says of the console mutex.                           *)
Facts == INSTANCE ServiceProofs WITH mutex <- g_console_mutex

(* os_mutex_lock on the console mutex.                                     *)
LEMMA LockConsoleEffect ==
  ASSUME LayerInv, Console!MutexSound, NEW t \in AppTasks, NEW result,
         Console!os_mutex_lock(t, result)
  PROVE  /\ LayerInv' /\ Console!MutexSound' /\ BlockedElsewhere(t, {})
         /\ \/ /\ result = "OK" /\ UNCHANGED layerVars
               /\ \/ g_console_mutex.owner_task_id = NoTask
                  \/ g_console_mutex.owner_task_id = t /\ t \in g_console_mutex.waiting
               /\ g_console_mutex'.owner_task_id = t
               /\ g_console_mutex'.waiting = g_console_mutex.waiting \ {t}
            \/ /\ result = "BLOCKED"
               /\ g_console_mutex.owner_task_id \notin {t, NoTask}
               /\ g_console_mutex'.owner_task_id = g_console_mutex.owner_task_id
               /\ g_console_mutex'.waiting = g_console_mutex.waiting \cup {t}
            \/ /\ result \in {"RECURSIVE_LOCK", "INTERRUPTS_DISABLED"}
               /\ result = "RECURSIVE_LOCK" <=> g_console_mutex.owner_task_id = t
               /\ t \notin g_console_mutex.waiting
               /\ UNCHANGED <<g_console_mutex, layerVars>>
<1>1. Facts!LayerInv /\ t \in Facts!AppTasks
  BY DEF Facts!LayerInv, LayerInv, Facts!LayerTypeOK, LayerTypeOK,
         Facts!OneRunning, OneRunning, Facts!layerVars, layerVars, Facts!Tasks,
         Tasks, Facts!TaskStates, TaskStates, Facts!IdleTask, IdleTask,
         Facts!AppTasks, AppTasks, Facts!NoTask, NoTask
<1>2. Facts!MutexSound
  BY DEF Facts!MutexSound, Console!MutexSound, Facts!MutexType,
         Console!MutexType, Facts!Tasks, Console!Tasks, Facts!IdleTask,
         Console!IdleTask, Facts!AppTasks, Console!AppTasks, Facts!NoTask,
         Console!NoTask
<1>3. Facts!os_mutex_lock(t, result)
  BY DEF Facts!os_mutex_lock, Console!os_mutex_lock, Facts!lock_free,
         Console!lock_free, Facts!lock_handed_over, Console!lock_handed_over,
         Facts!lock_recursive, Console!lock_recursive, Facts!lock_masked,
         Console!lock_masked, Facts!lock_block, Console!lock_block,
         Facts!Executing, Console!Executing, Facts!CanBlock, Console!CanBlock,
         Facts!task_block, Console!task_block, Facts!os_trigger_context_switch,
         Console!os_trigger_context_switch, Facts!layerVars, Console!layerVars,
         Facts!IdleTask, Console!IdleTask
<1> QED
  BY <1>1, <1>2, <1>3, Facts!LockEffect, NumTasksAssumption
     DEF Facts!LayerInv, LayerInv, Facts!LayerTypeOK, LayerTypeOK,
         Facts!OneRunning, OneRunning, Facts!layerVars, layerVars, Facts!Tasks,
         Tasks, Facts!TaskStates, TaskStates, Facts!IdleTask, IdleTask,
         Facts!AppTasks, AppTasks, Facts!NoTask, NoTask, Facts!MutexSound,
         Console!MutexSound, Facts!MutexType, Console!MutexType, Console!Tasks,
         Console!IdleTask, Console!AppTasks, Console!NoTask,
         Facts!BlockedElsewhere, BlockedElsewhere

(* os_mutex_unlock on the console mutex.                                   *)
LEMMA UnlockConsoleEffect ==
  ASSUME LayerInv, Console!MutexSound, NEW t \in AppTasks, NEW result,
         Console!os_mutex_unlock(t, result), t \notin g_console_mutex.waiting
  PROVE  /\ LayerInv' /\ Console!MutexSound'
         /\ BlockedElsewhere(t, g_console_mutex.waiting)
         /\ g_console_mutex'.waiting = g_console_mutex.waiting
         /\ \/ /\ result = "NOT_OWNER" /\ g_console_mutex.owner_task_id # t
               /\ UNCHANGED <<g_console_mutex, layerVars>>
            \/ /\ result = "OK" /\ g_console_mutex.owner_task_id = t
               /\ g_console_mutex'.owner_task_id = NoTask /\ g_console_mutex.waiting = {}
            \/ /\ result = "OK" /\ g_console_mutex.owner_task_id = t
               /\ g_console_mutex'.owner_task_id \in g_console_mutex.waiting
               /\ g_console_mutex'.owner_task_id # t
<1>1. Facts!LayerInv /\ t \in Facts!AppTasks
  BY DEF Facts!LayerInv, LayerInv, Facts!LayerTypeOK, LayerTypeOK,
         Facts!OneRunning, OneRunning, Facts!layerVars, layerVars, Facts!Tasks,
         Tasks, Facts!TaskStates, TaskStates, Facts!IdleTask, IdleTask,
         Facts!AppTasks, AppTasks, Facts!NoTask, NoTask
<1>2. Facts!MutexSound
  BY DEF Facts!MutexSound, Console!MutexSound, Facts!MutexType,
         Console!MutexType, Facts!Tasks, Console!Tasks, Facts!IdleTask,
         Console!IdleTask, Facts!AppTasks, Console!AppTasks, Facts!NoTask,
         Console!NoTask
<1>3. Facts!os_mutex_unlock(t, result)
  BY DEF Facts!os_mutex_unlock, Console!os_mutex_unlock,
         Facts!unlock_not_owner, Console!unlock_not_owner,
         Facts!unlock_release, Console!unlock_release, Facts!unlock_hand_over,
         Console!unlock_hand_over, Facts!IsOwner, Console!IsOwner,
         Facts!mutex_find_next_waiting_task,
         Console!mutex_find_next_waiting_task, Facts!Executing,
         Console!Executing, Facts!task_unblock, Console!task_unblock,
         Facts!layerVars, Console!layerVars, Facts!IdleTask, Console!IdleTask,
         Facts!NoTask, Console!NoTask, Facts!FirstBlocked,
         Console!FirstBlocked, Facts!WithoutStale, Console!WithoutStale,
         Facts!BlockedAmong, Console!BlockedAmong, Facts!CyclicOffset,
         Console!CyclicOffset
<1> QED
  BY <1>1, <1>2, <1>3, Facts!UnlockEffect, NumTasksAssumption
     DEF Facts!LayerInv, LayerInv, Facts!LayerTypeOK, LayerTypeOK,
         Facts!OneRunning, OneRunning, Facts!layerVars, layerVars, Facts!Tasks,
         Tasks, Facts!TaskStates, TaskStates, Facts!IdleTask, IdleTask,
         Facts!AppTasks, AppTasks, Facts!NoTask, NoTask, Facts!MutexSound,
         Console!MutexSound, Facts!MutexType, Console!MutexType, Console!Tasks,
         Console!IdleTask, Console!AppTasks, Console!NoTask,
         Facts!BlockedElsewhere, BlockedElsewhere

-----------------------------------------------------------------------------
(* A call of t on one object leaves the other sound: it changes the state  *)
(* of t and of tasks in W only, and none of them waits for the other.      *)
LEMMA ConsoleKeeps ==
  ASSUME Console!MutexSound, UNCHANGED g_console_mutex, NEW t, NEW W, BlockedElsewhere(t, W),
         \A u \in g_console_mutex.waiting : u # t /\ u \notin W
  PROVE  Console!MutexSound'
<1>1. g_console_mutex.waiting \subseteq AppTasks
  BY DEF Console!MutexSound, Console!AppTasks, AppTasks, Console!Tasks, Tasks,
         Console!IdleTask, IdleTask
<1> QED
  BY <1>1 DEF Console!MutexSound, BlockedElsewhere

LEMMA PoolKeeps ==
  ASSUME SemaphoreSound, UNCHANGED semaphore, NEW t, NEW W, BlockedElsewhere(t, W),
         \A u \in semaphore.waiting \cup semaphore.granted : u # t /\ u \notin W
  PROVE  SemaphoreSound'
<1>1. semaphore.waiting \cup semaphore.granted \subseteq AppTasks
  BY DEF SemaphoreSound
<1> QED
  BY <1>1 DEF SemaphoreSound, BlockedElsewhere

(* A call leaves interrupts enabled, and is not refused for their sake.    *)
LEMMA MaskStays ==
  ASSUME ~primask, NEW t, NEW result,
         \/ os_semaphore_wait(t, result) \/ os_semaphore_post(t, result)
         \/ Console!os_mutex_lock(t, result) \/ Console!os_mutex_unlock(t, result)
  PROVE  ~primask' /\ result # "INTERRUPTS_DISABLED"
<1>1. CASE os_semaphore_wait(t, result)
  BY <1>1 DEF os_semaphore_wait, wait_granted, wait_take_unit, wait_masked,
              wait_block, layerVars
<1>2. CASE os_semaphore_post(t, result)
  BY <1>2 DEF os_semaphore_post, post_grant, post_overflow, post_unit, layerVars
<1>3. CASE Console!os_mutex_lock(t, result)
  BY <1>3 DEF Console!os_mutex_lock, Console!lock_free, Console!lock_handed_over,
              Console!lock_recursive, Console!lock_masked, Console!lock_block,
              Console!layerVars
<1>4. CASE Console!os_mutex_unlock(t, result)
  BY <1>4 DEF Console!os_mutex_unlock, Console!unlock_not_owner,
              Console!unlock_release, Console!unlock_hand_over, Console!layerVars
<1> QED
  BY <1>1, <1>2, <1>3, <1>4

(* Who executes is RUNNING: it does not wait for a slot.                   *)
LEMMA WorkerRuns ==
  ASSUME DemoInv, NEW t \in AppTasks, Executing(t)
  PROVE  /\ t \in Tasks /\ t # NoTask /\ task_state[t] = "RUNNING"
         /\ t \notin semaphore.waiting
BY DEF DemoInv, LayerInv, LayerTypeOK, OneRunning, Executing, SemaphoreSound,
       AppTasks, Tasks, NoTask

(* Who unlocks or posts is not BLOCKED afterwards.                         *)
LEMMA UnlockerRuns ==
  ASSUME DemoInv, NEW t \in AppTasks, NEW result,
         Console!os_mutex_unlock(t, result) \/ os_semaphore_post(t, result)
  PROVE  task_state'[t] # "BLOCKED"
<1>1. Executing(t)
  BY DEF Console!os_mutex_unlock, Console!Executing, Executing, os_semaphore_post
<1>2. task_state[t] = "RUNNING" /\ t \in Tasks
  BY <1>1, WorkerRuns
<1>3. /\ task_state \in [Tasks -> TaskStates]
      /\ \/ UNCHANGED task_state
         \/ \E u : task_state' = [task_state EXCEPT ![u] = "READY"]
  BY DEF DemoInv, LayerInv, LayerTypeOK, Console!os_mutex_unlock, Console!unlock_not_owner,
         Console!unlock_release, Console!unlock_hand_over, Console!task_unblock,
         Console!layerVars, os_semaphore_post, post_grant, post_overflow, post_unit,
         task_unblock, layerVars
<1> QED
  BY <1>2, <1>3

-----------------------------------------------------------------------------
(* Counting the workers that have a slot: only t moves.                    *)
LEMMA OneMoves ==
  ASSUME NEW S \in SUBSET AppTasks, NEW T \in SUBSET AppTasks, NEW t \in AppTasks,
         \A u \in AppTasks \ {t} : u \in S <=> u \in T
  PROVE  /\ Cardinality(S) \in Nat /\ Cardinality(T) \in Nat
         /\ t \in S => Cardinality(S) >= 1
         /\ Cardinality(T) + (IF t \in S THEN 1 ELSE 0)
              = Cardinality(S) + (IF t \in T THEN 1 ELSE 0)
<1>1. /\ IsFiniteSet(S) /\ Cardinality(S) \in Nat
      /\ IsFiniteSet(T) /\ Cardinality(T) \in Nat
      /\ Cardinality(S \ {t}) \in Nat
  BY TaskSetsFinite
<1>2. S \ {t} = T \ {t}
  OBVIOUS
<1>3. Cardinality(S \ {t}) = IF t \in S THEN Cardinality(S) - 1 ELSE Cardinality(S)
  BY <1>1, FS_RemoveElement
<1>4. Cardinality(T \ {t}) = IF t \in T THEN Cardinality(T) - 1 ELSE Cardinality(T)
  BY <1>1, FS_RemoveElement
<1> DEFINE s == Cardinality(S)
           r == Cardinality(T)
           d == Cardinality(S \ {t})
<1>5. /\ s \in Nat /\ r \in Nat /\ d \in Nat
      /\ d = IF t \in S THEN s - 1 ELSE s
      /\ d = IF t \in T THEN r - 1 ELSE r
  BY <1>1, <1>2, <1>3, <1>4
<1> HIDE DEF s, r, d
<1>6. /\ t \in S => s >= 1
      /\ r + (IF t \in S THEN 1 ELSE 0) = s + (IF t \in T THEN 1 ELSE 0)
  BY <1>5
<1> QED
  BY <1>5, <1>6 DEF s, r

InUse(place)  == place \in {"enter", "lock", "unlock", "hold", "exit", "post"}
InBook(place) == place \in {"lock", "unlock", "hold", "exit"}

LEMMA GotoMoves ==
  ASSUME DemoInv, NEW t \in AppTasks, NEW from,
         NEW to \in {"wait", "enter", "lock", "unlock", "hold", "exit", "post", "rest"},
         Goto(t, from, to)
  PROVE  /\ pc' \in [AppTasks -> {"wait", "enter", "lock", "unlock", "hold",
                                  "exit", "post", "rest"}]
         /\ pc[t] = from /\ pc'[t] = to
         /\ \A u \in AppTasks \ {t} : pc'[u] = pc[u]
         /\ Cardinality(Users) \in Nat /\ Cardinality(Users)' \in Nat
         /\ Cardinality(Inscribed) \in Nat /\ Cardinality(Inscribed)' \in Nat
         /\ InUse(from) => Cardinality(Users) >= 1
         /\ InBook(from) => Cardinality(Inscribed) >= 1
         /\ Cardinality(Inscribed)' <= Cardinality(Users)'
         /\ Cardinality(Users)' + (IF InUse(from) THEN 1 ELSE 0)
              = Cardinality(Users) + (IF InUse(to) THEN 1 ELSE 0)
         /\ Cardinality(Inscribed)' + (IF InBook(from) THEN 1 ELSE 0)
              = Cardinality(Inscribed) + (IF InBook(to) THEN 1 ELSE 0)
<1>1. /\ pc' \in [AppTasks -> {"wait", "enter", "lock", "unlock", "hold",
                               "exit", "post", "rest"}]
      /\ pc[t] = from /\ pc'[t] = to
      /\ \A u \in AppTasks \ {t} : pc'[u] = pc[u]
  BY DEF DemoInv, Goto
<1>2. /\ Users \in SUBSET AppTasks /\ Users' \in SUBSET AppTasks
      /\ Inscribed \in SUBSET AppTasks /\ Inscribed' \in SUBSET AppTasks
      /\ Inscribed' \subseteq Users'
      /\ t \in Users <=> InUse(from)
      /\ t \in Users' <=> InUse(to)
      /\ t \in Inscribed <=> InBook(from)
      /\ t \in Inscribed' <=> InBook(to)
  BY <1>1 DEF Users, Inscribed, InUse, InBook
<1>3. \A u \in AppTasks \ {t} : /\ u \in Users <=> u \in Users'
                                /\ u \in Inscribed <=> u \in Inscribed'
  BY <1>1 DEF Users, Inscribed
<1>4. Cardinality(Users)' = Cardinality(Users') /\ Cardinality(Inscribed)' = Cardinality(Inscribed')
  OBVIOUS
<1>5. Cardinality(Inscribed') <= Cardinality(Users')
  BY <1>2, TaskSetsFinite, FS_Subset
<1> HIDE DEF Users, Inscribed, InUse, InBook
<1>6. /\ Cardinality(Users) \in Nat /\ Cardinality(Users') \in Nat
      /\ InUse(from) => Cardinality(Users) >= 1
      /\ Cardinality(Users') + (IF InUse(from) THEN 1 ELSE 0)
           = Cardinality(Users) + (IF InUse(to) THEN 1 ELSE 0)
  BY <1>2, <1>3, OneMoves
<1>7. /\ Cardinality(Inscribed) \in Nat /\ Cardinality(Inscribed') \in Nat
      /\ InBook(from) => Cardinality(Inscribed) >= 1
      /\ Cardinality(Inscribed') + (IF InBook(from) THEN 1 ELSE 0)
           = Cardinality(Inscribed) + (IF InBook(to) THEN 1 ELSE 0)
  BY <1>2, <1>3, OneMoves
<1> QED
  BY <1>1, <1>4, <1>5, <1>6, <1>7

(* The units are counted, before and after a step.                         *)
LEMMA UnitsCount ==
  ASSUME SemaphoreSound
  PROVE  /\ semaphore.count \in Nat /\ Cardinality(semaphore.granted) \in Nat
         /\ FreeUnits \in Nat
<1>1. semaphore.granted \in SUBSET AppTasks /\ semaphore.count \in Nat
  BY DEF SemaphoreSound, SemaphoreType
<1>2. Cardinality(semaphore.granted) \in Nat
  BY <1>1, TaskSetsFinite
<1> QED
  BY <1>1, <1>2 DEF FreeUnits

LEMMA SlotsInUse ==
  ASSUME SlotsAddUp
  PROVE  FreeUnits + Cardinality(Users) = Capacity
BY DEF SlotsAddUp, FreeUnits

(* Steps outside the services leave the objects sound.                     *)
LEMMA ObjectsStay ==
  ASSUME DemoInv, UNCHANGED layerVars, UNCHANGED <<semaphore, g_console_mutex>>
  PROVE  LayerInv' /\ ~primask' /\ SemaphoreSound' /\ Console!MutexSound'
<1>1. /\ LayerInv /\ ~primask /\ SemaphoreSound /\ Console!MutexSound
      /\ UNCHANGED <<task_state, current, pendsv, primask>>
  BY DEF DemoInv, layerVars
<1>2. LayerInv'
  BY <1>1 DEF LayerInv, LayerTypeOK, OneRunning
<1>3. SemaphoreSound'
  BY <1>1 DEF SemaphoreSound
<1>4. Console!MutexSound'
  BY <1>1 DEF Console!MutexSound
<1> QED
  BY <1>1, <1>2, <1>3, <1>4

-----------------------------------------------------------------------------
(* The steps of a worker, one lemma for each.                              *)

(* A worker that gets a unit moves it from the semaphore to its own use.   *)
LEMMA WaitKeeps ==
  ASSUME DemoInv, NEW t \in AppTasks, WaitUnit(t)
  PROVE  DemoInv'
<1>1. PICK result \in WaitResults :
        /\ os_semaphore_wait(t, result)
        /\ \/ /\ result = "BLOCKED" /\ Goto(t, "wait", "wait")
              /\ UNCHANGED g_semaphore_error_count
           \/ /\ result = "OK" /\ Goto(t, "wait", "enter")
              /\ UNCHANGED g_semaphore_error_count
           \/ /\ result \notin {"BLOCKED", "OK"} /\ Goto(t, "wait", "rest")
              /\ g_semaphore_error_count' = g_semaphore_error_count + 1
        /\ UNCHANGED <<g_console_mutex, lines, g_semaphore_active_users,
                       g_semaphore_violation_count>>
  BY DEF WaitUnit
<1>2. /\ LayerInv /\ ~primask /\ SemaphoreSound /\ Console!MutexSound
      /\ BitsInCalls /\ ConsoleOwned /\ SlotsAddUp /\ NoPoolViolation
  BY DEF DemoInv
<1>3. Executing(t)
  BY <1>1 DEF os_semaphore_wait
<1>4. /\ t \in Tasks /\ t # NoTask /\ task_state[t] = "RUNNING"
      /\ t \notin semaphore.waiting
  BY <1>3, WorkerRuns
<1>5. /\ LayerInv' /\ SemaphoreSound' /\ BlockedElsewhere(t, {})
      /\ semaphore'.maximum_count = semaphore.maximum_count
      /\ \/ /\ result = "OK" /\ UNCHANGED layerVars
            /\ FreeUnits' = FreeUnits - 1
            /\ semaphore'.waiting = semaphore.waiting
            /\ semaphore'.granted = semaphore.granted \ {t}
         \/ /\ result = "BLOCKED"
            /\ FreeUnits' = FreeUnits
            /\ semaphore'.waiting = semaphore.waiting \cup {t}
            /\ semaphore'.granted = semaphore.granted
  BY <1>1, <1>2, WaitEffect, MaskStays
<1>6. ~primask'
  BY <1>1, <1>2, MaskStays
<1>7. pc[t] = "wait" /\ t \notin g_console_mutex.waiting
  BY <1>1, <1>2 DEF Goto, BitsInCalls
<1>8. Console!MutexSound'
  BY <1>1, <1>2, <1>5, <1>7, ConsoleKeeps
<1>9. UNCHANGED <<g_console_mutex, lines, counts>>
  BY <1>1, <1>5 DEF counts
<1>10. NoPoolViolation' /\ lines' \in [AppTasks -> {0, 1}]
  BY <1>9 DEF DemoInv, NoPoolViolation, counts
<1>11. CASE result = "OK"
  <2>1. /\ Goto(t, "wait", "enter") /\ UNCHANGED layerVars /\ FreeUnits' = FreeUnits - 1
        /\ semaphore'.waiting = semaphore.waiting
        /\ semaphore'.granted = semaphore.granted \ {t}
    BY <1>1, <1>5, <1>11
  <2>2. /\ pc' \in [AppTasks -> {"wait", "enter", "lock", "unlock", "hold",
                                 "exit", "post", "rest"}]
        /\ pc'[t] = "enter"
        /\ \A u \in AppTasks \ {t} : pc'[u] = pc[u]
        /\ Cardinality(Users) \in Nat
        /\ Cardinality(Users)' = Cardinality(Users) + 1
        /\ Cardinality(Inscribed)' = Cardinality(Inscribed)
    BY <2>1, GotoMoves DEF InUse, InBook
  <2>3. SlotsAddUp'
    <3>1. FreeUnits' + Cardinality(Users)' = Capacity
      BY <1>2, <2>1, <2>2, UnitsCount, SlotsInUse
    <3> QED
      BY <1>2, <1>5, <1>9, <2>2, <3>1 DEF SlotsAddUp, FreeUnits, counts
  <2>4. ConsoleOwned'
    BY <1>2, <1>7, <1>9, <2>2 DEF ConsoleOwned
  <2>5. BitsInCalls'
    BY <1>2, <1>4, <1>7, <1>9, <2>1, <2>2 DEF BitsInCalls, layerVars
  <2> QED
    BY <1>5, <1>6, <1>8, <1>10, <2>2, <2>3, <2>4, <2>5 DEF DemoInv
<1>12. CASE result = "BLOCKED"
  <2>1. /\ Goto(t, "wait", "wait") /\ FreeUnits' = FreeUnits
        /\ semaphore'.waiting = semaphore.waiting \cup {t}
        /\ semaphore'.granted = semaphore.granted
    BY <1>1, <1>5, <1>12
  <2>2. /\ pc' \in [AppTasks -> {"wait", "enter", "lock", "unlock", "hold",
                                 "exit", "post", "rest"}]
        /\ pc'[t] = "wait"
        /\ \A u \in AppTasks \ {t} : pc'[u] = pc[u]
        /\ Cardinality(Users)' = Cardinality(Users)
        /\ Cardinality(Inscribed)' = Cardinality(Inscribed)
    BY <2>1, GotoMoves DEF InUse, InBook
  <2>3. SlotsAddUp'
    BY <1>2, <1>5, <1>9, <2>1, <2>2 DEF SlotsAddUp, FreeUnits, counts
  <2>4. ConsoleOwned'
    BY <1>2, <1>7, <1>9, <2>2 DEF ConsoleOwned
  <2>5. BitsInCalls'
    BY <1>2, <1>5, <1>7, <1>9, <2>1, <2>2 DEF BitsInCalls, BlockedElsewhere
  <2> QED
    BY <1>5, <1>6, <1>8, <1>10, <2>2, <2>3, <2>4, <2>5 DEF DemoInv
<1> QED
  BY <1>5, <1>11, <1>12

(* A worker that enters the books has a slot, so they are never overdrawn. *)
LEMMA EnterKeeps ==
  ASSUME DemoInv, NEW t \in AppTasks, RecordEnter(t)
  PROVE  DemoInv'
<1>1. /\ Goto(t, "enter", "lock")
      /\ g_semaphore_active_users' = g_semaphore_active_users + 1
      /\ g_semaphore_violation_count' =
           g_semaphore_violation_count
             + (IF g_semaphore_active_users' > Capacity THEN 1 ELSE 0)
      /\ UNCHANGED <<semaphore, g_console_mutex, lines, g_semaphore_error_count>>
      /\ UNCHANGED layerVars
  BY DEF RecordEnter
<1>2. /\ SlotsAddUp /\ NoPoolViolation /\ ConsoleOwned /\ BitsInCalls
  BY DEF DemoInv
<1>3. /\ pc' \in [AppTasks -> {"wait", "enter", "lock", "unlock", "hold",
                               "exit", "post", "rest"}]
      /\ pc[t] = "enter" /\ pc'[t] = "lock"
      /\ \A u \in AppTasks \ {t} : pc'[u] = pc[u]
      /\ Cardinality(Users) \in Nat /\ Cardinality(Inscribed) \in Nat
      /\ Cardinality(Inscribed)' <= Cardinality(Users)'
      /\ Cardinality(Users)' = Cardinality(Users)
      /\ Cardinality(Inscribed)' = Cardinality(Inscribed) + 1
  BY <1>1, GotoMoves DEF InUse, InBook
<1>4. /\ LayerInv' /\ ~primask' /\ SemaphoreSound' /\ Console!MutexSound'
  BY <1>1, ObjectsStay
<1>5. SlotsAddUp'
  BY <1>1, <1>2, <1>3 DEF SlotsAddUp
<1>6. g_semaphore_active_users' <= Capacity
  <2>1. /\ FreeUnits \in Nat /\ FreeUnits + Cardinality(Users) = Capacity
        /\ g_semaphore_active_users' = Cardinality(Inscribed)'
    BY <1>2, <1>5, UnitsCount, SlotsInUse DEF DemoInv, SlotsAddUp
  <2> QED
    BY <1>3, <2>1, CapacityAssumption
<1>7. NoPoolViolation'
  BY <1>1, <1>2, <1>3, <1>5, <1>6, CapacityAssumption DEF NoPoolViolation, SlotsAddUp
<1>8. ConsoleOwned' /\ BitsInCalls'
  <2>1. UNCHANGED <<task_state, semaphore, g_console_mutex>>
    BY <1>1 DEF layerVars
  <2>2. ConsoleOwned'
    BY <1>2, <1>3, <2>1 DEF ConsoleOwned
  <2>3. BitsInCalls'
    BY <1>2, <1>3, <2>1 DEF BitsInCalls
  <2> QED
    BY <2>2, <2>3
<1> QED
  BY <1>1, <1>3, <1>4, <1>5, <1>7, <1>8 DEF DemoInv

(* The console is free, or was handed over, or somebody else writes.       *)
LEMMA LockKeeps ==
  ASSUME DemoInv, NEW t \in AppTasks, LockConsole(t)
  PROVE  DemoInv'
<1>1. PICK result \in Console!LockResults :
        /\ Console!os_mutex_lock(t, result)
        /\ \/ /\ result = "BLOCKED" /\ Goto(t, "lock", "lock") /\ UNCHANGED lines
           \/ /\ result = "OK" /\ Goto(t, "lock", "unlock") /\ UNCHANGED lines
           \/ /\ result \notin {"BLOCKED", "OK"} /\ Goto(t, "lock", AfterLine(t))
              /\ lines' = [lines EXCEPT ![t] = 1 - @]
        /\ UNCHANGED <<semaphore, counts>>
  BY DEF LockConsole
<1>2. /\ LayerInv /\ ~primask /\ SemaphoreSound /\ Console!MutexSound
      /\ BitsInCalls /\ ConsoleOwned /\ SlotsAddUp /\ NoPoolViolation
      /\ lines \in [AppTasks -> {0, 1}]
  BY DEF DemoInv
<1>3. Executing(t)
  BY <1>1 DEF Console!os_mutex_lock, Console!Executing, Executing
<1>4. /\ t \in Tasks /\ t # NoTask /\ task_state[t] = "RUNNING"
      /\ t \notin semaphore.waiting
  BY <1>3, WorkerRuns
<1>5. pc[t] = "lock" /\ t \notin semaphore.waiting \cup semaphore.granted
  BY <1>1, <1>2 DEF Goto, BitsInCalls
<1>6. g_console_mutex.owner_task_id = t => t \in g_console_mutex.waiting
  BY <1>2, <1>5 DEF ConsoleOwned
<1>7. /\ LayerInv' /\ Console!MutexSound' /\ BlockedElsewhere(t, {}) /\ ~primask'
      /\ \/ /\ result = "OK" /\ UNCHANGED layerVars
            /\ \/ g_console_mutex.owner_task_id = NoTask
               \/ g_console_mutex.owner_task_id = t
            /\ g_console_mutex'.owner_task_id = t
            /\ g_console_mutex'.waiting = g_console_mutex.waiting \ {t}
         \/ /\ result = "BLOCKED"
            /\ g_console_mutex.owner_task_id \notin {t, NoTask}
            /\ g_console_mutex'.owner_task_id = g_console_mutex.owner_task_id
            /\ g_console_mutex'.waiting = g_console_mutex.waiting \cup {t}
  BY <1>1, <1>2, <1>6, LockConsoleEffect, MaskStays
<1>8. SemaphoreSound'
  BY <1>1, <1>2, <1>5, <1>7, PoolKeeps
<1>9. NoPoolViolation'
  BY <1>1, <1>2 DEF NoPoolViolation, counts
<1>10. UNCHANGED lines
  BY <1>1, <1>7
<1>11. CASE result = "OK"
  <2>1. /\ Goto(t, "lock", "unlock") /\ UNCHANGED layerVars
        /\ g_console_mutex.owner_task_id \in {NoTask, t}
        /\ g_console_mutex'.owner_task_id = t
        /\ g_console_mutex'.waiting = g_console_mutex.waiting \ {t}
    BY <1>1, <1>7, <1>11
  <2>2. /\ pc' \in [AppTasks -> {"wait", "enter", "lock", "unlock", "hold",
                                 "exit", "post", "rest"}]
        /\ pc'[t] = "unlock"
        /\ \A u \in AppTasks \ {t} : pc'[u] = pc[u]
        /\ Cardinality(Users)' = Cardinality(Users)
        /\ Cardinality(Inscribed)' = Cardinality(Inscribed)
    BY <2>1, GotoMoves DEF InUse, InBook
  <2>3. SlotsAddUp'
    BY <1>1, <1>2, <2>2 DEF SlotsAddUp, counts
  <2>4. ConsoleOwned'
    <3>1. \A u \in AppTasks \ {t} : pc[u] # "unlock"
      BY <1>2, <2>1 DEF ConsoleOwned, AppTasks, Tasks, NoTask
    <3> QED
      BY <2>1, <2>2, <3>1 DEF ConsoleOwned
  <2>5. BitsInCalls'
    BY <1>1, <1>2, <1>4, <1>5, <2>1, <2>2 DEF BitsInCalls, layerVars
  <2> QED
    BY <1>2, <1>7, <1>8, <1>9, <1>10, <2>2, <2>3, <2>4, <2>5 DEF DemoInv
<1>12. CASE result = "BLOCKED"
  <2>1. /\ Goto(t, "lock", "lock")
        /\ g_console_mutex.owner_task_id # t
        /\ g_console_mutex'.owner_task_id = g_console_mutex.owner_task_id
        /\ g_console_mutex'.waiting = g_console_mutex.waiting \cup {t}
    BY <1>1, <1>7, <1>12
  <2>2. /\ pc' \in [AppTasks -> {"wait", "enter", "lock", "unlock", "hold",
                                 "exit", "post", "rest"}]
        /\ pc'[t] = "lock"
        /\ \A u \in AppTasks \ {t} : pc'[u] = pc[u]
        /\ Cardinality(Users)' = Cardinality(Users)
        /\ Cardinality(Inscribed)' = Cardinality(Inscribed)
    BY <2>1, GotoMoves DEF InUse, InBook
  <2>3. SlotsAddUp'
    BY <1>1, <1>2, <2>2 DEF SlotsAddUp, counts
  <2>4. ConsoleOwned'
    BY <1>2, <2>1, <2>2 DEF ConsoleOwned
  <2>5. BitsInCalls'
    BY <1>1, <1>2, <1>5, <1>7, <2>1, <2>2 DEF BitsInCalls, BlockedElsewhere
  <2> QED
    BY <1>2, <1>7, <1>8, <1>9, <1>10, <2>2, <2>3, <2>4, <2>5 DEF DemoInv
<1> QED
  BY <1>7, <1>11, <1>12

(* The writer is the owner: it never gets an error from the unlock, and    *)
(* the next owner is a worker that waits for the console.                  *)
LEMMA UnlockKeeps ==
  ASSUME DemoInv, NEW t \in AppTasks, UnlockConsole(t)
  PROVE  DemoInv'
<1>1. PICK result \in Console!UnlockResults : Console!os_mutex_unlock(t, result)
  BY DEF UnlockConsole
<1>2. /\ Goto(t, "unlock", AfterLine(t))
      /\ lines' = [lines EXCEPT ![t] = 1 - @]
      /\ UNCHANGED <<semaphore, counts>>
  BY DEF UnlockConsole
<1>3. /\ LayerInv /\ ~primask /\ SemaphoreSound /\ Console!MutexSound
      /\ BitsInCalls /\ ConsoleOwned /\ SlotsAddUp /\ NoPoolViolation
      /\ lines \in [AppTasks -> {0, 1}]
  BY DEF DemoInv
<1>4. /\ pc[t] = "unlock" /\ g_console_mutex.owner_task_id = t
      /\ t \notin semaphore.waiting \cup semaphore.granted
      /\ t \notin g_console_mutex.waiting
  BY <1>2, <1>3 DEF Goto, BitsInCalls, ConsoleOwned
<1>5. /\ LayerInv' /\ Console!MutexSound'
      /\ BlockedElsewhere(t, g_console_mutex.waiting) /\ ~primask'
      /\ g_console_mutex'.waiting = g_console_mutex.waiting
      /\ \/ g_console_mutex'.owner_task_id = NoTask
         \/ /\ g_console_mutex'.owner_task_id \in g_console_mutex.waiting
            /\ g_console_mutex'.owner_task_id # t
  BY <1>1, <1>3, <1>4, UnlockConsoleEffect, MaskStays
<1>6. SemaphoreSound'
  <2>1. \A u \in semaphore.waiting \cup semaphore.granted :
          u # t /\ u \notin g_console_mutex.waiting
    <3>1. semaphore.waiting \cup semaphore.granted \subseteq AppTasks
      BY <1>3 DEF SemaphoreSound
    <3> QED
      BY <1>3, <1>4, <3>1 DEF BitsInCalls
  <2> QED
    BY <1>2, <1>3, <1>5, <2>1, PoolKeeps
<1>7. NoPoolViolation'
  BY <1>2, <1>3 DEF NoPoolViolation, counts
<1>8. lines' \in [AppTasks -> {0, 1}]
  BY <1>2, <1>3
<1>9. AfterLine(t) \in {"hold", "exit"}
  BY DEF AfterLine, Then
<1>10. /\ pc' \in [AppTasks -> {"wait", "enter", "lock", "unlock", "hold",
                                "exit", "post", "rest"}]
       /\ pc'[t] \in {"hold", "exit"}
       /\ \A u \in AppTasks \ {t} : pc'[u] = pc[u]
       /\ Cardinality(Users)' = Cardinality(Users)
       /\ Cardinality(Inscribed)' = Cardinality(Inscribed)
  BY <1>2, <1>9, GotoMoves DEF InUse, InBook
<1>11. SlotsAddUp'
  BY <1>2, <1>3, <1>10 DEF SlotsAddUp, counts
<1>12. ConsoleOwned'
  <2>1. \A u \in AppTasks \ {t} : pc[u] # "unlock"
    BY <1>3, <1>4 DEF ConsoleOwned
  <2>2. \A u \in AppTasks : u \in g_console_mutex.waiting => pc[u] = "lock"
    BY <1>3 DEF BitsInCalls
  <2>3. t # NoTask /\ NoTask \notin AppTasks
    BY DEF AppTasks, Tasks, NoTask
  <2> QED
    BY <1>5, <1>10, <2>1, <2>2, <2>3 DEF ConsoleOwned
<1>13. BitsInCalls'
  <2>1. task_state'[t] # "BLOCKED"
    BY <1>1, <1>3, UnlockerRuns
  <2> QED
    BY <1>2, <1>3, <1>4, <1>5, <1>10, <2>1 DEF BitsInCalls, BlockedElsewhere
<1> QED
  BY <1>5, <1>6, <1>7, <1>8, <1>10, <1>11, <1>12, <1>13 DEF DemoInv

(* A worker that leaves the books is in them.                              *)
LEMMA ExitKeeps ==
  ASSUME DemoInv, NEW t \in AppTasks, RecordExit(t)
  PROVE  DemoInv'
<1>1. /\ Goto(t, "exit", "post")
      /\ UNCHANGED <<semaphore, g_console_mutex, lines, g_semaphore_error_count>>
      /\ UNCHANGED layerVars
      /\ g_semaphore_active_users # 0 =>
           /\ g_semaphore_active_users' = g_semaphore_active_users - 1
           /\ UNCHANGED g_semaphore_violation_count
  BY DEF RecordExit, Then
<1>2. SlotsAddUp /\ NoPoolViolation /\ ConsoleOwned /\ BitsInCalls
  BY DEF DemoInv
<1>3. /\ pc' \in [AppTasks -> {"wait", "enter", "lock", "unlock", "hold",
                               "exit", "post", "rest"}]
      /\ pc[t] = "exit" /\ pc'[t] = "post"
      /\ \A u \in AppTasks \ {t} : pc'[u] = pc[u]
      /\ Cardinality(Inscribed) \in Nat /\ Cardinality(Inscribed) >= 1
      /\ Cardinality(Inscribed)' \in Nat
      /\ Cardinality(Users)' = Cardinality(Users)
      /\ Cardinality(Inscribed)' + 1 = Cardinality(Inscribed)
  BY <1>1, GotoMoves DEF InUse, InBook
<1>4. /\ LayerInv' /\ ~primask' /\ SemaphoreSound' /\ Console!MutexSound'
  BY <1>1, ObjectsStay
<1>5. /\ g_semaphore_active_users' = Cardinality(Inscribed)'
      /\ UNCHANGED g_semaphore_violation_count
  <2>1. g_semaphore_active_users = Cardinality(Inscribed)
    BY <1>2 DEF SlotsAddUp
  <2> QED
    BY <1>1, <1>3, <2>1
<1>6. SlotsAddUp' /\ NoPoolViolation'
  BY <1>1, <1>2, <1>3, <1>5 DEF SlotsAddUp, NoPoolViolation
<1>7. UNCHANGED <<task_state, semaphore, g_console_mutex>>
  BY <1>1 DEF layerVars
<1>8. ConsoleOwned'
  BY <1>2, <1>3, <1>7 DEF ConsoleOwned
<1>9. BitsInCalls'
  BY <1>2, <1>3, <1>7 DEF BitsInCalls
<1> QED
  BY <1>1, <1>3, <1>4, <1>6, <1>8, <1>9 DEF DemoInv

(* The slot that is given back always fits, and goes to a waiting worker   *)
(* if there is one.                                                        *)
LEMMA PostKeeps ==
  ASSUME DemoInv, NEW t \in AppTasks, PostUnit(t)
  PROVE  DemoInv'
<1>1. PICK result \in PostResults :
        /\ os_semaphore_post(t, result)
        /\ Goto(t, "post", "rest")
        /\ g_semaphore_error_count' =
             g_semaphore_error_count + (IF result = "OK" THEN 0 ELSE 1)
        /\ UNCHANGED <<g_console_mutex, lines, g_semaphore_active_users,
                       g_semaphore_violation_count>>
  BY DEF PostUnit, Then
<1>2. /\ LayerInv /\ ~primask /\ SemaphoreSound /\ Console!MutexSound
      /\ BitsInCalls /\ ConsoleOwned /\ SlotsAddUp /\ NoPoolViolation
  BY DEF DemoInv
<1>3. /\ pc' \in [AppTasks -> {"wait", "enter", "lock", "unlock", "hold",
                               "exit", "post", "rest"}]
      /\ pc[t] = "post" /\ pc'[t] = "rest"
      /\ \A u \in AppTasks \ {t} : pc'[u] = pc[u]
      /\ Cardinality(Users) \in Nat /\ Cardinality(Users) >= 1
      /\ Cardinality(Users)' \in Nat
      /\ Cardinality(Users)' + 1 = Cardinality(Users)
      /\ Cardinality(Inscribed)' = Cardinality(Inscribed)
  BY <1>1, GotoMoves DEF InUse, InBook
<1>4. t \notin semaphore.waiting \cup semaphore.granted /\ t \notin g_console_mutex.waiting
  BY <1>2, <1>3 DEF BitsInCalls
<1>5. /\ LayerInv' /\ SemaphoreSound' /\ BlockedElsewhere(t, semaphore.waiting) /\ ~primask'
      /\ semaphore'.maximum_count = semaphore.maximum_count
      /\ semaphore'.waiting \subseteq semaphore.waiting
      /\ semaphore'.granted \cup semaphore'.waiting
           = semaphore.granted \cup semaphore.waiting
      /\ \/ result = "OK" /\ FreeUnits' = FreeUnits + 1
         \/ result = "OVERFLOW" /\ semaphore.count >= semaphore.maximum_count
  BY <1>1, <1>2, PostEffect, MaskStays
<1>6. result = "OK" /\ FreeUnits' = FreeUnits + 1
  <2>1. semaphore.count < semaphore.maximum_count
    <3>1. FreeUnits + Cardinality(Users) = Capacity /\ semaphore.maximum_count = Capacity
      BY <1>2, SlotsInUse DEF SlotsAddUp
    <3>2. /\ semaphore.count \in Nat /\ Cardinality(semaphore.granted) \in Nat
          /\ FreeUnits = semaphore.count + Cardinality(semaphore.granted)
      BY <1>2, UnitsCount DEF FreeUnits
    <3> QED
      BY <1>3, <3>1, <3>2, CapacityAssumption
  <2>2. semaphore.count \in Nat /\ semaphore.maximum_count \in Nat
    BY <1>2 DEF SemaphoreSound, SemaphoreType
  <2> QED
    BY <1>5, <2>1, <2>2
<1>7. Console!MutexSound'
  <2>1. \A u \in g_console_mutex.waiting : u # t /\ u \notin semaphore.waiting
    <3>1. g_console_mutex.waiting \subseteq AppTasks
      BY <1>2 DEF Console!MutexSound, Console!AppTasks, AppTasks, Console!Tasks, Tasks,
                  Console!IdleTask, IdleTask
    <3> QED
      BY <1>2, <1>4, <3>1 DEF BitsInCalls
  <2> QED
    BY <1>1, <1>2, <1>5, <2>1, ConsoleKeeps
<1>8. NoPoolViolation' /\ lines' \in [AppTasks -> {0, 1}]
  BY <1>1, <1>2, <1>6 DEF NoPoolViolation, DemoInv
<1>9. SlotsAddUp'
  <2>1. FreeUnits' + Cardinality(Users)' = Capacity
    BY <1>2, <1>3, <1>6, UnitsCount, SlotsInUse
  <2> QED
    BY <1>1, <1>2, <1>3, <1>5, <2>1 DEF SlotsAddUp, FreeUnits
<1>10. ConsoleOwned'
  BY <1>1, <1>2, <1>3 DEF ConsoleOwned
<1>11. BitsInCalls'
  <2>1. task_state'[t] # "BLOCKED"
    BY <1>1, UnlockerRuns
  <2>2. \A u \in semaphore.waiting \ semaphore'.waiting : task_state'[u] # "BLOCKED"
    BY <1>5 DEF SemaphoreSound
  <2>3. \A u \in AppTasks : task_state'[u] = "BLOCKED" =>
          u \in semaphore'.waiting \cup g_console_mutex.waiting
    <3> SUFFICES ASSUME NEW u \in AppTasks, task_state'[u] = "BLOCKED",
                        u \notin semaphore'.waiting
                 PROVE  u \in g_console_mutex.waiting
      OBVIOUS
    <3>1. u # t /\ u \notin semaphore.waiting
      BY <2>1, <2>2
    <3>2. task_state[u] = "BLOCKED"
      BY <1>5, <3>1 DEF BlockedElsewhere
    <3> QED
      BY <1>2, <3>1, <3>2 DEF BitsInCalls
  <2>4. \A u \in AppTasks : u \in semaphore'.waiting \cup semaphore'.granted => pc'[u] = "wait"
    BY <1>2, <1>3, <1>4, <1>5 DEF BitsInCalls
  <2>5. \A u \in AppTasks : u \in g_console_mutex'.waiting => pc'[u] = "lock"
    BY <1>1, <1>2, <1>3, <1>4 DEF BitsInCalls
  <2> QED
    BY <1>1, <2>3, <2>4, <2>5 DEF BitsInCalls
<1> QED
  BY <1>5, <1>7, <1>8, <1>3, <1>9, <1>10, <1>11 DEF DemoInv

(* Steps that neither block nor unblock a task, and no service.            *)
LEMMA LayerMoves ==
  ASSUME DemoInv, LayerInv', ~primask',
         \A u \in Tasks : task_state[u] = "BLOCKED" <=> task_state'[u] = "BLOCKED",
         UNCHANGED <<semaphore, g_console_mutex>>
  PROVE  SemaphoreSound' /\ Console!MutexSound'
<1>1. SemaphoreSound /\ Console!MutexSound
  BY DEF DemoInv
<1>2. SemaphoreSound'
  <2>1. semaphore.waiting \cup semaphore.granted \subseteq Tasks
    BY <1>1 DEF SemaphoreSound, AppTasks
  <2> QED
    BY <1>1, <2>1 DEF SemaphoreSound
<1>3. Console!MutexSound'
  <2>1. g_console_mutex.waiting \subseteq Tasks
    BY <1>1 DEF Console!MutexSound, Console!AppTasks, Console!Tasks, Tasks
  <2> QED
    BY <1>1, <2>1 DEF Console!MutexSound
<1> QED
  BY <1>2, <1>3

LEMMA SleepKeeps ==
  ASSUME DemoInv, NEW t \in AppTasks, Hold(t) \/ Rest(t)
  PROVE  DemoInv'
<1>1. /\ os_sleep(t)
      /\ UNCHANGED <<semaphore, g_console_mutex, lines, counts>>
      /\ \/ Goto(t, "hold", "lock")
         \/ Goto(t, "rest", "wait")
  BY DEF Hold, Rest
<1>2. /\ LayerInv /\ ~primask /\ ConsoleOwned /\ BitsInCalls
      /\ SlotsAddUp /\ NoPoolViolation
  BY DEF DemoInv
<1>3. LayerInv' /\ ~primask'
  BY <1>1, <1>2, TaskCallStep DEF os_sleep
<1>4. \A u \in Tasks : task_state[u] = "BLOCKED" <=> task_state'[u] = "BLOCKED"
  BY <1>1, <1>2, OtherKeepsBlocked
<1>5. SemaphoreSound' /\ Console!MutexSound'
  BY <1>1, <1>3, <1>4, LayerMoves
<1>6. /\ pc' \in [AppTasks -> {"wait", "enter", "lock", "unlock", "hold",
                               "exit", "post", "rest"}]
      /\ pc[t] \in {"hold", "rest"} /\ pc'[t] \in {"lock", "wait"}
      /\ \A u \in AppTasks \ {t} : pc'[u] = pc[u]
      /\ Cardinality(Users)' = Cardinality(Users)
      /\ Cardinality(Inscribed)' = Cardinality(Inscribed)
  <2>1. CASE Goto(t, "hold", "lock")
    BY <2>1, GotoMoves DEF InUse, InBook
  <2>2. CASE Goto(t, "rest", "wait")
    BY <2>2, GotoMoves DEF InUse, InBook
  <2> QED
    BY <1>1, <2>1, <2>2
<1>7. SlotsAddUp' /\ NoPoolViolation'
  BY <1>1, <1>2, <1>6 DEF SlotsAddUp, NoPoolViolation, counts
<1>8. ConsoleOwned'
  BY <1>1, <1>2, <1>6 DEF ConsoleOwned
<1>9. BitsInCalls'
  BY <1>1, <1>2, <1>4, <1>6 DEF BitsInCalls, AppTasks
<1>10. lines' \in [AppTasks -> {0, 1}]
  BY <1>1 DEF DemoInv
<1> QED
  BY <1>3, <1>5, <1>6, <1>7, <1>8, <1>9, <1>10 DEF DemoInv

(* The kernel core serves the workers, but changes nothing of theirs.      *)
LEMMA CoreKeeps ==
  ASSUME DemoInv, CoreNext, Idle
  PROVE  DemoInv'
<1>1. /\ LayerInv /\ ~primask /\ ConsoleOwned /\ BitsInCalls
      /\ SlotsAddUp /\ NoPoolViolation
      /\ UNCHANGED <<semaphore, g_console_mutex, pc, lines>> /\ UNCHANGED counts
  BY DEF DemoInv, Idle, loopVars
<1>2. LayerInv'
  BY <1>1, CoreStep
<1>3. ~primask'
  BY <1>1 DEF CoreNext, RequestSwitch, Wake, Dispatch
<1>4. \A u \in Tasks : task_state[u] = "BLOCKED" <=> task_state'[u] = "BLOCKED"
  BY <1>1, CoreKeepsBlocked
<1>5. SemaphoreSound' /\ Console!MutexSound'
  BY <1>1, <1>2, <1>3, <1>4, LayerMoves
<1>6. SlotsAddUp' /\ NoPoolViolation'
  BY <1>1 DEF SlotsAddUp, NoPoolViolation, counts, Users, Inscribed
<1>7. ConsoleOwned'
  BY <1>1 DEF ConsoleOwned
<1>8. BitsInCalls'
  BY <1>1, <1>4 DEF BitsInCalls, AppTasks
<1> QED
  BY <1>1, <1>2, <1>3, <1>5, <1>6, <1>7, <1>8 DEF DemoInv

LEMMA NothingKeeps ==
  ASSUME DemoInv, UNCHANGED demoVars
  PROVE  DemoInv'
<1>1. /\ UNCHANGED layerVars
      /\ UNCHANGED <<task_state, semaphore, g_console_mutex, pc, lines>>
      /\ UNCHANGED counts
  BY DEF demoVars, loopVars, layerVars
<1>2. LayerInv' /\ ~primask' /\ SemaphoreSound' /\ Console!MutexSound'
  BY <1>1, ObjectsStay
<1>3. SlotsAddUp' /\ NoPoolViolation' /\ ConsoleOwned' /\ BitsInCalls'
  BY <1>1 DEF DemoInv, SlotsAddUp, NoPoolViolation, ConsoleOwned, BitsInCalls,
              counts, Users, Inscribed
<1> QED
  BY <1>1, <1>2, <1>3 DEF DemoInv

-----------------------------------------------------------------------------
LEMMA DemoInitInv == DemoInit => DemoInv
<1> SUFFICES ASSUME DemoInit PROVE DemoInv
  OBVIOUS
<1>1. LayerInv /\ ~primask /\ \A u \in Tasks : task_state[u] # "BLOCKED"
  BY LayerInitInv DEF DemoInit, LayerInit
<1>2. SemaphoreSound
  <2>1. IdleTask \in Tasks
    BY IdleIsTask
  <2> QED
    BY <2>1, CapacityAssumption DEF DemoInit, os_semaphore_init, SemaphoreSound, SemaphoreType
<1>3. Console!MutexSound
  BY DEF DemoInit, Console!os_mutex_init, Console!MutexSound, Console!MutexType,
         Console!NoTask, Console!IdleTask
<1>4. Users = {} /\ Inscribed = {}
  BY DEF DemoInit, Users, Inscribed
<1>5. SlotsAddUp
  <2>1. Cardinality(Users) = 0 /\ Cardinality(Inscribed) = 0 /\ Cardinality(semaphore.granted) = 0
    BY <1>4, FS_EmptySet DEF DemoInit, os_semaphore_init
  <2> QED
    BY <2>1, CapacityAssumption DEF DemoInit, os_semaphore_init, SlotsAddUp
<1>6. ConsoleOwned
  BY DEF DemoInit, Console!os_mutex_init, Console!NoTask, ConsoleOwned, AppTasks, Tasks
<1>7. BitsInCalls
  BY <1>1 DEF DemoInit, os_semaphore_init, Console!os_mutex_init, BitsInCalls, AppTasks
<1> QED
  BY <1>1, <1>2, <1>3, <1>5, <1>6, <1>7 DEF DemoInit, DemoInv, NoPoolViolation

(* The slots add up, the console has one owner, and nobody waits for two   *)
(* objects, for any number of workers and of slots.                        *)
THEOREM DemoInvariant == DemoSpec => []DemoInv
<1>1. DemoInit => DemoInv
  BY DemoInitInv
<1>2. DemoInv /\ [DemoNext]_demoVars => DemoInv'
  <2> SUFFICES ASSUME DemoInv, [DemoNext]_demoVars PROVE DemoInv'
    OBVIOUS
  <2>1. CASE CoreNext /\ Idle
    BY <2>1, CoreKeeps
  <2>2. ASSUME NEW t \in AppTasks, Worker(t)
        PROVE  DemoInv'
    BY <2>2, WaitKeeps, EnterKeeps, LockKeeps, UnlockKeeps, SleepKeeps, ExitKeeps, PostKeeps
       DEF Worker
  <2>3. CASE UNCHANGED demoVars
    BY <2>3, NothingKeeps
  <2> QED
    BY <2>1, <2>2, <2>3 DEF DemoNext
<1> QED
  BY <1>1, <1>2, PTL DEF DemoSpec

(* The diagnosis counters of the semaphore demo stay 0: never more users   *)
(* than slots, nobody leaves twice, no call of the semaphore fails.        *)
THEOREM PoolIsNeverViolated == DemoSpec => []NoPoolViolation
<1>1. DemoInv => NoPoolViolation
  BY DEF DemoInv
<1> QED
  BY <1>1, DemoInvariant, PTL

(* If everybody were BLOCKED, nobody would own the console, hence all      *)
(* would wait for a slot; but then no slot would be in use, nor free.      *)
LEMMA SomeoneGoesOn ==
  ASSUME DemoInv, AppTasks # {}
  PROVE  \E t \in AppTasks : task_state[t] # "BLOCKED"
<1> SUFFICES ASSUME \A t \in AppTasks : task_state[t] = "BLOCKED" PROVE FALSE
  OBVIOUS
<1>1. /\ SemaphoreSound /\ Console!MutexSound /\ SlotsAddUp /\ ConsoleOwned /\ BitsInCalls
  BY DEF DemoInv
<1>2. g_console_mutex.waiting = {}
  <2> SUFFICES ASSUME g_console_mutex.waiting # {} PROVE FALSE
    OBVIOUS
  <2> DEFINE owner == g_console_mutex.owner_task_id
  <2>1. owner \in AppTasks
    BY <1>1 DEF Console!MutexSound, Console!MutexType, Console!Tasks, Tasks, Console!NoTask,
                Console!IdleTask, IdleTask, AppTasks
  <2>2. owner \notin g_console_mutex.waiting
    BY <1>1, <2>1 DEF Console!MutexSound
  <2>3. pc[owner] = "unlock"
    BY <1>1, <2>1, <2>2 DEF ConsoleOwned
  <2> QED
    BY <1>1, <2>1, <2>2, <2>3 DEF BitsInCalls
<1>3. \A t \in AppTasks : t \in semaphore.waiting /\ pc[t] = "wait"
  BY <1>1, <1>2 DEF BitsInCalls
<1>4. Users = {}
  BY <1>3 DEF Users
<1>5. semaphore.granted = {}
  BY <1>1 DEF SemaphoreSound
<1>6. semaphore.count = 0
  BY <1>1, <1>3 DEF SemaphoreSound
<1>7. Cardinality({}) = 0
  BY FS_EmptySet
<1> QED
  BY <1>1, <1>4, <1>5, <1>6, <1>7, CapacityAssumption DEF SlotsAddUp

(* A waiting bit of a task is always one of the call the task is in, and   *)
(* the tasks never wait for each other in a circle, for any number of      *)
(* workers and of slots (kernel_run_semaphore_worker).                     *)
THEOREM OneWaitAtATime == DemoSpec => []WaitsForOneObject
<1>1. DemoInv => WaitsForOneObject
  BY SomeoneGoesOn DEF DemoInv, WaitsForOneObject
<1> QED
  BY <1>1, DemoInvariant, PTL

=============================================================================
