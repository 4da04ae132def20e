--------------------------- MODULE ConsoleProofs ---------------------------
(***************************************************************************)
(* Proofs about Console: ConsoleInv is inductive for any number of tasks   *)
(* and any depth of the FIFO, hence never two tasks in the section that    *)
(* the mutex protects and no call of the mutex fails; and the tasks use    *)
(* the mutex as MutexTasks says.                                           *)
(***************************************************************************)
EXTENDS Console, ServiceProofs

Inside == {t \in AppTasks : pc[t] \in {"poll", "write", "leave"}}

(* Who executes is RUNNING, so it does not wait, nor is it handed anything *)
(* outside its os_mutex_lock.                                              *)
LEMMA WriterRuns ==
  ASSUME ConsoleInv, NEW t \in AppTasks, Executing(t)
  PROVE  /\ t \in Tasks /\ t # NoTask /\ task_state[t] = "RUNNING"
         /\ t \in mutex.waiting => mutex.owner_task_id = t
BY DEF ConsoleInv, LayerInv, LayerTypeOK, OneRunning, Executing, MutexSound,
       AppTasks, Tasks, NoTask

(* A call leaves interrupts enabled, and is not refused for their sake.    *)
LEMMA MaskStays ==
  ASSUME ~primask, NEW t, NEW result,
         os_mutex_lock(t, result) \/ os_mutex_unlock(t, result)
  PROVE  ~primask' /\ result # "INTERRUPTS_DISABLED"
<1>1. CASE os_mutex_lock(t, result)
  BY <1>1 DEF os_mutex_lock, lock_free, lock_handed_over, lock_recursive, lock_masked,
              lock_block, layerVars
<1>2. CASE os_mutex_unlock(t, result)
  BY <1>2 DEF os_mutex_unlock, unlock_not_owner, unlock_release, unlock_hand_over,
              layerVars
<1> QED
  BY <1>1, <1>2

LEMMA GotoMoves ==
  ASSUME ConsoleInv, NEW t \in AppTasks, NEW from, NEW to \in Places, Goto(t, from, to)
  PROVE  /\ pc' \in [AppTasks -> Places] /\ pc[t] = from /\ pc'[t] = to
         /\ \A u \in AppTasks \ {t} : pc'[u] = pc[u]
BY DEF ConsoleInv, Goto

(* One task at most is in the section, and the counters know it.           *)
LEMMA OneInside ==
  ASSUME ConsoleInv, NEW t \in AppTasks, pc[t] \in InSection
  PROVE  /\ mutex.owner_task_id = t /\ t \notin mutex.waiting
         /\ \A u \in AppTasks \ {t} : pc[u] \notin InSection
BY DEF ConsoleInv, SectionOwned, InSection

(* A step of t that stays on its side of the two counted boundaries.       *)
LEMMA InsideStays ==
  ASSUME ConsoleInv, NEW t \in AppTasks,
         \A u \in AppTasks \ {t} : pc'[u] = pc[u],
         pc[t] \in {"poll", "write", "leave"} <=> pc'[t] \in {"poll", "write", "leave"},
         UNCHANGED counters
  PROVE  NoMutexViolation'
<1>1. Inside' = Inside
  BY DEF Inside
<1> QED
  BY <1>1 DEF ConsoleInv, NoMutexViolation, Inside, counters

(* The refinement mapping: what MutexTasks makes of a step of t.           *)
Waits == [u \in AppTasks |-> IF u \in mutex.waiting THEN "lock" ELSE "run"]
Holds == [u \in AppTasks |-> pc[u] \in InSection]

LEMMA HoldsNoMore ==
  ASSUME NEW t \in AppTasks, pc'[t] \notin InSection,
         \A u \in AppTasks \ {t} : pc'[u] = pc[u]
  PROVE  Holds' = [Holds EXCEPT ![t] = FALSE]
<1> DEFINE Left == [Holds EXCEPT ![t] = FALSE]
<1>1. Holds' = [u \in AppTasks |-> pc'[u] \in InSection]
  BY DEF Holds, InSection
<1>2. Left = [u \in AppTasks |-> IF u = t THEN FALSE ELSE pc[u] \in InSection]
  BY DEF Holds
<1>3. ASSUME NEW u \in AppTasks
      PROVE  (pc'[u] \in InSection) = (IF u = t THEN FALSE ELSE pc[u] \in InSection)
  <2>1. CASE u = t
    <3>1. (pc'[t] \in InSection) = FALSE
      OBVIOUS
    <3> QED
      BY <2>1, <3>1, Zenon
  <2>2. CASE u # t
    BY <2>2
  <2> QED
    BY <2>1, <2>2
<1> QED
  BY <1>1, <1>2, <1>3

LEMMA SameLock ==
  ASSUME NEW t \in AppTasks, NEW result \in LockResults, os_mutex_lock(t, result),
         Waits' = [Waits EXCEPT ![t] = IF result = "BLOCKED" THEN "lock" ELSE "run"],
         Holds' = [Holds EXCEPT ![t] = @ \/ result = "OK"]
  PROVE  Contract!Lock(t)
<1>1. Contract!os_mutex_lock(t, result)
  BY DEF os_mutex_lock, Contract!os_mutex_lock, lock_free, Contract!lock_free,
         lock_handed_over, Contract!lock_handed_over, lock_recursive,
         Contract!lock_recursive, lock_masked, Contract!lock_masked, lock_block,
         Contract!lock_block, Executing, Contract!Executing, CanBlock,
         Contract!CanBlock, task_block, Contract!task_block,
         os_trigger_context_switch, Contract!os_trigger_context_switch,
         layerVars, Contract!layerVars, IdleTask, Contract!IdleTask
<1> QED
  BY <1>1 DEF Contract!Lock, Contract!LockResults, LockResults, Waits, Holds,
              Contract!AppTasks, AppTasks, Contract!Tasks, Tasks, Contract!IdleTask,
              IdleTask

LEMMA SameUnlock ==
  ASSUME NEW t \in AppTasks, NEW result \in UnlockResults, os_mutex_unlock(t, result),
         Waits[t] = "run", Waits' = Waits,
         Holds' = [Holds EXCEPT ![t] = @ /\ result # "OK"]
  PROVE  Contract!Unlock(t)
<1>1. Contract!os_mutex_unlock(t, result)
  BY DEF os_mutex_unlock, Contract!os_mutex_unlock, unlock_not_owner,
         Contract!unlock_not_owner, unlock_release, Contract!unlock_release,
         unlock_hand_over, Contract!unlock_hand_over, IsOwner, Contract!IsOwner,
         mutex_find_next_waiting_task, Contract!mutex_find_next_waiting_task,
         Executing, Contract!Executing, task_unblock, Contract!task_unblock,
         layerVars, Contract!layerVars, IdleTask, Contract!IdleTask, NoTask,
         Contract!NoTask, FirstBlocked, Contract!FirstBlocked, WithoutStale,
         Contract!WithoutStale, BlockedAmong, Contract!BlockedAmong,
         CyclicOffset, Contract!CyclicOffset
<1> QED
  BY <1>1 DEF Contract!Unlock, Contract!UnlockResults, UnlockResults, Waits, Holds,
              Contract!AppTasks, AppTasks, Contract!Tasks, Tasks, Contract!IdleTask,
              IdleTask

(* A step of t inside the section: for the mutex nothing happens.          *)
LEMMA SectionStays ==
  ASSUME ConsoleInv, NEW t \in AppTasks, UNCHANGED <<layerVars, mutex>>,
         pc' \in [AppTasks -> Places], \A u \in AppTasks \ {t} : pc'[u] = pc[u],
         pc[t] \in InSection, pc'[t] \in InSection, NoMutexViolation'
  PROVE  ConsoleInv' /\ UNCHANGED <<layerVars, mutex, Waits, Holds>>
<1>1. /\ LayerInv /\ ~primask /\ MutexSound /\ SectionOwned
      /\ UNCHANGED <<task_state, current, pendsv, primask, mutex>>
  BY DEF ConsoleInv, layerVars
<1>2. LayerInv'
  BY <1>1 DEF LayerInv, LayerTypeOK, OneRunning
<1>3. MutexSound'
  BY <1>1, MutexKeeps
<1>4. SectionOwned'
  BY <1>1 DEF SectionOwned, InSection
<1>5. Waits' = Waits /\ Holds' = Holds
  BY <1>1 DEF Waits, Holds
<1> QED
  BY <1>1, <1>2, <1>3, <1>4, <1>5 DEF ConsoleInv

-----------------------------------------------------------------------------
(* The steps of a task, one lemma for each: the invariant is kept, and the *)
(* mutex is used as MutexTasks allows.                                     *)

(* The mutex was free or has been handed over, or somebody else has it.    *)
LEMMA LockKeeps ==
  ASSUME ConsoleInv, NEW t \in AppTasks, Lock(t)
  PROVE  ConsoleInv' /\ Contract!Lock(t)
<1>1. PICK result \in LockResults :
        /\ os_mutex_lock(t, result)
        /\ \/ result = "BLOCKED" /\ Goto(t, "lock", "lock") /\ UNCHANGED counters
           \/ result = "OK" /\ Goto(t, "lock", "enter") /\ UNCHANGED counters
           \/ result \notin {"BLOCKED", "OK"} /\ Goto(t, "lock", "sleep")
  BY DEF Lock
<1>2. /\ LayerInv /\ ~primask /\ MutexSound /\ SectionOwned /\ NoMutexViolation
      /\ pc \in [AppTasks -> Places]
  BY DEF ConsoleInv
<1>3. pc[t] = "lock" /\ t # NoTask
  BY <1>1 DEF Goto, AppTasks, Tasks, NoTask
<1>4. mutex.owner_task_id = t => t \in mutex.waiting
  BY <1>2, <1>3 DEF SectionOwned, InSection
<1>5. /\ LayerInv' /\ MutexSound' /\ ~primask'
      /\ \/ /\ result = "OK"
            /\ mutex.owner_task_id \in {NoTask, t}
            /\ mutex'.owner_task_id = t
            /\ mutex'.waiting = mutex.waiting \ {t}
         \/ /\ result = "BLOCKED"
            /\ mutex.owner_task_id # t
            /\ mutex'.owner_task_id = mutex.owner_task_id
            /\ mutex'.waiting = mutex.waiting \cup {t}
  BY <1>1, <1>2, <1>4, LockEffect, MaskStays
<1>6. CASE result = "OK"
  <2>1. /\ Goto(t, "lock", "enter") /\ UNCHANGED counters
        /\ mutex.owner_task_id \in {NoTask, t}
        /\ mutex'.owner_task_id = t
        /\ mutex'.waiting = mutex.waiting \ {t}
    BY <1>1, <1>5, <1>6
  <2>2. /\ pc' \in [AppTasks -> Places] /\ pc'[t] = "enter"
        /\ \A u \in AppTasks \ {t} : pc'[u] = pc[u]
    BY <2>1, GotoMoves DEF Places
  <2>3. \A u \in AppTasks \ {t} : pc[u] \notin InSection
    BY <1>2, <2>1 DEF SectionOwned, AppTasks, Tasks, NoTask
  <2>4. SectionOwned'
    BY <1>2, <2>1, <2>2, <2>3 DEF SectionOwned, InSection
  <2>5. NoMutexViolation'
    BY <1>3, <2>1, <2>2, InsideStays
  <2>6. ConsoleInv'
    BY <1>5, <2>2, <2>4, <2>5 DEF ConsoleInv
  <2>7. Contract!Lock(t)
    <3>1. Waits' = [Waits EXCEPT ![t] = IF result = "BLOCKED" THEN "lock" ELSE "run"]
      BY <1>6, <2>1 DEF Waits
    <3>2. Holds' = [Holds EXCEPT ![t] = @ \/ result = "OK"]
      BY <1>3, <1>6, <2>2 DEF Holds, InSection
    <3> QED
      BY <1>1, <3>1, <3>2, SameLock
  <2> QED
    BY <2>6, <2>7
<1>7. CASE result = "BLOCKED"
  <2>1. /\ Goto(t, "lock", "lock") /\ UNCHANGED counters
        /\ mutex.owner_task_id # t
        /\ mutex'.owner_task_id = mutex.owner_task_id
        /\ mutex'.waiting = mutex.waiting \cup {t}
    BY <1>1, <1>5, <1>7
  <2>2. /\ pc' \in [AppTasks -> Places] /\ pc'[t] = "lock"
        /\ \A u \in AppTasks \ {t} : pc'[u] = pc[u]
    BY <2>1, GotoMoves DEF Places
  <2>3. SectionOwned'
    BY <1>2, <2>1, <2>2 DEF SectionOwned, InSection
  <2>4. NoMutexViolation'
    BY <1>3, <2>1, <2>2, InsideStays
  <2>5. ConsoleInv'
    BY <1>5, <2>2, <2>3, <2>4 DEF ConsoleInv
  <2>6. Contract!Lock(t)
    <3>1. Waits' = [Waits EXCEPT ![t] = IF result = "BLOCKED" THEN "lock" ELSE "run"]
      BY <1>7, <2>1 DEF Waits
    <3>2. Holds' = [Holds EXCEPT ![t] = FALSE]
      BY <2>2, HoldsNoMore DEF InSection
    <3>3. (Holds[t] \/ result = "OK") = FALSE
      BY <1>3, <1>7 DEF Holds, InSection
    <3> QED
      BY <1>1, <3>1, <3>2, <3>3, SameLock
  <2> QED
    BY <2>5, <2>6
<1> QED
  BY <1>5, <1>6, <1>7

(* Nobody else is in the section, so the depth is 1 after this.            *)
LEMMA EnterKeeps ==
  ASSUME ConsoleInv, NEW t \in AppTasks, Enter(t)
  PROVE  ConsoleInv' /\ UNCHANGED <<layerVars, mutex, Waits, Holds>>
<1>1. /\ Goto(t, "enter", "poll")
      /\ g_mutex_critical_depth' = g_mutex_critical_depth + 1
      /\ g_mutex_violation_count' =
           g_mutex_violation_count + (IF g_mutex_critical_depth' > 1 THEN 1 ELSE 0)
      /\ UNCHANGED <<layerVars, mutex, g_mutex_error_count>>
  BY DEF Enter
<1>2. /\ pc' \in [AppTasks -> Places] /\ pc[t] = "enter" /\ pc'[t] = "poll"
      /\ \A u \in AppTasks \ {t} : pc'[u] = pc[u]
  BY <1>1, GotoMoves DEF Places
<1>3. \A u \in AppTasks \ {t} : pc[u] \notin InSection
  BY <1>2, OneInside DEF InSection
<1>4. NoMutexViolation'
  <2>1. Inside = {} /\ Inside' = {t}
    BY <1>2, <1>3 DEF Inside, InSection
  <2>2. Cardinality({}) = 0 /\ Cardinality({t}) = 1
    BY FS_EmptySet, FS_Singleton
  <2>3. /\ g_mutex_critical_depth = Cardinality(Inside)
        /\ g_mutex_violation_count = 0 /\ g_mutex_error_count = 0
    BY DEF ConsoleInv, NoMutexViolation, Inside
  <2>4. g_mutex_critical_depth' = 1 /\ g_mutex_violation_count' = 0
    BY <1>1, <2>1, <2>2, <2>3
  <2> QED
    BY <1>1, <2>1, <2>2, <2>3, <2>4 DEF NoMutexViolation, Inside
<1> QED
  BY <1>1, <1>2, <1>4, SectionStays DEF InSection

(* The steps that leave the section as it is.                              *)
LEMMA StayKeeps ==
  ASSUME ConsoleInv, NEW t \in AppTasks, PollFifo(t) \/ WriteChar(t)
  PROVE  ConsoleInv' /\ UNCHANGED <<layerVars, mutex, Waits, Holds>>
<1>1. /\ \/ Goto(t, "poll", "write") \/ Goto(t, "write", "leave") \/ Goto(t, "write", "poll")
      /\ UNCHANGED <<layerVars, mutex>> /\ UNCHANGED counters
  BY DEF PollFifo, WriteChar, Then
<1>2. /\ pc' \in [AppTasks -> Places]
      /\ pc[t] \in {"poll", "write"} /\ pc'[t] \in {"poll", "write", "leave"}
      /\ \A u \in AppTasks \ {t} : pc'[u] = pc[u]
  BY <1>1, GotoMoves DEF Places
<1>3. NoMutexViolation'
  BY <1>1, <1>2, InsideStays
<1> QED
  BY <1>1, <1>2, <1>3, SectionStays DEF InSection

(* The task that leaves was the one inside.                                *)
LEMMA LeaveKeeps ==
  ASSUME ConsoleInv, NEW t \in AppTasks, Leave(t)
  PROVE  ConsoleInv' /\ UNCHANGED <<layerVars, mutex, Waits, Holds>>
<1>1. /\ Goto(t, "leave", "unlock")
      /\ g_mutex_critical_depth' = g_mutex_critical_depth - 1
      /\ UNCHANGED <<layerVars, mutex, g_mutex_violation_count, g_mutex_error_count>>
  BY DEF Leave, Then
<1>2. /\ pc' \in [AppTasks -> Places] /\ pc[t] = "leave" /\ pc'[t] = "unlock"
      /\ \A u \in AppTasks \ {t} : pc'[u] = pc[u]
  BY <1>1, GotoMoves DEF Places
<1>3. \A u \in AppTasks \ {t} : pc[u] \notin InSection
  BY <1>2, OneInside DEF InSection
<1>4. NoMutexViolation'
  <2>1. Inside = {t} /\ Inside' = {}
    BY <1>2, <1>3 DEF Inside, InSection
  <2>2. Cardinality({}) = 0 /\ Cardinality({t}) = 1
    BY FS_EmptySet, FS_Singleton
  <2>3. /\ g_mutex_critical_depth = Cardinality(Inside)
        /\ g_mutex_violation_count = 0 /\ g_mutex_error_count = 0
    BY DEF ConsoleInv, NoMutexViolation, Inside
  <2> QED
    BY <1>1, <2>1, <2>2, <2>3 DEF NoMutexViolation, Inside
<1> QED
  BY <1>1, <1>2, <1>4, SectionStays DEF InSection

(* The task that unlocks is the owner, and gets no error.                  *)
LEMMA UnlockKeeps ==
  ASSUME ConsoleInv, NEW t \in AppTasks, Unlock(t)
  PROVE  ConsoleInv' /\ Contract!Unlock(t)
<1>1. PICK result \in UnlockResults :
        /\ os_mutex_unlock(t, result)
        /\ Goto(t, "unlock", "sleep")
        /\ g_mutex_error_count' = g_mutex_error_count + (IF result = "OK" THEN 0 ELSE 1)
        /\ UNCHANGED <<g_mutex_critical_depth, g_mutex_violation_count>>
  BY DEF Unlock, Then
<1>2. /\ LayerInv /\ ~primask /\ MutexSound /\ SectionOwned /\ NoMutexViolation
  BY DEF ConsoleInv
<1>3. /\ pc' \in [AppTasks -> Places] /\ pc[t] = "unlock" /\ pc'[t] = "sleep"
      /\ \A u \in AppTasks \ {t} : pc'[u] = pc[u]
  BY <1>1, GotoMoves DEF Places
<1>4. /\ mutex.owner_task_id = t /\ t \notin mutex.waiting
      /\ \A u \in AppTasks \ {t} : pc[u] \notin InSection
  BY <1>3, OneInside DEF InSection
<1>5. /\ LayerInv' /\ MutexSound' /\ ~primask'
      /\ result = "OK" /\ mutex'.waiting = mutex.waiting
      /\ \/ mutex'.owner_task_id = NoTask
         \/ mutex'.owner_task_id \in mutex.waiting
  BY <1>1, <1>2, <1>4, UnlockEffect, MaskStays
<1>6. SectionOwned'
  <2>1. NoTask \notin AppTasks
    BY DEF AppTasks, Tasks, NoTask
  <2> QED
    BY <1>2, <1>3, <1>4, <1>5, <2>1 DEF SectionOwned, InSection
<1>7. NoMutexViolation'
  BY <1>1, <1>2, <1>3, <1>5, InsideStays DEF NoMutexViolation, counters
<1>8. ConsoleInv'
  BY <1>3, <1>5, <1>6, <1>7 DEF ConsoleInv
<1>9. Contract!Unlock(t)
  <2>1. Waits[t] = "run" /\ Waits' = Waits
    BY <1>4, <1>5 DEF Waits
  <2>2. Holds' = [Holds EXCEPT ![t] = FALSE]
    BY <1>3, HoldsNoMore DEF InSection
  <2>3. (Holds[t] /\ result # "OK") = FALSE
    BY <1>5
  <2> QED
    BY <1>1, <2>1, <2>2, <2>3, SameUnlock
<1> QED
  BY <1>8, <1>9

(* Steps that neither block nor unblock a task, and no service.            *)
LEMMA SleepKeeps ==
  ASSUME ConsoleInv, NEW t \in AppTasks, Sleep(t)
  PROVE  ConsoleInv' /\ Contract!Other(t)
<1>1. os_sleep(t) /\ Goto(t, "sleep", "lock") /\ UNCHANGED mutex /\ UNCHANGED counters
  BY DEF Sleep
<1>2. /\ LayerInv /\ ~primask /\ MutexSound /\ SectionOwned
  BY DEF ConsoleInv
<1>3. /\ pc' \in [AppTasks -> Places] /\ pc[t] = "sleep" /\ pc'[t] = "lock"
      /\ \A u \in AppTasks \ {t} : pc'[u] = pc[u]
  BY <1>1, GotoMoves DEF Places
<1>4. LayerInv' /\ ~primask'
  BY <1>1, <1>2, TaskCallStep DEF os_sleep
<1>5. MutexSound'
  <2>1. \A u \in mutex.waiting : task_state[u] = "BLOCKED" <=> task_state'[u] = "BLOCKED"
    BY <1>1, <1>2, OtherKeepsBlocked DEF MutexSound, AppTasks
  <2> QED
    BY <1>1, <1>2, <2>1, MutexKeeps
<1>6. SectionOwned'
  BY <1>1, <1>2, <1>3 DEF SectionOwned, InSection
<1>7. NoMutexViolation'
  BY <1>1, <1>3, InsideStays
<1>8. Contract!Other(t)
  <2>1. Waits[t] = "run" /\ Waits' = Waits /\ Holds' = Holds
    BY <1>1, <1>2, <1>3 DEF Waits, Holds, SectionOwned, InSection
  <2>2. Contract!os_sleep(t)
    BY <1>1 DEF os_sleep, Contract!os_sleep, Executing, Contract!Executing, CanBlock,
       Contract!CanBlock, os_trigger_context_switch, Contract!os_trigger_context_switch,
       IdleTask, Contract!IdleTask
  <2> QED
    BY <1>1, <2>1, <2>2 DEF Contract!Other, Contract!taskVars, Waits, Holds,
       Contract!AppTasks, AppTasks, Contract!Tasks, Tasks, Contract!IdleTask, IdleTask
<1> QED
  BY <1>3, <1>4, <1>5, <1>6, <1>7, <1>8 DEF ConsoleInv

LEMMA CoreKeeps ==
  ASSUME ConsoleInv, CoreNext, Idle
  PROVE  ConsoleInv' /\ Contract!Core
<1>1. UNCHANGED <<mutex, pc>> /\ UNCHANGED counters
  BY DEF Idle
<1>2. /\ LayerInv /\ ~primask /\ MutexSound /\ SectionOwned
  BY DEF ConsoleInv
<1>3. LayerInv' /\ ~primask'
  <2>1. LayerInv'
    BY <1>2, CoreStep
  <2>2. ~primask'
    BY <1>2 DEF CoreNext, RequestSwitch, Wake, Dispatch
  <2> QED
    BY <2>1, <2>2
<1>4. MutexSound'
  <2>1. \A u \in mutex.waiting : task_state[u] = "BLOCKED" <=> task_state'[u] = "BLOCKED"
    BY <1>2, CoreKeepsBlocked DEF MutexSound, AppTasks
  <2> QED
    BY <1>1, <1>2, <2>1, MutexKeeps
<1>5. SectionOwned' /\ NoMutexViolation' /\ pc' \in [AppTasks -> Places]
  BY <1>1 DEF ConsoleInv, SectionOwned, NoMutexViolation, counters
<1>6. Contract!CoreNext
  BY DEF CoreNext, Contract!CoreNext, RequestSwitch, Contract!RequestSwitch, Wake,
     Contract!Wake, Dispatch, Contract!Dispatch, Requeued, Contract!Requeued,
     os_trigger_context_switch, Contract!os_trigger_context_switch, Contract!AppTasks,
     AppTasks, Contract!Tasks, Tasks, Contract!IdleTask, IdleTask
<1>7. Waits' = Waits /\ Holds' = Holds
  BY <1>1 DEF Waits, Holds
<1>8. Contract!Core
  BY <1>1, <1>6, <1>7 DEF Contract!Core, Contract!taskVars, Waits, Holds,
     Contract!AppTasks, AppTasks, Contract!Tasks, Tasks, Contract!IdleTask, IdleTask
<1> QED
  BY <1>3, <1>4, <1>5, <1>8 DEF ConsoleInv

(* The UART, and steps of nobody.                                          *)
LEMMA UartKeeps ==
  ASSUME ConsoleInv, UartSends \/ UNCHANGED consoleVars
  PROVE  ConsoleInv' /\ UNCHANGED <<layerVars, mutex, Waits, Holds>>
<1>1. UNCHANGED layerVars /\ UNCHANGED <<mutex, pc>> /\ UNCHANGED counters
  BY DEF UartSends, consoleVars
<1>2. UNCHANGED <<task_state, current, pendsv, primask>>
  BY <1>1 DEF layerVars
<1>3. LayerInv'
  BY <1>2 DEF ConsoleInv, LayerInv, LayerTypeOK, OneRunning
<1>4. MutexSound'
  BY <1>1, <1>2, MutexKeeps DEF ConsoleInv
<1>5. SectionOwned' /\ NoMutexViolation' /\ pc' \in [AppTasks -> Places]
  BY <1>1 DEF ConsoleInv, SectionOwned, NoMutexViolation, counters
<1>6. UNCHANGED <<layerVars, mutex, Waits, Holds>>
  BY <1>1 DEF Waits, Holds
<1> QED
  BY <1>2, <1>3, <1>4, <1>5, <1>6 DEF ConsoleInv

-----------------------------------------------------------------------------
LEMMA ConsoleInitInv == ConsoleInit => ConsoleInv /\ Contract!MInit
<1> SUFFICES ASSUME ConsoleInit PROVE ConsoleInv /\ Contract!MInit
  OBVIOUS
<1>1. LayerInv /\ ~primask
  BY LayerInitInv DEF ConsoleInit, LayerInit
<1>2. MutexSound
  BY DEF ConsoleInit, os_mutex_init, MutexSound, MutexType, NoTask, IdleTask
<1>3. SectionOwned
  BY DEF ConsoleInit, os_mutex_init, SectionOwned, InSection, AppTasks, Tasks, NoTask
<1>4. NoMutexViolation
  <2>1. Inside = {}
    BY DEF Inside, ConsoleInit
  <2> QED
    BY <2>1, FS_EmptySet DEF Inside, ConsoleInit, NoMutexViolation
<1>5. Contract!LayerInit /\ Contract!os_mutex_init
  BY DEF ConsoleInit, LayerInit, Contract!LayerInit, os_mutex_init, Contract!os_mutex_init,
     FirstTask, Contract!FirstTask, Tasks, Contract!Tasks, IdleTask, Contract!IdleTask,
     NoTask, Contract!NoTask
<1>6. /\ Waits = [t \in AppTasks |-> "run"]
      /\ Holds = [t \in AppTasks |-> FALSE]
  <2>1. Waits = [t \in AppTasks |-> "run"]
    BY DEF ConsoleInit, os_mutex_init, Waits
  <2>2. \A t \in AppTasks : (pc[t] \in InSection) = FALSE
    BY DEF ConsoleInit, InSection
  <2>3. Holds = [t \in AppTasks |-> FALSE]
    BY <2>2 DEF Holds
  <2> QED
    BY <2>1, <2>3
<1>7. Contract!MInit
  BY <1>5, <1>6 DEF Contract!MInit, Waits, Holds, Contract!AppTasks, AppTasks,
     Contract!Tasks, Tasks, Contract!IdleTask, IdleTask
<1> QED
  BY <1>1, <1>2, <1>3, <1>4, <1>7 DEF ConsoleInv, ConsoleInit, Places

(* Every step keeps the invariant, and is a step of MutexTasks or none.    *)
LEMMA ConsoleStep ==
  ASSUME ConsoleInv, [ConsoleNext]_consoleVars
  PROVE  ConsoleInv' /\ [Contract!MNext]_(Contract!mutexVars)
<1>1. ASSUME UNCHANGED <<layerVars, mutex, Waits, Holds>>
      PROVE  UNCHANGED Contract!mutexVars
  BY <1>1 DEF Contract!mutexVars, Contract!layerVars, layerVars, Contract!taskVars,
              Waits, Holds, Contract!AppTasks, AppTasks, Contract!Tasks, Tasks,
              Contract!IdleTask, IdleTask
<1>2. CASE CoreNext /\ Idle
  BY <1>2, CoreKeeps DEF Contract!MNext
<1>3. CASE UartSends \/ UNCHANGED consoleVars
  BY <1>1, <1>3, UartKeeps
<1>4. ASSUME NEW t \in AppTasks, AppTask(t)
      PROVE  ConsoleInv' /\ [Contract!MNext]_(Contract!mutexVars)
  <2>1. t \in Contract!AppTasks
    BY DEF Contract!AppTasks, AppTasks, Contract!Tasks, Tasks, Contract!IdleTask, IdleTask
  <2>2. CASE Lock(t)
    BY <2>1, <2>2, LockKeeps DEF Contract!MNext
  <2>3. CASE Unlock(t)
    BY <2>1, <2>3, UnlockKeeps DEF Contract!MNext
  <2>4. CASE Sleep(t)
    BY <2>1, <2>4, SleepKeeps DEF Contract!MNext
  <2>5. CASE Enter(t) \/ PollFifo(t) \/ WriteChar(t) \/ Leave(t)
    BY <1>1, <2>5, EnterKeeps, StayKeeps, LeaveKeeps
  <2> QED
    BY <1>4, <2>2, <2>3, <2>4, <2>5 DEF AppTask
<1> QED
  BY <1>2, <1>3, <1>4 DEF ConsoleNext

THEOREM ConsoleInvariant == ConsoleSpec => []ConsoleInv
BY ConsoleInitInv, ConsoleStep, PTL DEF ConsoleSpec

(* The diagnosis counters of the mutex demo stay 0, and the depth counts   *)
(* the tasks in the section: never two, whatever the interleaving.         *)
THEOREM SectionIsExclusive == ConsoleSpec => []NoMutexViolation
<1>1. ConsoleInv => NoMutexViolation
  BY DEF ConsoleInv
<1> QED
  BY <1>1, ConsoleInvariant, PTL

(* The tasks of kernel.c use g_console_mutex as MutexTasks says, so what   *)
(* MutexProofs says of MutexTasks holds for it.                            *)
THEOREM ConsoleUsesMutex == ConsoleSpec => UsesMutex
BY ConsoleInitInv, ConsoleStep, ConsoleInvariant, PTL
   DEF ConsoleSpec, UsesMutex, Contract!MSpec
=============================================================================
