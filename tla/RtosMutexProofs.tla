--------------------------- MODULE RtosMutexProofs ---------------------------
(***************************************************************************)
(* Theorems about the mutexes and priorities of RtosKernel, for any tasks, *)
(* priorities, semaphores and calls: when mutexes are waited for without a *)
(* time limit and held one at a time, the highest ready task runs, and a   *)
(* holder runs at the priority of those that wait for it.                  *)
(***************************************************************************)
EXTENDS RtosKernelProofs

-----------------------------------------------------------------------------
(* Mutexes that are waited for without a time limit                        *)

(* The V2 images wait for every mutex without a time limit, and a task     *)
(* that holds one asks for no other.  The first is about the calls, the    *)
(* second about the order a task makes them in.  Without them HighestRuns  *)
(* may fail: a task that timed out is ready beside the holder that has its *)
(* priority, and a give that returns this priority and wakes a lower task  *)
(* asks for no switch.                                                     *)
UnlimitedMutexes ==
  \A t \in Tasks : \A c \in Calls[t] :
    c.op = "take" /\ c.sem \in Mutexes => c.ticks = portMAX_DELAY
OneAtATime ==
  \A t \in Tasks :
    /\ kernel.held[t] <= 1
    /\ InTake(t) /\ job[t].call.sem \in Mutexes => kernel.held[t] = 0

(* A mutex is available or has a holder, who counts it; interrupts do not  *)
(* give mutexes.                                                           *)
Owned ==
  /\ \A t \in Tasks : kernel.held[t] >= 0
  /\ \A m \in Mutexes :
       /\ sem[m].holder = NoTask <=> sem[m].count = 1
       /\ sem[m].txLock <= 0
       /\ sem[m].holder # NoTask => kernel.held[sem[m].holder] = 1
Sole ==
  \A m, n \in Mutexes : sem[m].holder = sem[n].holder /\ sem[m].holder # NoTask => m = n

(* Who waits for a mutex does not give up, and finds it taken before it    *)
(* sleeps.                                                                 *)
WaitsOn(u) ==
  InTake(u) =>
    /\ job[u].inherited => job[u].call.sem \in Mutexes
    /\ job[u].pc \notin {"disinherit", "fatal"}
    /\ job[u].call.sem \in Mutexes =>
         /\ job[u].ticks = portMAX_DELAY /\ job[u].path # "late" /\ job[u].pc # "late"
         /\ job[u].pc = "block" => sem[job[u].call.sem].count = 0

(* It sleeps without a time limit, so that no tick takes it from the list. *)
Bedded ==
  \A m \in Mutexes : \A u \in Elements(kernel.waiting[m]) : kernel.list[u] = "suspended"

Owners == Owned /\ Sole /\ (\A u \in Tasks : WaitsOn(u)) /\ Bedded

-----------------------------------------------------------------------------
(* The steps that are about a mutex                                        *)

(* The step is not about a mutex.                                          *)
Undisturbed ==
  /\ kernel'.prio = kernel.prio /\ kernel'.held = kernel.held
  /\ \A m \in Mutexes :
       /\ sem'[m].holder = sem[m].holder /\ sem'[m].count = sem[m].count
       /\ sem'[m].txLock <= 0
       /\ kernel'.waiting[m] = kernel.waiting[m]

(* t takes the mutex m.                                                    *)
Acquired(t, m) ==
  /\ Running(t) /\ ~kernel.stopped
  /\ \/ job[t].pc = "run" /\ \E c \in Calls[t] : c.op = "take" /\ c.sem = m
     \/ job[t].pc = "take" /\ InTake(t) /\ job[t].call.sem = m
  /\ job'[t] = NoJob
  /\ sem[m].count = 1 /\ sem'[m].count = 0 /\ sem'[m].holder = t
  /\ sem'[m].txLock = sem[m].txLock
  /\ \A z \in Semaphores \ {m} : sem'[z] = sem[z]
  /\ kernel' = [kernel EXCEPT !.held[t] = @ + 1]

(* t goes to sleep on the mutex m.                                         *)
SleepsOn(t, m) ==
  vTaskPlaceOnEventList(t) /\ m = job[t].call.sem

(* t gives the mutex m.                                                    *)
Returned(t, m) ==
  Running(t) /\ ~kernel.stopped /\ job[t].pc = "run" /\ GivenTo(t, m) /\ UNCHANGED job

(* While the scheduler is resumed or a tick wakes tasks, those that wait   *)
(* for a mutex sleep on.                                                   *)
LEMMA SleepersStay ==
  ASSUME Bedded, NEW m \in Mutexes, NEW W, \A t \in W : kernel.list[t] \in Timed
  PROVE  Elements(kernel.waiting[m]) \intersect W = {}
BY DEF Bedded, Timed

(* The actions of a call that leave the lists alone are about a mutex only *)
(* when they take it.                                                      *)
LEMMA CalmDisturbance ==
  ASSUME Types, Control, Owners, NEW t \in Tasks, TakesCalmly(t) \/ StaysCalm(t)
  PROVE  Undisturbed \/ \E m \in Mutexes : Acquired(t, m)
<1>1. Mutexes \subseteq Semaphores
  BY KernelAssumption
<1>2. kernel'.waiting = kernel.waiting /\ Running(t)
  BY TakenCalmly, StayedCalm DEF Calm, Unmoved
<1>3. \A m \in Mutexes : sem[m].txLock <= 0
  BY DEF Owners, Owned
<1>4. ASSUME TakesCalmly(t)
      PROVE  Undisturbed \/ \E m \in Mutexes : Acquired(t, m)
  <2>1. PICK j \in Job : /\ j.call.op = "take" /\ Tried(t, j) /\ job[t].pc \in {"run", "take"}
                         /\ job[t].pc = "take" => j = job[t]
                         /\ job[t].pc = "run" => j.call \in Calls[t]
    BY <1>4, TakenCalmly
  <2>2. PICK s \in Semaphores :
    /\ j.call.sem = s
    /\ \A z \in Semaphores \ {s} : sem'[z] = sem[z]
    /\ sem'[s].txLock = sem[s].txLock
    /\ \/ /\ sem[s].count = 1 /\ sem'[s].count = 0 /\ job'[t] = NoJob
          /\ s \in Mutexes => /\ sem'[s].holder = t
                              /\ kernel' = [kernel EXCEPT !.held[t] = @ + 1]
          /\ s \notin Mutexes => sem'[s].holder = sem[s].holder /\ kernel' = kernel
       \/ /\ sem[s].count = 0 /\ sem' = sem /\ kernel' = kernel
          /\ job'[t] = NoJob /\ j.ticks = 0 /\ ~j.inherited
       \/ /\ sem[s].count = 0 /\ sem' = sem /\ kernel' = kernel
          /\ job'[t].pc = "stop" /\ j.ticks # 0 /\ SameCall(j, job'[t])
    BY <2>1 DEF Tried
  <2>3. CASE s \in Mutexes /\ sem[s].count = 1
    <3>1. ~kernel.stopped
      BY <1>2, <2>1 DEF Control, StopPcs, Running
    <3>2. job[t].pc = "take" => InTake(t) /\ job[t].call.sem = s
      BY <2>1, <2>2 DEF InTake, CallPcs, TakePcs
    <3>3. Acquired(t, s)
      BY <1>2, <2>1, <2>2, <2>3, <3>1, <3>2 DEF Acquired
    <3> QED
      BY <2>3, <3>3
  <2>4. CASE s \notin Mutexes
    <3>1. kernel' = kernel /\ \A m \in Mutexes : sem'[m] = sem[m]
      BY <1>1, <2>2, <2>4
    <3> QED
      BY <1>3, <3>1 DEF Undisturbed
  <2>5. CASE sem[s].count # 1
    <3>1. kernel' = kernel /\ sem' = sem
      BY <2>2, <2>5
    <3> QED
      BY <1>3, <3>1 DEF Undisturbed
  <2> QED
    BY <2>3, <2>4, <2>5
<1>5. ASSUME StaysCalm(t) PROVE Undisturbed
  <2>1. kernel' = kernel
    <3>1. ~Disinherit(t)
      <4>1. ASSUME Disinherit(t) PROVE FALSE
        <5>1. job[t].pc = "disinherit"
          BY <4>1 DEF Disinherit, At
        <5>2. InTake(t)
          BY <5>1 DEF Control, InTake, CallPcs, TakePcs
        <5> QED
          BY <5>1, <5>2 DEF Owners, WaitsOn
      <4> QED
        BY <4>1
    <3> QED
      BY <1>5, <3>1 DEF StaysCalm, AssertionFails, prvLockQueue, Look, Late, vTaskDelay, Awake
  <2>2. CASE prvLockQueue(t)
    <3>1. PICK s \in Semaphores : s = job[t].call.sem
      BY <2>2, Locked
    <3>2. /\ \A z \in Semaphores \ {s} : sem'[z] = sem[z]
          /\ sem'[s].count = sem[s].count /\ sem'[s].holder = sem[s].holder
          /\ sem'[s].txLock = IF sem[s].txLock = -1 THEN 0 ELSE sem[s].txLock
      BY <2>2, <3>1, Locked
    <3>3. \A m \in Mutexes : /\ sem'[m].count = sem[m].count /\ sem'[m].holder = sem[m].holder
                             /\ sem'[m].txLock <= 0
      BY <1>1, <1>3, <3>2
    <3> QED
      BY <2>1, <3>3 DEF Undisturbed
  <2>3. CASE ~prvLockQueue(t)
    <3>1. sem' = sem
      BY <1>5, <2>3 DEF StaysCalm, AssertionFails, Look, Late, Disinherit, vTaskDelay, Awake
    <3> QED
      BY <1>3, <2>1, <3>1 DEF Undisturbed
  <2> QED
    BY <2>2, <2>3
<1> QED
  BY <1>4, <1>5

(* The other steps but for sleep on a mutex and its give are not.          *)
LEMMA Disturbances ==
  ASSUME Types, Control, Locks, Queues, Owners, Next
  PROVE  \/ Undisturbed
         \/ \E t \in Tasks, m \in Mutexes : Acquired(t, m) \/ SleepsOn(t, m) \/ Returned(t, m)
<1>1. Mutexes \subseteq Semaphores /\ Idle \in Tasks
  BY KernelAssumption
<1>2. \A m \in Mutexes : sem[m].txLock <= 0
  BY DEF Owners, Owned
<1>3. ASSUME sem' = sem, kernel'.prio = kernel.prio, kernel'.held = kernel.held,
             \A m \in Mutexes : kernel'.waiting[m] = kernel.waiting[m]
      PROVE  Undisturbed
  BY <1>2, <1>3 DEF Undisturbed
<1>4. ASSUME NEW t \in Tasks, TakesCalmly(t) \/ StaysCalm(t)
      PROVE  Undisturbed \/ \E m \in Mutexes : Acquired(t, m)
  BY <1>4, CalmDisturbance
<1>5. ASSUME NEW t \in Tasks, vTaskSuspendAll(t) \/ AdjustNext(t) PROVE Undisturbed
  <2>1. Still(kernel, kernel') /\ sem' = sem
    BY <1>5, Suspended, Adjusted
  <2> QED
    BY <1>3, <2>1 DEF Still
<1>6. ASSUME NEW t \in Tasks, vTaskPlaceOnEventList(t)
      PROVE  Undisturbed \/ \E m \in Mutexes : SleepsOn(t, m)
  <2>1. PICK s \in Semaphores : s = job[t].call.sem
    BY <1>6, Blocked
  <2>2. /\ kernel'.prio = Heir(s).prio /\ kernel'.held = kernel.held /\ sem' = sem
        /\ \A z \in Semaphores \ {s} : kernel'.waiting[z] = kernel.waiting[z]
    BY <1>6, <2>1, Blocked
  <2>3. CASE s \in Mutexes
    BY <1>6, <2>1, <2>3 DEF SleepsOn
  <2>4. CASE s \notin Mutexes
    <3>1. kernel'.prio = kernel.prio
      BY <2>2, <2>4 DEF Heir
    <3>2. \A m \in Mutexes : kernel'.waiting[m] = kernel.waiting[m]
      BY <1>1, <2>2, <2>4
    <3> QED
      BY <1>3, <2>2, <3>1, <3>2
  <2> QED
    BY <2>3, <2>4
<1>7. ASSUME NEW t \in Tasks, Place(t) PROVE Undisturbed
  <2>1. /\ kernel'.prio = kernel.prio /\ kernel'.held = kernel.held
        /\ kernel'.waiting = kernel.waiting /\ sem' = sem
    BY <1>7, Placed
  <2> QED
    BY <1>3, <2>1
<1>8. ASSUME NEW t \in Tasks, prvUnlockQueue(t) PROVE Undisturbed
  <2>1. PICK s \in Semaphores : s = job[t].call.sem
    BY <1>8, Opened
  <2>2. /\ job[t].pc = "unlock" /\ job[t].call.op = "take"
        /\ \A z \in Semaphores \ {s} : sem'[z] = sem[z]
        /\ sem'[s].count = sem[s].count /\ sem'[s].holder = sem[s].holder /\ sem'[s].txLock = -1
    BY <1>8, <2>1, Opened
  <2>3. PICK n \in 0..Len(kernel.waiting[s]) :
          Unlocked(kernel, s, n, kernel') /\ (n = 0 <=> sem[s].txLock = 0 \/ Len(kernel.waiting[s]) = 0)
    BY <1>8, <2>1, Opened
  <2>4. /\ kernel'.prio = kernel.prio /\ kernel'.held = kernel.held
        /\ \A z \in Semaphores : z # s => kernel'.waiting[z] = kernel.waiting[z]
    BY <2>3 DEF Unlocked
  <2>5. s \in Mutexes => kernel'.waiting[s] = kernel.waiting[s]
    <3> SUFFICES ASSUME s \in Mutexes PROVE kernel' = kernel
      OBVIOUS
    <3>1. Locking(t, s)
      BY <2>1, <2>2 DEF Locking, InTake, CallPcs, TakePcs
    <3>2. sem[s].txLock \in Int /\ sem[s].txLock >= -1 /\ sem[s].txLock # -1 /\ sem[s].txLock <= 0
      BY <1>2, <3>1 DEF Locks, Types, Semaphore
    <3>3. n = 0
      BY <2>3, <3>2
    <3> QED
      BY <2>3, <3>3 DEF Unlocked
  <2>6. \A m \in Mutexes : /\ sem'[m].count = sem[m].count /\ sem'[m].holder = sem[m].holder
                           /\ sem'[m].txLock <= 0 /\ kernel'.waiting[m] = kernel.waiting[m]
    BY <1>1, <1>2, <2>2, <2>4, <2>5
  <2> QED
    BY <2>4, <2>6 DEF Undisturbed
<1>9. ASSUME NEW W, Resumed(kernel, kernel', W), sem' = sem PROVE Undisturbed
  <2>1. \A t \in W : kernel.list[t] \in Timed
    BY <1>9 DEF Resumed
  <2>2. ASSUME NEW m \in Mutexes PROVE kernel'.waiting[m] = kernel.waiting[m]
    <3>1. Elements(kernel.waiting[m]) \intersect W = {}
      BY <2>1, SleepersStay DEF Owners
    <3> QED
      BY <1>1, <1>9, <3>1 DEF Resumed
  <2>3. kernel'.prio = kernel.prio /\ kernel'.held = kernel.held
    BY <1>9 DEF Resumed
  <2> QED
    BY <1>3, <1>9, <2>2, <2>3
<1>10. ASSUME NEW t \in Tasks, Resume(t) PROVE Undisturbed
  <2>1. sem' = sem /\ \E W : Resumed(kernel, kernel', W)
    BY <1>10, Restarted
  <2> QED
    BY <1>9, <2>1
<1>11. ASSUME NEW s \in Semaphores, s \notin Mutexes, Removed(kernel, s, kernel'),
              \A z \in Semaphores \ {s} : sem'[z] = sem[z]
       PROVE  Undisturbed
  <2>1. \A m \in Mutexes : sem'[m] = sem[m]
    BY <1>1, <1>11
  <2>2. \A m \in Mutexes : kernel'.waiting[m] = kernel.waiting[m]
    BY <1>1, <1>11 DEF Removed, Types, Kernel
  <2>3. kernel'.prio = kernel.prio /\ kernel'.held = kernel.held
    BY <1>11 DEF Removed
  <2> QED
    BY <1>2, <2>1, <2>2, <2>3 DEF Undisturbed
<1>12. ASSUME NEW s \in Semaphores, s \notin Mutexes, kernel' = kernel,
              \A z \in Semaphores \ {s} : sem'[z] = sem[z]
       PROVE  Undisturbed
  <2>1. \A m \in Mutexes : sem'[m] = sem[m]
    BY <1>1, <1>12
  <2> QED
    BY <1>2, <1>12, <2>1 DEF Undisturbed
<1>13. ASSUME NEW t \in Tasks, Give(t)
       PROVE  Undisturbed \/ \E m \in Mutexes : Returned(t, m)
  <2>1. PICK s \in Semaphores : GivenTo(t, s) /\ UNCHANGED job
    BY <1>13, Given
  <2>2. CASE s \in Mutexes
    <3>1. Running(t) /\ ~kernel.stopped /\ job[t].pc = "run"
      BY <1>13, Given
    <3> QED
      BY <2>1, <2>2, <3>1 DEF Returned
  <2>3. CASE s \notin Mutexes
    <3>1. Quit(t, s) = kernel
      BY <2>3 DEF Quit
    <3>2. /\ \A z \in Semaphores \ {s} : sem'[z] = sem[z]
          /\ kernel' = kernel \/ Removed(kernel, s, kernel')
      BY <2>1, <3>1 DEF GivenTo
    <3> QED
      BY <1>11, <1>12, <2>3, <3>2
  <2> QED
    BY <2>2, <2>3
<1>14. ASSUME NEW s \in Semaphores, xQueueGiveFromISR(s) PROVE Undisturbed
  <2>1. /\ s \notin Mutexes /\ \A z \in Semaphores \ {s} : sem'[z] = sem[z]
        /\ kernel' = kernel \/ Removed(kernel, s, kernel')
    BY <1>14, GivenFromISR
  <2> QED
    BY <1>11, <1>12, <2>1
<1>15. ASSUME NEW t \in Tasks, xTaskCreate(t) \/ vTaskDelete(t) PROVE Undisturbed
  <2>1. Kept(kernel, kernel') /\ kernel'.waiting = kernel.waiting /\ sem' = sem
    BY <1>15, Created, Deleted
  <2> QED
    BY <1>3, <2>1 DEF Kept
<1>16. CASE Reap
  <2>1. Kept(kernel, kernel') /\ kernel'.waiting = kernel.waiting /\ sem' = sem
    BY <1>16, Reaped
  <2> QED
    BY <1>3, <2>1 DEF Kept
<1>17. CASE IdleSuspend \/ vTaskSwitchContext
  <2>1. Still(kernel, kernel') /\ sem' = sem
    BY <1>17, IdleSuspended, Switched
  <2> QED
    BY <1>3, <2>1 DEF Still
<1>18. CASE IdleResume
  <2>1. sem' = sem /\ \E W : Resumed(kernel, kernel', W)
    BY <1>18, IdleRestarted
  <2> QED
    BY <1>9, <2>1
<1>19. CASE Tick
  <2>1. sem' = sem
    BY <1>19, Ticked
  <2>2. CASE kernel' = [kernel EXCEPT !.pended = @ + 1]
    <3>1. /\ kernel'.prio = kernel.prio /\ kernel'.held = kernel.held
          /\ kernel'.waiting = kernel.waiting
      BY <2>2 DEF Types, Kernel
    <3> QED
      BY <1>3, <2>1, <3>1
  <2>3. ASSUME NEW A, TickedTo(A) PROVE Undisturbed
    <3>1. /\ Woke(kernel, A) /\ kernel'.waiting = A.waiting
          /\ kernel'.prio = A.prio /\ kernel'.held = A.held
      BY <2>3 DEF TickedTo, Passed
    <3>2. \A t \in WokenIn(kernel, A) : kernel.list[t] \in Timed
      BY DEF WokenIn
    <3>3. ASSUME NEW m \in Mutexes PROVE kernel'.waiting[m] = kernel.waiting[m]
      <4>1. Elements(kernel.waiting[m]) \intersect WokenIn(kernel, A) = {}
        BY <3>2, SleepersStay DEF Owners
      <4> QED
        BY <1>1, <3>1, <4>1 DEF Woke
    <3>4. A.prio = kernel.prio /\ A.held = kernel.held
      BY <3>1 DEF Woke, Kept
    <3> QED
      BY <1>3, <2>1, <3>1, <3>3, <3>4
  <2> QED
    BY <1>19, <2>2, <2>3, Ticked
<1>20. ASSUME NEW t \in Tasks,
              \/ Take(t) \/ TakeAgain(t) \/ AssertionFails(t) \/ prvLockQueue(t) \/ Look(t)
              \/ Late(t) \/ Disinherit(t) \/ vTaskDelay(t) \/ Awake(t)
       PROVE  TakesCalmly(t) \/ StaysCalm(t)
  BY <1>20 DEF TakesCalmly, StaysCalm
<1> QED
  BY <1>4, <1>5, <1>6, <1>7, <1>8, <1>10, <1>13, <1>14, <1>15, <1>16, <1>17, <1>18, <1>19,
     <1>20 DEF Next

-----------------------------------------------------------------------------
(* Who holds and who waits for a mutex                                     *)

(* A mutex that is given: the task holds one less, and the first of those  *)
(* that wait leaves the list.                                              *)
LEMMA GivenBack ==
  ASSUME Types, NEW t \in Tasks, NEW m \in Mutexes, Returned(t, m)
  PROVE  /\ kernel'.held = [kernel.held EXCEPT ![t] = @ - 1]
         /\ \A u \in Tasks : kernel'.prio[u] = IF u = t /\ Disinherits(kernel, t)
                                               THEN BasePriority[t] ELSE kernel.prio[u]
         /\ \A z \in Semaphores \ {m} : sem'[z] = sem[z] /\ kernel'.waiting[z] = kernel.waiting[z]
         /\ kernel'.waiting[m] = IF kernel.waiting[m] = <<>> THEN <<>> ELSE Tail(kernel.waiting[m])
         /\ sem[m].holder = t /\ sem[m].count = 0 /\ sem'[m].holder = NoTask /\ sem'[m].count = 1
         /\ sem'[m].txLock = sem[m].txLock
<1>1. kernel \in Kernel /\ Filed(kernel) /\ Mutexes \subseteq Semaphores
  BY KernelAssumption DEF Types
<1> DEFINE K == xTaskPriorityDisinherit(kernel, t)
<1>2. /\ K.held = [kernel.held EXCEPT ![t] = @ - 1]
      /\ \A u \in Tasks : K.prio[u] = IF u = t /\ Disinherits(kernel, t)
                                      THEN BasePriority[t] ELSE kernel.prio[u]
      /\ K.waiting = kernel.waiting
  BY <1>1, Disinheritance DEF Unmoved
<1>3. Quit(t, m) = K
  BY DEF Quit
<1> HIDE DEF K
<1>4. /\ sem[m].holder = t /\ sem[m].count = 0 /\ sem'[m].holder = NoTask /\ sem'[m].count = 1
      /\ sem'[m].txLock = sem[m].txLock
      /\ \A z \in Semaphores \ {m} : sem'[z] = sem[z]
  BY DEF Returned, GivenTo
<1>5. \/ kernel.waiting[m] = <<>> /\ kernel' = K
      \/ kernel.waiting[m] # <<>> /\ Removed(K, m, kernel')
  BY <1>3 DEF Returned, GivenTo
<1>6. CASE kernel.waiting[m] = <<>> /\ kernel' = K
  BY <1>2, <1>4, <1>6
<1>7. CASE kernel.waiting[m] # <<>> /\ Removed(K, m, kernel')
  <2>1. /\ kernel'.held = K.held /\ kernel'.prio = K.prio
        /\ kernel'.waiting = [kernel.waiting EXCEPT ![m] = Tail(@)]
    BY <1>2, <1>7 DEF Removed
  <2>2. kernel.waiting \in [Semaphores -> Seq(Tasks)]
    BY DEF Types, Kernel
  <2>3. /\ \A z \in Semaphores \ {m} : kernel'.waiting[z] = kernel.waiting[z]
        /\ kernel'.waiting[m] = Tail(kernel.waiting[m])
    BY <1>1, <2>1, <2>2
  <2> QED
    BY <1>2, <1>4, <1>7, <2>1, <2>3
<1> QED
  BY <1>5, <1>6, <1>7

(* The holder of a mutex counts it, and a task that holds none takes or    *)
(* has just given its only one.                                            *)
LEMMA OwnedStep ==
  ASSUME Types, Types', Control, Locks, Queues, Owners, OneAtATime', Next
  PROVE  Owned' /\ Sole'
<1>1. Mutexes \subseteq Semaphores /\ NoTask \notin Tasks
  BY KernelAssumption
<1>2. kernel.held \in [Tasks -> Int] /\ \A m \in Mutexes : sem[m].holder \in Tasks \union {NoTask}
  BY <1>1 DEF Types, Kernel, Semaphore
<1>3. CASE Undisturbed
  BY <1>3 DEF Owners, Owned, Sole, Undisturbed
<1>4. ASSUME NEW t \in Tasks, NEW m \in Mutexes, Acquired(t, m)
      PROVE  Owned' /\ Sole'
  <2>1. /\ sem'[m].count = 0 /\ sem'[m].holder = t /\ sem'[m].txLock = sem[m].txLock
        /\ \A n \in Mutexes \ {m} : sem'[n] = sem[n]
        /\ kernel' = [kernel EXCEPT !.held[t] = @ + 1]
    BY <1>1, <1>4 DEF Acquired
  <2>2. kernel'.held = [kernel.held EXCEPT ![t] = @ + 1]
    BY <2>1 DEF Types, Kernel
  <2>3. kernel'.held[t] = kernel.held[t] + 1 /\ \A u \in Tasks \ {t} : kernel'.held[u] = kernel.held[u]
    BY <1>2, <2>2
  <2>4. kernel'.held[t] <= 1
    BY DEF OneAtATime
  <2>5. kernel.held[t] \in Int /\ kernel.held[t] >= 0
    BY <1>2 DEF Owners, Owned
  <2>6. kernel.held[t] = 0 /\ kernel'.held[t] = 1
    BY <2>3, <2>4, <2>5
  <2>7. \A n \in Mutexes : sem[n].holder # t
    BY <1>1, <2>6 DEF Owners, Owned
  <2>8. Owned'
    <3>1. \A u \in Tasks : kernel'.held[u] >= 0
      BY <2>3, <2>6 DEF Owners, Owned
    <3>2. ASSUME NEW n \in Mutexes
          PROVE  /\ sem'[n].holder = NoTask <=> sem'[n].count = 1
                 /\ sem'[n].txLock <= 0
                 /\ sem'[n].holder # NoTask => kernel'.held[sem'[n].holder] = 1
      <4>1. CASE n = m
        BY <1>1, <2>1, <2>6, <4>1 DEF Owners, Owned
      <4>2. CASE n # m
        BY <1>2, <2>1, <2>3, <2>7, <4>2 DEF Owners, Owned
      <4> QED
        BY <4>1, <4>2
    <3> QED
      BY <3>1, <3>2 DEF Owned
  <2>9. Sole'
    BY <2>1, <2>7 DEF Owners, Sole
  <2> QED
    BY <2>8, <2>9
<1>5. ASSUME NEW t \in Tasks, NEW m \in Mutexes, SleepsOn(t, m)
      PROVE  Owned' /\ Sole'
  <2>1. kernel'.held = kernel.held /\ sem' = sem
    BY <1>5, Blocked DEF SleepsOn
  <2> QED
    BY <2>1 DEF Owners, Owned, Sole
<1>6. ASSUME NEW t \in Tasks, NEW m \in Mutexes, Returned(t, m)
      PROVE  Owned' /\ Sole'
  <2>1. /\ kernel'.held = [kernel.held EXCEPT ![t] = @ - 1]
        /\ \A n \in Mutexes \ {m} : sem'[n] = sem[n]
        /\ sem[m].holder = t /\ sem'[m].holder = NoTask /\ sem'[m].count = 1
        /\ sem'[m].txLock = sem[m].txLock
    BY <1>1, <1>6, GivenBack
  <2>2. kernel.held[t] = 1
    BY <1>1, <2>1 DEF Owners, Owned
  <2>3. kernel'.held[t] = 0 /\ \A u \in Tasks \ {t} : kernel'.held[u] = kernel.held[u]
    BY <1>2, <2>1, <2>2
  <2>4. \A n \in Mutexes \ {m} : sem[n].holder # t
    BY <1>1, <2>1 DEF Owners, Sole
  <2>5. Owned'
    <3>1. \A u \in Tasks : kernel'.held[u] >= 0
      BY <2>3 DEF Owners, Owned
    <3>2. ASSUME NEW n \in Mutexes
          PROVE  /\ sem'[n].holder = NoTask <=> sem'[n].count = 1
                 /\ sem'[n].txLock <= 0
                 /\ sem'[n].holder # NoTask => kernel'.held[sem'[n].holder] = 1
      <4>1. CASE n = m
        BY <2>1, <4>1 DEF Owners, Owned
      <4>2. CASE n # m
        BY <1>2, <2>1, <2>3, <2>4, <4>2 DEF Owners, Owned
      <4> QED
        BY <4>1, <4>2
    <3> QED
      BY <3>1, <3>2 DEF Owned
  <2>6. Sole'
    BY <2>1 DEF Owners, Sole
  <2> QED
    BY <2>5, <2>6
<1> QED
  BY <1>3, <1>4, <1>5, <1>6, Disturbances

(* The tasks that do not execute go on waiting for the mutex they waited   *)
(* for: nobody gives one while the scheduler is suspended.                 *)
LEMMA WaitsOnKept ==
  ASSUME Types, Control, Locks, Queues, Owners, Next, NEW u \in Tasks, job'[u] = job[u]
  PROVE  WaitsOn(u)'
<1> SUFFICES ASSUME InTake(u), job[u].call.sem \in Mutexes, job[u].pc = "block"
             PROVE  sem'[job[u].call.sem].count = 0
  BY DEF Owners, WaitsOn, InTake
<1>0. PICK m : m = job[u].call.sem
  OBVIOUS
<1>1. sem[m].count = 0 /\ kernel.stopped
  BY <1>0 DEF Owners, WaitsOn, Control, StopPcs
<1>2. m \in Mutexes /\ m \in Semaphores
  BY <1>0, KernelAssumption
<1>3. ASSUME Undisturbed PROVE sem'[m].count = 0
  BY <1>1, <1>2, <1>3 DEF Undisturbed
<1>4. ASSUME NEW t \in Tasks, NEW n \in Mutexes, Acquired(t, n) \/ SleepsOn(t, n) \/ Returned(t, n)
      PROVE  sem'[m].count = 0
  <2>1. SleepsOn(t, n)
    BY <1>1, <1>4 DEF Acquired, Returned
  <2>2. sem' = sem
    BY <2>1, Blocked DEF SleepsOn
  <2> QED
    BY <1>1, <2>2
<1>5. sem'[m].count = 0
  BY <1>3, <1>4, Disturbances
<1> QED
  BY <1>0, <1>5

(* A call that goes on keeps its time and its path.                        *)
LEMMA WaitsOnward ==
  ASSUME Owners, NEW t \in Tasks, InTake(t), SameCall(job[t], job'[t]),
         job'[t].pc \notin {"disinherit", "fatal", "late", "block"}
  PROVE  WaitsOn(t)'
<1>1. WaitsOn(t)
  BY DEF Owners
<1> QED
  BY <1>1 DEF WaitsOn, InTake, SameCall

(* Every action keeps WaitsOn: who waits for a mutex waits without a time  *)
(* limit, so that xTaskCheckForTimeOut never finds its time over.          *)
LEMMA WaitsOnStep ==
  ASSUME UnlimitedMutexes, Types, Types', Control, Locks, Queues, Owners, Next
  PROVE  \A u \in Tasks : WaitsOn(u)'
<1>1. ASSUME NEW t \in Tasks, \A u \in Tasks \ {t} : job'[u] = job[u], WaitsOn(t)'
      PROVE  \A u \in Tasks : WaitsOn(u)'
  BY <1>1, WaitsOnKept
<1>2. ASSUME UNCHANGED job PROVE \A u \in Tasks : WaitsOn(u)'
  BY <1>2, WaitsOnKept
<1>3. ASSUME NEW t \in Tasks, ~InTake(t)' PROVE WaitsOn(t)'
  BY <1>3 DEF WaitsOn
<1>4. \A t \in Tasks : WaitsOn(t)
  BY DEF Owners
<1>5. ASSUME NEW t \in Tasks, TakesCalmly(t) PROVE \A u \in Tasks : WaitsOn(u)'
  <2>1. PICK j \in Job :
          /\ j.call.op = "take" /\ Tried(t, j) /\ job[t].pc \in {"run", "take"}
          /\ job[t].pc = "take" => j = job[t]
          /\ job[t].pc = "run" => j.call \in Calls[t] /\ j = Started(j.call, "take")
    BY <1>5, TakenCalmly
  <2>2. \A u \in Tasks \ {t} : job'[u] = job[u]
    BY <1>5, TakenCalmly DEF Calm
  <2>3. CASE job'[t] = NoJob
    BY <1>1, <1>3, <2>2, <2>3 DEF InTake, NoJob, CallPcs, TakePcs
  <2>4. CASE job'[t].pc = "stop" /\ SameCall(j, job'[t])
    <3>1. CASE job[t].pc = "take"
      <4>1. InTake(t)
        BY <3>1 DEF Control, InTake, CallPcs, TakePcs
      <4>2. WaitsOn(t)'
        BY <2>1, <2>4, <3>1, <4>1, WaitsOnward
      <4> QED
        BY <1>1, <2>2, <4>2
    <3>2. CASE job[t].pc = "run"
      <4>1. j = Started(j.call, "take")
        BY <2>1, <3>2
      <4>2. /\ Started(j.call, "take").ticks = j.call.ticks
            /\ Started(j.call, "take").path = "" /\ Started(j.call, "take").inherited = FALSE
        BY DEF Started
      <4>3. j.ticks = j.call.ticks /\ j.path = "" /\ j.inherited = FALSE
        BY <4>1, <4>2
      <4>4. j.call.sem \in Mutexes => j.call.ticks = portMAX_DELAY
        BY <2>1, <3>2 DEF UnlimitedMutexes
      <4>5. WaitsOn(t)'
        BY <2>4, <4>3, <4>4 DEF WaitsOn, SameCall
      <4> QED
        BY <1>1, <2>2, <4>5
    <3> QED
      BY <2>1, <3>1, <3>2
  <2> QED
    BY <2>1, <2>3, <2>4 DEF Tried
<1>6. ASSUME NEW t \in Tasks, AssertionFails(t) PROVE \A u \in Tasks : WaitsOn(u)'
  <2>1. job[t].pc = "take" /\ job[t].ticks = 0 /\ job[t].inherited
    BY <1>6 DEF AssertionFails, At
  <2>2. InTake(t)
    BY <2>1 DEF Control, InTake, CallPcs, TakePcs
  <2>3. job[t].ticks = portMAX_DELAY
    BY <1>4, <2>1, <2>2 DEF WaitsOn
  <2> QED
    BY <2>1, <2>3, TickNumbers
<1>7. ASSUME NEW t \in Tasks, prvLockQueue(t) PROVE \A u \in Tasks : WaitsOn(u)'
  <2>1. /\ job[t] \in Job /\ job[t].pc = "lock" /\ job[t].call.op = "take"
        /\ job'[t].call = job[t].call /\ job'[t].inherited = job[t].inherited
        /\ \A u \in Tasks \ {t} : job'[u] = job[u]
        /\ job'[t].ticks = xTaskCheckForTimeOut(job[t]).ticks
        /\ \/ TimedOut(job[t]) /\ job'[t].pc = "unlock" /\ job'[t].path = "late"
           \/ ~TimedOut(job[t]) /\ job'[t].pc = "look" /\ job'[t].path = job[t].path
    BY <1>7, Locked
  <2>2. InTake(t)
    BY <2>1 DEF InTake, CallPcs, TakePcs
  <2>3. ASSUME job[t].call.sem \in Mutexes
        PROVE  job'[t].ticks = portMAX_DELAY /\ job'[t].path # "late" /\ job'[t].pc = "look"
    <3>1. job[t].ticks = portMAX_DELAY /\ job[t].path # "late"
      BY <1>4, <2>2, <2>3 DEF WaitsOn
    <3>2. ~TimedOut(job[t]) /\ xTaskCheckForTimeOut(job[t]) = job[t]
      BY <3>1 DEF TimedOut, xTaskCheckForTimeOut
    <3> QED
      BY <2>1, <3>1, <3>2
  <2>4. WaitsOn(t)'
    BY <1>4, <2>1, <2>2, <2>3 DEF WaitsOn
  <2> QED
    BY <1>1, <2>1, <2>4
<1>8. ASSUME NEW t \in Tasks, Look(t) PROVE \A u \in Tasks : WaitsOn(u)'
  <2>1. /\ job[t] \in Job /\ job[t].pc = "look" /\ job[t].call.op = "take"
        /\ job'[t].call = job[t].call /\ job'[t].inherited = job[t].inherited
        /\ job'[t].ticks = job[t].ticks
        /\ \A u \in Tasks \ {t} : job'[u] = job[u]
        /\ \/ sem[job[t].call.sem].count = 0 /\ job'[t].pc = "block" /\ job'[t].path = "blocked"
           \/ job'[t].pc = "unlock" /\ job'[t].path = "again"
    BY <1>8, Looked
  <2>2. InTake(t) /\ sem' = sem
    BY <1>8, <2>1 DEF InTake, CallPcs, TakePcs, Look
  <2>3. WaitsOn(t)'
    BY <1>4, <2>1, <2>2 DEF WaitsOn
  <2> QED
    BY <1>1, <2>1, <2>3
<1>9. ASSUME NEW t \in Tasks, Late(t) PROVE \A u \in Tasks : WaitsOn(u)'
  <2>1. /\ job[t].pc = "late" /\ job[t] \in Job /\ job[t].call.op = "take"
        /\ \A u \in Tasks \ {t} : job'[u] = job[u]
        /\ \/ job'[t].pc = "take" /\ SameCall(job[t], job'[t])
           \/ /\ job[t].inherited
              /\ job'[t].pc = "disinherit" /\ SameCall(job[t], job'[t])
           \/ job'[t] = NoJob
    BY <1>9, Lateness
  <2>2. InTake(t)
    BY <2>1 DEF InTake, CallPcs, TakePcs
  <2>3. ~job[t].inherited
    BY <1>4, <2>1, <2>2 DEF WaitsOn
  <2>4. WaitsOn(t)'
    <3>1. CASE job'[t].pc = "take" /\ SameCall(job[t], job'[t])
      BY <2>2, <3>1, WaitsOnward
    <3>2. CASE job'[t] = NoJob
      BY <1>3, <3>2 DEF InTake, NoJob, CallPcs, TakePcs
    <3> QED
      BY <2>1, <2>3, <3>1, <3>2
  <2> QED
    BY <1>1, <2>1, <2>4
<1>10. ASSUME NEW t \in Tasks, Disinherit(t) PROVE \A u \in Tasks : WaitsOn(u)'
  <2>1. job[t].pc = "disinherit"
    BY <1>10 DEF Disinherit, At
  <2>2. InTake(t)
    BY <2>1 DEF Control, InTake, CallPcs, TakePcs
  <2> QED
    BY <1>4, <2>1, <2>2 DEF WaitsOn
<1>11. ASSUME NEW t \in Tasks, vTaskDelay(t) PROVE \A u \in Tasks : WaitsOn(u)'
  <2>1. PICK c \in Calls[t] : c.op = "delay" /\ job'[t] = Started(c, "stop")
    BY <1>11, Dozed
  <2>2. Started(c, "stop").call = c
    BY DEF Started
  <2>3. ~InTake(t)'
    BY <2>1, <2>2 DEF InTake
  <2> QED
    BY <1>1, <1>3, <1>11, <2>3, Dozed
<1>12. ASSUME NEW t \in Tasks, Awake(t) PROVE \A u \in Tasks : WaitsOn(u)'
  <2>1. job'[t].pc = "run" /\ \A u \in Tasks \ {t} : job'[u] = job[u]
    BY <1>12, Went DEF Awake
  <2> QED
    BY <1>1, <1>3, <2>1 DEF InTake, CallPcs, TakePcs
<1>13. ASSUME NEW t \in Tasks, \A u \in Tasks \ {t} : job'[u] = job[u], SameCall(job[t], job'[t]),
              job[t].pc \in CallPcs, job'[t].pc \notin {"disinherit", "fatal", "late", "block"}
       PROVE  \A u \in Tasks : WaitsOn(u)'
  <2>1. CASE InTake(t)
    BY <1>1, <1>13, <2>1, WaitsOnward
  <2>2. CASE ~InTake(t)
    BY <1>1, <1>3, <1>13, <2>2 DEF InTake, SameCall
  <2> QED
    BY <2>1, <2>2
<1>14. ASSUME NEW t \in Tasks, vTaskSuspendAll(t) \/ AdjustNext(t)
       PROVE  \A u \in Tasks : WaitsOn(u)'
  <2>1. CASE vTaskSuspendAll(t)
    BY <1>13, <2>1, Suspended DEF CallPcs, TakePcs
  <2>2. CASE AdjustNext(t)
    BY <1>13, <2>2, Adjusted DEF CallPcs, TakePcs
  <2> QED
    BY <1>14, <2>1, <2>2
<1>15. ASSUME NEW t \in Tasks, vTaskPlaceOnEventList(t) PROVE \A u \in Tasks : WaitsOn(u)'
  <2>1. /\ job[t] \in Job /\ job[t].pc = "block" /\ job[t].call.op = "take"
        /\ \A u \in Tasks \ {t} : job'[u] = job[u]
        /\ job'[t].pc = "next" /\ job'[t].call = job[t].call /\ job'[t].ticks = job[t].ticks
        /\ job'[t].path = job[t].path
        /\ job'[t].inherited => job[t].call.sem \in Mutexes
    BY <1>15, Blocked
  <2>2. InTake(t)
    BY <2>1 DEF InTake, CallPcs, TakePcs
  <2>3. WaitsOn(t)'
    BY <1>4, <2>1, <2>2 DEF WaitsOn
  <2> QED
    BY <1>1, <2>1, <2>3
<1>16. ASSUME NEW t \in Tasks, Place(t) PROVE \A u \in Tasks : WaitsOn(u)'
  BY <1>13, <1>16, Placed DEF CallPcs, TakePcs
<1>17. ASSUME NEW t \in Tasks, prvUnlockQueue(t) PROVE \A u \in Tasks : WaitsOn(u)'
  <2>1. /\ job[t].pc = "unlock" /\ \A u \in Tasks \ {t} : job'[u] = job[u]
        /\ job'[t].pc = "resume" /\ SameCall(job[t], job'[t])
    BY <1>17, Opened
  <2> QED
    BY <1>13, <2>1 DEF CallPcs, TakePcs
<1>18. ASSUME NEW t \in Tasks, Resume(t) PROVE \A u \in Tasks : WaitsOn(u)'
  <2>1. /\ job[t] \in Job /\ job[t].pc = "resume" /\ \A u \in Tasks \ {t} : job'[u] = job[u]
        /\ SameCall(job[t], job'[t]) /\ job[t].call.op \in {"take", "delay"}
        /\ job[t].call.op = "take" =>
              job'[t].pc = IF job[t].path \in {"late", "asleep"} THEN job[t].path ELSE "take"
    BY <1>18, Restarted
  <2>2. job[t].path # "asleep"
    BY <2>1 DEF Job
  <2>3. job[t].call.op = "take" => job'[t].pc \in {"late", "take"} /\ (job'[t].pc = "late" => job[t].path = "late")
    BY <2>1, <2>2
  <2>4. CASE job[t].call.op = "take"
    <3>1. InTake(t) /\ InTake(t)'
      BY <2>1, <2>3, <2>4 DEF InTake, CallPcs, TakePcs, SameCall
    <3>2. WaitsOn(t)'
      BY <1>4, <2>1, <2>3, <2>4, <3>1 DEF WaitsOn, SameCall
    <3> QED
      BY <1>1, <2>1, <3>2
  <2>5. CASE job[t].call.op = "delay"
    <3>1. ~InTake(t)'
      BY <2>1, <2>5 DEF InTake, SameCall
    <3> QED
      BY <1>1, <1>3, <2>1, <3>1
  <2> QED
    BY <2>1, <2>4, <2>5
<1>19. ASSUME IdleSuspend \/ IdleResume PROVE \A u \in Tasks : WaitsOn(u)'
  <2>1. Idle \in Tasks
    BY KernelAssumption
  <2>2. job'[Idle].pc \in {"idle", "run"} /\ \A u \in Tasks \ {Idle} : job'[u] = job[u]
    BY <1>19, IdleSuspended, IdleRestarted
  <2> QED
    BY <1>1, <1>3, <2>1, <2>2 DEF InTake, CallPcs, TakePcs
<1>20. ASSUME \/ \E t \in Tasks : Give(t) \/ xTaskCreate(t) \/ vTaskDelete(t)
              \/ \E s \in Semaphores : xQueueGiveFromISR(s)
              \/ Reap \/ Tick \/ vTaskSwitchContext
       PROVE  \A u \in Tasks : WaitsOn(u)'
  <2>1. UNCHANGED job
    BY <1>20 DEF Give, xTaskCreate, vTaskDelete, xQueueGiveFromISR, Reap, Tick, vTaskSwitchContext
  <2> QED
    BY <1>2, <2>1
<1> QED
  BY <1>5, <1>6, <1>7, <1>8, <1>9, <1>10, <1>11, <1>12, <1>14, <1>15, <1>16, <1>17, <1>18, <1>19,
     <1>20 DEF Next, TakesCalmly

(* A task that sleeps without a time limit does so until it is woken.      *)
LEMMA DeepSleep ==
  ASSUME Types, Control, Locks, Queues, Next, NEW u \in Tasks, kernel.list[u] = "suspended",
         kernel'.list[u] \in Asleep
  PROVE  kernel'.list[u] = "suspended"
<1>1. ASSUME kernel'.list = kernel.list PROVE kernel'.list[u] = "suspended"
  BY <1>1
<1>2. ASSUME NEW W, Resumed(kernel, kernel', W) PROVE kernel'.list[u] = "suspended"
  BY <1>2 DEF Resumed, Timed, Asleep
<1>3. ASSUME NEW t \in Tasks, Running(t), kernel.stopped, ~Slept(t), NEW n, NEW b,
             Put(kernel, kernel', n, b)
      PROVE  kernel'.list[u] = "suspended"
  <2>1. kernel.list[t] = "ready" /\ kernel.current = t
    BY <1>3, Runs DEF Running
  <2> QED
    BY <1>3, <2>1 DEF Put
<1>4. ASSUME NEW x \in Tasks, kernel'.list[x] \notin Asleep,
             \A y \in Tasks \ {x} : kernel'.list[y] = kernel.list[y]
      PROVE  kernel'.list[u] = "suspended"
  BY <1>4
<1>5. ASSUME NEW s \in Semaphores, NEW K, Unmoved(kernel, K), K.waiting[s] # <<>>,
             Removed(K, s, kernel')
      PROVE  kernel'.list[u] = "suspended"
  <2>1. K.list = kernel.list /\ K.stopped = kernel.stopped
    BY <1>5 DEF Unmoved
  <2>2. PICK x : x = Head(K.waiting[s])
    OBVIOUS
  <2>3. /\ u # x => kernel'.list[u] = kernel.list[u]
        /\ kernel.stopped => kernel'.list = kernel.list
        /\ ~kernel.stopped => kernel'.list[x] = "ready"
    BY <1>5, <2>1, <2>2 DEF Removed
  <2> QED
    BY <2>3 DEF Asleep
<1>6. ASSUME NEW t \in Tasks, TakesCalmly(t) \/ StaysCalm(t) PROVE kernel'.list[u] = "suspended"
  <2>1. kernel'.list = kernel.list
    BY <1>6, TakenCalmly, StayedCalm DEF Calm, Unmoved
  <2> QED
    BY <1>1, <2>1
<1>7. ASSUME NEW t \in Tasks, vTaskSuspendAll(t) \/ AdjustNext(t)
      PROVE  kernel'.list[u] = "suspended"
  <2>1. kernel'.list = kernel.list
    BY <1>7, Suspended, Adjusted DEF Still
  <2> QED
    BY <1>1, <2>1
<1>8. ASSUME NEW t \in Tasks, vTaskPlaceOnEventList(t) PROVE kernel'.list[u] = "suspended"
  <2>1. /\ Running(t) /\ kernel.stopped /\ job[t].pc = "block"
        /\ Put(kernel, kernel', job[t].ticks, TRUE)
    BY <1>8, Blocked
  <2> QED
    BY <1>3, <2>1 DEF Slept
<1>9. ASSUME NEW t \in Tasks, Place(t) PROVE kernel'.list[u] = "suspended"
  <2>1. /\ Running(t) /\ kernel.stopped /\ job[t].pc = "place"
        /\ Put(kernel, kernel', job[t].ticks, FALSE)
    BY <1>9, Placed
  <2> QED
    BY <1>3, <2>1 DEF Slept
<1>10. ASSUME NEW t \in Tasks, prvUnlockQueue(t) PROVE kernel'.list[u] = "suspended"
  <2>1. PICK s \in Semaphores : s = job[t].call.sem
    BY <1>10, Opened
  <2>2. PICK n \in 0..Len(kernel.waiting[s]) : Unlocked(kernel, s, n, kernel')
    BY <1>10, <2>1, Opened
  <2>3. kernel'.list = kernel.list
    BY <2>2 DEF Unlocked
  <2> QED
    BY <1>1, <2>3
<1>11. ASSUME (\E t \in Tasks : Resume(t)) \/ IdleResume PROVE kernel'.list[u] = "suspended"
  <2>1. \E W : Resumed(kernel, kernel', W)
    BY <1>11, Restarted, IdleRestarted
  <2> QED
    BY <1>2, <2>1
<1>12. ASSUME NEW t \in Tasks, Give(t) PROVE kernel'.list[u] = "suspended"
  <2>1. PICK s \in Semaphores : GivenTo(t, s)
    BY <1>12, Given
  <2>2. PICK K : K = Quit(t, s)
    OBVIOUS
  <2>3. Unmoved(kernel, K) /\ (kernel' = K \/ (kernel.waiting[s] # <<>> /\ Removed(K, s, kernel')))
    BY <2>1, <2>2 DEF GivenTo
  <2>4. K.list = kernel.list /\ K.waiting = kernel.waiting
    BY <2>3 DEF Unmoved
  <2>5. CASE kernel' = K
    BY <1>1, <2>4, <2>5
  <2>6. CASE kernel.waiting[s] # <<>> /\ Removed(K, s, kernel')
    BY <1>5, <2>3, <2>4, <2>6
  <2> QED
    BY <2>3, <2>5, <2>6
<1>13. ASSUME NEW s \in Semaphores, xQueueGiveFromISR(s) PROVE kernel'.list[u] = "suspended"
  <2>1. kernel' = kernel \/ (kernel.waiting[s] # <<>> /\ Removed(kernel, s, kernel'))
    BY <1>13, GivenFromISR
  <2>2. Unmoved(kernel, kernel)
    BY DEF Unmoved
  <2> QED
    BY <1>1, <1>5, <2>1, <2>2
<1>14. ASSUME NEW t \in Tasks, xTaskCreate(t) \/ vTaskDelete(t) PROVE kernel'.list[u] = "suspended"
  <2>1. \E x \in Tasks : /\ kernel'.list[x] \in {"ready", "terminated"}
                         /\ \A y \in Tasks \ {x} : kernel'.list[y] = kernel.list[y]
    BY <1>14, Created, Deleted
  <2> QED
    BY <1>4, <2>1 DEF Asleep
<1>15. ASSUME Reap PROVE kernel'.list[u] = "suspended"
  <2>1. \E x \in Tasks : /\ kernel'.list[x] = "none"
                         /\ \A y \in Tasks \ {x} : kernel'.list[y] = kernel.list[y]
    BY <1>15, Reaped
  <2> QED
    BY <1>4, <2>1 DEF Asleep
<1>16. ASSUME IdleSuspend \/ vTaskSwitchContext PROVE kernel'.list[u] = "suspended"
  <2>1. kernel'.list = kernel.list
    BY <1>16, IdleSuspended, Switched DEF Still
  <2> QED
    BY <1>1, <2>1
<1>17. ASSUME Tick PROVE kernel'.list[u] = "suspended"
  <2>1. CASE kernel' = [kernel EXCEPT !.pended = @ + 1]
    <3>1. kernel'.list = kernel.list
      BY <2>1 DEF Types, Kernel
    <3> QED
      BY <1>1, <3>1
  <2>2. ASSUME NEW A, TickedTo(A) PROVE kernel'.list[u] = "suspended"
    <3>1. Woke(kernel, A) /\ kernel'.list = A.list
      BY <2>2 DEF TickedTo, Passed
    <3> QED
      BY <3>1 DEF Woke, WokenIn, Timed
  <2> QED
    BY <1>17, <2>1, <2>2, Ticked
<1> QED
  BY <1>6, <1>7, <1>8, <1>9, <1>10, <1>11, <1>12, <1>13, <1>14, <1>15, <1>16, <1>17
     DEF Next, TakesCalmly, StaysCalm

(* Who comes to wait for a mutex.                                          *)
LEMMA Queuing ==
  ASSUME Types, Control, Locks, Queues, Owners, Next, NEW m \in Mutexes
  PROVE  \/ Elements(kernel'.waiting[m]) \subseteq Elements(kernel.waiting[m])
         \/ \E t \in Tasks :
              /\ SleepsOn(t, m)
              /\ Elements(kernel'.waiting[m]) = Elements(kernel.waiting[m]) \union {t}
<1>1. Mutexes \subseteq Semaphores /\ m \in Semaphores
  BY KernelAssumption
<1>2. kernel.waiting[m] \in Seq(Tasks)
  BY <1>1 DEF Types, Kernel
<1>3. CASE Undisturbed
  BY <1>3 DEF Undisturbed
<1>4. ASSUME NEW t \in Tasks, NEW n \in Mutexes, Acquired(t, n)
      PROVE  kernel'.waiting[m] = kernel.waiting[m]
  BY <1>4 DEF Acquired, Types, Kernel
<1>5. ASSUME NEW t \in Tasks, NEW n \in Mutexes, SleepsOn(t, n)
      PROVE  \/ kernel'.waiting[m] = kernel.waiting[m]
             \/ /\ n = m
                /\ Elements(kernel'.waiting[m]) = Elements(kernel.waiting[m]) \union {t}
  <2>1. /\ Heir(n) \in Kernel
        /\ \A z \in Semaphores \ {n} : kernel'.waiting[z] = kernel.waiting[z]
        /\ kernel'.waiting[n] = vListInsert(Heir(n), kernel.waiting[n], t)
    BY <1>5, Blocked DEF SleepsOn
  <2>2. CASE n # m
    BY <1>1, <2>1, <2>2
  <2>3. CASE n = m
    <3>1. PICK K \in Kernel, q \in Seq(Tasks) : K = Heir(n) /\ q = kernel.waiting[m]
      BY <1>2, <2>1
    <3> DEFINE r == vListInsert(K, q, t)
    <3>2. Elements(r) = Elements(q) \union {t}
      BY Inserted
    <3> HIDE DEF r
    <3>3. kernel'.waiting[m] = r
      BY <2>1, <2>3, <3>1 DEF r
    <3> QED
      BY <2>3, <3>1, <3>2, <3>3
  <2> QED
    BY <2>2, <2>3
<1>6. ASSUME NEW t \in Tasks, NEW n \in Mutexes, Returned(t, n)
      PROVE  Elements(kernel'.waiting[m]) \subseteq Elements(kernel.waiting[m])
  <2>1. /\ \A z \in Semaphores \ {n} : kernel'.waiting[z] = kernel.waiting[z]
        /\ kernel'.waiting[n] = IF kernel.waiting[n] = <<>> THEN <<>> ELSE Tail(kernel.waiting[n])
    BY <1>6, GivenBack
  <2>2. CASE n # m
    BY <1>1, <2>1, <2>2
  <2>3. CASE n = m /\ kernel.waiting[m] = <<>>
    BY <2>1, <2>3
  <2>4. CASE n = m /\ kernel.waiting[m] # <<>>
    <3>1. Elements(kernel.waiting[m]) = Elements(Tail(kernel.waiting[m])) \union {Head(kernel.waiting[m])}
      BY <1>2, <2>4, Beheaded
    <3> QED
      BY <2>1, <2>4, <3>1
  <2> QED
    BY <2>2, <2>3, <2>4
<1> QED
  BY <1>3, <1>4, <1>5, <1>6, Disturbances

(* Who waits for a mutex sleeps without a time limit.                      *)
LEMMA BeddedStep ==
  ASSUME Types, Control, Locks, Queues, Owners, Next, Queues'
  PROVE  Bedded'
<1> SUFFICES ASSUME NEW m \in Mutexes, NEW u \in Elements(kernel'.waiting[m])
             PROVE  kernel'.list[u] = "suspended"
  BY DEF Bedded
<1>1. m \in Semaphores
  BY KernelAssumption
<1>2. u \in Tasks /\ kernel'.list[u] \in Asleep
  BY <1>1 DEF Queues, Waiting
<1>3. CASE u \in Elements(kernel.waiting[m])
  <2>1. kernel.list[u] = "suspended"
    BY <1>3 DEF Owners, Bedded
  <2> QED
    BY <1>2, <2>1, DeepSleep
<1>4. CASE SleepsOn(u, m)
  <2>1. /\ job[u].pc = "block" /\ job[u].call.op = "take" /\ m = job[u].call.sem
        /\ Put(kernel, kernel', job[u].ticks, TRUE) /\ Running(u)
    BY <1>2, <1>4, Blocked DEF SleepsOn
  <2>2. job[u].ticks = portMAX_DELAY
    BY <1>2, <2>1 DEF Owners, WaitsOn, InTake, CallPcs, TakePcs
  <2> QED
    BY <2>1, <2>2 DEF Put, Running
<1> QED
  BY <1>3, <1>4, Queuing

(* Every action keeps Owners.                                              *)
LEMMA OwnersStep ==
  ASSUME UnlimitedMutexes, Types, Types', Control, Locks, Queues, Queues', Owners, OneAtATime',
         Next
  PROVE  Owners'
BY OwnedStep, WaitsOnStep, BeddedStep DEF Owners

-----------------------------------------------------------------------------
(* Priority inheritance                                                    *)

(* No task runs below the priority it was created with, and one that runs  *)
(* above it holds a mutex for which a task of that priority waits.         *)
Above == \A t \in Tasks : kernel.prio[t] >= BasePriority[t]
Lent ==
  \A t \in Tasks : kernel.prio[t] # BasePriority[t] =>
    \E m \in Mutexes :
      /\ sem[m].holder = t
      /\ \E u \in Elements(kernel.waiting[m]) : kernel.prio[t] <= BasePriority[u]

(* The first of those that wait for a mutex has the highest priority.      *)
Ordered(q) == \A i, j \in 1..Len(q) : i <= j => BasePriority[q[i]] >= BasePriority[q[j]]
Sorted == \A m \in Mutexes : Ordered(kernel.waiting[m])

(* The holder runs at the priority of each that waits.                     *)
Raised ==
  \A m \in Mutexes : sem[m].holder # NoTask =>
    \A u \in Elements(kernel.waiting[m]) : kernel.prio[sem[m].holder] >= BasePriority[u]

(* While a mutex is available, a task of at least the priority of those    *)
(* that wait is on its way to take it.                                     *)
Awaited(m) ==
  sem[m].count = 1 /\ kernel.waiting[m] # <<>> =>
    \E a \in Tasks :
      /\ OnItsWay(a, m)
      /\ \A u \in Elements(kernel.waiting[m]) : BasePriority[a] >= BasePriority[u]

(* No ready task has a higher priority than the one that runs, unless a    *)
(* switch is requested.                                                    *)
Top ==
  kernel.stopped \/ ~switch =>
    \A t \in Tasks : kernel.list[t] = "ready" => kernel.prio[t] <= kernel.prio[kernel.current]

Ranks == Above /\ Lent /\ Sorted /\ Raised /\ (\A m \in Mutexes : Awaited(m)) /\ Top

(* Priorities are numbers.                                                 *)
LEMMA Priorities ==
  ASSUME Types
  PROVE  /\ kernel.prio \in [Tasks -> Nat] /\ BasePriority \in [Tasks -> Nat]
         /\ \A t \in Tasks : kernel.prio[t] \in Nat /\ BasePriority[t] \in Nat
<1>1. kernel.prio \in [Tasks -> Nat] /\ BasePriority \in [Tasks -> Nat]
  BY KernelAssumption DEF Types, Kernel
<1> QED
  BY <1>1

(* A task without a mutex has the priority it was created with, those that *)
(* wait for one among them.                                                *)
LEMMA Unraised ==
  ASSUME Types, Queues, Owners, Lent, OneAtATime
  PROVE  /\ \A t \in Tasks : kernel.held[t] = 0 => kernel.prio[t] = BasePriority[t]
         /\ \A m \in Mutexes : \A u \in Elements(kernel.waiting[m]) :
              u \in Tasks /\ kernel.held[u] = 0 /\ kernel.prio[u] = BasePriority[u]
<1>1. \A t \in Tasks : kernel.held[t] = 0 => kernel.prio[t] = BasePriority[t]
  <2> SUFFICES ASSUME NEW t \in Tasks, kernel.prio[t] # BasePriority[t] PROVE kernel.held[t] # 0
    OBVIOUS
  <2>1. PICK m \in Mutexes : sem[m].holder = t
    BY DEF Lent
  <2>2. t # NoTask
    BY KernelAssumption
  <2> QED
    BY <2>1, <2>2 DEF Owners, Owned
<1>2. ASSUME NEW m \in Mutexes, NEW u \in Elements(kernel.waiting[m])
      PROVE  u \in Tasks /\ kernel.held[u] = 0
  <2>1. m \in Semaphores
    BY KernelAssumption
  <2>2. u \in Tasks /\ InTake(u) /\ job[u].call.sem = m
    BY <2>1 DEF Queues, Waiting
  <2> QED
    BY <2>2 DEF OneAtATime
<1> QED
  BY <1>1, <1>2

(* Who goes to sleep on a mutex lends its holder its priority.             *)
LEMMA Bequest ==
  ASSUME Types, Control, Queues, Owners, Lent, OneAtATime,
         NEW t \in Tasks, NEW m \in Mutexes, SleepsOn(t, m)
  PROVE  /\ sem' = sem /\ kernel.current = t /\ kernel'.current = t
         /\ kernel.prio[t] = BasePriority[t] /\ sem[m].count = 0
         /\ kernel'.list[t] # "ready"
         /\ \A u \in Tasks : u # t => kernel'.list[u] = kernel.list[u]
         /\ \A z \in Semaphores \ {m} : kernel'.waiting[z] = kernel.waiting[z]
         /\ Elements(kernel'.waiting[m]) = Elements(kernel.waiting[m]) \union {t}
         /\ \E h \in Tasks :
              /\ sem[m].holder = h /\ h # t /\ kernel.held[h] = 1
              /\ \A u \in Tasks : u # h => kernel'.prio[u] = kernel.prio[u]
              /\ \/ kernel'.prio[h] = kernel.prio[h] /\ kernel.prio[h] >= kernel.prio[t]
                 \/ kernel'.prio[h] = kernel.prio[t] /\ kernel.prio[h] < kernel.prio[t]
         /\ \E K \in Kernel :
              kernel'.prio = K.prio /\ kernel'.waiting[m] = vListInsert(K, kernel.waiting[m], t)
<1>1. /\ Running(t) /\ job[t].pc = "block" /\ job[t].call.op = "take" /\ m = job[t].call.sem
      /\ Heir(m) \in Kernel /\ kernel'.prio = Heir(m).prio /\ sem' = sem
      /\ Put(kernel, kernel', job[t].ticks, TRUE)
      /\ \A z \in Semaphores \ {m} : kernel'.waiting[z] = kernel.waiting[z]
      /\ kernel'.waiting[m] = vListInsert(Heir(m), kernel.waiting[m], t)
  BY Blocked DEF SleepsOn
<1>2. InTake(t)
  BY <1>1 DEF InTake, CallPcs, TakePcs
<1>3. kernel.held[t] = 0 /\ sem[m].count = 0
  BY <1>1, <1>2 DEF OneAtATime, Owners, WaitsOn
<1>4. kernel.prio[t] = BasePriority[t]
  BY <1>3, Unraised
<1>5. m \in Semaphores /\ sem[m].holder \in Tasks \union {NoTask}
  BY KernelAssumption DEF Types, Semaphore
<1>6. PICK h \in Tasks : h = sem[m].holder
  BY <1>3, <1>5 DEF Owners, Owned
<1>7. h # NoTask
  BY <1>6, KernelAssumption
<1>8. kernel.held[h] = 1 /\ h # t
  BY <1>3, <1>6, <1>7 DEF Owners, Owned
<1>9. kernel.current = t /\ kernel'.current = t /\ kernel'.list[t] # "ready"
      /\ \A u \in Tasks : u # t => kernel'.list[u] = kernel.list[u]
  BY <1>1 DEF Running, Put, Asleep
<1>10. /\ \A u \in Tasks : u # h => kernel'.prio[u] = kernel.prio[u]
       /\ \/ kernel'.prio[h] = kernel.prio[h] /\ kernel.prio[h] >= kernel.prio[t]
          \/ kernel'.prio[h] = kernel.prio[t] /\ kernel.prio[h] < kernel.prio[t]
  <2>1. kernel \in Kernel /\ Filed(kernel) /\ h \in Tasks \union {NoTask}
    BY DEF Types
  <2>2. Heir(m) = xTaskPriorityInherit(kernel, h)
    BY <1>6 DEF Heir
  <2>3. /\ \A u \in Tasks : u # h => Heir(m).prio[u] = kernel.prio[u]
        /\ \/ Heir(m).prio[h] = kernel.prio[h] /\ kernel.prio[h] >= kernel.prio[kernel.current]
           \/ Heir(m).prio[h] = kernel.prio[kernel.current] /\ kernel.prio[h] < kernel.prio[kernel.current]
    BY <2>1, <2>2, Inheritance
  <2> QED
    BY <1>1, <1>9, <2>3
<1>11. Elements(kernel'.waiting[m]) = Elements(kernel.waiting[m]) \union {t}
  <2>1. kernel.waiting[m] \in Seq(Tasks)
    BY <1>5 DEF Types, Kernel
  <2>2. PICK K \in Kernel, q \in Seq(Tasks) :
          q = kernel.waiting[m] /\ kernel'.waiting[m] = vListInsert(K, q, t)
    BY <1>1, <2>1
  <2> DEFINE r == vListInsert(K, q, t)
  <2>3. Elements(r) = Elements(q) \union {t}
    BY Inserted
  <2> HIDE DEF r
  <2>4. kernel'.waiting[m] = r
    BY <2>2 DEF r
  <2> QED
    BY <2>2, <2>3, <2>4
<1> QED
  BY <1>1, <1>3, <1>4, <1>6, <1>8, <1>9, <1>10, <1>11

(* A task stays at its priority or above it.                               *)
LEMMA AboveStep ==
  ASSUME Types, Types', Control, Locks, Queues, Owners, OneAtATime, Ranks, Next
  PROVE  Above'
<1>1. \A t \in Tasks : kernel.prio[t] \in Nat /\ BasePriority[t] \in Nat /\ kernel.prio[t] >= BasePriority[t]
  BY Priorities DEF Ranks, Above
<1>2. CASE kernel'.prio = kernel.prio
  BY <1>2 DEF Ranks, Above
<1>3. ASSUME NEW t \in Tasks, NEW m \in Mutexes, SleepsOn(t, m) PROVE Above'
  <2>1. PICK h \in Tasks :
          /\ \A u \in Tasks : u # h => kernel'.prio[u] = kernel.prio[u]
          /\ \/ kernel'.prio[h] = kernel.prio[h]
             \/ kernel'.prio[h] = kernel.prio[t] /\ kernel.prio[h] < kernel.prio[t]
    BY <1>3, Bequest DEF Ranks
  <2>2. kernel'.prio[h] >= BasePriority[h]
    BY <1>1, <2>1
  <2> QED
    BY <1>1, <2>1, <2>2 DEF Above
<1>4. ASSUME NEW t \in Tasks, NEW m \in Mutexes, Returned(t, m) PROVE Above'
  <2>1. \A u \in Tasks : kernel'.prio[u] = BasePriority[u] \/ kernel'.prio[u] = kernel.prio[u]
    BY <1>4, GivenBack
  <2> QED
    BY <1>1, <2>1 DEF Above
<1>5. ASSUME NEW t \in Tasks, NEW m \in Mutexes, Acquired(t, m) PROVE kernel'.prio = kernel.prio
  BY <1>5 DEF Acquired, Types, Kernel
<1> QED
  BY <1>2, <1>3, <1>4, <1>5, Disturbances DEF Undisturbed

(* A raised priority is given back with the mutex, and only a task that    *)
(* waits for it can take it away.                                          *)
LEMMA LentStep ==
  ASSUME Types, Types', Control, Locks, Queues, Owners, OneAtATime, Ranks, Next
  PROVE  Lent'
<1> SUFFICES ASSUME NEW x \in Tasks, kernel'.prio[x] # BasePriority[x]
             PROVE  \E m \in Mutexes :
                      /\ sem'[m].holder = x
                      /\ \E u \in Elements(kernel'.waiting[m]) : kernel'.prio[x] <= BasePriority[u]
  BY DEF Lent
<1>1. Mutexes \subseteq Semaphores /\ NoTask \notin Tasks
  BY KernelAssumption
<1>2. \A t \in Tasks : kernel.prio[t] \in Nat /\ BasePriority[t] \in Nat
  BY Priorities
<1>3. kernel.prio[x] # BasePriority[x] =>
        \E m \in Mutexes :
          /\ sem[m].holder = x
          /\ \E u \in Elements(kernel.waiting[m]) : kernel.prio[x] <= BasePriority[u]
  BY DEF Ranks, Lent
<1>4. CASE Undisturbed
  BY <1>3, <1>4 DEF Undisturbed
<1>5. ASSUME NEW t \in Tasks, NEW m \in Mutexes, Acquired(t, m)
      PROVE  \E n \in Mutexes :
               /\ sem'[n].holder = x
               /\ \E u \in Elements(kernel'.waiting[n]) : kernel'.prio[x] <= BasePriority[u]
  <2>1. /\ sem[m].count = 1 /\ \A n \in Mutexes \ {m} : sem'[n] = sem[n]
        /\ kernel'.prio = kernel.prio /\ kernel'.waiting = kernel.waiting
    BY <1>1, <1>5 DEF Acquired, Types, Kernel
  <2>2. PICK n \in Mutexes :
          /\ sem[n].holder = x
          /\ \E u \in Elements(kernel.waiting[n]) : kernel.prio[x] <= BasePriority[u]
    BY <1>3, <2>1
  <2>3. n # m
    BY <1>1, <2>1, <2>2 DEF Owners, Owned
  <2> QED
    BY <2>1, <2>2, <2>3
<1>6. ASSUME NEW t \in Tasks, NEW m \in Mutexes, SleepsOn(t, m)
      PROVE  \E n \in Mutexes :
               /\ sem'[n].holder = x
               /\ \E u \in Elements(kernel'.waiting[n]) : kernel'.prio[x] <= BasePriority[u]
  <2>1. PICK h \in Tasks :
          /\ sem[m].holder = h
          /\ \A u \in Tasks : u # h => kernel'.prio[u] = kernel.prio[u]
          /\ \/ kernel'.prio[h] = kernel.prio[h]
             \/ kernel'.prio[h] = kernel.prio[t] /\ kernel.prio[h] < kernel.prio[t]
    BY <1>6, Bequest DEF Ranks
  <2>2. /\ sem' = sem /\ kernel.prio[t] = BasePriority[t]
        /\ \A z \in Semaphores \ {m} : kernel'.waiting[z] = kernel.waiting[z]
    BY <1>6, Bequest DEF Ranks
  <2>3. Elements(kernel'.waiting[m]) = Elements(kernel.waiting[m]) \union {t}
    BY <1>6, Bequest DEF Ranks
  <2>4. CASE kernel'.prio[x] = kernel.prio[x]
    <3>1. PICK n \in Mutexes :
            /\ sem[n].holder = x
            /\ \E u \in Elements(kernel.waiting[n]) : kernel.prio[x] <= BasePriority[u]
      BY <1>3, <2>4
    <3>2. Elements(kernel.waiting[n]) \subseteq Elements(kernel'.waiting[n])
      BY <1>1, <2>2, <2>3
    <3> QED
      BY <2>2, <2>4, <3>1, <3>2
  <2>5. CASE kernel'.prio[x] # kernel.prio[x]
    <3>1. x = h /\ kernel'.prio[x] = BasePriority[t]
      BY <2>1, <2>2, <2>5
    <3>2. kernel'.prio[x] <= BasePriority[t] /\ t \in Elements(kernel'.waiting[m])
      BY <1>2, <2>3, <3>1
    <3> QED
      BY <2>1, <2>2, <3>1, <3>2
  <2> QED
    BY <2>4, <2>5
<1>7. ASSUME NEW t \in Tasks, NEW m \in Mutexes, Returned(t, m)
      PROVE  \E n \in Mutexes :
               /\ sem'[n].holder = x
               /\ \E u \in Elements(kernel'.waiting[n]) : kernel'.prio[x] <= BasePriority[u]
  <2>1. /\ \A u \in Tasks : kernel'.prio[u] = IF u = t /\ Disinherits(kernel, t)
                                              THEN BasePriority[t] ELSE kernel.prio[u]
        /\ \A z \in Semaphores \ {m} : sem'[z] = sem[z] /\ kernel'.waiting[z] = kernel.waiting[z]
        /\ sem[m].holder = t
    BY <1>7, GivenBack
  <2>2. kernel.held[t] = 1
    BY <1>1, <2>1 DEF Owners, Owned
  <2>3. x # t /\ kernel'.prio[x] = kernel.prio[x]
    BY <2>1, <2>2 DEF Disinherits
  <2>4. PICK n \in Mutexes :
          /\ sem[n].holder = x
          /\ \E u \in Elements(kernel.waiting[n]) : kernel.prio[x] <= BasePriority[u]
    BY <1>3, <2>3
  <2>5. n # m
    BY <2>1, <2>3, <2>4
  <2> QED
    BY <1>1, <2>1, <2>3, <2>4, <2>5
<1> QED
  BY <1>4, <1>5, <1>6, <1>7, Disturbances

(* An order of priorities stays one when the first leaves.                 *)
LEMMA OrderedTail ==
  ASSUME NEW q \in Seq(Tasks), q # <<>>, Ordered(q)
  PROVE  /\ Ordered(Tail(q))
         /\ \A u \in Elements(q) : BasePriority[Head(q)] >= BasePriority[u]
<1>1. /\ Tail(q) \in Seq(Tasks) /\ Head(q) = q[1] /\ Len(q) >= 1 /\ Len(q) \in Nat
      /\ Len(Tail(q)) = Len(q) - 1 /\ \A i \in 1..Len(Tail(q)) : Tail(q)[i] = q[i + 1]
  BY Beheaded
<1>2. Ordered(Tail(q))
  <2> SUFFICES ASSUME NEW i \in 1..Len(Tail(q)), NEW j \in 1..Len(Tail(q)), i <= j
               PROVE  BasePriority[Tail(q)[i]] >= BasePriority[Tail(q)[j]]
    BY DEF Ordered
  <2>1. i + 1 \in 1..Len(q) /\ j + 1 \in 1..Len(q) /\ i + 1 <= j + 1
    BY <1>1
  <2>2. Tail(q)[i] = q[i + 1] /\ Tail(q)[j] = q[j + 1]
    BY <1>1
  <2> QED
    BY <2>1, <2>2 DEF Ordered
<1>3. \A u \in Elements(q) : BasePriority[Head(q)] >= BasePriority[u]
  <2> SUFFICES ASSUME NEW i \in 1..Len(q) PROVE BasePriority[Head(q)] >= BasePriority[q[i]]
    BY DEF Elements
  <2>1. 1 \in 1..Len(q) /\ 1 <= i
    BY <1>1
  <2> QED
    BY <1>1, <2>1 DEF Ordered
<1> QED
  BY <1>2, <1>3

(* It stays one when vListInsert inserts a task behind those of its own    *)
(* priority.                                                               *)
LEMMA OrderedInsert ==
  ASSUME NEW K \in Kernel, NEW q \in Seq(Tasks), NEW t \in Tasks, Ordered(q),
         \A u \in Elements(q) \union {t} : K.prio[u] = BasePriority[u]
  PROVE  Ordered(vListInsert(K, q, t))
<1> DEFINE r == vListInsert(K, q, t)
<1>1. r \in Seq(Tasks) /\ Len(r) = Len(q) + 1
  BY Inserted
<1>2. PICK n \in 0..Len(q) :
        /\ \A j \in 1..n : r[j] = q[j] /\ K.prio[q[j]] >= K.prio[t]
        /\ r[n + 1] = t
        /\ \A j \in (n + 1)..Len(q) : r[j + 1] = q[j]
        /\ n < Len(q) => K.prio[q[n + 1]] < K.prio[t]
  BY Inserted
<1> HIDE DEF r
<1>3. Len(q) \in Nat /\ n \in Nat /\ n <= Len(q)
  BY <1>2
<1>4. \A j \in 1..Len(q) : /\ q[j] \in Tasks /\ q[j] \in Elements(q)
                           /\ BasePriority[q[j]] \in Nat /\ K.prio[q[j]] = BasePriority[q[j]]
  <2> TAKE j \in 1..Len(q)
  <2>1. q[j] \in Tasks /\ q[j] \in Elements(q)
    BY DEF Elements
  <2> QED
    BY <2>1, KernelAssumption
<1>5. BasePriority[t] \in Nat /\ K.prio[t] = BasePriority[t]
  BY KernelAssumption
<1>6. \A j \in 1..n : BasePriority[q[j]] >= BasePriority[t]
  <2> TAKE j \in 1..n
  <2>1. j \in 1..Len(q)
    BY <1>3
  <2> QED
    BY <1>2, <1>4, <1>5, <2>1
<1>7. \A j \in (n + 1)..Len(q) : BasePriority[q[j]] <= BasePriority[t]
  <2> TAKE j \in (n + 1)..Len(q)
  <2>1. n < Len(q) /\ n + 1 \in 1..Len(q) /\ j \in 1..Len(q) /\ n + 1 <= j
    BY <1>3
  <2>2. BasePriority[q[n + 1]] < BasePriority[t]
    BY <1>2, <1>4, <1>5, <2>1
  <2>3. BasePriority[q[n + 1]] >= BasePriority[q[j]]
    BY <2>1 DEF Ordered
  <2>4. BasePriority[q[n + 1]] \in Nat /\ BasePriority[q[j]] \in Nat
    BY <1>4, <2>1
  <2> QED
    BY <1>5, <2>2, <2>3, <2>4
<1>8. ASSUME NEW i \in 1..Len(r)
      PROVE  \/ i \in 1..n /\ r[i] = q[i]
             \/ i = n + 1 /\ r[i] = t
             \/ i - 1 \in (n + 1)..Len(q) /\ r[i] = q[i - 1]
  <2>1. i \in Nat /\ i >= 1 /\ i <= Len(q) + 1
    BY <1>1, <1>3, <1>8
  <2>2. i > n + 1 => i - 1 \in (n + 1)..Len(q) /\ (i - 1) + 1 = i
    BY <1>3, <2>1
  <2>3. i <= n => i \in 1..n
    BY <1>3, <2>1
  <2>4. i <= n \/ i = n + 1 \/ i > n + 1
    BY <1>3, <2>1
  <2> QED
    BY <1>2, <2>2, <2>3, <2>4
<1>9. ASSUME NEW i \in 1..Len(r), NEW j \in 1..Len(r), i <= j
      PROVE  BasePriority[r[i]] >= BasePriority[r[j]]
  <2>1. CASE i \in 1..n /\ r[i] = q[i]
    <3>1. i \in 1..Len(q) /\ BasePriority[q[i]] \in Nat /\ BasePriority[q[i]] >= BasePriority[t]
      BY <1>3, <1>4, <1>6, <2>1
    <3>2. CASE j \in 1..n /\ r[j] = q[j]
      <4>1. j \in 1..Len(q)
        BY <1>3, <3>2
      <4> QED
        BY <1>9, <2>1, <3>1, <3>2, <4>1 DEF Ordered
    <3>3. CASE j = n + 1 /\ r[j] = t
      BY <2>1, <3>1, <3>3
    <3>4. CASE j - 1 \in (n + 1)..Len(q) /\ r[j] = q[j - 1]
      <4>1. j - 1 \in 1..Len(q)
        BY <1>3, <3>4
      <4>2. BasePriority[q[j - 1]] <= BasePriority[t] /\ BasePriority[q[j - 1]] \in Nat
        BY <1>4, <1>7, <3>4, <4>1
      <4>3. BasePriority[q[i]] >= BasePriority[q[j - 1]]
        BY <1>5, <3>1, <4>2
      <4> QED
        BY <2>1, <3>4, <4>3
    <3> QED
      BY <1>8, <3>2, <3>3, <3>4
  <2>2. CASE i = n + 1 /\ r[i] = t
    <3>1. CASE j = n + 1 /\ r[j] = t
      BY <1>5, <2>2, <3>1
    <3>2. CASE j - 1 \in (n + 1)..Len(q) /\ r[j] = q[j - 1]
      <4>1. j - 1 \in 1..Len(q)
        BY <1>3, <3>2
      <4>2. BasePriority[q[j - 1]] <= BasePriority[t] /\ BasePriority[q[j - 1]] \in Nat
        BY <1>4, <1>7, <3>2, <4>1
      <4>3. BasePriority[t] >= BasePriority[q[j - 1]]
        BY <1>5, <4>2
      <4> QED
        BY <2>2, <3>2, <4>3
    <3>3. ~(j \in 1..n)
      BY <1>3, <1>9, <2>2
    <3> QED
      BY <1>8, <3>1, <3>2, <3>3
  <2>3. CASE i - 1 \in (n + 1)..Len(q) /\ r[i] = q[i - 1]
    <3>1. i \in Nat /\ j \in Nat /\ j >= i /\ i >= n + 2
      BY <1>1, <1>3, <1>9, <2>3
    <3>2. ~(j \in 1..n) /\ j # n + 1
      BY <1>3, <3>1
    <3>3. j - 1 \in (n + 1)..Len(q) /\ r[j] = q[j - 1]
      BY <1>8, <3>2
    <3>4. i - 1 \in 1..Len(q) /\ j - 1 \in 1..Len(q) /\ i - 1 <= j - 1
      BY <1>3, <2>3, <3>1, <3>3
    <3>5. BasePriority[q[i - 1]] >= BasePriority[q[j - 1]]
      BY <3>4 DEF Ordered
    <3> QED
      BY <2>3, <3>3, <3>5
  <2> QED
    BY <1>8, <2>1, <2>2, <2>3
<1>10. Ordered(r)
  BY <1>9 DEF Ordered
<1> QED
  BY <1>10 DEF r

(* Every action keeps the waiting lists of mutexes in their order.         *)
LEMMA SortedStep ==
  ASSUME Types, Types', Control, Locks, Queues, Owners, OneAtATime, Ranks, Next
  PROVE  Sorted'
<1> SUFFICES ASSUME NEW m \in Mutexes PROVE Ordered(kernel'.waiting[m])
  BY DEF Sorted, Ordered
<1>1. Mutexes \subseteq Semaphores /\ m \in Semaphores
  BY KernelAssumption
<1>2. kernel.waiting[m] \in Seq(Tasks) /\ Ordered(kernel.waiting[m])
  BY <1>1 DEF Types, Kernel, Ranks, Sorted
<1>3. CASE Undisturbed
  BY <1>2, <1>3 DEF Undisturbed
<1>4. ASSUME NEW t \in Tasks, NEW n \in Mutexes, Acquired(t, n)
      PROVE  kernel'.waiting[m] = kernel.waiting[m]
  BY <1>4 DEF Acquired, Types, Kernel
<1>5. ASSUME NEW t \in Tasks, NEW n \in Mutexes, SleepsOn(t, n)
      PROVE  Ordered(kernel'.waiting[m])
  <2>1. CASE n # m
    <3>1. kernel'.waiting[m] = kernel.waiting[m]
      BY <1>1, <1>5, <2>1, Bequest DEF Ranks
    <3> QED
      BY <1>2, <3>1
  <2>2. CASE n = m
    <3>1. PICK h \in Tasks :
            /\ h # t /\ kernel.held[h] = 1
            /\ \A u \in Tasks : u # h => kernel'.prio[u] = kernel.prio[u]
      BY <1>5, Bequest DEF Ranks
    <3>2. PICK K \in Kernel, q \in Seq(Tasks) :
            /\ q = kernel.waiting[m] /\ kernel'.prio = K.prio
            /\ kernel'.waiting[m] = vListInsert(K, q, t)
      BY <1>2, <1>5, <2>2, Bequest DEF Ranks
    <3>3. kernel.prio[t] = BasePriority[t]
      BY <1>5, Bequest DEF Ranks
    <3>4. ASSUME NEW u \in Elements(q) PROVE K.prio[u] = BasePriority[u]
      <4>1. u \in Tasks /\ kernel.held[u] = 0 /\ kernel.prio[u] = BasePriority[u]
        BY <3>2, Unraised DEF Ranks
      <4> QED
        BY <3>1, <3>2, <4>1
    <3>5. K.prio[t] = BasePriority[t]
      BY <3>1, <3>2, <3>3
    <3>6. Ordered(vListInsert(K, q, t))
      BY <1>2, <3>2, <3>4, <3>5, OrderedInsert
    <3> QED
      BY <3>2, <3>6
  <2> QED
    BY <2>1, <2>2
<1>6. ASSUME NEW t \in Tasks, NEW n \in Mutexes, Returned(t, n)
      PROVE  Ordered(kernel'.waiting[m])
  <2>1. /\ \A z \in Semaphores \ {n} : kernel'.waiting[z] = kernel.waiting[z]
        /\ kernel'.waiting[n] = IF kernel.waiting[n] = <<>> THEN <<>> ELSE Tail(kernel.waiting[n])
    BY <1>6, GivenBack
  <2>2. CASE n # m \/ kernel.waiting[m] = <<>>
    <3>1. kernel'.waiting[m] = kernel.waiting[m]
      BY <1>1, <2>1, <2>2
    <3> QED
      BY <1>2, <3>1
  <2>3. CASE n = m /\ kernel.waiting[m] # <<>>
    <3>1. kernel'.waiting[m] = Tail(kernel.waiting[m])
      BY <2>1, <2>3
    <3>2. Ordered(Tail(kernel.waiting[m]))
      BY <1>2, <2>3, OrderedTail
    <3> QED
      BY <3>1, <3>2
  <2> QED
    BY <2>2, <2>3
<1> QED
  BY <1>2, <1>3, <1>4, <1>5, <1>6, Disturbances

(* A holder runs at the priority of those that wait: who takes the mutex   *)
(* before the one it was given for has the higher priority of the two.     *)
LEMMA RaisedStep ==
  ASSUME Types, Types', Control, Locks, Queues, Owners, OneAtATime, Ranks, Next
  PROVE  Raised'
<1> SUFFICES ASSUME NEW n \in Mutexes, sem'[n].holder # NoTask,
                    NEW u \in Elements(kernel'.waiting[n])
             PROVE  kernel'.prio[sem'[n].holder] >= BasePriority[u]
  BY DEF Raised
<1>1. Mutexes \subseteq Semaphores /\ NoTask \notin Tasks /\ n \in Semaphores
  BY KernelAssumption
<1>2. \A t \in Tasks : kernel.prio[t] \in Nat /\ BasePriority[t] \in Nat
  BY Priorities
<1>3. \A x \in Elements(kernel.waiting[n]) : x \in Tasks
  BY Unraised DEF Ranks
<1>4. sem[n].holder \in Tasks \union {NoTask}
  BY <1>1 DEF Types, Semaphore
<1>5. sem[n].holder # NoTask =>
        \A x \in Elements(kernel.waiting[n]) : kernel.prio[sem[n].holder] >= BasePriority[x]
  BY DEF Ranks, Raised
<1>6. CASE Undisturbed
  BY <1>5, <1>6 DEF Undisturbed
<1>7. ASSUME NEW t \in Tasks, NEW m \in Mutexes, Acquired(t, m)
      PROVE  kernel'.prio[sem'[n].holder] >= BasePriority[u]
  <2>1. /\ Running(t) /\ ~kernel.stopped /\ sem[m].count = 1 /\ sem'[m].holder = t
        /\ \A z \in Semaphores \ {m} : sem'[z] = sem[z]
        /\ kernel'.prio = kernel.prio /\ kernel'.waiting = kernel.waiting
    BY <1>7 DEF Acquired, Types, Kernel
  <2>2. CASE n = m
    <3>1. kernel.waiting[n] # <<>>
      BY <2>1 DEF Elements
    <3>2. PICK a \in Tasks : /\ OnItsWay(a, n)
                             /\ \A x \in Elements(kernel.waiting[n]) : BasePriority[a] >= BasePriority[x]
      BY <2>1, <2>2, <3>1 DEF Ranks, Awaited
    <3>3. kernel.list[a] = "ready"
      BY <2>1, <3>2 DEF OnItsWay, Up, Control
    <3>4. kernel.prio[a] <= kernel.prio[t]
      BY <2>1, <3>3 DEF Ranks, Top, Running
    <3>5. kernel.prio[a] >= BasePriority[a] /\ BasePriority[a] >= BasePriority[u] /\ u \in Tasks
      BY <1>3, <2>1, <3>2 DEF Ranks, Above
    <3>6. kernel.prio[t] >= BasePriority[u]
      BY <1>2, <3>4, <3>5
    <3> QED
      BY <2>1, <2>2, <3>6
  <2>3. CASE n # m
    BY <1>1, <1>5, <2>1, <2>3
  <2> QED
    BY <2>2, <2>3
<1>8. ASSUME NEW t \in Tasks, NEW m \in Mutexes, SleepsOn(t, m)
      PROVE  kernel'.prio[sem'[n].holder] >= BasePriority[u]
  <2>1. PICK h \in Tasks :
          /\ sem[m].holder = h
          /\ \A x \in Tasks : x # h => kernel'.prio[x] = kernel.prio[x]
          /\ \/ kernel'.prio[h] = kernel.prio[h] /\ kernel.prio[h] >= kernel.prio[t]
             \/ kernel'.prio[h] = kernel.prio[t] /\ kernel.prio[h] < kernel.prio[t]
    BY <1>8, Bequest DEF Ranks
  <2>2. /\ sem' = sem /\ kernel.prio[t] = BasePriority[t]
        /\ \A z \in Semaphores \ {m} : kernel'.waiting[z] = kernel.waiting[z]
        /\ Elements(kernel'.waiting[m]) = Elements(kernel.waiting[m]) \union {t}
    BY <1>8, Bequest DEF Ranks
  <2>3. PICK x \in Tasks : x = sem[n].holder
    BY <1>4, <2>2
  <2>4. kernel'.prio[x] >= kernel.prio[x] /\ kernel'.prio[x] \in Nat
    BY <1>2, <2>1
  <2>5. CASE u \in Elements(kernel.waiting[n])
    <3>1. kernel.prio[x] >= BasePriority[u] /\ u \in Tasks
      BY <1>1, <1>3, <1>5, <2>3, <2>5
    <3>2. kernel'.prio[x] >= BasePriority[u]
      BY <1>2, <2>4, <3>1
    <3> QED
      BY <2>2, <2>3, <3>2
  <2>6. CASE u \notin Elements(kernel.waiting[n])
    <3>1. n = m /\ u = t
      BY <1>1, <2>2, <2>6
    <3>2. kernel'.prio[h] >= kernel.prio[t]
      BY <1>2, <2>1
    <3> QED
      BY <2>1, <2>2, <3>1, <3>2
  <2> QED
    BY <2>5, <2>6
<1>9. ASSUME NEW t \in Tasks, NEW m \in Mutexes, Returned(t, m)
      PROVE  kernel'.prio[sem'[n].holder] >= BasePriority[u]
  <2>1. /\ \A x \in Tasks : kernel'.prio[x] = IF x = t /\ Disinherits(kernel, t)
                                              THEN BasePriority[t] ELSE kernel.prio[x]
        /\ \A z \in Semaphores \ {m} : sem'[z] = sem[z] /\ kernel'.waiting[z] = kernel.waiting[z]
        /\ sem[m].holder = t /\ sem'[m].holder = NoTask
    BY <1>9, GivenBack
  <2>2. n # m
    BY <2>1
  <2>3. sem'[n] = sem[n] /\ kernel'.waiting[n] = kernel.waiting[n]
    BY <1>1, <2>1, <2>2
  <2>4. sem[n].holder \in Tasks /\ sem[n].holder # t
    BY <1>1, <1>4, <2>1, <2>2, <2>3 DEF Owners, Sole
  <2>5. kernel'.prio[sem[n].holder] = kernel.prio[sem[n].holder]
    BY <2>1, <2>4
  <2> QED
    BY <1>5, <2>3, <2>5
<1> QED
  BY <1>6, <1>7, <1>8, <1>9, Disturbances

(* Who is on its way to take an available mutex stays so until it takes    *)
(* it, and is not put to sleep.                                            *)
LEMMA StillComes ==
  ASSUME Types, Control, Locks, Queues, Owners, Next, NEW z \in Mutexes,
         sem[z].count = 1, sem'[z].count = 1, NEW a \in Tasks, OnItsWay(a, z)
  PROVE  OnItsWay(a, z)'
<1>1. /\ InTake(a) /\ job[a].call.sem = z /\ Up(a) /\ job[a].pc # "disinherit" /\ z \in Semaphores
      /\ job[a].pc \in CallPcs /\ job[a].call.op = "take"
  BY KernelAssumption DEF OnItsWay, InTake
<1>2. ASSUME job'[a] = job[a], Up(a)' PROVE OnItsWay(a, z)'
  BY <1>1, <1>2 DEF OnItsWay, InTake
<1>3. ASSUME SameCall(job[a], job'[a]), job'[a].pc \in CallPcs \ {"disinherit"}, Up(a)'
      PROVE  OnItsWay(a, z)'
  BY <1>1, <1>3 DEF OnItsWay, InTake, SameCall
<1>4. ASSUME NEW t \in Tasks, TakesCalmly(t) PROVE OnItsWay(a, z)'
  <2>1. PICK j \in Job : /\ j.call.op = "take" /\ Tried(t, j) /\ job[t].pc \in {"run", "take"}
                         /\ job[t].pc = "take" => j = job[t]
    BY <1>4, TakenCalmly
  <2>2. /\ \A u \in Tasks \ {t} : job'[u] = job[u]
        /\ kernel'.list = kernel.list /\ kernel'.pending = kernel.pending
    BY <1>4, TakenCalmly DEF Calm, Unmoved
  <2>3. Up(a)'
    BY <1>1, <2>2 DEF Up
  <2>4. CASE t = a
    <3>1. j = job[a] /\ j.call.sem = z
      BY <1>1, <2>1, <2>4 DEF CallPcs, TakePcs
    <3>2. job'[a].pc = "stop" /\ SameCall(j, job'[a])
      BY <2>1, <2>4, <3>1 DEF Tried
    <3> QED
      BY <1>3, <2>3, <3>1, <3>2 DEF CallPcs
  <2>5. CASE t # a
    BY <1>2, <2>2, <2>3, <2>5
  <2> QED
    BY <2>4, <2>5
<1>5. ASSUME NEW t \in Tasks, StaysCalm(t) PROVE OnItsWay(a, z)'
  <2>1. /\ \A u \in Tasks \ {t} : job'[u] = job[u]
        /\ kernel'.list = kernel.list /\ kernel'.pending = kernel.pending
    BY <1>5, StayedCalm DEF Calm, Unmoved
  <2>2. Up(a)'
    BY <1>1, <2>1 DEF Up
  <2>3. CASE t # a
    BY <1>2, <2>1, <2>2, <2>3
  <2>4. CASE t = a
    <3>1. job'[a].pc \in {"fatal", "unlock", "look", "block", "take"} /\ job'[a].call = job[a].call
      <4>1. job[a] \in Job
        BY <1>1, JobForms
      <4>2. CASE AssertionFails(a)
        BY <1>1, <4>1, <4>2, Went DEF AssertionFails, SameCall
      <4>3. CASE prvLockQueue(a)
        <5>1. job'[a].pc \in {"unlock", "look"} /\ job'[a].call = job[a].call
          BY <4>3, Locked
        <5> QED
          BY <5>1
      <4>4. CASE Look(a)
        <5>1. job'[a].pc \in {"unlock", "block"} /\ job'[a].call = job[a].call
          BY <4>4, Looked
        <5> QED
          BY <5>1
      <4>5. CASE Late(a)
        <5>1. job'[a].pc = "take" /\ SameCall(job[a], job'[a])
          BY <1>1, <4>5, Lateness
        <5> QED
          BY <5>1 DEF SameCall
      <4>6. CASE Disinherit(a)
        BY <1>1, <4>6 DEF Disinherit, At
      <4>7. CASE Awake(a)
        <5>1. job[a].call.op = "delay"
          BY <4>7 DEF Awake, At, Control
        <5> QED
          BY <1>1, <5>1
      <4>8. CASE vTaskDelay(a)
        BY <1>1, <4>8, Dozed DEF CallPcs, TakePcs
      <4> QED
        BY <1>5, <2>4, <4>2, <4>3, <4>4, <4>5, <4>6, <4>7, <4>8 DEF StaysCalm
    <3> QED
      BY <1>1, <2>2, <3>1 DEF OnItsWay, InTake, CallPcs, TakePcs
  <2> QED
    BY <2>3, <2>4
<1>6. ASSUME NEW t \in Tasks, \A u \in Tasks \ {t} : job'[u] = job[u],
             SameCall(job[t], job'[t]), job'[t].pc \in CallPcs \ {"disinherit"}, Up(a)'
      PROVE  OnItsWay(a, z)'
  BY <1>2, <1>3, <1>6
<1>7. ASSUME NEW t \in Tasks, vTaskSuspendAll(t) \/ AdjustNext(t) PROVE OnItsWay(a, z)'
  <2>1. /\ \A u \in Tasks \ {t} : job'[u] = job[u]
        /\ kernel'.list = kernel.list /\ kernel'.pending = kernel.pending
        /\ SameCall(job[t], job'[t])
    BY <1>7, Suspended, Adjusted DEF Still
  <2>2. job'[t].pc \in {"lock", "place", "unlock", "resume"}
    <3>1. vTaskSuspendAll(t) => job'[t].pc \in {"lock", "place"}
      BY Suspended
    <3>2. AdjustNext(t) => job'[t].pc \in {"unlock", "resume"}
      BY Adjusted
    <3> QED
      BY <1>7, <3>1, <3>2
  <2>3. Up(a)'
    BY <1>1, <2>1 DEF Up
  <2> QED
    BY <1>6, <2>1, <2>2, <2>3 DEF CallPcs, TakePcs
<1>8. ASSUME NEW t \in Tasks, vTaskPlaceOnEventList(t) PROVE OnItsWay(a, z)'
  <2>1. /\ job[t].pc = "block" /\ job[t].call.op = "take" /\ kernel.current = t
        /\ \A u \in Tasks \ {t} : job'[u] = job[u]
        /\ Put(kernel, kernel', job[t].ticks, TRUE)
    BY <1>8, Blocked DEF Running
  <2>2. t # a
    <3>1. job[a].pc = "block" => sem[z].count = 0
      BY <1>1 DEF Owners, WaitsOn
    <3> QED
      BY <2>1, <3>1
  <2>3. Up(a)'
    BY <1>1, <2>1, <2>2 DEF Put, Up
  <2> QED
    BY <1>2, <2>1, <2>2, <2>3
<1>9. ASSUME NEW t \in Tasks, Place(t) PROVE OnItsWay(a, z)'
  <2>1. /\ job[t].call.op = "delay" /\ kernel.current = t
        /\ \A u \in Tasks \ {t} : job'[u] = job[u]
        /\ Put(kernel, kernel', job[t].ticks, FALSE)
    BY <1>9, Placed DEF Running
  <2>2. t # a
    BY <1>1, <2>1
  <2>3. Up(a)'
    BY <1>1, <2>1, <2>2 DEF Put, Up
  <2> QED
    BY <1>2, <2>1, <2>2, <2>3
<1>10. ASSUME NEW t \in Tasks, prvUnlockQueue(t) PROVE OnItsWay(a, z)'
  <2>1. PICK s \in Semaphores : s = job[t].call.sem
    BY <1>10, Opened
  <2>2. /\ \A u \in Tasks \ {t} : job'[u] = job[u]
        /\ job'[t].pc = "resume" /\ SameCall(job[t], job'[t])
    BY <1>10, <2>1, Opened
  <2>3. PICK n \in 0..Len(kernel.waiting[s]) : Unlocked(kernel, s, n, kernel')
    BY <1>10, <2>1, Opened
  <2>4. kernel'.list = kernel.list /\ kernel.pending \subseteq kernel'.pending
    BY <2>3 DEF Unlocked
  <2>5. Up(a)'
    BY <1>1, <2>4 DEF Up
  <2> QED
    BY <1>6, <2>2, <2>5 DEF CallPcs
<1>11. ASSUME NEW W, Resumed(kernel, kernel', W) PROVE Up(a)'
  BY <1>1, <1>11 DEF Resumed, Up, Timed
<1>12. ASSUME NEW t \in Tasks, Resume(t) PROVE OnItsWay(a, z)'
  <2>1. /\ \A u \in Tasks \ {t} : job'[u] = job[u]
        /\ SameCall(job[t], job'[t]) /\ job[t] \in Job
        /\ \E W : Resumed(kernel, kernel', W)
    BY <1>12, Restarted
  <2>2. job[t].path # "asleep"
    BY <2>1 DEF Job
  <2>3. job'[t].pc \in {"late", "take", "asleep"}
    BY <1>12, <2>2, Restarted
  <2>4. Up(a)'
    BY <1>11, <2>1
  <2> QED
    BY <1>6, <2>1, <2>3, <2>4 DEF CallPcs, TakePcs
<1>13. ASSUME NEW s \in Semaphores, NEW K, Unmoved(kernel, K), kernel.waiting[s] # <<>>,
              Removed(K, s, kernel')
       PROVE  Up(a)'
  <2>1. PICK x : x = Head(kernel.waiting[s])
    OBVIOUS
  <2>2. /\ K.waiting = kernel.waiting /\ K.list = kernel.list /\ K.pending = kernel.pending
        /\ K.stopped = kernel.stopped
    BY <1>13 DEF Unmoved
  <2>3. /\ \A u \in Tasks : u # x => kernel'.list[u] = kernel.list[u]
        /\ kernel.stopped => kernel'.pending = kernel.pending \union {x} /\ kernel'.list = kernel.list
        /\ ~kernel.stopped => kernel'.pending = kernel.pending /\ kernel'.list[x] = "ready"
    BY <1>13, <2>1, <2>2 DEF Removed
  <2> QED
    BY <1>1, <2>3 DEF Up
<1>14. ASSUME NEW t \in Tasks, Give(t) PROVE OnItsWay(a, z)'
  <2>1. PICK s \in Semaphores : GivenTo(t, s) /\ UNCHANGED job
    BY <1>14, Given
  <2>2. PICK K : K = Quit(t, s)
    OBVIOUS
  <2>3. Unmoved(kernel, K) /\ (kernel' = K \/ (kernel.waiting[s] # <<>> /\ Removed(K, s, kernel')))
    BY <2>1, <2>2 DEF GivenTo
  <2>4. Up(a)'
    <3>1. CASE kernel' = K
      BY <1>1, <2>3, <3>1 DEF Up, Unmoved
    <3>2. CASE kernel.waiting[s] # <<>> /\ Removed(K, s, kernel')
      BY <1>13, <2>3, <3>2
    <3> QED
      BY <2>3, <3>1, <3>2
  <2> QED
    BY <1>2, <2>1, <2>4
<1>15. ASSUME NEW s \in Semaphores, xQueueGiveFromISR(s) PROVE OnItsWay(a, z)'
  <2>1. UNCHANGED job /\ (kernel' = kernel \/ (kernel.waiting[s] # <<>> /\ Removed(kernel, s, kernel')))
    BY <1>15, GivenFromISR
  <2>2. Unmoved(kernel, kernel)
    BY DEF Unmoved
  <2>3. Up(a)'
    <3>1. CASE kernel' = kernel
      BY <1>1, <3>1 DEF Up
    <3>2. CASE kernel.waiting[s] # <<>> /\ Removed(kernel, s, kernel')
      BY <1>13, <2>2, <3>2
    <3> QED
      BY <2>1, <3>1, <3>2
  <2> QED
    BY <1>2, <2>1, <2>3
<1>16. ASSUME NEW t \in Tasks, xTaskCreate(t) \/ vTaskDelete(t) PROVE OnItsWay(a, z)'
  <2>1. UNCHANGED job /\ kernel'.pending = kernel.pending
    BY <1>16, Created, Deleted DEF Kept
  <2>2. CASE xTaskCreate(t)
    <3>1. PICK u \in Tasks : /\ kernel'.list[u] = "ready"
                             /\ \A x \in Tasks \ {u} : kernel'.list[x] = kernel.list[x]
      BY <2>2, Created
    <3>2. Up(a)'
      BY <1>1, <2>1, <3>1 DEF Up
    <3> QED
      BY <1>2, <2>1, <3>2
  <2>3. CASE vTaskDelete(t)
    <3>1. job[t].pc = "run" /\ \A x \in Tasks \ {t} : kernel'.list[x] = kernel.list[x]
      BY <2>3, Deleted
    <3>2. t # a
      BY <1>1, <3>1 DEF CallPcs, TakePcs
    <3>3. Up(a)'
      BY <1>1, <2>1, <3>1, <3>2 DEF Up
    <3> QED
      BY <1>2, <2>1, <3>3
  <2> QED
    BY <1>16, <2>2, <2>3
<1>17. ASSUME Reap PROVE OnItsWay(a, z)'
  <2>1. UNCHANGED job /\ kernel'.pending = kernel.pending
    BY <1>17, Reaped DEF Kept
  <2>2. PICK u \in Tasks : /\ kernel.list[u] = "terminated"
                           /\ \A x \in Tasks \ {u} : kernel'.list[x] = kernel.list[x]
    BY <1>17, Reaped
  <2>3. Up(a)'
    BY <1>1, <2>1, <2>2 DEF Up
  <2> QED
    BY <1>2, <2>1, <2>3
<1>18. ASSUME IdleSuspend \/ IdleResume PROVE OnItsWay(a, z)'
  <2>1. /\ \A u \in Tasks \ {Idle} : job'[u] = job[u]
        /\ job[Idle].pc \in {"run", "idle"}
    BY <1>18, IdleSuspended, IdleRestarted
  <2>2. a # Idle
    BY <1>1, <2>1 DEF CallPcs, TakePcs
  <2>3. Up(a)'
    <3>1. CASE IdleSuspend
      BY <1>1, <3>1, IdleSuspended DEF Still, Up
    <3>2. CASE IdleResume
      BY <1>11, <3>2, IdleRestarted
    <3> QED
      BY <1>18, <3>1, <3>2
  <2> QED
    BY <1>2, <2>1, <2>2, <2>3
<1>19. ASSUME Tick PROVE OnItsWay(a, z)'
  <2>1. UNCHANGED job
    BY <1>19, Ticked
  <2>2. Up(a)'
    <3>1. CASE kernel' = [kernel EXCEPT !.pended = @ + 1]
      <4>1. kernel'.list = kernel.list /\ kernel'.pending = kernel.pending
        BY <3>1 DEF Types, Kernel
      <4> QED
        BY <1>1, <4>1 DEF Up
    <3>2. ASSUME NEW A, TickedTo(A) PROVE Up(a)'
      <4>1. Woke(kernel, A) /\ kernel'.list = A.list /\ kernel'.pending = kernel.pending
        BY <3>2 DEF TickedTo, Passed, Woke, Kept
      <4> QED
        BY <1>1, <4>1 DEF Up, Woke, WokenIn, Timed
    <3> QED
      BY <1>19, <3>1, <3>2, Ticked
  <2> QED
    BY <1>2, <2>1, <2>2
<1>20. ASSUME vTaskSwitchContext PROVE OnItsWay(a, z)'
  <2>1. UNCHANGED job /\ kernel'.list = kernel.list /\ kernel'.pending = kernel.pending
    BY <1>20, Switched DEF Still
  <2>2. Up(a)'
    BY <1>1, <2>1 DEF Up
  <2> QED
    BY <1>2, <2>1, <2>2
<1> QED
  BY <1>4, <1>5, <1>7, <1>8, <1>9, <1>10, <1>12, <1>14, <1>15, <1>16, <1>17, <1>18, <1>19,
     <1>20 DEF Next, TakesCalmly, StaysCalm

(* An available mutex stays awaited by a task of the priority of those     *)
(* that wait: who gives it wakes the first of them.                        *)
LEMMA AwaitedStep ==
  ASSUME Types, Types', Control, Locks, Queues, Owners, OneAtATime, Ranks, Next
  PROVE  \A z \in Mutexes : Awaited(z)'
<1> SUFFICES ASSUME NEW z \in Mutexes, sem'[z].count = 1, kernel'.waiting[z] # <<>>
             PROVE  \E a \in Tasks :
                      /\ OnItsWay(a, z)'
                      /\ \A u \in Elements(kernel'.waiting[z]) : BasePriority[a] >= BasePriority[u]
  BY DEF Awaited
<1>1. Mutexes \subseteq Semaphores /\ z \in Semaphores
  BY KernelAssumption
<1>2. ASSUME sem[z].count = 1, kernel'.waiting[z] = kernel.waiting[z]
      PROVE  \E a \in Tasks :
               /\ OnItsWay(a, z)'
               /\ \A u \in Elements(kernel'.waiting[z]) : BasePriority[a] >= BasePriority[u]
  <2>1. PICK a \in Tasks :
          /\ OnItsWay(a, z)
          /\ \A u \in Elements(kernel.waiting[z]) : BasePriority[a] >= BasePriority[u]
    BY <1>2 DEF Ranks, Awaited
  <2>2. OnItsWay(a, z)'
    BY <1>2, <2>1, StillComes
  <2> QED
    BY <1>2, <2>1, <2>2
<1>3. CASE Undisturbed
  BY <1>2, <1>3 DEF Undisturbed
<1>4. ASSUME NEW t \in Tasks, NEW n \in Mutexes, Acquired(t, n)
      PROVE  sem[z].count = 1 /\ kernel'.waiting[z] = kernel.waiting[z]
  <2>1. /\ sem'[n].count = 0 /\ \A s \in Semaphores \ {n} : sem'[s] = sem[s]
        /\ kernel'.waiting = kernel.waiting
    BY <1>4 DEF Acquired, Types, Kernel
  <2> QED
    BY <1>1, <2>1
<1>5. ASSUME NEW t \in Tasks, NEW n \in Mutexes, SleepsOn(t, n)
      PROVE  sem[z].count = 1 /\ kernel'.waiting[z] = kernel.waiting[z]
  <2>1. /\ sem' = sem /\ sem[n].count = 0
        /\ \A s \in Semaphores \ {n} : kernel'.waiting[s] = kernel.waiting[s]
    BY <1>5, Bequest DEF Ranks
  <2> QED
    BY <1>1, <2>1
<1>6. ASSUME NEW t \in Tasks, NEW n \in Mutexes, Returned(t, n)
      PROVE  \E a \in Tasks :
               /\ OnItsWay(a, z)'
               /\ \A u \in Elements(kernel'.waiting[z]) : BasePriority[a] >= BasePriority[u]
  <2>1. /\ \A s \in Semaphores \ {n} : sem'[s] = sem[s] /\ kernel'.waiting[s] = kernel.waiting[s]
        /\ kernel'.waiting[n] = IF kernel.waiting[n] = <<>> THEN <<>> ELSE Tail(kernel.waiting[n])
    BY <1>6, GivenBack
  <2>2. CASE n # z
    <3>1. sem[z].count = 1 /\ kernel'.waiting[z] = kernel.waiting[z]
      BY <1>1, <2>1, <2>2
    <3> QED
      BY <1>2, <3>1
  <2>3. CASE n = z
    <3>1. PICK q \in Seq(Tasks) : q = kernel.waiting[z]
      BY <1>1 DEF Types, Kernel
    <3>2. q # <<>> /\ kernel'.waiting[z] = Tail(q) /\ Ordered(q)
      BY <2>1, <2>3, <3>1 DEF Ranks, Sorted
    <3>3. PICK h : h = Head(q)
      OBVIOUS
    <3>4. h \in Elements(q) /\ h \in Tasks
      BY <3>1, <3>2, <3>3, Beheaded DEF Elements
    <3>5. \A u \in Elements(q) : BasePriority[h] >= BasePriority[u]
      BY <3>2, <3>3, OrderedTail
    <3>6. Elements(Tail(q)) \subseteq Elements(q)
      <4>1. /\ Len(q) \in Nat /\ Len(Tail(q)) = Len(q) - 1
            /\ \A i \in 1..Len(Tail(q)) : Tail(q)[i] = q[i + 1]
        BY <3>2, Beheaded
      <4>2. ASSUME NEW i \in 1..Len(Tail(q)) PROVE Tail(q)[i] \in Elements(q)
        <5>1. i + 1 \in 1..Len(q)
          BY <4>1
        <5> QED
          BY <4>1, <5>1 DEF Elements
      <4> QED
        BY <4>2 DEF Elements
    <3>7. OnItsWay(h, z)'
      <4>1. PICK K : K = Quit(t, z)
        OBVIOUS
      <4>2. /\ UNCHANGED job /\ ~kernel.stopped /\ kernel.waiting[z] # <<>>
            /\ Unmoved(kernel, K) /\ Removed(K, z, kernel')
        BY <1>6, <2>3, <3>1, <3>2, <4>1 DEF Returned, GivenTo
      <4>3. K.waiting = kernel.waiting /\ K.stopped = kernel.stopped
        BY <4>2 DEF Unmoved
      <4>4. kernel'.list[h] = "ready"
        BY <3>1, <3>3, <4>2, <4>3 DEF Removed
      <4>5. Up(h)'
        BY <4>4 DEF Up
      <4> QED
        BY <1>1, <3>1, <3>4, <4>2, <4>5, WokenComes
    <3> QED
      BY <3>2, <3>4, <3>5, <3>6, <3>7
  <2> QED
    BY <2>2, <2>3
<1> QED
  BY <1>2, <1>3, <1>4, <1>5, <1>6, Disturbances

(* While the priorities and the task that runs stay, Top does if who       *)
(* becomes ready has no higher priority, or a switch is requested.         *)
LEMMA TopKept ==
  ASSUME Top, kernel'.current = kernel.current, kernel'.prio = kernel.prio,
         kernel'.stopped \/ ~switch' => kernel.stopped \/ ~switch,
         \A u \in Tasks : kernel'.list[u] = "ready" =>
           \/ kernel.list[u] = "ready"
           \/ ~kernel'.stopped /\ switch'
           \/ kernel.prio[u] <= kernel.prio[kernel.current]
  PROVE  Top'
BY DEF Top

(* The same when the first of those that wait for s is woken.              *)
LEMMA TopWoken ==
  ASSUME Types, Top, NEW s \in Semaphores, kernel.waiting[s] # <<>>, Removed(kernel, s, kernel'),
         kernel'.stopped \/ ~switch' => kernel.stopped \/ ~switch,
         ~kernel.stopped /\ WakesHigher(kernel, s) => switch'
  PROVE  Top'
<1>1. /\ kernel'.current = kernel.current /\ kernel'.prio = kernel.prio
      /\ kernel'.stopped = kernel.stopped
  BY DEF Removed
<1>2. PICK h : h = Head(kernel.waiting[s])
  OBVIOUS
<1>3. /\ \A u \in Tasks : u # h => kernel'.list[u] = kernel.list[u]
      /\ kernel.stopped => kernel'.list = kernel.list
  BY <1>2 DEF Removed
<1>4. h \in Tasks /\ kernel.current \in Tasks
  <2>1. kernel.waiting[s] \in Seq(Tasks) /\ kernel.current \in Tasks
    BY DEF Types, Kernel
  <2> QED
    BY <1>2, <2>1, Beheaded
<1>5. kernel.prio[h] \in Nat /\ kernel.prio[kernel.current] \in Nat
  BY <1>4, Priorities
<1>6. kernel.prio[h] <= kernel.prio[kernel.current] \/ WakesHigher(kernel, s)
  BY <1>2, <1>5 DEF WakesHigher
<1> QED
  BY <1>1, <1>3, <1>6, TopKept

(* Who gives a mutex for which tasks wait keeps its priority unless it     *)
(* wakes one of a higher priority.                                         *)
LEMMA TopReturned ==
  ASSUME Types, Types', Queues, Owners, OneAtATime, Ranks,
         NEW t \in Tasks, NEW m \in Mutexes, Returned(t, m)
  PROVE  Top'
<1>1. Mutexes \subseteq Semaphores /\ m \in Semaphores /\ NoTask \notin Tasks
  BY KernelAssumption
<1>2. PICK K : K = Quit(t, m)
  OBVIOUS
<1>3. /\ Unmoved(kernel, K) /\ kernel.current = t /\ ~switch /\ ~kernel.stopped
      /\ \/ kernel.waiting[m] = <<>> /\ kernel' = K /\ switch' = Disinherits(kernel, t)
         \/ kernel.waiting[m] # <<>> /\ Removed(K, m, kernel') /\ switch' = WakesHigher(K, m)
  <2>1. Running(t) /\ ~kernel.stopped /\ GivenTo(t, m)
    BY DEF Returned
  <2>2. (m \in Mutexes /\ Disinherits(kernel, t)) = Disinherits(kernel, t)
    BY Zenon DEF Disinherits
  <2>3. /\ Unmoved(kernel, K)
        /\ \/ kernel.waiting[m] = <<>> /\ kernel' = K
              /\ switch' = (m \in Mutexes /\ Disinherits(kernel, t))
           \/ kernel.waiting[m] # <<>> /\ Removed(K, m, kernel') /\ switch' = WakesHigher(K, m)
    BY <1>2, <2>1, Zenon DEF GivenTo
  <2> QED
    BY <2>1, <2>2, <2>3, Zenon DEF Running
<1>4. /\ \A u \in Tasks : kernel'.prio[u] = IF u = t /\ Disinherits(kernel, t)
                                            THEN BasePriority[t] ELSE kernel.prio[u]
      /\ sem[m].holder = t
  BY GivenBack
<1>5. \A u \in Tasks : kernel.prio[u] \in Nat /\ BasePriority[u] \in Nat
  BY Priorities
<1>6. \A u \in Tasks : kernel.list[u] = "ready" => kernel.prio[u] <= kernel.prio[t]
  BY <1>3 DEF Ranks, Top
<1>7. CASE kernel.waiting[m] = <<>>
  <2>1. kernel' = K /\ switch' = Disinherits(kernel, t)
    BY <1>3, <1>7
  <2>2. kernel'.current = t /\ kernel'.list = kernel.list /\ ~kernel'.stopped
    BY <1>3, <2>1 DEF Unmoved
  <2> QED
    BY <1>4, <1>6, <2>1, <2>2 DEF Top
<1>8. CASE kernel.waiting[m] # <<>>
  <2>1. Removed(K, m, kernel') /\ switch' = WakesHigher(K, m)
    BY <1>3, <1>8
  <2>2. PICK q \in Seq(Tasks) : q = kernel.waiting[m]
    BY <1>1 DEF Types, Kernel
  <2>3. PICK h : h = Head(q)
    OBVIOUS
  <2>4. h \in Tasks /\ h \in Elements(q)
    BY <1>8, <2>2, <2>3, Beheaded DEF Elements
  <2>5. K.waiting = kernel.waiting /\ K.list = kernel.list /\ K.current = t /\ ~K.stopped
    BY <1>3 DEF Unmoved
  <2>6. /\ kernel'.current = t /\ ~kernel'.stopped /\ kernel'.prio = K.prio
        /\ \A u \in Tasks : u # h => kernel'.list[u] = kernel.list[u]
    BY <2>1, <2>2, <2>3, <2>5 DEF Removed
  <2>7. switch' <=> kernel'.prio[h] > kernel'.prio[t]
    BY <2>1, <2>2, <2>3, <2>5, <2>6 DEF WakesHigher
  <2>8. ASSUME ~switch', Disinherits(kernel, t) PROVE FALSE
    <3>1. h # t
      <4>1. kernel.list[t] = "ready" /\ kernel.list[h] \in Asleep
        BY <1>1, <1>3, <2>2, <2>4 DEF Queues, Runner, Waiting
      <4> QED
        BY <4>1 DEF Asleep
    <3>2. kernel'.prio[t] = BasePriority[t] /\ kernel'.prio[h] = kernel.prio[h]
      BY <1>4, <2>4, <2>8, <3>1
    <3>3. kernel.prio[h] = BasePriority[h]
      BY <2>2, <2>4, Unraised DEF Ranks
    <3>4. BasePriority[h] <= BasePriority[t]
      BY <1>5, <2>4, <2>7, <2>8, <3>2, <3>3
    <3>5. kernel.prio[t] # BasePriority[t] /\ kernel.prio[t] >= BasePriority[t]
      BY <2>8 DEF Disinherits, Ranks, Above
    <3>6. PICK n \in Mutexes :
            /\ sem[n].holder = t
            /\ \E u \in Elements(kernel.waiting[n]) : kernel.prio[t] <= BasePriority[u]
      BY <3>5 DEF Ranks, Lent
    <3>7. n = m
      BY <1>1, <1>4, <3>6 DEF Owners, Sole
    <3>8. PICK u \in Elements(q) : kernel.prio[t] <= BasePriority[u]
      BY <2>2, <3>6, <3>7
    <3>9. u \in Tasks
      BY <2>2, Unraised DEF Ranks
    <3>10. BasePriority[h] >= BasePriority[u]
      BY <1>8, <2>2, <2>3, OrderedTail DEF Ranks, Sorted
    <3> QED
      BY <1>5, <2>4, <3>4, <3>5, <3>8, <3>9, <3>10
  <2>9. CASE switch'
    BY <2>6, <2>9 DEF Top
  <2>10. CASE ~switch'
    <3>1. \A u \in Tasks : kernel'.prio[u] = kernel.prio[u]
      BY <1>4, <2>8, <2>10
    <3>2. kernel.prio[h] <= kernel.prio[t]
      BY <1>5, <2>4, <2>7, <2>10, <3>1
    <3> QED
      BY <1>6, <2>6, <3>1, <3>2 DEF Top
  <2> QED
    BY <2>9, <2>10
<1> QED
  BY <1>7, <1>8

(* Every action keeps the highest ready task running or asks for a switch. *)
LEMMA TopStep ==
  ASSUME Types, Types', Control, Locks, Queues, Owners, OneAtATime, Ranks, Next
  PROVE  Top'
<1>1. Mutexes \subseteq Semaphores /\ Idle \in Tasks
  BY KernelAssumption
<1>2. \A u \in Tasks : kernel.prio[u] \in Nat /\ BasePriority[u] \in Nat
  BY Priorities
<1>3. Top
  BY DEF Ranks
<1>4. ASSUME ~switch, kernel'.current = kernel.current, kernel'.prio = kernel.prio,
             \A u \in Tasks : kernel'.list[u] = "ready" => kernel.list[u] = "ready"
      PROVE  Top'
  BY <1>3, <1>4, TopKept
<1>5. ASSUME NEW t \in Tasks, TakesCalmly(t) \/ StaysCalm(t) PROVE Top'
  <2>1. ~switch /\ kernel'.current = kernel.current /\ kernel'.list = kernel.list
    BY <1>5, TakenCalmly, StayedCalm DEF Calm, Unmoved, Running
  <2>2. kernel'.prio = kernel.prio
    <3>1. ASSUME NEW m \in Mutexes, Acquired(t, m) PROVE kernel'.prio = kernel.prio
      BY <3>1 DEF Acquired, Types, Kernel
    <3> QED
      BY <1>5, <3>1, CalmDisturbance DEF Undisturbed
  <2> QED
    BY <1>4, <2>1, <2>2
<1>6. ASSUME NEW t \in Tasks, vTaskSuspendAll(t) \/ AdjustNext(t) PROVE Top'
  <2>1. ~switch /\ Still(kernel, kernel') /\ kernel'.current = kernel.current
    BY <1>6, Suspended, Adjusted DEF Running
  <2> QED
    BY <1>4, <2>1 DEF Still
<1>7. ASSUME NEW t \in Tasks, vTaskPlaceOnEventList(t) PROVE Top'
  <2>1. PICK s \in Semaphores : s = job[t].call.sem
    BY <1>7, Blocked
  <2>2. CASE s \notin Mutexes
    <3>1. /\ Running(t) /\ kernel'.prio = Heir(s).prio /\ Put(kernel, kernel', job[t].ticks, TRUE)
      BY <1>7, <2>1, Blocked
    <3>2. kernel'.prio = kernel.prio /\ kernel'.current = kernel.current /\ kernel.current = t /\ ~switch
      BY <2>2, <3>1 DEF Heir, Put, Running
    <3>3. \A u \in Tasks : kernel'.list[u] = "ready" => kernel.list[u] = "ready"
      BY <3>1 DEF Put, Asleep
    <3> QED
      BY <1>4, <3>2, <3>3
  <2>3. CASE s \in Mutexes
    <3>1. SleepsOn(t, s)
      BY <1>7, <2>1 DEF SleepsOn
    <3>2. /\ kernel.current = t /\ kernel'.current = t /\ kernel'.list[t] # "ready"
          /\ \A u \in Tasks : u # t => kernel'.list[u] = kernel.list[u]
      BY <2>3, <3>1, Bequest DEF Ranks
    <3>3. PICK h \in Tasks :
            /\ h # t /\ \A u \in Tasks : u # h => kernel'.prio[u] = kernel.prio[u]
            /\ \/ kernel'.prio[h] = kernel.prio[h]
               \/ kernel'.prio[h] = kernel.prio[t] /\ kernel.prio[h] < kernel.prio[t]
      BY <2>3, <3>1, Bequest DEF Ranks
    <3>4. ~switch
      BY <1>7 DEF vTaskPlaceOnEventList, At, Running
    <3>5. ASSUME NEW u \in Tasks, kernel'.list[u] = "ready"
          PROVE  kernel'.prio[u] <= kernel'.prio[t]
      <4>1. kernel.prio[u] <= kernel.prio[t]
        BY <1>3, <3>2, <3>4, <3>5 DEF Top
      <4> QED
        BY <1>2, <3>3, <4>1
    <3> QED
      BY <3>2, <3>5 DEF Top
  <2> QED
    BY <2>2, <2>3
<1>8. ASSUME NEW t \in Tasks, Place(t) PROVE Top'
  <2>1. /\ ~switch /\ Put(kernel, kernel', job[t].ticks, FALSE) /\ kernel'.prio = kernel.prio
    BY <1>8, Placed DEF Running
  <2>2. kernel'.current = kernel.current
        /\ \A u \in Tasks : kernel'.list[u] = "ready" => kernel.list[u] = "ready"
    BY <2>1 DEF Put, Asleep
  <2> QED
    BY <1>4, <2>1, <2>2
<1>9. ASSUME NEW t \in Tasks, prvUnlockQueue(t) PROVE Top'
  <2>1. PICK s \in Semaphores : s = job[t].call.sem
    BY <1>9, Opened
  <2>2. ~switch /\ \E n \in 0..Len(kernel.waiting[s]) : Unlocked(kernel, s, n, kernel')
    BY <1>9, <2>1, Opened DEF Running
  <2>3. kernel'.current = kernel.current /\ kernel'.prio = kernel.prio /\ kernel'.list = kernel.list
    BY <2>2 DEF Unlocked
  <2> QED
    BY <1>4, <2>2, <2>3
<1>10. ASSUME NEW W, Resumed(kernel, kernel', W), ~switch, kernel'.yield => switch' PROVE Top'
  <2>1. /\ W \in SUBSET Tasks /\ kernel'.current = kernel.current /\ kernel'.prio = kernel.prio
        /\ ~kernel'.stopped
        /\ \A u \in kernel.pending \union W :
             kernel'.yield \/ kernel.prio[u] < kernel.prio[kernel.current]
        /\ \A u \in Tasks \ (kernel.pending \union W) :
             kernel'.list[u] = kernel.list[u] \/ (kernel.list[u] \in Timed /\ kernel'.list[u] \in Timed)
    BY <1>10 DEF Resumed
  <2>2. kernel.current \in Tasks
    BY DEF Types, Kernel
  <2>3. ASSUME NEW u \in Tasks, kernel'.list[u] = "ready"
        PROVE  \/ kernel.list[u] = "ready" \/ (~kernel'.stopped /\ switch')
               \/ kernel.prio[u] <= kernel.prio[kernel.current]
    BY <1>2, <1>10, <2>1, <2>2, <2>3 DEF Timed
  <2> QED
    BY <1>3, <1>10, <2>1, <2>3, TopKept
<1>11. ASSUME NEW t \in Tasks, Resume(t) PROVE Top'
  <2>1. PICK W : Resumed(kernel, kernel', W)
    BY <1>11, Restarted
  <2>2. ~switch /\ (kernel'.yield => switch')
    BY <1>11 DEF Resume, At, Running
  <2> QED
    BY <1>10, <2>1, <2>2
<1>12. ASSUME IdleResume PROVE Top'
  <2>1. PICK W : Resumed(kernel, kernel', W)
    BY <1>12, IdleRestarted
  <2>2. ~switch /\ (kernel'.yield => switch')
    BY <1>12 DEF IdleResume, At, Running
  <2> QED
    BY <1>10, <2>1, <2>2
<1>13. ASSUME NEW t \in Tasks, Give(t) PROVE Top'
  <2>1. PICK s \in Semaphores : GivenTo(t, s) /\ UNCHANGED job
    BY <1>13, Given
  <2>2. Running(t) /\ ~kernel.stopped /\ job[t].pc = "run"
    BY <1>13, Given
  <2>3. CASE s \in Mutexes
    <3>1. Returned(t, s)
      BY <2>1, <2>2, <2>3 DEF Returned
    <3> QED
      BY <2>3, <3>1, TopReturned
  <2>4. CASE s \notin Mutexes
    <3>1. Quit(t, s) = kernel
      BY <2>4 DEF Quit
    <3>2. \/ kernel' = kernel
          \/ kernel.waiting[s] # <<>> /\ Removed(kernel, s, kernel') /\ switch' = WakesHigher(kernel, s)
      BY <2>1, <3>1, Zenon DEF GivenTo
    <3>3. ~switch
      BY <2>2 DEF Running
    <3>4. CASE kernel' = kernel
      BY <1>4, <3>3, <3>4
    <3>5. CASE /\ kernel.waiting[s] # <<>> /\ Removed(kernel, s, kernel')
               /\ switch' = WakesHigher(kernel, s)
      BY <1>3, <3>3, <3>5, TopWoken
    <3> QED
      BY <3>2, <3>4, <3>5
  <2> QED
    BY <2>3, <2>4
<1>14. ASSUME NEW s \in Semaphores, xQueueGiveFromISR(s) PROVE Top'
  <2>1. \/ kernel' = kernel /\ switch' = switch
        \/ /\ kernel.waiting[s] # <<>> /\ Removed(kernel, s, kernel')
           /\ switch' = (switch \/ WakesHigher(kernel, s))
    BY <1>14, GivenFromISR
  <2>2. CASE kernel' = kernel /\ switch' = switch
    BY <1>3, <2>2 DEF Top
  <2>3. CASE /\ kernel.waiting[s] # <<>> /\ Removed(kernel, s, kernel')
             /\ switch' = (switch \/ WakesHigher(kernel, s))
    <3>1. kernel'.stopped = kernel.stopped
      BY <2>3 DEF Removed
    <3>2. (switch => switch') /\ (WakesHigher(kernel, s) => switch')
      BY <2>3, Zenon
    <3> QED
      BY <1>3, <2>3, <3>1, <3>2, TopWoken
  <2> QED
    BY <2>1, <2>2, <2>3
<1>15. ASSUME NEW t \in Tasks, xTaskCreate(t) PROVE Top'
  <2>1. PICK u \in Tasks : /\ \A x \in Tasks \ {u} : kernel'.list[x] = kernel.list[x]
                           /\ switch' = (kernel.prio[t] < kernel.prio[u])
    BY <1>15, Created
  <2>2. /\ Kept(kernel, kernel') /\ Running(t) /\ ~kernel.stopped
    BY <1>15, Created
  <2>3. /\ kernel.current = t /\ ~switch /\ kernel'.current = kernel.current
        /\ kernel'.prio = kernel.prio /\ ~kernel'.stopped
    BY <2>2 DEF Kept, Running
  <2>4. switch' \/ ~(kernel.prio[t] < kernel.prio[u])
    BY <2>1, Zenon
  <2>5. switch' \/ kernel.prio[u] <= kernel.prio[kernel.current]
    BY <1>2, <2>3, <2>4
  <2> QED
    BY <1>3, <2>1, <2>3, <2>5, TopKept
<1>16. ASSUME NEW t \in Tasks, vTaskDelete(t) PROVE Top'
  <2>1. switch' /\ ~kernel'.stopped
    BY <1>16, Deleted DEF Kept
  <2> QED
    BY <2>1 DEF Top
<1>17. ASSUME Reap PROVE Top'
  <2>1. PICK u \in Tasks : /\ kernel'.list[u] = "none"
                           /\ \A x \in Tasks \ {u} : kernel'.list[x] = kernel.list[x]
    BY <1>17, Reaped
  <2>2. Kept(kernel, kernel') /\ ~switch
    BY <1>17, Reaped DEF Running
  <2>3. \A x \in Tasks : kernel'.list[x] = "ready" => kernel.list[x] = "ready"
    BY <2>1
  <2> QED
    BY <1>4, <2>2, <2>3 DEF Kept
<1>18. ASSUME IdleSuspend PROVE Top'
  <2>1. ~switch /\ Still(kernel, kernel') /\ kernel'.current = kernel.current
    BY <1>18, IdleSuspended DEF Running
  <2> QED
    BY <1>4, <2>1 DEF Still
<1>19. ASSUME Tick PROVE Top'
  <2>1. switch => switch'
    BY <1>19, Ticked
  <2>2. CASE kernel' = [kernel EXCEPT !.pended = @ + 1]
    <3>1. /\ kernel'.current = kernel.current /\ kernel'.list = kernel.list
          /\ kernel'.prio = kernel.prio /\ kernel'.stopped = kernel.stopped
      BY <2>2 DEF Types, Kernel
    <3> QED
      BY <1>3, <2>1, <3>1, TopKept
  <2>3. ASSUME NEW A, TickedTo(A), ~kernel.stopped PROVE Top'
    <3>1. /\ Woke(kernel, A) /\ kernel'.list = A.list /\ kernel'.current = A.current
          /\ kernel'.prio = A.prio /\ kernel'.stopped = A.stopped /\ (A.yield => switch')
      BY <2>3 DEF TickedTo, Passed
    <3>2. /\ kernel'.current = kernel.current /\ kernel'.prio = kernel.prio
          /\ kernel'.stopped = kernel.stopped
      BY <3>1 DEF Woke, Kept
    <3>3. ASSUME NEW u \in Tasks, kernel'.list[u] = "ready"
          PROVE  \/ kernel.list[u] = "ready" \/ (~kernel'.stopped /\ switch')
                 \/ kernel.prio[u] <= kernel.prio[kernel.current]
      <4>1. kernel.current \in Tasks
        BY DEF Types, Kernel
      <4>2. \/ kernel.list[u] = "ready"
            \/ A.yield \/ kernel.prio[u] < kernel.prio[kernel.current]
        BY <3>1, <3>3 DEF Woke, Timed
      <4> QED
        BY <1>2, <2>3, <3>1, <3>2, <4>1, <4>2
    <3> QED
      BY <1>3, <2>1, <3>2, <3>3, TopKept
  <2> QED
    BY <1>19, <2>2, <2>3, Ticked
<1>20. ASSUME vTaskSwitchContext PROVE Top'
  <2>1. Still(kernel, kernel') /\ kernel'.stopped = kernel.stopped
    BY <1>20, Switched
  <2>2. kernel'.list = kernel.list /\ kernel'.prio = kernel.prio
    BY <2>1 DEF Still
  <2>3. \/ kernel.stopped /\ kernel'.current = kernel.current
        \/ \A u \in Tasks : kernel.list[u] = "ready" =>
              kernel.prio[u] <= kernel.prio[kernel'.current]
    BY <1>20, Switched
  <2> QED
    BY <1>3, <2>1, <2>2, <2>3 DEF Top
<1>21. ASSUME NEW t \in Tasks,
              \/ Take(t) \/ TakeAgain(t) \/ AssertionFails(t) \/ prvLockQueue(t) \/ Look(t)
              \/ Late(t) \/ Disinherit(t) \/ vTaskDelay(t) \/ Awake(t)
       PROVE  TakesCalmly(t) \/ StaysCalm(t)
  BY <1>21 DEF TakesCalmly, StaysCalm
<1> QED
  BY <1>5, <1>6, <1>7, <1>8, <1>9, <1>11, <1>12, <1>13, <1>14, <1>15, <1>16, <1>17, <1>18, <1>19,
     <1>20, <1>21 DEF Next

(* Every action keeps the priorities in order.                             *)
LEMMA RanksStep ==
  ASSUME Types, Types', Control, Locks, Queues, Owners, OneAtATime, Ranks, Next
  PROVE  Ranks'
<1>1. Above' /\ Lent' /\ Sorted' /\ Raised' /\ Top'
  BY AboveStep, LentStep, SortedStep, RaisedStep, TopStep
<1>2. \A m \in Mutexes : Awaited(m)'
  BY AwaitedStep
<1> QED
  BY <1>1, <1>2 DEF Ranks

(* At the start every mutex is available, nobody waits and the main task   *)
(* runs above the idle task.                                               *)
LEMMA InitRanks ==
  ASSUME Init
  PROVE  Owners /\ Ranks
<1>1. /\ kernel.current = Main /\ kernel.prio = BasePriority /\ kernel.stopped = FALSE
      /\ kernel.list = [t \in Tasks |-> IF t \in {Main, Idle} THEN "ready" ELSE "none"]
      /\ kernel.held = [t \in Tasks |-> 0] /\ kernel.waiting = [s \in Semaphores |-> <<>>]
  BY DEF Init, NewKernel
<1>2. /\ \A t \in Tasks : job[t].pc = "run" /\ kernel.held[t] = 0
      /\ \A m \in Mutexes : /\ sem[m].count = 1 /\ sem[m].holder = NoTask /\ sem[m].txLock = -1
                            /\ kernel.waiting[m] = <<>>
  BY <1>1, KernelAssumption DEF Init, NewSemaphore, NoJob
<1>3. \A m \in Mutexes : Elements(kernel.waiting[m]) = {}
  <2>1. 1..Len(<<>>) = {}
    OBVIOUS
  <2> QED
    BY <1>2, <2>1 DEF Elements
<1>4. \A t \in Tasks : ~InTake(t)
  BY <1>2 DEF InTake, CallPcs, TakePcs
<1>5. Owners
  BY <1>2, <1>3, <1>4 DEF Owners, Owned, Sole, WaitsOn, Bedded
<1>6. \A t \in Tasks : BasePriority[t] \in Nat
  BY KernelAssumption
<1>7. Above /\ Lent /\ Raised
  BY <1>1, <1>2, <1>6 DEF Above, Lent, Raised
<1>8. Sorted
  <2>1. 1..Len(<<>>) = {}
    OBVIOUS
  <2> QED
    BY <1>2, <2>1 DEF Sorted, Ordered
<1>9. \A m \in Mutexes : Awaited(m)
  BY <1>2 DEF Awaited
<1>10. Top
  <2>1. BasePriority[Idle] = 0 /\ Idle \in Tasks /\ Main \in Tasks
    BY KernelAssumption
  <2>2. \A t \in Tasks : kernel.list[t] = "ready" => t \in {Main, Idle}
    BY <1>1
  <2> QED
    BY <1>1, <1>6, <2>1, <2>2 DEF Top
<1> QED
  BY <1>5, <1>7, <1>8, <1>9, <1>10 DEF Ranks

(* Every step of a program whose tasks hold one mutex at a time keeps the  *)
(* bookkeeping and the priorities in order.                                *)
LEMMA InOrder ==
  ASSUME UnlimitedMutexes, Bookkeeping, Bookkeeping', Owners, Ranks, OneAtATime, OneAtATime',
         [Next]_vars
  PROVE  Owners' /\ Ranks'
<1>1. CASE UNCHANGED vars
  <2>1. kernel' = kernel /\ sem' = sem /\ switch' = switch /\ job' = job
    BY <1>1 DEF vars
  <2>2. Owners'
    BY <2>1 DEF Owners, Owned, Sole, WaitsOn, Bedded, InTake
  <2>3. Above' /\ Lent' /\ Sorted' /\ Raised' /\ Top'
    BY <2>1 DEF Ranks, Above, Lent, Sorted, Ordered, Raised, Top
  <2>4. \A m \in Mutexes : Awaited(m)'
    BY <2>1 DEF Ranks, Awaited, OnItsWay, Up, InTake
  <2> QED
    BY <2>2, <2>3, <2>4 DEF Ranks
<1>2. CASE Next
  <2>1. /\ Types /\ Control /\ Locks /\ Queues
        /\ Types' /\ Queues'
    BY DEF Bookkeeping
  <2> QED
    BY <1>2, <2>1, OwnersStep, RanksStep
<1> QED
  BY <1>1, <1>2

(* The priorities are in order in every reachable state.                   *)
THEOREM PrioritiesInOrder ==
  ASSUME UnlimitedMutexes
  PROVE  Spec /\ []OneAtATime => [](Bookkeeping /\ Owners /\ Ranks)
<1>1. Init => Owners /\ Ranks
  BY InitRanks
<1>2. /\ Bookkeeping /\ Bookkeeping' /\ Owners /\ Ranks /\ OneAtATime /\ OneAtATime'
      /\ [Next]_vars
      => Owners' /\ Ranks'
  BY InOrder
<1> QED
  BY <1>1, <1>2, BookkeepingHolds, PTL DEF Spec

(* The task of the highest priority runs.  vTaskSwitchContext, the demands *)
(* for a switch in every call, and inheritance keep it so, for any tasks,  *)
(* priorities and calls, as long as mutexes are waited for without a time  *)
(* limit and held one at a time.                                           *)
THEOREM TheHighestRuns ==
  ASSUME UnlimitedMutexes
  PROVE  Spec /\ []OneAtATime => []HighestRuns
<1>1. Bookkeeping /\ Owners /\ Ranks => HighestRuns
  BY DEF Bookkeeping, Queues, Runner, Ranks, Top, HighestRuns
<1> QED
  BY <1>1, PrioritiesInOrder, PTL

(* Nobody waits for a holder of a lower priority.                          *)
THEOREM NobodyIsInverted ==
  ASSUME UnlimitedMutexes
  PROVE  Spec /\ []OneAtATime => []NoInversion
<1>1. Bookkeeping /\ Owners /\ Ranks => NoInversion
  <2> SUFFICES ASSUME Ranks, NEW m \in Mutexes, NEW i \in 1..Len(kernel.waiting[m]),
                      sem[m].holder # NoTask
               PROVE  kernel.prio[sem[m].holder] >= BasePriority[kernel.waiting[m][i]]
    BY DEF NoInversion
  <2>1. kernel.waiting[m][i] \in Elements(kernel.waiting[m])
    BY DEF Elements
  <2> QED
    BY <2>1 DEF Ranks, Raised
<1> QED
  BY <1>1, PrioritiesInOrder, PTL

(* The configASSERT at the end of xQueueSemaphoreTake never fails: nobody  *)
(* gives up on a mutex while a holder has its priority.                    *)
THEOREM NobodyAsserts ==
  ASSUME UnlimitedMutexes
  PROVE  Spec /\ []OneAtATime => []~Fatal
<1>1. Bookkeeping /\ Owners /\ Ranks => ~Fatal
  <2> SUFFICES ASSUME Bookkeeping, Owners, NEW t \in Tasks, job[t].pc = "fatal" PROVE FALSE
    BY DEF Fatal
  <2>1. InTake(t)
    BY DEF Bookkeeping, Control, InTake, CallPcs, TakePcs
  <2> QED
    BY <2>1 DEF Owners, WaitsOn
<1> QED
  BY <1>1, PrioritiesInOrder, PTL

-----------------------------------------------------------------------------
(* Tasks that use one mutex each                                           *)

(* A task whose calls take a single mutex holds no other when it asks for  *)
(* it: it does not ask for one it holds.                                   *)
OneMutexEach ==
  \A t \in Tasks : \A c, d \in Calls[t] :
    /\ c.op = "take" /\ c.sem \in Mutexes
    /\ d.op = "take" /\ d.sem \in Mutexes
    => c.sem = d.sem

(* A mutex is held by a task that has a call for it, and counted by no     *)
(* other.                                                                  *)
Ownership ==
  /\ \A t \in Tasks : InTake(t) => job[t].call \in Calls[t]
  /\ \A m \in Mutexes : sem[m].holder # NoTask =>
        \E c \in Calls[sem[m].holder] : c.op = "take" /\ c.sem = m
  /\ \A t \in Tasks : kernel.held[t] # 0 => \E m \in Mutexes : sem[m].holder = t

(* A task in a call is in the one it was in, or makes a call for a         *)
(* semaphore that it does not hold.                                        *)
LEMMA CallGoesOn ==
  ASSUME Types, Control, Locks, Next, NEW u \in Tasks, InTake(u)'
  PROVE  \/ InTake(u) /\ job'[u].call = job[u].call
         \/ /\ job'[u].call \in Calls[u] /\ sem[job'[u].call.sem].holder # u
            /\ kernel' = kernel
<1> DEFINE Goal == \/ InTake(u) /\ job'[u].call = job[u].call
                   \/ /\ job'[u].call \in Calls[u] /\ sem[job'[u].call.sem].holder # u
                      /\ kernel' = kernel
<1>1. ASSUME job'[u] = job[u] PROVE Goal
  BY <1>1 DEF InTake
<1>2. ASSUME SameCall(job[u], job'[u]), job[u].pc \in CallPcs PROVE Goal
  BY <1>2 DEF InTake, SameCall
<1>3. ASSUME NEW t \in Tasks, TakesCalmly(t) PROVE Goal
  <2>1. PICK j \in Job :
          /\ j.call.op = "take" /\ Tried(t, j) /\ job[t].pc \in {"run", "take"}
          /\ job[t].pc = "take" => j = job[t]
          /\ job[t].pc = "run" => j.call \in Calls[t] /\ sem[j.call.sem].holder # t
    BY <1>3, TakenCalmly
  <2>2. \A x \in Tasks \ {t} : job'[x] = job[x]
    BY <1>3, TakenCalmly DEF Calm
  <2>3. CASE t # u
    BY <1>1, <2>2, <2>3
  <2>4. CASE t = u
    <3>1. job'[u] # NoJob
      BY DEF InTake, NoJob, CallPcs, TakePcs
    <3>2. kernel' = kernel /\ SameCall(j, job'[u])
      BY <2>1, <2>4, <3>1 DEF Tried
    <3>3. CASE job[u].pc = "take"
      BY <1>2, <2>1, <2>4, <3>2, <3>3 DEF CallPcs, TakePcs
    <3>4. CASE job[u].pc = "run"
      BY <2>1, <2>4, <3>2, <3>4 DEF SameCall
    <3> QED
      BY <2>1, <2>4, <3>3, <3>4
  <2> QED
    BY <2>3, <2>4
<1>4. ASSUME NEW t \in Tasks, StaysCalm(t) PROVE Goal
  <2>1. /\ \A x \in Tasks \ {t} : job'[x] = job[x]
        /\ job[t].pc # "run" /\ job'[t].pc # "run" => job'[t].call = job[t].call
        /\ job[t].pc \in {"run", "take", "lock", "look", "late", "disinherit", "asleep"}
    BY <1>4, StayedCalm DEF Calm
  <2>2. CASE t # u
    BY <1>1, <2>1, <2>2
  <2>3. CASE t = u /\ job[t].pc # "run"
    <3>1. job'[u].pc # "run" /\ job[u].pc \in CallPcs
      BY <2>1, <2>3 DEF InTake, CallPcs, TakePcs
    <3> QED
      BY <2>1, <2>3, <3>1 DEF InTake
  <2>4. CASE t = u /\ job[t].pc = "run"
    <3>1. vTaskDelay(u)
      BY <1>4, <2>4 DEF StaysCalm, AssertionFails, prvLockQueue, Look, Late, Disinherit, Awake, At
    <3>2. PICK c \in Calls[u] : c.op = "delay" /\ job'[u] = Started(c, "stop")
      BY <3>1, Dozed
    <3>3. Started(c, "stop").call = c
      BY DEF Started
    <3> QED
      BY <3>2, <3>3 DEF InTake
  <2> QED
    BY <2>2, <2>3, <2>4
<1>5. ASSUME NEW t \in Tasks, \A x \in Tasks \ {t} : job'[x] = job[x],
             SameCall(job[t], job'[t]), job[t].pc \in CallPcs
      PROVE  Goal
  BY <1>1, <1>2, <1>5
<1>6. ASSUME NEW t \in Tasks, vTaskSuspendAll(t) \/ AdjustNext(t) \/ Place(t) PROVE Goal
  <2>1. CASE vTaskSuspendAll(t)
    BY <1>5, <2>1, Suspended DEF CallPcs, TakePcs
  <2>2. CASE AdjustNext(t)
    BY <1>5, <2>2, Adjusted DEF CallPcs, TakePcs
  <2>3. CASE Place(t)
    BY <1>5, <2>3, Placed DEF CallPcs, TakePcs
  <2> QED
    BY <1>6, <2>1, <2>2, <2>3
<1>7. ASSUME NEW t \in Tasks, vTaskPlaceOnEventList(t) PROVE Goal
  <2>1. /\ job[t].pc = "block" /\ job[t].call.op = "take" /\ job'[t].call = job[t].call
        /\ \A x \in Tasks \ {t} : job'[x] = job[x]
    BY <1>7, Blocked
  <2>2. InTake(t)
    BY <2>1 DEF InTake, CallPcs, TakePcs
  <2> QED
    BY <1>1, <2>1, <2>2
<1>8. ASSUME NEW t \in Tasks, prvUnlockQueue(t) PROVE Goal
  <2>1. /\ job[t].pc = "unlock" /\ \A x \in Tasks \ {t} : job'[x] = job[x]
        /\ SameCall(job[t], job'[t])
    BY <1>8, Opened
  <2> QED
    BY <1>5, <2>1 DEF CallPcs, TakePcs
<1>9. ASSUME NEW t \in Tasks, Resume(t) PROVE Goal
  <2>1. /\ job[t].pc = "resume" /\ \A x \in Tasks \ {t} : job'[x] = job[x]
        /\ SameCall(job[t], job'[t])
    BY <1>9, Restarted
  <2> QED
    BY <1>5, <2>1 DEF CallPcs
<1>10. ASSUME IdleSuspend \/ IdleResume PROVE Goal
  <2>1. job'[Idle].pc \in {"idle", "run"} /\ \A x \in Tasks \ {Idle} : job'[x] = job[x]
    BY <1>10, IdleSuspended, IdleRestarted
  <2>2. u # Idle
    BY <2>1 DEF InTake, CallPcs, TakePcs
  <2> QED
    BY <1>1, <2>1, <2>2
<1>11. ASSUME \/ \E t \in Tasks : Give(t) \/ xTaskCreate(t) \/ vTaskDelete(t)
              \/ \E s \in Semaphores : xQueueGiveFromISR(s)
              \/ Reap \/ Tick \/ vTaskSwitchContext
       PROVE  Goal
  <2>1. UNCHANGED job
    BY <1>11 DEF Give, xTaskCreate, vTaskDelete, xQueueGiveFromISR, Reap, Tick, vTaskSwitchContext
  <2> QED
    BY <1>1, <2>1
<1> QED
  BY <1>3, <1>4, <1>6, <1>7, <1>8, <1>9, <1>10, <1>11 DEF Next, TakesCalmly, StaysCalm

(* Tasks with one mutex each go on to hold one at a time.                  *)
LEMMA OwnershipStep ==
  ASSUME OneMutexEach, Types, Control, Locks, Queues, Owners, OneAtATime, Ownership, Next
  PROVE  OneAtATime' /\ Ownership'
<1>1. Mutexes \subseteq Semaphores /\ NoTask \notin Tasks
  BY KernelAssumption
<1>2. kernel.held \in [Tasks -> Int] /\ \A t \in Tasks : kernel.held[t] \in Int
  BY DEF Types, Kernel
<1>3. ASSUME NEW t \in Tasks, NEW c \in Calls[t], c.op = "take", c.sem \in Mutexes,
             sem[c.sem].holder # t
      PROVE  kernel.held[t] = 0
  <2> SUFFICES ASSUME kernel.held[t] # 0 PROVE FALSE
    OBVIOUS
  <2>1. PICK n \in Mutexes : sem[n].holder = t
    BY DEF Ownership
  <2>2. PICK d \in Calls[t] : d.op = "take" /\ d.sem = n
    BY <1>1, <2>1 DEF Ownership
  <2> QED
    BY <1>3, <2>1, <2>2 DEF OneMutexEach
<1>4. ASSUME NEW t \in Tasks, NEW m \in Mutexes, Acquired(t, m)
      PROVE  /\ kernel.held[t] = 0 /\ kernel'.held[t] = 1 /\ job'[t] = NoJob
             /\ \A u \in Tasks \ {t} : kernel'.held[u] = kernel.held[u]
             /\ sem[m].holder = NoTask /\ sem'[m].holder = t
             /\ \A n \in Mutexes \ {m} : sem'[n] = sem[n]
             /\ \E c \in Calls[t] : c.op = "take" /\ c.sem = m
  <2>1. /\ \/ job[t].pc = "run" /\ \E c \in Calls[t] : c.op = "take" /\ c.sem = m
           \/ job[t].pc = "take" /\ InTake(t) /\ job[t].call.sem = m
        /\ sem[m].count = 1 /\ sem'[m].holder = t /\ job'[t] = NoJob
        /\ \A n \in Mutexes \ {m} : sem'[n] = sem[n]
        /\ kernel' = [kernel EXCEPT !.held[t] = @ + 1]
    BY <1>1, <1>4 DEF Acquired
  <2>2. sem[m].holder = NoTask
    BY <2>1 DEF Owners, Owned
  <2>3. PICK c \in Calls[t] : c.op = "take" /\ c.sem = m
    BY <2>1 DEF Ownership, InTake
  <2>4. kernel.held[t] = 0
    BY <1>1, <1>3, <2>2, <2>3
  <2>5. kernel'.held = [kernel.held EXCEPT ![t] = @ + 1]
    BY <2>1 DEF Types, Kernel
  <2>6. kernel'.held[t] = 1 /\ \A u \in Tasks \ {t} : kernel'.held[u] = kernel.held[u]
    BY <1>2, <2>4, <2>5
  <2> QED
    BY <2>1, <2>2, <2>3, <2>4, <2>6
<1>5. ASSUME NEW t \in Tasks, NEW m \in Mutexes, Returned(t, m)
      PROVE  /\ kernel.held[t] = 1 /\ kernel'.held[t] = 0 /\ job[t].pc = "run" /\ UNCHANGED job
             /\ \A u \in Tasks \ {t} : kernel'.held[u] = kernel.held[u]
             /\ sem[m].holder = t /\ sem'[m].holder = NoTask
             /\ \A n \in Mutexes \ {m} : sem'[n] = sem[n]
  <2>1. /\ kernel'.held = [kernel.held EXCEPT ![t] = @ - 1]
        /\ \A n \in Mutexes \ {m} : sem'[n] = sem[n]
        /\ sem[m].holder = t /\ sem'[m].holder = NoTask
    BY <1>1, <1>5, GivenBack
  <2>2. kernel.held[t] = 1
    BY <1>1, <2>1 DEF Owners, Owned
  <2>3. kernel'.held[t] = 0 /\ \A u \in Tasks \ {t} : kernel'.held[u] = kernel.held[u]
    BY <1>2, <2>1, <2>2
  <2> QED
    BY <1>5, <2>1, <2>2, <2>3 DEF Returned
<1>6. ASSUME NEW t \in Tasks, NEW m \in Mutexes, SleepsOn(t, m)
      PROVE  kernel'.held = kernel.held /\ sem' = sem
  BY <1>6, Blocked DEF SleepsOn
<1>7. \A u \in Tasks : kernel'.held[u] <= 1
  <2> TAKE u \in Tasks
  <2>1. kernel.held[u] <= 1
    BY DEF OneAtATime
  <2>2. kernel'.held[u] \in {0, 1, kernel.held[u]}
    BY <1>4, <1>5, <1>6, Disturbances DEF Undisturbed
  <2> QED
    BY <2>1, <2>2
<1>8. ASSUME NEW u \in Tasks, InTake(u)', job'[u].call.sem \in Mutexes
      PROVE  kernel'.held[u] = 0
  <2>1. CASE InTake(u) /\ job'[u].call = job[u].call
    <3>1. kernel.held[u] = 0
      BY <1>8, <2>1 DEF OneAtATime
    <3>2. ASSUME NEW t \in Tasks, NEW m \in Mutexes, Acquired(t, m) PROVE kernel'.held[u] = kernel.held[u]
      <4>1. u # t
        BY <1>4, <1>8, <3>2 DEF InTake, NoJob, CallPcs, TakePcs
      <4> QED
        BY <1>4, <3>2, <4>1
    <3>3. ASSUME NEW t \in Tasks, NEW m \in Mutexes, Returned(t, m) PROVE kernel'.held[u] = kernel.held[u]
      <4>1. u # t
        BY <1>5, <2>1, <3>3 DEF InTake, CallPcs, TakePcs
      <4> QED
        BY <1>5, <3>3, <4>1
    <3> QED
      BY <1>6, <3>1, <3>2, <3>3, Disturbances DEF Undisturbed
  <2>2. CASE /\ job'[u].call \in Calls[u] /\ sem[job'[u].call.sem].holder # u /\ kernel' = kernel
    BY <1>3, <1>8, <2>2 DEF InTake
  <2> QED
    BY <1>8, <2>1, <2>2, CallGoesOn
<1>9. OneAtATime'
  BY <1>7, <1>8 DEF OneAtATime
<1>10. ASSUME NEW u \in Tasks, InTake(u)' PROVE job'[u].call \in Calls[u]
  BY <1>10, CallGoesOn DEF Ownership
<1>11. ASSUME NEW m \in Mutexes, sem'[m].holder # NoTask
       PROVE  \E c \in Calls[sem'[m].holder] : c.op = "take" /\ c.sem = m
  <2>1. sem[m].holder # NoTask => \E c \in Calls[sem[m].holder] : c.op = "take" /\ c.sem = m
    BY DEF Ownership
  <2>2. ASSUME NEW t \in Tasks, NEW n \in Mutexes, Acquired(t, n)
        PROVE  \E c \in Calls[sem'[m].holder] : c.op = "take" /\ c.sem = m
    BY <1>4, <1>11, <2>1, <2>2
  <2>3. ASSUME NEW t \in Tasks, NEW n \in Mutexes, Returned(t, n)
        PROVE  \E c \in Calls[sem'[m].holder] : c.op = "take" /\ c.sem = m
    BY <1>5, <1>11, <2>1, <2>3
  <2> QED
    BY <1>6, <1>11, <2>1, <2>2, <2>3, Disturbances DEF Undisturbed
<1>12. ASSUME NEW u \in Tasks, kernel'.held[u] # 0
       PROVE  \E m \in Mutexes : sem'[m].holder = u
  <2>1. kernel.held[u] # 0 => \E m \in Mutexes : sem[m].holder = u
    BY DEF Ownership
  <2>2. ASSUME NEW t \in Tasks, NEW n \in Mutexes, Acquired(t, n)
        PROVE  \E m \in Mutexes : sem'[m].holder = u
    <3>1. CASE u = t
      BY <1>4, <2>2, <3>1
    <3>2. CASE u # t
      <4>1. PICK m \in Mutexes : sem[m].holder = u
        BY <1>4, <1>12, <2>1, <2>2, <3>2
      <4>2. m # n
        BY <1>1, <1>4, <2>2, <4>1
      <4> QED
        BY <1>4, <2>2, <4>1, <4>2
    <3> QED
      BY <3>1, <3>2
  <2>3. ASSUME NEW t \in Tasks, NEW n \in Mutexes, Returned(t, n)
        PROVE  \E m \in Mutexes : sem'[m].holder = u
    <3>1. u # t
      BY <1>5, <1>12, <2>3
    <3>2. PICK m \in Mutexes : sem[m].holder = u
      BY <1>5, <1>12, <2>1, <2>3, <3>1
    <3>3. m # n
      BY <1>5, <2>3, <3>1, <3>2
    <3> QED
      BY <1>5, <2>3, <3>2, <3>3
  <2> QED
    BY <1>6, <1>12, <2>1, <2>2, <2>3, Disturbances DEF Undisturbed
<1>13. Ownership'
  BY <1>10, <1>11, <1>12 DEF Ownership
<1> QED
  BY <1>9, <1>13

(* Tasks with one mutex each hold one at a time.                           *)
THEOREM OneMutexAtATime ==
  ASSUME UnlimitedMutexes, OneMutexEach
  PROVE  Spec => []OneAtATime
<1>1. Init => Owners /\ OneAtATime /\ Ownership
  <2> SUFFICES ASSUME Init PROVE Owners /\ OneAtATime /\ Ownership
    OBVIOUS
  <2>1. Owners
    BY InitRanks
  <2>2. /\ \A t \in Tasks : job[t].pc = "run" /\ kernel.held[t] = 0
        /\ \A m \in Mutexes : sem[m].holder = NoTask
    BY KernelAssumption DEF Init, NewKernel, NewSemaphore, NoJob
  <2>3. \A t \in Tasks : ~InTake(t)
    BY <2>2 DEF InTake, CallPcs, TakePcs
  <2> QED
    BY <2>1, <2>2, <2>3 DEF OneAtATime, Ownership
<1>2. /\ Bookkeeping /\ Bookkeeping' /\ Owners /\ OneAtATime /\ Ownership /\ [Next]_vars
      => Owners' /\ OneAtATime' /\ Ownership'
  <2> SUFFICES ASSUME Bookkeeping, Bookkeeping', Owners, OneAtATime, Ownership, [Next]_vars
               PROVE  Owners' /\ OneAtATime' /\ Ownership'
    OBVIOUS
  <2>1. Types /\ Control /\ Locks /\ Queues /\ Types' /\ Queues'
    BY DEF Bookkeeping
  <2>2. CASE UNCHANGED vars
    <3>1. kernel' = kernel /\ sem' = sem /\ job' = job
      BY <2>2 DEF vars
    <3>2. Owners'
      BY <3>1 DEF Owners, Owned, Sole, WaitsOn, Bedded, InTake
    <3>3. OneAtATime' /\ Ownership'
      BY <3>1 DEF OneAtATime, Ownership, InTake
    <3> QED
      BY <3>2, <3>3
  <2>3. CASE Next
    <3>1. OneAtATime' /\ Ownership'
      BY <2>1, <2>3, OwnershipStep
    <3> QED
      BY <2>1, <2>3, <3>1, OwnersStep
  <2> QED
    BY <2>2, <2>3
<1> QED
  BY <1>1, <1>2, BookkeepingHolds, PTL DEF Spec

(* With one mutex each, waited for without a time limit, the task of the   *)
(* highest priority runs, nobody waits for a holder of a lower priority,   *)
(* and the configASSERT of xQueueSemaphoreTake never fails.                *)
THEOREM PrioritiesHold ==
  ASSUME UnlimitedMutexes, OneMutexEach
  PROVE  Spec => [](HighestRuns /\ NoInversion /\ ~Fatal)
BY OneMutexAtATime, TheHighestRuns, NobodyIsInverted, NobodyAsserts, PTL

=============================================================================
