----------------------------- MODULE RtosKernel -----------------------------
(***************************************************************************)
(* The scheduler under every task of this firmware: FreeRTOS V10.0.1 as    *)
(* src/lib/freertos configures it, on one core of the K210 (both V2 images *)
(* are built with K210_RECOVERY_SINGLE_CORE=1).  The module has the calls  *)
(* the firmware makes: take and give of a semaphore and of a mutex, give   *)
(* from an interrupt, vTaskDelay, vTaskDelete(NULL), and what runs beside  *)
(* them: the tick, the soft interrupt that switches tasks, the idle task.  *)
(*                                                                         *)
(* A critical section is one action.  Between two of them ticks, gives     *)
(* from interrupts and task switches may come, and none of the last while  *)
(* the scheduler is suspended.                                             *)
(***************************************************************************)
EXTENDS Integers, Sequences, FiniteSets, FiniteSetsExt

CONSTANTS
    Tasks,          \* every task, Idle among them
    Idle,           \* the task prvIdleTask
    Main,           \* the task main_thunk of os_entry
    Semaphores,     \* binary semaphores and mutexes
    Mutexes,        \* those of Semaphores created as a mutex
    BasePriority,   \* task -> priority xTaskCreate was given
    Calls,          \* task -> the calls its code makes
    NoTask,         \* a NULL mutex holder
    TickMod,        \* the tick count is an unsigned number below TickMod
    MaxTicks,       \* bound: tick interrupts of a behaviour
    MaxGives        \* bound: gives from interrupts of a behaviour

\* A call is a record; the sets a task's Calls are made of.
portMAX_DELAY == TickMod - 1
TakeCall(s, n) == [op |-> "take", sem |-> s, ticks |-> n]
DelayCall(n)   == [op |-> "delay", ticks |-> n]
GiveCall(s)    == [op |-> "give", sem |-> s]
CreateCall(t)  == [op |-> "create", task |-> t]
DeleteCall     == [op |-> "delete"]

ASSUME KernelAssumption ==
    /\ IsFiniteSet(Tasks) /\ {Idle, Main} \subseteq Tasks /\ Idle # Main /\ NoTask \notin Tasks
    /\ Mutexes \subseteq Semaphores
    /\ BasePriority \in [Tasks -> Nat]
    /\ \A t \in Tasks : BasePriority[t] = 0 <=> t = Idle
    /\ TickMod \in Nat /\ TickMod > 2
    /\ \A t \in Tasks : Calls[t] \subseteq
           {TakeCall(s, n) : s \in Semaphores, n \in 0..portMAX_DELAY}
             \union {GiveCall(s) : s \in Semaphores}
             \union {DelayCall(n) : n \in 1..portMAX_DELAY}
             \union {CreateCall(u) : u \in Tasks \ {Idle}} \union {DeleteCall}
    /\ Calls[Idle] = {}

VARIABLES
    kernel,     \* the data of tasks.c and the lists of waiting tasks
    sem,        \* semaphore -> count, holder and cTxLock
    switch,     \* g_core_pending_switch: the soft interrupt is requested
    job,        \* task -> where it is in which call
    clock,      \* tick interrupts so far (bound, and the clock of NeverEarly)
    gives       \* gives from interrupts so far (bound)

vars == <<kernel, sem, switch, job, clock, gives>>

-----------------------------------------------------------------------------
(* The lists of tasks.c.  list[t] is the list that holds t's state item:   *)
(* a ready list (level[t] says of which priority), the delayed list, the   *)
(* overflow delayed list, the suspended list, the list of tasks waiting    *)
(* for termination, or none.  waiting[s] is xTasksWaitingToReceive; gives  *)
(* never block here, so that xTasksWaitingToSend stays empty.  The order   *)
(* of tasks of one priority in a ready list is left open.                  *)

Ready(K, p)  == {t \in Tasks : K.list[t] = "ready" /\ K.level[t] = p}
Delayed(K)   == {t \in Tasks : K.list[t] = "delayed"}
Lowest(K, S) == IF S = {} THEN portMAX_DELAY ELSE Min({K.wake[t] : t \in S})

\* prvAddTaskToReadyList for every task of S
prvAddTaskToReadyList(K, S) ==
    [K EXCEPT !.list  = [t \in Tasks |-> IF t \in S THEN "ready" ELSE @[t]],
              !.level = [t \in Tasks |-> IF t \in S THEN K.prio[t] ELSE @[t]],
              !.top   = Max({@} \union {K.prio[t] : t \in S})]

\* uxListRemove of the state item, before it is put into another list
Unready(K, t, to) == [K EXCEPT !.list[t] = to, !.level[t] = 0]

prvResetNextTaskUnblockTime(K) == [K EXCEPT !.next = Lowest(K, Delayed(K))]

\* vListInsert: behind the waiting tasks of the same or a higher priority.
\* The item value is configMAX_PRIORITIES - uxPriority throughout.
vListInsert(K, queue, t) ==
    LET n == Max({m \in 0..Len(queue) :
                     \A j \in 1..m : K.prio[queue[j]] >= K.prio[t]})
    IN  SubSeq(queue, 1, n) \o <<t>> \o SubSeq(queue, n + 1, Len(queue))

\* uxListRemove of the event items of the tasks of S
Without(queue, S) ==
    LET rest[i \in 0..Len(queue)] ==
            IF i = 0 THEN <<>>
            ELSE IF queue[i] \in S THEN rest[i - 1]
            ELSE Append(rest[i - 1], queue[i])
    IN  rest[Len(queue)]

\* The first waiting task is made ready, or kept in xPendingReadyList while
\* the scheduler is suspended.
WakesHigher(K, s) == K.prio[Head(K.waiting[s])] > K.prio[K.current]
\* (faulty) while the scheduler is suspended the task is in no list
WokenIntoNoList(K, s) ==
    LET t == Head(K.waiting[s])
        R == [K EXCEPT !.waiting[s] = Tail(@),
                       !.yield = @ \/ WakesHigher(K, s)]
    IN  IF K.stopped THEN R ELSE prvAddTaskToReadyList(R, {t})

xTaskRemoveFromEventList(K, s) ==
    LET t == Head(K.waiting[s])
        R == [K EXCEPT !.waiting[s] = Tail(@),
                       !.yield = @ \/ WakesHigher(K, s)]
    IN  prvResetNextTaskUnblockTime(
            IF K.stopped THEN [R EXCEPT !.pending = @ \union {t}]
                         ELSE prvAddTaskToReadyList(R, {t}))

\* prvAddCurrentTaskToDelayedList but for its last step, the adjustment of
\* xNextTaskUnblockTime
prvAddCurrentTaskToDelayedList(K, ticks, canBlockIndefinitely) ==
    LET wake == (K.tick + ticks) % TickMod
    IN  IF ticks = portMAX_DELAY /\ canBlockIndefinitely
        THEN Unready(K, K.current, "suspended")
        ELSE [Unready(K, K.current, IF wake < K.tick THEN "overflow"
                                                     ELSE "delayed")
                EXCEPT !.wake[K.current] = wake]

\* (faulty) xNextTaskUnblockTime stays what it was for the other list
SwitchedWithOldNext(K) ==
    [K EXCEPT !.list = [t \in Tasks |->
                           CASE @[t] = "delayed"  -> "overflow"
                             [] @[t] = "overflow" -> "delayed"
                             [] OTHER             -> @[t]],
              !.overflows = @ + 1]

\* the count wraps: the two delayed lists are exchanged
taskSWITCH_DELAYED_LISTS(K) ==
    prvResetNextTaskUnblockTime(
        [K EXCEPT !.list = [t \in Tasks |->
                               CASE @[t] = "delayed"  -> "overflow"
                                 [] @[t] = "overflow" -> "delayed"
                                 [] OTHER             -> @[t]],
                  !.overflows = @ + 1])

\* xTaskIncrementTick, and whether it asks for a switch
xTaskIncrementTick(K) ==
    LET now  == (K.tick + 1) % TickMod
        T    == [IF now = 0 THEN taskSWITCH_DELAYED_LISTS(K) ELSE K
                    EXCEPT !.tick = now]
        due  == {t \in Delayed(T) : T.wake[t] <= now}
        R    == prvAddTaskToReadyList(T, due)
        W    == [R EXCEPT !.waiting = [s \in Semaphores |->
                             Without(@[s], due)],
                          !.next = Lowest(R, Delayed(R))]
        next == IF now >= T.next THEN W ELSE T
        woken == IF now >= T.next THEN due ELSE {}
    IN  IF K.stopped
        THEN [kernel |-> [K EXCEPT !.pended = @ + 1], switch |-> K.yield]
        ELSE [kernel |-> next,
              switch |-> \/ \E t \in woken : K.prio[t] >= K.prio[K.current]
                         \/ Cardinality(Ready(next, K.prio[K.current])) > 1
                         \/ K.yield]

\* (faulty) uxPendedTicks is not cleared
PendedTicksKept(K) ==
    LET unwind[n \in 0..K.pended] ==
            IF n = 0 THEN K
            ELSE LET tick == xTaskIncrementTick(unwind[n - 1])
                 IN  [tick.kernel EXCEPT !.yield = @ \/ tick.switch]
    IN  unwind[K.pended]

\* the ticks that came while the scheduler was suspended
PendedTicks(K) ==
    LET unwind[n \in 0..K.pended] ==
            IF n = 0 THEN K
            ELSE LET tick == xTaskIncrementTick(unwind[n - 1])
                 IN  [tick.kernel EXCEPT !.yield = @ \/ tick.switch]
    IN  [unwind[K.pended] EXCEPT !.pended = 0]

xTaskResumeAll(K) ==
    LET moved == prvAddTaskToReadyList(
                    [K EXCEPT !.stopped = FALSE, !.pending = {},
                              !.yield = @ \/ \E t \in K.pending :
                                          K.prio[t] >= K.prio[K.current]],
                    K.pending)
    IN  PendedTicks(IF K.pending = {} THEN moved
                    ELSE prvResetNextTaskUnblockTime(moved))

-----------------------------------------------------------------------------
(* Priority inheritance                                                    *)

\* (faulty) a ready task stays in the ready list of its old priority
SetPriorityOnly(K, t, p) == [K EXCEPT !.prio[t] = p]

\* The task moves between the ready lists only if it is in the one of its
\* priority, which it left to wait or to sleep.
SetPriority(K, t, p) ==
    IF t \in Ready(K, K.prio[t])
    THEN prvAddTaskToReadyList([K EXCEPT !.prio[t] = p], {t})
    ELSE [K EXCEPT !.prio[t] = p]

\* (faulty) a holder that sleeps or waits does not inherit
OnlyReadyInherits(K, holder) ==
    IF holder # NoTask /\ K.list[holder] = "ready" /\ K.prio[holder] < K.prio[K.current]
    THEN SetPriority(K, holder, K.prio[K.current])
    ELSE K

xTaskPriorityInherit(K, holder) ==
    IF holder # NoTask /\ K.prio[holder] < K.prio[K.current]
    THEN SetPriority(K, holder, K.prio[K.current])
    ELSE K
Inherited(K, holder) ==
    holder # NoTask /\ BasePriority[holder] < K.prio[K.current]

Disinherits(K, t) == K.prio[t] # BasePriority[t] /\ K.held[t] = 1
xTaskPriorityDisinherit(K, t) ==
    LET R == [K EXCEPT !.held[t] = @ - 1]
    IN  IF Disinherits(K, t) THEN SetPriority(R, t, BasePriority[t]) ELSE R

prvGetDisinheritPriorityAfterTimeout(K, s) ==
    IF K.waiting[s] = <<>> THEN 0 ELSE K.prio[Head(K.waiting[s])]

vTaskPriorityDisinheritAfterTimeout(K, holder, highest) ==
    IF holder # NoTask /\ K.held[holder] = 1
    THEN SetPriority(K, holder, Max({BasePriority[holder], highest}))
    ELSE K

-----------------------------------------------------------------------------
(* Where a task is in a call: pc names the next critical section of        *)
(* xQueueSemaphoreTake or vTaskDelay, ticks is xTicksToWait as it is left, *)
(* entered and laps are the TimeOut_t, path says how the scheduler came to *)
(* be suspended, and since, which the code does not keep, the ticks there *)
(* had been at the call.                                                   *)

NoJob == [pc |-> "run"]
Started(c, pc) ==
    [pc |-> pc, call |-> c, ticks |-> c.ticks, entered |-> kernel.tick,
     laps |-> kernel.overflows, since |-> clock, path |-> "", inherited |-> FALSE]

\* vPortFatal disables the interrupts and loops.
Fatal == \E t \in Tasks : job[t].pc = "fatal"

\* t executes: a requested switch is taken before its next critical section.
Running(t) == kernel.current = t /\ ~switch
At(t, pc)  == Running(t) /\ job[t].pc = pc
Goto(t, pc) == job' = [job EXCEPT ![t].pc = pc]
Return(t)   == job' = [job EXCEPT ![t] = NoJob]

NewKernel(main) ==
    [current   |-> main,
     list      |-> [t \in Tasks |-> IF t \in {main, Idle} THEN "ready" ELSE "none"],
     level     |-> [t \in Tasks |-> IF t = main THEN BasePriority[t] ELSE 0],
     top       |-> BasePriority[main],
     wake      |-> [t \in Tasks |-> 0],
     waiting   |-> [s \in Semaphores |-> <<>>],
     pending   |-> {},
     tick      |-> 0,
     overflows |-> 0,
     next      |-> portMAX_DELAY,
     stopped   |-> FALSE,
     pended    |-> 0,
     yield     |-> FALSE,
     prio      |-> BasePriority,
     held      |-> [t \in Tasks |-> 0]]

\* xSemaphoreCreateMutex gives the new mutex once, a binary semaphore is empty;
\* cTxLock is queueUNLOCKED.
NewSemaphore(s) ==
    [count |-> IF s \in Mutexes THEN 1 ELSE 0, holder |-> NoTask, txLock |-> -1]

\* vTaskStartScheduler: the main task of os_entry and the idle task exist.
Init ==
    /\ kernel = NewKernel(Main)
    /\ sem = [s \in Semaphores |-> NewSemaphore(s)]
    /\ switch = FALSE
    /\ job = [t \in Tasks |-> NoJob]
    /\ clock = 0 /\ gives = 0

-----------------------------------------------------------------------------
(* xQueueSemaphoreTake                                                     *)

\* The first critical section: take, give up, or go on to wait.  j is the job
\* of the call; fresh, it keeps the time of the call.
TryTake(t, j) ==
    LET s == j.call.sem IN
    \/ /\ sem[s].count > 0
       /\ sem' = [sem EXCEPT ![s].count = @ - 1,
                             ![s].holder = IF s \in Mutexes THEN t ELSE @]
       /\ kernel' = [kernel EXCEPT !.held[t] = IF s \in Mutexes THEN @ + 1 ELSE @]
       /\ Return(t)
    \/ /\ sem[s].count = 0 /\ j.ticks = 0 /\ ~j.inherited
       /\ Return(t)
       /\ UNCHANGED <<kernel, sem>>
    \/ /\ sem[s].count = 0 /\ j.ticks # 0
       /\ job' = [job EXCEPT ![t] = [j EXCEPT !.pc = "stop"]]
       /\ UNCHANGED <<kernel, sem>>

Take(t) ==
    /\ At(t, "run")
    /\ \E c \in Calls[t] :
          /\ c.op = "take" /\ sem[c.sem].holder # t
          /\ TryTake(t, Started(c, "take"))
    /\ UNCHANGED <<switch, clock, gives>>

TakeAgain(t) ==
    /\ At(t, "take")
    /\ TryTake(t, job[t])
    /\ UNCHANGED <<switch, clock, gives>>

\* The configASSERT of line 1487: nobody gives up here while another task has
\* its priority.  vPortFatal ends the program.
AssertionFails(t) ==
    /\ At(t, "take") /\ job[t].ticks = 0 /\ job[t].inherited
    /\ sem[job[t].call.sem].count = 0
    /\ Goto(t, "fatal")
    /\ UNCHANGED <<kernel, sem, switch, clock, gives>>

vTaskSuspendAll(t) ==
    /\ At(t, "stop")
    /\ kernel' = [kernel EXCEPT !.stopped = TRUE]
    /\ Goto(t, IF job[t].call.op = "take" THEN "lock" ELSE "place")
    /\ UNCHANGED <<sem, switch, clock, gives>>

\* xTaskCheckForTimeOut: whether the wait is over, and what is left of it
Elapsed(j) == (kernel.tick - j.entered) % TickMod
TimedOut(j) ==
    /\ j.ticks # portMAX_DELAY
    /\ \/ kernel.overflows # j.laps /\ kernel.tick >= j.entered
       \/ Elapsed(j) >= j.ticks
xTaskCheckForTimeOut(j) ==
    IF \/ j.ticks = portMAX_DELAY
       \/ kernel.overflows # j.laps /\ kernel.tick >= j.entered
    THEN j
    ELSE IF Elapsed(j) < j.ticks
    THEN [j EXCEPT !.ticks = @ - Elapsed(j), !.entered = kernel.tick,
                   !.laps = kernel.overflows]
    ELSE [j EXCEPT !.ticks = 0]

\* prvLockQueue, then xTaskCheckForTimeOut, which reads only what nobody
\* changes while the scheduler is suspended
prvLockQueue(t) ==
    /\ At(t, "lock")
    /\ sem' = [sem EXCEPT ![job[t].call.sem].txLock = IF @ = -1 THEN 0 ELSE @]
    /\ job' = [job EXCEPT ![t] =
                  IF TimedOut(@)
                  THEN [xTaskCheckForTimeOut(@) EXCEPT !.pc = "unlock", !.path = "late"]
                  ELSE [xTaskCheckForTimeOut(@) EXCEPT !.pc = "look"]]
    /\ UNCHANGED <<kernel, switch, clock, gives>>

prvIsQueueEmpty(s) == sem[s].count = 0

\* The wait is not over: block if the semaphore is still empty, else try again.
Look(t) ==
    /\ At(t, "look")
    /\ job' = [job EXCEPT ![t] =
                  IF prvIsQueueEmpty(@.call.sem)
                  THEN [@ EXCEPT !.pc = "block", !.path = "blocked"]
                  ELSE [@ EXCEPT !.pc = "unlock", !.path = "again"]]
    /\ UNCHANGED <<kernel, sem, switch, clock, gives>>

\* xTaskPriorityInherit and vTaskPlaceOnEventList.  What is left of the latter
\* is AdjustNext: the lists are changed with the scheduler suspended but the
\* interrupts enabled.
vTaskPlaceOnEventList(t) ==
    LET s == job[t].call.sem
        mutex == s \in Mutexes
        K == IF mutex THEN xTaskPriorityInherit(kernel, sem[s].holder) ELSE kernel
    IN  /\ At(t, "block")
        /\ kernel' = prvAddCurrentTaskToDelayedList(
                        [K EXCEPT !.waiting[s] = vListInsert(K, @, t)],
                        job[t].ticks, TRUE)
        /\ job' = [job EXCEPT ![t].pc = "next",
                              ![t].inherited = mutex /\ Inherited(kernel, sem[s].holder)]
        /\ UNCHANGED <<sem, switch, clock, gives>>

\* The end of prvAddCurrentTaskToDelayedList
AdjustNext(t) ==
    /\ At(t, "next")
    /\ kernel' = IF kernel.list[t] = "delayed"
                 THEN [kernel EXCEPT !.next = Min({@, kernel.wake[t]})]
                 ELSE kernel
    /\ Goto(t, IF job[t].call.op = "take" THEN "unlock" ELSE "resume")
    /\ UNCHANGED <<sem, switch, clock, gives>>

\* (faulty) the gives counted by the lock are dropped
UnlockWithoutWaking(t) ==
    /\ At(t, "unlock")
    /\ sem' = [sem EXCEPT ![job[t].call.sem].txLock = -1]
    /\ Goto(t, "resume")
    /\ UNCHANGED <<kernel, switch, clock, gives>>

\* Each give that came while the queue was locked wakes one waiting task.
prvUnlockQueue(t) ==
    LET s == job[t].call.sem
        n == Min({sem[s].txLock, Len(kernel.waiting[s])})
        woken[i \in 0..n] == IF i = 0 THEN kernel
                             ELSE xTaskRemoveFromEventList(woken[i - 1], s)
    IN  /\ At(t, "unlock")
        /\ kernel' = woken[n]
        /\ sem' = [sem EXCEPT ![s].txLock = -1]
        /\ Goto(t, "resume")
        /\ UNCHANGED <<switch, clock, gives>>

\* xTaskResumeAll; a task that put itself to sleep yields in any case.
Resume(t) ==
    LET path == IF job[t].call.op = "delay" THEN "asleep" ELSE job[t].path IN
    /\ At(t, "resume")
    /\ kernel' = xTaskResumeAll(kernel)
    /\ switch' = (kernel'.yield \/ path \in {"blocked", "asleep"})
    /\ Goto(t, IF path \in {"late", "asleep"} THEN path ELSE "take")
    /\ UNCHANGED <<sem, clock, gives>>

\* The time is over: the call fails unless the semaphore was given meanwhile.
Late(t) ==
    LET s == job[t].call.sem IN
    /\ At(t, "late")
    /\ \/ /\ ~prvIsQueueEmpty(s)
          /\ Goto(t, "take")
       \/ /\ prvIsQueueEmpty(s) /\ job[t].inherited
          /\ Goto(t, "disinherit")
       \/ /\ prvIsQueueEmpty(s) /\ ~job[t].inherited
          /\ Return(t)
    /\ UNCHANGED <<kernel, sem, switch, clock, gives>>

Disinherit(t) ==
    LET s == job[t].call.sem IN
    /\ At(t, "disinherit")
    /\ kernel' = vTaskPriorityDisinheritAfterTimeout(kernel, sem[s].holder,
                    prvGetDisinheritPriorityAfterTimeout(kernel, s))
    /\ Return(t)
    /\ UNCHANGED <<sem, switch, clock, gives>>

-----------------------------------------------------------------------------
(* Give, delay, create and delete                                          *)

\* xQueueGenericSend with no wait: one critical section.  A full semaphore
\* is refused and nothing changes.
Give(t) ==
    /\ At(t, "run")
    /\ \E c \in Calls[t] :
          LET s == c.sem
              mutex == s \in Mutexes
              K == IF mutex THEN xTaskPriorityDisinherit(kernel, t) ELSE kernel
              waits == K.waiting[s] # <<>>
          IN  /\ c.op = "give" /\ sem[s].count = 0
              /\ mutex => sem[s].holder = t
              /\ sem' = [sem EXCEPT ![s].count = 1, ![s].holder = NoTask]
              /\ kernel' = IF waits THEN xTaskRemoveFromEventList(K, s) ELSE K
              /\ switch' = IF waits THEN WakesHigher(K, s)
                           ELSE mutex /\ Disinherits(kernel, t)
    /\ UNCHANGED <<job, clock, gives>>

\* xQueueGiveFromISR and the portYIELD of its callers: a locked queue keeps
\* its waiting tasks, the lock counts the give.
xQueueGiveFromISR(s) ==
    LET wakes == sem[s].txLock = -1 /\ kernel.waiting[s] # <<>> IN
    /\ s \notin Mutexes /\ sem[s].count = 0
    /\ ~Fatal /\ gives < MaxGives /\ gives' = gives + 1
    /\ sem' = [sem EXCEPT ![s].count = 1,
                          ![s].txLock = IF @ = -1 THEN @ ELSE @ + 1]
    /\ kernel' = IF wakes THEN xTaskRemoveFromEventList(kernel, s) ELSE kernel
    /\ switch' = (switch \/ (wakes /\ WakesHigher(kernel, s)))
    /\ UNCHANGED <<job, clock>>

\* vTaskDelay: vTaskSuspendAll, Place, AdjustNext, Resume, and it returns
\* when the task runs again
vTaskDelay(t) ==
    /\ At(t, "run")
    /\ \E c \in Calls[t] :
          c.op = "delay" /\ job' = [job EXCEPT ![t] = Started(c, "stop")]
    /\ UNCHANGED <<kernel, sem, switch, clock, gives>>

Place(t) ==
    /\ At(t, "place")
    /\ kernel' = prvAddCurrentTaskToDelayedList(kernel, job[t].ticks, FALSE)
    /\ Goto(t, "next")
    /\ UNCHANGED <<sem, switch, clock, gives>>

Awake(t) ==
    /\ At(t, "asleep")
    /\ Return(t)
    /\ UNCHANGED <<kernel, sem, switch, clock, gives>>

\* vAddNewTaskToCurrentReadyList
xTaskCreate(t) ==
    /\ At(t, "run")
    /\ \E c \in Calls[t] :
          /\ c.op = "create" /\ kernel.list[c.task] = "none"
          /\ kernel' = prvAddTaskToReadyList(kernel, {c.task})
          /\ switch' = (kernel.prio[t] < kernel.prio[c.task])
    /\ UNCHANGED <<sem, job, clock, gives>>

\* vTaskDelete(NULL), by a task that holds no mutex
vTaskDelete(t) ==
    /\ At(t, "run") /\ kernel.held[t] = 0
    /\ DeleteCall \in Calls[t]
    /\ kernel' = Unready(kernel, t, "terminated")
    /\ switch' = TRUE
    /\ UNCHANGED <<sem, job, clock, gives>>

-----------------------------------------------------------------------------
(* The idle task, the tick and the switch                                  *)

\* prvCheckTasksWaitingTermination
Reap ==
    /\ At(Idle, "run")
    /\ \E t \in Tasks :
          /\ kernel.list[t] = "terminated"
          /\ kernel' = [kernel EXCEPT !.list[t] = "none"]
    /\ UNCHANGED <<sem, switch, job, clock, gives>>

\* prvGetExpectedIdleTime; 2 is configEXPECTED_IDLE_TIME_BEFORE_SLEEP
IdleTime ==
    IF kernel.top > 0 \/ Cardinality(Ready(kernel, 0)) > 1 THEN 0
    ELSE kernel.next - kernel.tick

\* The idle task suspends the scheduler to sleep and resumes it: here it only
\* resumes it, portSUPPRESS_TICKS_AND_SLEEP is empty.
IdleSuspend ==
    /\ At(Idle, "run") /\ IdleTime >= 2
    /\ kernel' = [kernel EXCEPT !.stopped = TRUE]
    /\ Goto(Idle, "idle")
    /\ UNCHANGED <<sem, switch, clock, gives>>

IdleResume ==
    /\ At(Idle, "idle")
    /\ kernel' = xTaskResumeAll(kernel)
    /\ switch' = kernel'.yield
    /\ Return(Idle)
    /\ UNCHANGED <<sem, clock, gives>>

\* handle_irq_m_timer
Tick ==
    /\ ~Fatal /\ clock < MaxTicks /\ clock' = clock + 1
    /\ kernel' = xTaskIncrementTick(kernel).kernel
    /\ switch' = (switch \/ xTaskIncrementTick(kernel).switch)
    /\ UNCHANGED <<sem, job, gives>>

\* taskSELECT_HIGHEST_PRIORITY_TASK: down from uxTopReadyPriority
HighestReady(K) == Max({p \in 0..K.top : Ready(K, p) # {}})

\* The soft interrupt: vPortSysTickHandler and vTaskSwitchContext
vTaskSwitchContext ==
    /\ switch
    /\ switch' = FALSE
    /\ \/ /\ kernel.stopped
          /\ kernel' = [kernel EXCEPT !.yield = TRUE]
       \/ /\ ~kernel.stopped
          /\ \E t \in Ready(kernel, HighestReady(kernel)) :
                kernel' = [kernel EXCEPT !.yield = FALSE, !.current = t,
                                         !.top = HighestReady(kernel)]
    /\ UNCHANGED <<sem, job, clock, gives>>

Next ==
    \/ \E t \in Tasks :
          \/ Take(t) \/ TakeAgain(t) \/ AssertionFails(t)
          \/ vTaskSuspendAll(t) \/ prvLockQueue(t)
          \/ Look(t) \/ vTaskPlaceOnEventList(t) \/ AdjustNext(t)
          \/ prvUnlockQueue(t) \/ Resume(t) \/ Late(t) \/ Disinherit(t)
          \/ Give(t) \/ vTaskDelay(t) \/ Place(t) \/ Awake(t)
          \/ xTaskCreate(t) \/ vTaskDelete(t)
    \/ \E s \in Semaphores : xQueueGiveFromISR(s)
    \/ Reap \/ IdleSuspend \/ IdleResume \/ Tick \/ vTaskSwitchContext

Spec == Init /\ [][Next]_vars

-----------------------------------------------------------------------------
(* Properties                                                              *)

\* A task that waits without a time limit can be found by whoever gives: it
\* stands in the waiting list of the one semaphore it asked for, or, taken
\* from there while the scheduler is suspended, in xPendingReadyList.
\* Nothing else would ever wake it.
SleepersFindable ==
    \A t \in Tasks :
        kernel.list[t] = "suspended" =>
            LET s == job[t].call.sem IN
            \/ t \in kernel.pending
            \/ \E i \in 1..Len(kernel.waiting[s]) : kernel.waiting[s][i] = t

\* A give is not lost: while a semaphore is available and tasks wait for it,
\* its queue is locked (and who unlocks it wakes one of them), or some other
\* task is on its way to take it again.
Coming(t, s) ==
    /\ job[t].pc \notin {"run", "idle"} /\ job[t].call.op = "take"
    /\ job[t].call.sem = s
    /\ kernel.list[t] = "ready" \/ t \in kernel.pending
NoLostGive ==
    \A s \in Semaphores :
        sem[s].count > 0 /\ kernel.waiting[s] # <<>> =>
            \/ sem[s].txLock > 0
            \/ \E t \in Tasks : Coming(t, s)

\* A task that waits for a mutex does not wait for tasks of a priority below
\* its own: the holder runs at least at the priority the waiting task was
\* created with.
NoInversion ==
    \A m \in Mutexes : \A i \in 1..Len(kernel.waiting[m]) :
        sem[m].holder # NoTask =>
            kernel.prio[sem[m].holder] >= BasePriority[kernel.waiting[m][i]]

\* Outside a suspended scheduler the task that runs is a ready one and no
\* ready task has a higher priority: every path that makes one ready asks for
\* the switch, and the cached uxTopReadyPriority does not hide any.  Promised
\* where mutexes are waited for without a time limit and held one at a time.
HighestRuns ==
    ~kernel.stopped /\ ~switch =>
        /\ kernel.list[kernel.current] = "ready"
        /\ \A t \in Tasks : kernel.list[t] = "ready" =>
                kernel.prio[t] <= kernel.prio[kernel.current]

\* Nobody oversleeps, also across the wrap of the tick count: outside a
\* suspended scheduler every sleeping task is woken by a tick to come, and
\* xNextTaskUnblockTime, before which no tick looks, is not later.
NeverOversleeps ==
    ~kernel.stopped =>
        /\ kernel.tick <= kernel.next
        /\ \A t \in Tasks :
              /\ kernel.list[t] = "delayed"  => /\ kernel.tick < kernel.wake[t]
                                                /\ kernel.next <= kernel.wake[t]
              /\ kernel.list[t] = "overflow" => kernel.wake[t] < kernel.tick

\* A call that gives up has waited the ticks it was given, and one without a
\* time limit does not give up: pended ticks and the wrap of the tick count
\* are counted once.
GivesUp(t) ==
    /\ job[t].pc \notin {"run", "idle"} /\ job'[t].pc = "run"
    /\ job[t].call.op = "delay" \/ sem'[job[t].call.sem] = sem[job[t].call.sem]
NeverEarly ==
    [][\A t \in Tasks : GivesUp(t) =>
          /\ job[t].call.op = "take" => job[t].call.ticks # portMAX_DELAY
          /\ clock - job[t].since >= job[t].call.ticks]_vars

=============================================================================
