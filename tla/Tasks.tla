-------------------------------- MODULE Tasks --------------------------------
(***************************************************************************)
(* The task API of core/src/kernel/task.rs, Scheduler::launch, the timer   *)
(* trap and the bare yield, called in any order by main and by the tasks.  *)
(* A task is free to call anything whenever it runs; the idle task calls   *)
(* nothing.  One action is one critical section with the trap its ecall    *)
(* takes, which is the granularity at which the single hart interleaves.   *)
(***************************************************************************)
EXTENDS Kernel

CONSTANTS
  AppPriorities,   \* priorities the application creates tasks with
  Delays,          \* arguments of Task::delay
  MissedMax,       \* most ticks the timer trap has to catch up with
  Horizon          \* tick after which a run stops the clock

ASSUME TasksAssumption ==
  /\ AppPriorities \subseteq Priorities
  /\ Delays \subseteq (1 .. TickMod - 1)
  /\ MissedMax \in Nat
  /\ Horizon \in Nat

VARIABLES
  kernel,          \* the kernel's statics
  idle             \* the tid that runs idle_task, NoTask when there is none

vars == << kernel, idle >>

Init == kernel = KernelInit /\ idle = NoTask

\* Scheduler::launch, whose two ways to panic are a full pool and an empty
\* READY_LIST; the second cannot happen as idle has just been put there.
Launch ==
  /\ ~kernel.sched_ready /\ ~kernel.halted
  /\ IF FreeTids(kernel) = {}
     THEN kernel' = [kernel EXCEPT !.halted = TRUE] /\ UNCHANGED idle
     ELSE kernel' = LaunchKernel(kernel) /\ idle' = LowestFree(kernel)

Up == kernel.sched_ready /\ ~kernel.halted

\* Code other than idle_task's is running and may call the API.
InTask == Up /\ kernel.current # idle

\* A tid that dies stops being the idle task's.
Forget(tid) == idle' = IF tid = idle THEN NoTask ELSE idle

\* Task::create, from main before launch or from a task.
Create(pri) ==
  /\ ~kernel.halted /\ (kernel.sched_ready => InTask)
  /\ FreeTids(kernel) # {}
  /\ kernel' = CreateTask(kernel, pri)
  /\ UNCHANGED idle

\* Task::create_raw: a new task, and no yield whatever its priority.
CreateRaw(pri) ==
  /\ ~kernel.halted /\ (kernel.sched_ready => InTask)
  /\ FreeTids(kernel) # {}
  /\ kernel' = NewTask(kernel, pri)
  /\ UNCHANGED idle

\* Task::exit_current.
Exit ==
  /\ InTask
  /\ kernel' = ExitCurrent(kernel)
  /\ Forget(kernel.current)

\* Task::terminate, which any task may apply to any task, itself included.
Terminate(tid) ==
  /\ InTask
  /\ kernel.status[tid] # "Terminated"
  /\ kernel' = TerminateTask(kernel, tid)
  /\ Forget(tid)

\* Task::block.
Block(tid) ==
  /\ InTask
  /\ kernel.status[tid] \in {"Ready", "Running"}
  /\ kernel' = BlockTask(kernel, tid)
  /\ UNCHANGED idle

\* Task::resume, which leaves a Blocked task alone that block did not park.
Resume(tid) ==
  /\ InTask
  /\ kernel.status[tid] = "Blocked"
  /\ Holds(kernel.blocked, tid)
  /\ kernel' = ResumeTask(kernel, tid)
  /\ UNCHANGED idle

\* Task::delay; delay(0) returns at once.
Delay(ticks) ==
  /\ InTask
  /\ kernel' = DelayCurrent(kernel, ticks)
  /\ UNCHANGED idle

\* yield_task called outside the operations above, or a device interrupt whose
\* handler left YIELD_FROM_ISR set: next_tcb runs and no tick is counted.
Yield ==
  /\ Up
  /\ kernel' = NextTcb(kernel)
  /\ UNCHANGED idle

\* The timer interrupt, `missed` ticks late.
Systick(missed) ==
  /\ Up
  /\ kernel.os_ticks + 1 + missed <= Horizon
  /\ kernel' = TickTrap(kernel, 1 + missed)
  /\ UNCHANGED idle

Timer == \E missed \in 0..MissedMax : Systick(missed)

Next ==
  \/ Launch
  \/ \E pri \in AppPriorities : Create(pri) \/ CreateRaw(pri)
  \/ Exit
  \/ \E tid \in Tid : Terminate(tid) \/ Block(tid) \/ Resume(tid)
  \/ \E ticks \in Delays : Delay(ticks)
  \/ Yield
  \/ Timer

Spec == Init /\ [][Next]_vars

\* The timer interrupt keeps coming while the scheduler is up: bsp.rs arms
\* SYSTIMER again in every ISR.  Only Timer moves os_ticks, so a step that moves
\* it is a Timer step; this is WF_vars(Timer) in a form TLC evaluates cheaply.
TicksKeepComing == []<><< kernel'.os_ticks # kernel.os_ticks >>_vars \/ <>[]~Up

FairSpec == Spec /\ TicksKeepComing

-----------------------------------------------------------------------------
(* Invariants.                                                             *)

\* Every static has its declared type and the current task is a task as soon
\* as the scheduler runs (sched.rs, tcb.rs, global.rs).
TypeOK ==
  /\ kernel \in KernelState
  /\ idle \in Tid \cup {NoTask}
  /\ kernel.sched_ready => kernel.current \in Tid

\* A live task is on exactly the list its status names and on no list twice; a
\* dead one is on none and its tid is free.  This is what lets the operations
\* ignore the Err of a full list and lets next_tcb trust READY_LIST.
ListsMatchStatus == ListsMatch(kernel)

\* Between operations a running scheduler's current task is one that may run,
\* and no other task carries the Running label (next_tcb).
OneRunning ==
  Up => /\ Holds(kernel.ready, kernel.current)
        /\ \A t \in Tid : kernel.status[t] = "Running" => t = kernel.current

\* READY_LIST is in priority order: taking its front is taking a most urgent
\* task (insert_in_order and everything that calls it).
ReadySorted == SortedBy(kernel.ready, kernel.priority)

\* No step leaves a task asleep whose wake_point the counter has reached: the
\* scheduler never skips a trap that should have woken somebody (systick_tick's
\* shortcut of not switching when SLEEPING_LIST is empty).
NoOverdueSleeper == \A t \in Range(kernel.sleeping) : ~Due(kernel, t)

\* The panic of next_tcb needs the idle task out of READY_LIST: as long as
\* nobody kills or blocks it no sequence of calls empties the list.
HaltNeedsIdleGone ==
  kernel.halted /\ kernel.sched_ready
    => idle = NoTask \/ kernel.status[idle] = "Blocked"

-----------------------------------------------------------------------------
(* What a step may and may not do.                                         *)

Outranked(k) ==
  \E t \in Range(k.ready) : k.priority[t] < k.priority[k.current]

\* Only create_raw can leave a ready task waiting behind a less urgent current
\* one; every other call and every trap ends with a most urgent task running.
OnlyRawOutranks ==
  [][ Up /\ Up' /\ ~Outranked(kernel) /\ Outranked(kernel')
        => \E pri \in AppPriorities : CreateRaw(pri) ]_vars

PlaceOf(list, tid) == CHOOSE i \in 1..Len(list) : list[i] = tid

\* Round robin among equals: a task that waits in READY_LIST is overtaken by
\* no task of its priority, neither by one that waits behind it nor by one that
\* joins; only the task that held the hart changes its place.
PeersKeepTheirOrder ==
  [][ \A s \in Range(kernel.ready) \ {kernel.current} :
      \A t \in Range(kernel'.ready) \ {s, kernel.current} :
        /\ Holds(kernel'.ready, s)
        /\ kernel'.priority[s] = kernel'.priority[t]
        /\ Holds(kernel.ready, t)
             => PlaceOf(kernel.ready, s) < PlaceOf(kernel.ready, t)
        => PlaceOf(kernel'.ready, s) < PlaceOf(kernel'.ready, t) ]_vars

\* The tick counter has come to `wake`, in the circular sense that stays right
\* when the counter wraps (and that async_rt.rs uses for its timers).
Reached(now, wake) == (now - wake) % TickMod < TickMod \div 2

\* delay(ticks) keeps its caller off the hart until that many ticks have been
\* counted, and the trap that counts the last of them ends the sleep.
DelayKeepsItsTicks ==
  [][ /\ \A ticks \in Delays : Delay(ticks) =>
           /\ Holds(kernel'.sleeping, kernel.current)
           /\ kernel'.wake_point[kernel.current] = WakeTime(kernel, ticks)
      /\ Timer => \A t \in Range(kernel.sleeping) :
           Holds(kernel'.sleeping, t)
             <=> ~Reached(kernel'.os_ticks, kernel.wake_point[t]) ]_vars

-----------------------------------------------------------------------------
(* Liveness.                                                               *)

\* tid is ready and nobody more urgent is.
Contends(tid) ==
  /\ Holds(kernel.ready, tid)
  /\ \A t \in Range(kernel.ready) : kernel.priority[tid] <= kernel.priority[t]

\* Round robin reaches everybody: a task cannot stay among the most urgent
\* ready ones for ever without getting the hart, whatever the others call.
EveryContenderRuns ==
  \A tid \in Tid : []<>(~Up \/ ~Contends(tid) \/ kernel.current = tid)

\* A task that called delay is off SLEEPING_LIST again some time later.
SleepersWake ==
  \A tid \in Tid : []<>(~Up \/ ~Holds(kernel.sleeping, tid))
=============================================================================
