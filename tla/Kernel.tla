------------------------------- MODULE Kernel -------------------------------
(***************************************************************************)
(* The kernel's global state and what its scheduler does to it:            *)
(* core/src/kernel/{global,tcb,sched,task}.rs.                             *)
(*                                                                         *)
(* The core has one hart and every kernel operation runs with interrupts   *)
(* off up to its `ecall`; the trap taken there runs next_tcb before any    *)
(* other code.  So an operation is a function from the kernel record to    *)
(* the kernel record, `NextTcb` composed in where the code yields, and a   *)
(* component's action is one such function applied to its variable.        *)
(***************************************************************************)
EXTENDS TaskList

CONSTANTS
  TIME_SLICE,    \* ticks a task runs before it is rotated
  TickMod,       \* number of values of the tick counter (2^32 in the code)
  PRI_MIN,       \* the least urgent priority: numbers grow as urgency falls
  PRI_INV,       \* sub_priority of a task that inherited nothing
  NoTask         \* a null CURRENT_TCB_PTR

Tid        == 0 .. TASK_MAX - 1
Priorities == 0 .. PRI_MIN
Tick       == 0 .. TickMod - 1
Status     == {"Terminated", "Ready", "Running", "Blocked"}

ASSUME KernelAssumption ==
  /\ TIME_SLICE \in Nat \ {0}
  /\ TickMod \in Nat \ {0}
  /\ PRI_MIN \in Nat
  /\ PRI_INV \in Nat /\ PRI_INV > PRI_MIN
  /\ NoTask \notin Tid

KernelState ==
  [ status       : [Tid -> Status],
    priority     : [Tid -> Priorities],
    sub_priority : [Tid -> Priorities \cup {PRI_INV}],
    time_slice   : [Tid -> 0 .. TIME_SLICE],
    wake_point   : [Tid -> Tick],
    ready        : Seq(Tid),
    blocked      : Seq(Tid),
    sleeping     : Seq(Tid),
    os_ticks     : Tick,
    tid_bitmap   : SUBSET Tid,
    current      : Tid \cup {NoTask},
    sched_ready  : BOOLEAN,
    halted       : BOOLEAN ]      \* the panic of next_tcb or launch was reached

\* The statics before main runs.
KernelInit ==
  [ status       |-> [t \in Tid |-> "Terminated"],
    priority     |-> [t \in Tid |-> PRI_MIN],
    sub_priority |-> [t \in Tid |-> PRI_INV],
    time_slice   |-> [t \in Tid |-> TIME_SLICE],
    wake_point   |-> [t \in Tid |-> 0],
    ready        |-> << >>,
    blocked      |-> << >>,
    sleeping     |-> << >>,
    os_ticks     |-> 0,
    tid_bitmap   |-> {},
    current      |-> NoTask,
    sched_ready  |-> FALSE,
    halted       |-> FALSE ]

-----------------------------------------------------------------------------
(* global.rs: the tid allocator.                                           *)

FreeTids(k) == Tid \ k.tid_bitmap
LowestFree(k) == Min(FreeTids(k))

\* alloc_tid, when some tid is free: the slot starts again as Tcb::empty.
AllocTid(k) ==
  LET tid == LowestFree(k)
  IN  [k EXCEPT !.tid_bitmap = @ \cup {tid},
                !.status[tid] = "Terminated",
                !.priority[tid] = PRI_MIN,
                !.sub_priority[tid] = PRI_INV,
                !.time_slice[tid] = TIME_SLICE,
                !.wake_point[tid] = 0]

FreeTid(k, tid) ==
  [k EXCEPT !.tid_bitmap = @ \ {tid}, !.status[tid] = "Terminated"]

-----------------------------------------------------------------------------
(* Moves between lists that several operations share.                      *)

\* Variant of MakeReady: push_back in place of insert_in_order.
MakeReadyLast(k, tid) ==
  [k EXCEPT !.status[tid] = "Ready", !.ready = PushBack(@, tid)]

\* Status Ready, and a place in READY_LIST behind the tasks of its priority.
MakeReady(k, tid) ==
  [k EXCEPT !.status[tid] = "Ready",
            !.ready = InsertInOrder(@, tid, k.priority)]

\* Status Blocked and out of READY_LIST; the caller puts tid on some list.
TakeOff(k, tid) ==
  [k EXCEPT !.status[tid] = "Blocked", !.ready = Drop(@, tid)]

\* The running task goes to sleep until the tick counter reaches `wake`.
SleepUntil(k, tid, wake) ==
  LET wakes == [k.wake_point EXCEPT ![tid] = wake]
  IN  [k EXCEPT !.wake_point = wakes,
                !.sleeping = InsertInOrder(@, tid, wakes)]

-----------------------------------------------------------------------------
(* sched.rs.                                                               *)

\* Variant of Due: > in place of >=.
DueLate(k, tid) == k.os_ticks > k.wake_point[tid]

\* The code compares the raw counters: no allowance for wrap-around.
Due(k, tid) == k.os_ticks >= k.wake_point[tid]

\* One round of the loop of wake_up_sleepers that finds an expired sleeper.
WakeOne(k) ==
  IF \A i \in 1..Len(k.sleeping) : ~Due(k, k.sleeping[i]) THEN k
  ELSE LET i == Min({j \in 1..Len(k.sleeping) : Due(k, k.sleeping[j])})
           tid == k.sleeping[i]
       IN  MakeReady([k EXCEPT !.sleeping = RemoveAt(@, i),
                               !.wake_point[tid] = 0], tid)

\* The whole loop: at most one round per sleeper.
WakeUpSleepers(k) ==
  LET woken[i \in 0..Len(k.sleeping)] ==
        IF i = 0 THEN k ELSE WakeOne(woken[i - 1])
  IN  woken[Len(k.sleeping)]

\* Variant of RequeueCurrent: a used-up slice takes nobody off the hart.
RequeueCurrentNoSlice(k) ==
  LET cr == k.current
  IN  IF k.status[cr] \in {"Terminated", "Blocked"}
      THEN [k EXCEPT !.ready = Drop(@, cr)]
      ELSE IF k.status[cr] = "Running"
      THEN MakeReady([k EXCEPT !.ready = Drop(@, cr)], cr)
      ELSE k

\* Variant of RequeueCurrent: the rotated task is taken off and not put back.
RequeueCurrentLoses(k) ==
  IF k.time_slice[k.current] = 0 \/ k.status[k.current] # "Ready"
  THEN [k EXCEPT !.ready = Drop(@, k.current)]
  ELSE k

\* next_tcb, first half: what becomes of the task that was running.  One still
\* labelled Running always gives up its turn, one labelled Ready (the scheduler
\* chose it again) only when its slice is used up.
RequeueCurrent(k) ==
  LET cr == k.current
  IN  IF k.status[cr] \in {"Terminated", "Blocked"}
      THEN [k EXCEPT !.ready = Drop(@, cr)]
      ELSE IF k.time_slice[cr] = 0 \/ k.status[cr] = "Running"
      THEN MakeReady([k EXCEPT !.time_slice[cr] = TIME_SLICE,
                               !.ready = Drop(@, cr)], cr)
      ELSE k

\* next_tcb, second half: the front of READY_LIST runs.
Dispatch(k) ==
  IF k.ready = << >> THEN [k EXCEPT !.halted = TRUE]
  ELSE IF Head(k.ready) = k.current THEN k
  ELSE [k EXCEPT !.status[Head(k.ready)] = "Running",
                 !.current = Head(k.ready)]

NextTcb(k) == Dispatch(RequeueCurrent(WakeUpSleepers(k)))

\* systick_tick called 1 + missed times in a row, as the trap handler does to
\* catch up with ticks it was late for.
AdvanceTicks(k, n) ==
  [k EXCEPT !.os_ticks = (@ + n) % TickMod,
            !.time_slice[k.current] = IF @ > n THEN @ - n ELSE 0]

\* Variant of TickWantsSwitch: sleepers are left to the end of the slice.
TickWantsSwitchOnSlice(k) == k.time_slice[k.current] = 0

\* The value systick_tick returns last, which is the one that decides.
TickWantsSwitch(k) ==
  k.time_slice[k.current] = 0 \/ k.sleeping # << >>

\* The timer trap: count, and switch if systick_tick asked for it.
TickTrap(k, n) ==
  LET ticked == AdvanceTicks(k, n)
  IN  IF TickWantsSwitch(ticked) THEN NextTcb(ticked) ELSE ticked

-----------------------------------------------------------------------------
(* task.rs.                                                                *)

\* `priority < priority of the current task`, tested where code may yield.
OutranksCurrent(k, tid) ==
  k.current # NoTask /\ k.priority[tid] < k.priority[k.current]

YieldIfOutranked(k, tid) ==
  IF OutranksCurrent(k, tid) THEN NextTcb(k) ELSE k

\* What create and create_raw share: a new task at the end of its priority.
NewTask(k, pri) ==
  LET tid == LowestFree(k)
      slot == [AllocTid(k) EXCEPT !.priority[tid] = pri]
  IN  MakeReady(slot, tid)

CreateTask(k, pri) ==
  LET tid == LowestFree(k)
      made == NewTask(k, pri)
  IN  IF k.sched_ready THEN YieldIfOutranked(made, tid) ELSE made

\* Variant of LaunchKernel: CURRENT_TCB_PTR is not set.
LaunchKernelNoCurrent(k) ==
  LET made == CreateTask(k, PRI_MIN)
  IN  [made EXCEPT !.status[Head(made.ready)] = "Running",
                   !.sched_ready = TRUE]

\* Scheduler::launch when a tid is free for the idle task.
LaunchKernel(k) ==
  LET made == CreateTask(k, PRI_MIN)
      first == Head(made.ready)
  IN  [made EXCEPT !.status[first] = "Running",
                   !.current = first,
                   !.sched_ready = TRUE]

ExitCurrent(k) ==
  NextTcb(FreeTid([k EXCEPT !.ready = Drop(@, k.current)], k.current))

\* Variant of TerminateTask: SLEEPING_LIST keeps the dead task.
TerminateTaskAsleep(k, tid) ==
  NextTcb(FreeTid([k EXCEPT !.ready = Drop(@, tid),
                            !.blocked = Drop(@, tid)], tid))

TerminateTask(k, tid) ==
  NextTcb(FreeTid([k EXCEPT !.ready = Drop(@, tid),
                            !.sleeping = Drop(@, tid),
                            !.blocked = Drop(@, tid)], tid))

\* Variant of BlockTask: the yield is missing.
BlockTaskNoYield(k, tid) ==
  [TakeOff(k, tid) EXCEPT !.blocked = PushBack(@, tid)]

BlockTask(k, tid) ==
  NextTcb([TakeOff(k, tid) EXCEPT !.blocked = PushBack(@, tid)])

\* Variant of ResumeTask: the yield is missing.
ResumeTaskNoYield(k, tid) ==
  MakeReady([k EXCEPT !.blocked = Drop(@, tid)], tid)

ResumeTask(k, tid) ==
  YieldIfOutranked(MakeReady([k EXCEPT !.blocked = Drop(@, tid)], tid), tid)

WakeTime(k, ticks) == (k.os_ticks + ticks) % TickMod

DelayCurrent(k, ticks) ==
  NextTcb(SleepUntil(TakeOff(k, k.current), k.current, WakeTime(k, ticks)))

\* The kernel right after launch when main created one task for each priority
\* of the sequence; the idle task has the tid behind theirs.
LaunchedWith(pris) ==
  LET made[i \in 0..Len(pris)] ==
        IF i = 0 THEN KernelInit ELSE CreateTask(made[i - 1], pris[i])
  IN  LaunchKernel(made[Len(pris)])

-----------------------------------------------------------------------------
(* How the lists, the statuses and the bitmap hang together.               *)

OnNoList(k, t) ==
  ~Holds(k.ready, t) /\ ~Holds(k.blocked, t) /\ ~Holds(k.sleeping, t)

NoRepeats(k) ==
  IsInjective(k.ready) /\ IsInjective(k.blocked) /\ IsInjective(k.sleeping)

\* t is on exactly the list its status names, and its tid is taken iff it lives.
Matched(k, t) ==
  /\ k.status[t] = "Terminated" <=> t \notin k.tid_bitmap
  /\ k.status[t] = "Terminated" => OnNoList(k, t)
  /\ k.status[t] \in {"Ready", "Running"}
       => /\ Holds(k.ready, t)
          /\ ~Holds(k.blocked, t) /\ ~Holds(k.sleeping, t)
  /\ k.status[t] = "Blocked"
       => /\ ~Holds(k.ready, t)
          /\ Holds(k.blocked, t) <=> ~Holds(k.sleeping, t)

ListsMatch(k) == NoRepeats(k) /\ \A t \in Tid : Matched(k, t)
=============================================================================
