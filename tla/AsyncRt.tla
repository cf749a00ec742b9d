------------------------------- MODULE AsyncRt -------------------------------
(***************************************************************************)
(* The async runtime of core/src/kernel/async_rt.rs on top of the          *)
(* scheduler: tasks that spawn futures, and the task "async/exec" that the *)
(* first spawn creates and that polls them.                                *)
(*                                                                         *)
(* Little of it is in critical sections, so a step is one access of the    *)
(* pool, the timers or INIT_FLAG.  pc is a task's place: "run" between two *)
(* spawns, then "init", "flag" and "store" in one; in the executor         *)
(* "expire", "scan", "take" and "cleared" in poll_all, "poll" and          *)
(* "register" in the future; "other" in a task that does not spawn; "none" *)
(* for the idle task and tids that are free.                               *)
(***************************************************************************)
EXTENDS TimerQueue

CONSTANTS
  TaskPriorities,  \* priorities of the tasks that main created, by tid
  Spawners,        \* the tids among them that spawn
  ExecPriority,    \* priority of "async/exec", 1 in the code
  AsyncDelays,     \* arguments of AsyncRuntime::delay
  LateMax          \* how late a timer may be before the clock waits for a pass

ASSUME AsyncRtAssumption ==
  /\ TaskPriorities \in Seq(Priorities) /\ Len(TaskPriorities) < TASK_MAX
  /\ Spawners \subseteq (0 .. Len(TaskPriorities) - 1)
  /\ ExecPriority \in Priorities
  /\ LateMax \in Nat \ {0} /\ LateMax + 1 < (TickMod + 1) \div 2
  /\ AsyncDelays \subseteq (1 .. TickMod - 1)

VARIABLES
  kernel,
  init_flag,   \* INIT_FLAG
  fut,         \* TASK_POOL: the future in each slot and what it awaits
  ready,       \* TASK_POOL: the slots whose ready is set
  timers,      \* TIMERS
  pc,
  idx,         \* per task: the loop variable of poll_all
  did_work     \* per task: the local variable of poll_all

exec == << idx, did_work >>
vars == << kernel, init_flag, fut, ready, timers, pc, exec >>

\* What a slot holds: nothing; a future that awaits nothing; one inside
\* YieldOnce, or inside a Timer with its deadline.
Future(kind) == [awaits |-> kind, wake |-> 0, registered |-> FALSE]
NoFuture == Future("free")
Running  == Future("nothing")
InYield == Future("yield")
TimerAt(wake) == [awaits |-> "timer", wake |-> wake, registered |-> FALSE]

Init ==
  /\ kernel = LaunchedWith(TaskPriorities)
  /\ init_flag = FALSE
  /\ fut = [i \in Slots |-> NoFuture]
  /\ ready = {} /\ timers = << >>
  /\ pc = [t \in Tid |-> IF t \in Spawners THEN "run"
                         ELSE IF t < Len(TaskPriorities) THEN "other" ELSE "none"]
  /\ idx = [t \in Tid |-> 0] /\ did_work = [t \in Tid |-> FALSE]

cr == kernel.current
slot == idx[cr]

\* ready once the wakers of these slots have been called.
AfterWaking(slots) == ready \cup slots

At(at) == ~kernel.halted /\ pc[cr] = at
Goto(at) == pc' = [pc EXCEPT ![cr] = at]

-----------------------------------------------------------------------------
(* Spawning.                                                               *)

\* spawn and the test in ensure_init.
Spawn ==
  /\ At("run") /\ Goto(IF init_flag THEN "store" ELSE "init")
  /\ UNCHANGED << kernel, init_flag, fut, ready, timers, exec >>

\* Task::create in ensure_init, after which the executor may run at once.
CreateExec ==
  /\ At("init") /\ FreeTids(kernel) # {}
  /\ kernel' = CreateTask(kernel, ExecPriority)
  /\ pc' = [pc EXCEPT ![cr] = "flag", ![LowestFree(kernel)] = "expire"]
  /\ UNCHANGED << init_flag, fut, ready, timers, exec >>

\* No tid is free: the future waits in the pool for another spawn.
NoExec ==
  /\ At("init") /\ FreeTids(kernel) = {} /\ Goto("store")
  /\ UNCHANGED << kernel, init_flag, fut, ready, timers, exec >>

SetFlag ==
  /\ At("flag") /\ init_flag' = TRUE /\ Goto("store")
  /\ UNCHANGED << kernel, fut, ready, timers, exec >>

FreeSlots == {i \in Slots : fut[i] = NoFuture}

\* The critical section of spawn; a full pool refuses the future.
Store ==
  /\ At("store") /\ Goto("run")
  /\ IF FreeSlots = {} THEN UNCHANGED << fut, ready >>
     ELSE /\ fut' = [fut EXCEPT ![Min(FreeSlots)] = Running]
          /\ ready' = ready \cup {Min(FreeSlots)}
  /\ UNCHANGED << kernel, init_flag, timers, exec >>

-----------------------------------------------------------------------------
(* The executor.                                                           *)

\* The critical section at the start of poll_all.
Expire ==
  /\ At("expire") /\ Goto("scan")
  /\ LET woken == WakeExpired(timers, kernel.os_ticks)
     IN  timers' = woken.heap /\ ready' = AfterWaking(woken.slots)
  /\ idx' = [idx EXCEPT ![cr] = 0]
  /\ did_work' = [did_work EXCEPT ![cr] = FALSE]
  /\ UNCHANGED << kernel, init_flag, fut >>

\* The loop of poll_all goes on to the next slot.
NextSlot == idx' = [idx EXCEPT ![cr] = @ + 1] /\ Goto("scan")

\* The test of a slot.
Scan ==
  /\ At("scan") /\ slot \in Slots
  /\ IF fut[slot] = NoFuture \/ slot \notin ready
     THEN NextSlot ELSE Goto("take") /\ UNCHANGED idx
  /\ UNCHANGED << kernel, init_flag, fut, ready, timers, did_work >>

\* poll_all returns: executor_task starts it again, after a tick when idle.
PassEnds ==
  /\ At("scan") /\ slot \notin Slots /\ Goto("expire")
  /\ kernel' = IF did_work[cr] THEN kernel ELSE DelayCurrent(kernel, 1)
  /\ UNCHANGED << init_flag, fut, ready, timers, exec >>

\* Variant of Unflagged: ready is not cleared before the poll.
UnflaggedNot(set, i) == set

Unflagged(set, i) == set \ {i}

\* ready is cleared before the poll; poll_fn.unwrap() panics in an empty slot.
Take ==
  /\ At("take") /\ Goto("poll")
  /\ ready' = Unflagged(ready, slot)
  /\ did_work' = [did_work EXCEPT ![cr] = TRUE]
  /\ kernel' = [kernel EXCEPT !.halted = fut[slot] = NoFuture]
  /\ UNCHANGED << init_flag, fut, timers, idx >>

Await(f) == fut' = [fut EXCEPT ![slot] = f]

\* The future's own code runs up to its end and clear() empties the slot.
Finish ==
  /\ At("poll") /\ fut[slot] = Running /\ Await(NoFuture) /\ Goto("cleared")
  /\ UNCHANGED << kernel, init_flag, ready, timers, exec >>

\* The other assignment of clear(), which is not in a critical section.
ClearReady ==
  /\ At("cleared") /\ NextSlot /\ ready' = ready \ {slot}
  /\ UNCHANGED << kernel, init_flag, fut, timers, did_work >>

\* The future awaits yield_now(): the first poll of YieldOnce wakes it up.
YieldNow ==
  /\ At("poll") /\ fut[slot] = Running /\ Await(InYield) /\ NextSlot
  /\ ready' = AfterWaking({slot})
  /\ UNCHANGED << kernel, init_flag, timers, did_work >>

\* The second poll of YieldOnce is its last.
YieldDone ==
  /\ At("poll") /\ fut[slot] = InYield /\ Await(Running)
  /\ UNCHANGED << kernel, init_flag, ready, timers, pc, exec >>

\* The future calls AsyncRuntime::delay and awaits it.
DelayMs(ms) ==
  /\ At("poll") /\ fut[slot] = Running
  /\ Await(TimerAt((kernel.os_ticks + ms) % TickMod))
  /\ UNCHANGED << kernel, init_flag, ready, timers, pc, exec >>

\* Timer::poll up to its critical section.
PollTimer ==
  /\ At("poll") /\ fut[slot].awaits = "timer"
  /\ IF NotBefore(kernel.os_ticks, fut[slot].wake)
     THEN Await(Running) /\ UNCHANGED << pc, idx >>
     ELSE IF fut[slot].registered
     THEN NextSlot /\ UNCHANGED fut
     ELSE /\ Await([fut[slot] EXCEPT !.registered = TRUE])
          /\ Goto("register") /\ UNCHANGED idx
  /\ UNCHANGED << kernel, init_flag, ready, timers, did_work >>

\* The critical section of Timer::poll.
Register ==
  /\ At("register") /\ NextSlot
  /\ timers' = PushTimer(timers, [wake |-> fut[slot].wake, slot |-> slot])
  /\ UNCHANGED << kernel, init_flag, fut, ready, did_work >>

-----------------------------------------------------------------------------
(* The rest of the system.                                                 *)

\* A task that spawns, or another one, sleeps.
Sleep ==
  /\ At("run") \/ At("other")
  /\ kernel' = DelayCurrent(kernel, 1)
  /\ UNCHANGED << init_flag, fut, ready, timers, pc, exec >>

\* A task that does not spawn ends and gives its tid back.
Leave ==
  /\ At("other") /\ Goto("none")
  /\ kernel' = ExitCurrent(kernel)
  /\ UNCHANGED << init_flag, fut, ready, timers, exec >>

Executes(t) ==
  pc[t] \in {"expire", "scan", "take", "poll", "register", "cleared"}

Executors == {t \in Tid : Executes(t)}

\* Bound: the clock does not run away from an executor that is awake.  A pass
\* takes far less than the 2^31 ticks after which a deadline counts as to come.
InTime ==
  \/ \A e \in Executors : kernel.status[e] = "Blocked"
  \/ \A i \in Slots :
       fut[i].awaits = "timer" /\ NotBefore(kernel.os_ticks, fut[i].wake)
         => (kernel.os_ticks - fut[i].wake) % TickMod < LateMax

Timer ==
  /\ ~kernel.halted /\ InTime
  /\ kernel' = TickTrap(kernel, 1)
  /\ UNCHANGED << init_flag, fut, ready, timers, pc, exec >>

Next ==
  \/ Spawn \/ CreateExec \/ NoExec \/ SetFlag \/ Store
  \/ Expire \/ Scan \/ PassEnds \/ Take
  \/ Finish \/ ClearReady \/ YieldNow \/ YieldDone
  \/ (\E ms \in AsyncDelays : DelayMs(ms)) \/ PollTimer \/ Register
  \/ Sleep \/ Leave \/ Timer

Spec == Init /\ [][Next]_vars

-----------------------------------------------------------------------------

\* The pool, the heap and the places have their types and some task is current
\* (async_rt.rs, on top of sched.rs).
TypeOK ==
  /\ kernel \in KernelState /\ kernel.current \in Tid
  /\ init_flag \in BOOLEAN
  /\ fut \in [Slots -> [awaits : {"free", "nothing", "yield", "timer"},
                        wake : Tick, registered : BOOLEAN]]
  /\ ready \subseteq Slots
  /\ timers \in Seq([wake : Tick, slot : Slots])
  /\ pc \in [Tid -> {"run", "init", "flag", "store", "expire", "scan", "take",
                      "cleared", "poll", "register", "other", "none"}]
  /\ idx \in [Tid -> 0 .. ASYNC_POOL_MAX] /\ did_work \in [Tid -> BOOLEAN]

InPoll(i) == \E e \in Executors : pc[e] \in {"poll", "register"} /\ idx[e] = i

\* Every future in the pool is going to be polled again: it is marked ready, is
\* being polled, or awaits a deadline that is in the heap.  No wake-up falls
\* between the clearing of ready and the poll, and no timer is forgotten by a
\* full heap (poll_all, Timer::poll, YieldOnce::poll, TimerQueue::push).
NothingIsLost ==
  \A i \in Slots :
    \/ fut[i] = NoFuture \/ i \in ready \/ InPoll(i)
    \/ /\ fut[i].awaits = "timer"
       /\ [wake |-> fut[i].wake, slot |-> i] \in Range(timers)

\* Each entry of the heap is the deadline its future still awaits, once: no
\* stale entry wakes a later future of the slot or takes the place of a timer,
\* so a heap with as many places as slots never overflows (TimerQueue::push).
TimersAreAwaited ==
  /\ \A i, j \in 1 .. Len(timers) : timers[i].slot = timers[j].slot => i = j
  /\ \A i \in 1 .. Len(timers) :
       LET f == fut[timers[i].slot]
       IN  f.awaits = "timer" /\ f.registered /\ f.wake = timers[i].wake

\* wake_expired stops at the first deadline that is not over, which must be the
\* earliest, also across the wrap of the counter (sift_up, sift_down).
EarliestOnTop == \A i \in 1 .. Len(timers) : ~Earlier(timers[i], timers[1])
=============================================================================
